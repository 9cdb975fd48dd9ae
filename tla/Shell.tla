------------------------------- MODULE Shell -------------------------------
(***************************************************************************)
(* The shell's commands on the files of one directory, and the fs_* calls  *)
(* a program makes there (kernel/shell.c, kernel/isr.c, lib/fileio.c and   *)
(* the calls of drivers/fat32.c below them), as far as the names go: which *)
(* entry each of them takes for the one that was named.                    *)
(*                                                                         *)
(* A command's argument is a place in the line that was typed, and some    *)
(* calls copy NameSize characters from there: the zero byte at its end and *)
(* what earlier, longer lines have left behind.  Clusters, disk faults and *)
(* the disk's limits are those of module Fat32 and are left out here.      *)
(***************************************************************************)
EXTENDS Names, FiniteSetsExt

CONSTANTS
  Slots,        \* entries of the directory
  Commands,     \* words the user types first
  Offset,       \* where a command's argument begins, on Commands
  Arguments,    \* what is typed as a file's name
  LineSize,     \* MAX_CMD_LENGTH
  Letter,       \* stands for the letters of a command's word
  Bases, Exts,  \* the parts of well-formed names
  TestBase, TestExt, \* of "test.txt"
  Path,         \* the current path as a program's call finds it
  RootName,     \* "/", which cd takes for the root
  Rests,        \* what may lie behind a name in a program's memory
  End, Deleted, \* marks of slots without an entry
  None,
  MaxWrites     \* bound: writes of files

VARIABLES
  line,         \* cmd_buffer
  dir,          \* the slots
  writes,       \* counted: also what is written into a file
  opened,       \* a program's descriptor from fs_open: what it stands for
  answer        \* to its last call, if that was fs_read

program == <<opened, answer>>
vars == <<line, dir, writes, program>>

Marks   == {End, Deleted}

(* An entry has a name of NameSize characters, its kind, the write its     *)
(* text is from, or None where it has no cluster, and, as an observer,     *)
(* what the user called it, or None if that has not the form of a name.    *)
Entries == [name : Seq(Chars), kind : {"file", "directory"},
            text : {None} \cup Nat, given : {None} \cup Seq(Chars)]
Entry(name, kind, text, given) ==
  [name |-> name, kind |-> kind, text |-> text, given |-> given]

ASSUME ShellAssumption ==
  /\ Slots \subseteq Nat /\ IsFiniteSet(Slots)
  /\ Offset \in [Commands -> Nat] /\ Arguments \subseteq Seq(Chars \ {Nul, Space})
  /\ \A cmd \in Commands, arg \in Arguments :
         /\ Offset[cmd] > 1 /\ Offset[cmd] + Len(arg) <= LineSize
         /\ Offset[cmd] + NameSize <= LineSize + 1
  /\ {"create", "mkdir", "delete", "writeb", "ed", "cat", "writetest"} \subseteq Commands
  /\ LineSize \in Nat /\ Letter \in Chars \ {Nul} /\ {Path, RootName} \subseteq Seq(Chars)
  /\ Bases \subseteq Seq(Chars \ {Dot, Space, Nul})
  /\ Exts \subseteq Seq(Chars \ {Dot, Space, Nul})
  /\ \A b \in Bases : Len(b) \in 1 .. BaseSize
  /\ \A e \in Exts : Len(e) <= ExtSize
  /\ TestBase \in Bases /\ TestExt \in Exts /\ Rests \subseteq Seq(Chars)
  /\ MaxWrites \in Nat /\ None \notin Nat
  /\ Marks \cap Entries = {}

Live(s)   == dir[s] \notin Marks
Read(e)   == Normalised(e.name \o <<IF e.kind = "file" THEN Space ELSE Letter>>)
FirstOf(S) == Min(S)

Init ==
  /\ line = [i \in 1 .. LineSize |-> Nul]
  /\ dir = [s \in Slots |-> End] /\ writes = 0
  /\ opened = None /\ answer = None

----------------------------------------------------------------------------
(* A slip for comparison: the line is not ended.                           *)
TypeNoEnd(cmd, arg) ==
  LET start == Offset[cmd]
  IN line' = [i \in 1 .. LineSize |->
                IF i < start - 1 THEN Letter
                ELSE IF i = start - 1 THEN Nul
                ELSE IF i < start + Len(arg) THEN arg[i - start + 1]
                ELSE line[i]]

(* shell_process_command: the line in the buffer is split at its first     *)
(* space, and what is behind its end stays from before.                    *)
Type(cmd, arg) ==
  LET start == Offset[cmd]
      stop  == start + Len(arg)
  IN line' = [i \in 1 .. LineSize |->
                 IF i < start - 1 THEN Letter
                 ELSE IF i = start - 1 \/ i = stop THEN Nul
                 ELSE IF i < stop THEN arg[i - start + 1]
                 ELSE line[i]]

(* The argument as the driver copies it, with what lies behind.            *)
Raw(cmd) == SubSeq(line', Offset[cmd], Offset[cmd] + NameSize - 1)

WellFormed(name) == \E b \in Bases, e \in Exts : name = Spelled(b, e)
Called(name)     == IF WellFormed(name) THEN name ELSE None

----------------------------------------------------------------------------
(* The calls of the driver, by which slot they take.                       *)

(* fat32_create_file and fat32_create_directory: the first free slot.      *)
CreateEntry(raw, kind, name) ==
  LET free == {s \in Slots : ~Live(s)}
  IN dir' = IF free = {} THEN dir
            ELSE [dir EXCEPT ![FirstOf(free)] = Entry(raw, kind, None, name)]

(* A slip for comparison: names are compared by their first characters.    *)
SameBeginning(name, raw) == IsPrefix(Before(raw, Nul), name)

SameBytes(name, raw) == name = raw

(* fat32_delete_file: the first entry of exactly these bytes.              *)
DeleteEntry(raw) ==
  LET named == {s \in Slots : Live(s) /\ SameBytes(dir[s].name, raw)}
  IN dir' = IF named = {} THEN dir ELSE [dir EXCEPT ![FirstOf(named)] = Deleted]

(* A slip for comparison: a free slot is taken last.                       *)
PlaceLast(bytes) ==
  LET free  == {s \in Slots : ~Live(s)}
      named == {s \in Slots : Live(s) /\ dir[s].name = bytes}
  IN IF free # {} THEN Max(free) ELSE FirstOf(named)

(* fat32_write_file: the first slot that is free or has this name.         *)
Place(bytes) == FirstOf({s \in Slots : Live(s) => dir[s].name = bytes})

HasPlace(bytes) == \E s \in Slots : Live(s) => dir[s].name = bytes

(* An entry without a cluster is refused.                                  *)
WriteFile(bytes, name) ==
  /\ writes < MaxWrites /\ writes' = writes + 1
  /\ dir' = IF HasPlace(bytes) /\ (Live(Place(bytes)) => dir[Place(bytes)].text # None)
            THEN [dir EXCEPT ![Place(bytes)] = Entry(bytes, "file", writes, name)]
            ELSE dir

(* fat32_find_file, by fat32_list_directory: it ends at the end mark and   *)
(* passes over names that begin with a dot, and compares what lies in      *)
(* front of a zero byte; without one, it goes on into the attribute and    *)
(* finds nothing.                                                          *)
Listed(s) ==
  /\ Live(s) /\ \A r \in Slots : r < s => dir[r] # End
  /\ Head(dir[s].name) # Dot

Found(path) ==
  {s \in Slots : /\ Listed(s) /\ Contains(dir[s].name, Nul)
                 /\ Before(dir[s].name, Nul) = Before(path, Nul)}

----------------------------------------------------------------------------
(* The commands.                                                           *)

NoProgram == opened' = None /\ answer' = None

Create(arg) ==
  /\ arg # << >> /\ Type("create", arg) /\ NoProgram /\ UNCHANGED writes
  /\ CreateEntry(Raw("create"), "file", Called(arg))

Mkdir(arg) ==
  /\ arg # << >> /\ Type("mkdir", arg) /\ NoProgram /\ UNCHANGED writes
  /\ CreateEntry(Raw("mkdir"), "directory", Called(arg))

Delete(arg) ==
  /\ arg # << >> /\ Type("delete", arg) /\ NoProgram /\ UNCHANGED writes
  /\ DeleteEntry(Raw("delete"))

(* cmd_write_binary: of the name NameSize characters.                      *)
WriteBinary(arg) ==
  /\ Type("writeb", arg) /\ NoProgram
  /\ WriteFile(Convert(AtMost(NameSize, arg)),
               IF Len(arg) <= NameSize THEN Called(arg) ELSE None)

(* cmd_ed, and :w there: the editor has the name as it is on the disk,     *)
(* where no dot is left, with no zero byte behind it: the extension is     *)
(* what else of that form follows.                                         *)
EditAndSave(arg) ==
  /\ arg # << >> /\ Type("ed", arg) /\ NoProgram
  /\ \E ext \in Exts :
       WriteFile(OnDisk(AtMost(BaseSize, Format(arg)), ext), None)

WriteTest ==
  /\ Type("writetest", << >>) /\ NoProgram
  /\ WriteFile(Convert(Spelled(TestBase, TestExt)), Spelled(TestBase, TestExt))

(* cat, exec, readb, cd and the others leave the files alone; so do the    *)
(* commands above without a name.                                          *)
OtherCommand(arg) ==
  /\ Type("cat", arg) /\ NoProgram /\ UNCHANGED <<dir, writes>>

----------------------------------------------------------------------------
(* The calls of a program, fs_open, fs_read and fs_write.                  *)

NoCommand == UNCHANGED line

(* The search fills in the kind of the last entry found, and no cluster:   *)
(* the descriptor is 0, and stands for that entry or the one just made.    *)
Open(arg, rest, mode) ==
  LET raw   == AtMost(NameSize, arg \o <<Nul>> \o rest)
      found == Found(raw)
      bad   == found # {} /\ dir[Max(found)].kind = "directory" /\ mode # "read"
  IN /\ arg # << >> /\ NoCommand /\ UNCHANGED writes
     /\ IF found = {} /\ mode = "write" THEN CreateEntry(raw, "file", Called(arg))
        ELSE UNCHANGED dir
     /\ opened' = IF found # {}
                  THEN IF bad THEN None ELSE [slot |-> Max(found), mode |-> mode]
                  ELSE IF dir' # dir /\ Contains(raw, Nul) /\ Head(raw) # Dot
                  THEN [slot |-> FirstOf({s \in Slots : ~Live(s)}), mode |-> mode]
                  ELSE None
     /\ answer' = None

(* What is looked up is the current path; what is then read is an entry of *)
(* exactly these characters, if it is empty.                               *)
PathName == AtMost(NameSize, Path \o [i \in 1 .. NameSize |-> Nul])

ReadOpened ==
  LET readable == {s \in Slots : Live(s) /\ Read(dir[s]) = PathName}
  IN /\ opened # None /\ NoCommand /\ UNCHANGED <<dir, writes, opened>>
     /\ answer' = IF /\ Found(PathName) # {} /\ readable # {}
                     /\ dir[FirstOf(readable)].text = None
                  THEN 0 ELSE -1

WriteOpened ==
  /\ opened # None /\ NoCommand /\ UNCHANGED opened
  /\ answer' = None
  /\ IF Found(PathName) = {} THEN UNCHANGED <<dir, writes>>
     ELSE WriteFile(Convert(Before(PathName, Nul)), None)

----------------------------------------------------------------------------
Next ==
  \/ \E arg \in Arguments :
       Create(arg) \/ Mkdir(arg) \/ Delete(arg) \/ WriteBinary(arg)
         \/ EditAndSave(arg) \/ OtherCommand(arg)
  \/ WriteTest
  \/ \E arg \in Arguments, rest \in Rests, mode \in {"read", "write"} : Open(arg, rest, mode)
  \/ ReadOpened \/ WriteOpened

Spec == Init /\ [][Next]_vars

----------------------------------------------------------------------------
(* No room for a zero byte: what compares the name goes on into the        *)
(* attribute, and behind a base of full length there is room for that.     *)
ReadsAttribute(name) == Len(name) = NameSize /\ Len(Before(name, Dot)) = BaseSize

(* Every entry is found by cat under the name it was created or written    *)
(* with, whatever longer lines were typed before: unless the name with its *)
(* dot is longer than an entry's, or was given to the editor, or is a      *)
(* directory's and leaves no room for the zero byte at its end.            *)
FoundAsNamed ==
  \A s \in Slots :
    Live(s) => LET name == dir[s].given
               IN /\ name # None /\ Len(name) <= NameSize
                  /\ dir[s].kind = "directory" => ~ ReadsAttribute(name)
                  => Read(dir[s]) = Format(name)

(* Of the files written under one name, the newest comes first, and so is  *)
(* the one that is read: although a write into a gap leaves the old file.  *)
NewestFirst ==
  \A s, t \in Slots :
    /\ s < t /\ Live(s) /\ Live(t)
    /\ dir[s].name = dir[t].name /\ dir[s].text # None /\ dir[t].text # None
    => dir[s].text > dir[t].text

(* A delete takes no entry but one that cat would have shown for the same  *)
(* name, although it compares what earlier lines have left, too: but for   *)
(* directories that cat would not have found under their own name.         *)
DeleteArg == Before(SubSeq(line, Offset["delete"], LineSize), Nul)

DeletesWhatCatFinds ==
  [][\A s \in Slots :
       /\ Live(s) /\ dir'[s] = Deleted
       /\ WellFormed(DeleteArg') /\ Len(DeleteArg') <= NameSize
       /\ dir[s].kind = "directory" => ~ ReadsAttribute(DeleteArg')
       => Read(dir[s]) = Format(DeleteArg')]_vars

(* What fs_read promises ("Returns the number of bytes read, or -1 on      *)
(* error", fileio.h:14): a program that has opened a file to read it, and  *)
(* whose disk does not fail, is not refused.                               *)
ReadsOpened ==
  answer # None /\ opened.mode = "read" /\ dir[opened.slot].kind = "file" => answer # -1

(* What mkdir has made, cd finds under the same name, unless that is the   *)
(* root's, which cd does not compare.                                      *)
MadeCanBeEntered ==
  [][\A s \in Slots :
       /\ dir'[s] # dir[s] /\ dir'[s] \notin Marks
       /\ dir'[s].kind = "directory" /\ dir'[s].given \notin {None, RootName}
       => SameDirectory(Format(dir'[s].given), dir'[s].name)]_vars
=============================================================================
