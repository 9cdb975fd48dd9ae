------------------------------- MODULE Editor -------------------------------
(***************************************************************************)
(* The text editor (kernel/editor.c): a buffer of rows, a cursor, three    *)
(* modes and a file name.  All of them are statics: they outlive a session *)
(* and meet the next one.                                                  *)
(*                                                                         *)
(* A file is read and written in whole sectors.  Behind the text of a file *)
(* the disk holds what lay behind it in the buffer it was written from     *)
(* (slack); when the last sector reaches over the end of the editor's      *)
(* buffer, that is what lay behind the buffer, its statics (over), and     *)
(* reading the file puts those back that the linker placed there.          *)
(***************************************************************************)
EXTENDS Integers, Sequences, FiniteSetsExt

CONSTANTS
  Width, Height,    \* EDITOR_WIDTH and EDITOR_HEIGHT, 80 and 25
  Gutter,           \* columns of the line number, 5
  CommandSize,      \* COMMAND_BUFFER_SIZE, 128
  SectorSize,       \* 512
  Names,            \* of entries, and of files as cmd_ed formats them
  Base,             \* what is left of a name without its extension, on Names
  TestFile,         \* TEST.TXT
  Image,            \* the files there at first
  OtherFiles,       \* what other commands leave
  Letters,          \* printable keys typed as text
  CommandKeys,      \* printable keys typed in a command
  Newline, Backspace, Blank, Nul, Junk,
  MaxEdits,         \* bound: changes of the text
  MaxWrites,        \* bound: files changed
  None

VARIABLES
  buffer,           \* editor_buffer
  x, y,             \* cursor_x, cursor_y
  insert, command,  \* insert_mode, command_mode_active
  line, pos,        \* command_buffer up to its end, command_buffer_pos
  file,             \* current_filename, as the entry a save goes to
  running,          \* inside editor_run
  screen,
  disk,             \* the files of the current directory
  opened, loaded,   \* of this session: its name, whether it could be read
  fresh,            \* an observer: the entry saved from this very buffer
  edits, writes     \* counted for the bounds

cursor == <<x, y>>
modes  == <<insert, command>>
typing == <<line, pos>>
session == <<running, opened, loaded>>
vars   == <<buffer, cursor, modes, typing, file, session, screen, disk,
            fresh, edits, writes>>

BufferSize == Width * (Height - 1)
Offsets    == 0 .. BufferSize - 1
EndRow     == Height - 3               \* the last one the cursor may be in
Chars      == Letters \cup {Newline, Nul, Junk}

Screen == INSTANCE Vga

(* Which statics lie behind the buffer, in its last sector, is for the     *)
(* compiler to choose.  The file's name is set again after they are read,  *)
(* and editor_exit is never true when they are saved: these two are left   *)
(* out.  mkfs leaves zeros there.                                          *)
Statics == [x : 0 .. Width, y : 0 .. EndRow, command : BOOLEAN,
            line : {typed \in Seq(CommandKeys) : Len(typed) < CommandSize},
            pos : 0 .. CommandSize - 1]
Zeros   == [x |-> 0, y |-> 0, command |-> FALSE, line |-> << >>, pos |-> 0]
Files   == [text : Seq(Chars), slack : {Nul, Junk}, over : Statics]

ASSUME EditorAssumption ==
  /\ Width \in Nat \ {0} /\ Height \in Nat /\ Height > 3
  /\ Newline # Backspace
  /\ (CommandKeys \cup {Blank, ":", "INSERT", "NORMAL"}) \cap {Newline, Backspace} = {}
  /\ Gutter \in 1 .. Width - 1 /\ CommandSize \in Nat \ {0}
  /\ SectorSize \in Nat \ {0} /\ MaxEdits \in Nat /\ MaxWrites \in Nat
  /\ DOMAIN Base = Names /\ TestFile \in Names
  /\ OtherFiles \subseteq Files /\ Image \in [Names -> {None} \cup Files]
  /\ None \notin Names /\ None \notin Files /\ Nul \notin Letters

Rounded(size)   == ((size + SectorSize - 1) \div SectorSize) * SectorSize
EndsOver(text)  == Rounded(Len(text)) > BufferSize

(* The entries that fat32_write_file may make of a name as cmd_ed formats  *)
(* it: there is no dot in it and no zero byte behind it, so that the       *)
(* extension is lost, or is what follows in the memory.                    *)
SavesAs(name) == {other \in Names : Base[other] = Base[name]}

(* Files whose data were not written: what lay on the disk before.  Behind *)
(* the buffer's end that is taken to be zeros or another file's statics:   *)
(* anything else read back there would put the cursor anywhere in memory.  *)
Torns(f) ==
  {[text |-> [i \in DOMAIN f.text |-> Junk], slack |-> Junk, over |-> left] :
     left \in {Zeros} \cup {disk[n].over : n \in {m \in Names : disk[m] # None}}}

----------------------------------------------------------------------------
(* The screen: editor_render_status clears the last row, which scrolls the *)
(* screen by one, and writes the mode; editor_render then puts the rows of *)
(* text back, each up to its first zero byte.                              *)

LastRow == (Height - 1) * Width

StatusText(ins, cmd, typed) ==
  IF cmd THEN <<":">> \o typed ELSE IF ins THEN <<"INSERT">> ELSE <<"NORMAL">>

RenderStatus(s, text) ==
  LET cleared == Screen!WriteStr(Screen!MoveTo(s, LastRow),
                                 [i \in 1 .. Width |-> Blank])
  IN Screen!WriteStr(Screen!MoveTo(cleared, LastRow), text)

Shown(buf, row, col) ==
  LET start == row * Width
  IN IF \E c \in 0 .. col : buf[start + c] = Nul \/ buf[start + col] = Newline
     THEN Blank ELSE buf[start + col]

Render(s, buf, at) ==
  [cells |-> [p \in Screen!Cells |->
                IF p >= (Height - 2) * Width THEN s.cells[p]
                ELSE IF p % Width < Gutter THEN "#"
                ELSE Shown(buf, p \div Width, (p % Width) - Gutter)],
   pos   |-> at + Gutter]

NewStatus == StatusText(insert', command', line')

(* A slip for comparison: the status is drawn last.                        *)
DrawStatusLast(s) ==
  \E buf \in {buffer'}, at \in {y' * Width + x'}, status \in {NewStatus} :
    screen' = RenderStatus(Render(s, buf, at), status)

(* The status, then the text.                                              *)
Draw(s) ==
  \E buf \in {buffer'}, at \in {y' * Width + x'}, status \in {NewStatus} :
    screen' = Render(RenderStatus(s, status), buf, at)

(* After a key, first the file's name where the cursor is.                 *)
Redraw(s) == Draw(Screen!WriteStr(s, <<opened>>))

Message(s) == Screen!WriteStr(Screen!MoveTo(s, LastRow), <<"message">>)

----------------------------------------------------------------------------
(* Between two sessions: editor_run, and the other commands.               *)

(* What a file of these bytes makes of the buffer: sectors are read whole, *)
(* and the buffer behind them stays.                                       *)
ReadInto(f) ==
  [p \in Offsets |-> IF p < Len(f.text) THEN f.text[p + 1]
                     ELSE IF p < Rounded(Len(f.text)) THEN f.slack
                     ELSE buffer[p]]

(* editor_load_file: statics behind the buffer are overwritten where the   *)
(* last sector holds them.                                                 *)
LoadOver(f, hit) ==
  /\ buffer' = ReadInto(f)
  /\ x' = IF "x" \in hit THEN f.over.x ELSE x
  /\ y' = IF "y" \in hit THEN f.over.y ELSE y
  /\ insert'  = (insert /\ "modes" \notin hit)
  /\ command' = IF "modes" \in hit THEN f.over.command ELSE command
  /\ line'    = IF "line" \in hit THEN f.over.line ELSE line
  /\ pos'     = IF "pos" \in hit THEN f.over.pos ELSE pos

(* A slip for comparison: the name is kept if there is one.                *)
RememberFirst(name) ==
  /\ IF file = None THEN file' \in SavesAs(name) ELSE UNCHANGED file
  /\ loaded' = TRUE

Remember(name) == file' \in SavesAs(name) /\ loaded' = TRUE

LoadFile(name) ==
  /\ disk[name] # None /\ Len(disk[name].text) <= BufferSize
  /\ \E hit \in SUBSET {"x", "y", "modes", "line", "pos"} :
       /\ hit # {} => EndsOver(disk[name].text)
       /\ LoadOver(disk[name], hit)
  /\ Remember(name)
  /\ fresh' = IF fresh = name THEN fresh ELSE None

(* There is no such file, it is too big, or the disk fails.                *)
LoadFails ==
  /\ buffer' = [p \in Offsets |-> Nul]
  /\ loaded' = FALSE /\ fresh' = None
  /\ UNCHANGED <<cursor, modes, typing, file>>

Open(name) ==
  /\ ~running
  /\ running' = TRUE /\ opened' = name
  /\ LoadFile(name) \/ LoadFails
  /\ Draw(Screen!WriteStr(screen, <<"message", Newline>>))
  /\ UNCHANGED <<disk, edits, writes>>

(* A command of the shell writes, deletes or makes a file.                 *)
OtherCommand(name) ==
  /\ ~running /\ writes < MaxWrites
  /\ \E f \in {None} \cup OtherFiles : disk' = [disk EXCEPT ![name] = f]
  /\ writes' = writes + 1
  /\ fresh' = IF fresh = name THEN None ELSE fresh
  /\ UNCHANGED <<buffer, cursor, modes, typing, file, session, screen,
                 edits>>

Init ==
  /\ buffer = [p \in Offsets |-> Nul]
  /\ x = 0 /\ y = 0 /\ insert = FALSE /\ command = FALSE
  /\ line = << >> /\ pos = 0 /\ file = None
  /\ running = FALSE /\ screen = Screen!Clear
  /\ disk = Image
  /\ opened = None /\ loaded = FALSE /\ fresh = None
  /\ edits = 0 /\ writes = 0

----------------------------------------------------------------------------
(* Insert mode.                                                            *)

Still == UNCHANGED <<file, session, disk, writes>>

Edit(p, c) ==
  /\ edits < MaxEdits /\ edits' = edits + 1
  /\ buffer' = [buffer EXCEPT ![p] = c] /\ fresh' = None

(* The start of the next row, or of the last one again.                    *)
ToNextRow == x' = 0 /\ y' = IF y < EndRow THEN y + 1 ELSE EndRow

EscapeKey ==
  /\ insert' = FALSE
  /\ UNCHANGED <<buffer, cursor, command, typing, fresh, edits>>

EnterKey == ToNextRow /\ UNCHANGED <<buffer, modes, typing, fresh, edits>>

(* A slip for comparison: a letter does not wrap.                          *)
LetterNoWrap(c) ==
  /\ Edit(y * Width + x, c)
  /\ x' = x + 1 /\ y' = y
  /\ UNCHANGED <<modes, typing>>

Letter(c) ==
  /\ Edit(y * Width + x, c)
  /\ IF x + 1 < Width THEN x' = x + 1 /\ y' = y ELSE ToNextRow
  /\ UNCHANGED <<modes, typing>>

(* Behind the last character of the row, which may be behind the row.      *)
RowEnd(row) ==
  LET used == {col \in 0 .. Width - 1 : buffer[row * Width + col] # Nul}
  IN IF used = {} THEN 0 ELSE Max(used) + 1

BackspaceKey ==
  /\ IF x > 0 THEN /\ x' = x - 1 /\ y' = y
                   /\ Edit(y * Width + x - 1, Nul)
     ELSE /\ y' = IF y > 0 THEN y - 1 ELSE y
          /\ x' = IF y > 0 THEN RowEnd(y - 1) ELSE x
          /\ UNCHANGED <<buffer, fresh, edits>>
  /\ UNCHANGED <<modes, typing>>

InsertOther == UNCHANGED <<buffer, cursor, modes, typing, fresh, edits>>

InsertKey ==
  /\ insert /\ Still
  /\ \/ EscapeKey \/ EnterKey \/ BackspaceKey \/ InsertOther
     \/ \E c \in Letters : Letter(c)
  /\ Redraw(screen)

----------------------------------------------------------------------------
(* Command mode.                                                           *)

(* fat32_write_file of the buffer or of the test's text: it may fail       *)
(* before it changes the file, between its entry and its data, or at the   *)
(* very end.                                                               *)
Write(name, f, done) ==
  /\ writes < MaxWrites /\ writes' = writes + 1
  /\ \/ done /\ disk' = [disk EXCEPT ![name] = f]
     \/ ~done /\ disk' \in {disk} \cup {[disk EXCEPT ![name] = g] : g \in Torns(f) \cup {f}}

(* A slip for comparison: the text ends at the first zero byte.            *)
SavedTextShort ==
  LET zeros == {p \in Offsets : buffer[p] = Nul}
      size  == IF zeros = {} THEN BufferSize ELSE Min(zeros)
  IN [i \in 1 .. size |-> buffer[i - 1]]

(* Up to the last byte that is not zero.                                   *)
SavedText ==
  LET used == {p \in Offsets : buffer[p] # Nul}
      size == IF used = {} THEN 0 ELSE Max(used) + 1
  IN [i \in 1 .. size |-> buffer[i - 1]]

SavedFile ==
  [text  |-> SavedText, slack |-> Nul,
   over  |-> IF EndsOver(SavedText)
             THEN [x |-> x, y |-> y, command |-> command, line |-> line, pos |-> pos]
             ELSE Zeros]

(* editor_save_file.                                                       *)
Save ==
  /\ line = <<"w">> /\ UNCHANGED session
  /\ IF file = None THEN UNCHANGED <<disk, writes, fresh>>
     ELSE \E done \in BOOLEAN :
            /\ Write(file, SavedFile, done)
            /\ fresh' = IF done THEN file
                        ELSE IF fresh = file THEN None ELSE fresh
  /\ Redraw(Message(screen))

(* test_fat32_write.                                                       *)
Test ==
  /\ line = <<"t">> /\ UNCHANGED session
  /\ \E done \in BOOLEAN :
       Write(TestFile, [text |-> <<Junk>>, slack |-> Junk, over |-> Zeros], done)
  /\ fresh' = IF fresh = TestFile THEN None ELSE fresh
  /\ Redraw(Screen!WriteStr(screen, <<"message", Newline>>))

(* The shell's greeting is drawn, and the editor once more over it.        *)
Quit ==
  /\ line = <<"q">> /\ running' = FALSE
  /\ opened' = None /\ loaded' = FALSE
  /\ Redraw(Screen!WriteStr(Screen!Clear, <<"greeting", Newline>>))
  /\ UNCHANGED <<disk, writes, fresh>>

Unknown ==
  /\ line \notin {<<"w">>, <<"t">>, <<"q">>}
  /\ Redraw(Message(screen))
  /\ UNCHANGED <<session, disk, writes, fresh>>

(* A slip for comparison: the mode stays.                                  *)
ExecuteCommandStay ==
  /\ line' = << >> /\ pos' = 0
  /\ UNCHANGED <<buffer, cursor, modes, file, edits>>
  /\ Save \/ Test \/ Quit \/ Unknown

ExecuteCommand ==
  /\ command' = FALSE /\ line' = << >> /\ pos' = 0
  /\ UNCHANGED <<buffer, cursor, insert, file, edits>>
  /\ Save \/ Test \/ Quit \/ Unknown

(* The line once there is a character, or a zero byte, at this place: what *)
(* is written behind its end is not seen.                                  *)
Typed(at, c) == IF at > Len(line) THEN line ELSE Append(SubSeq(line, 1, at), c)
Erased(at)   == IF at < Len(line) THEN SubSeq(line, 1, at) ELSE line

(* A slip for comparison: no room is left for the zero at the end.         *)
CommandLetterOneMore(c) ==
  /\ pos < CommandSize
  /\ line' = Typed(pos, c) /\ pos' = pos + 1

CommandLetter(c) ==
  /\ pos < CommandSize - 1
  /\ line' = Typed(pos, c) /\ pos' = pos + 1

CommandBackspace ==
  IF pos > 0 THEN line' = Erased(pos - 1) /\ pos' = pos - 1
  ELSE UNCHANGED typing

(* Other keys, and letters when the line is full.                          *)
CommandOther == UNCHANGED typing

CommandKey ==
  /\ command /\ ~insert
  /\ \/ ExecuteCommand
     \/ /\ CommandBackspace \/ CommandOther \/ \E c \in CommandKeys : CommandLetter(c)
        /\ Still /\ UNCHANGED <<buffer, cursor, modes, fresh, edits>>
        /\ Redraw(screen)

----------------------------------------------------------------------------
(* Normal mode: the arrows, i and the colon; other keys do nothing.        *)

Left  == x' = (IF x > 0 THEN x - 1 ELSE x) /\ UNCHANGED <<y, modes, typing>>
Right == x' = (IF x < Width - 1 THEN x + 1 ELSE x) /\ UNCHANGED <<y, modes, typing>>
Up    == y' = (IF y > 0 THEN y - 1 ELSE y) /\ UNCHANGED <<x, modes, typing>>
Down  == y' = (IF y < EndRow THEN y + 1 ELSE y) /\ UNCHANGED <<x, modes, typing>>
Insert == insert' = TRUE /\ UNCHANGED <<cursor, command, typing>>
Colon == command' = TRUE /\ line' = << >> /\ pos' = 0 /\ UNCHANGED <<cursor, insert>>
Other == UNCHANGED <<cursor, modes, typing>>

NormalKey ==
  /\ ~insert /\ ~command
  /\ Left \/ Right \/ Up \/ Down \/ Insert \/ Colon \/ Other
  /\ Still /\ UNCHANGED <<buffer, fresh, edits>>
  /\ Redraw(screen)

HandleKey == running /\ (InsertKey \/ CommandKey \/ NormalKey)

Next ==
  \/ \E name \in Names : Open(name) \/ OtherCommand(name)
  \/ HandleKey

Spec == Init /\ [][Next]_vars

----------------------------------------------------------------------------
TypeOK ==
  /\ buffer \in [Offsets -> Chars]
  /\ insert \in BOOLEAN /\ command \in BOOLEAN
  /\ line \in Seq(CommandKeys) /\ Len(line) < CommandSize /\ pos \in 0 .. CommandSize - 1
  /\ file \in Names \cup {None} /\ opened \in Names \cup {None}
  /\ fresh \in Names \cup {None}
  /\ running \in BOOLEAN /\ loaded \in BOOLEAN
  /\ edits \in 0 .. MaxEdits /\ writes \in 0 .. MaxWrites

(* The next letter goes into the rows of text, although the cursor may be  *)
(* one column behind its row, and although a file can bring its own        *)
(* cursor with it: through every key, mode and session.  Not covered: a    *)
(* file that reaches over the buffer, whose data were not written and      *)
(* whose sector held no statics before (Torns).                            *)
CursorInBuffer ==
  x \in 0 .. Width /\ y \in 0 .. EndRow /\ y * Width + x \in Offsets

(* No two modes at once, and none is left over for the next session, which *)
(* only its file can start in command mode.  Not covered, as above: data   *)
(* that were not written, behind the buffer's end.                         *)
OneMode ==
  /\ ~(insert /\ command)
  /\ ~running => ~insert /\ ~command /\ line = << >> /\ pos = 0

(* The screen shows the rows of text, each up to its first zero byte, and  *)
(* below them the mode: whatever was printed, scrolled or saved before.    *)
ScreenShowsText ==
  LET status == StatusText(insert, command, line)
      at(row, col) == screen.cells[row * Width + col]
  IN running =>
       /\ \A row \in 0 .. EndRow, col \in Gutter .. Width - 1 :
            at(row, col) = Shown(buffer, row, col - Gutter)
       /\ Len(status) < Width =>
            \A col \in 0 .. Width - 1 :
              at(Height - 1, col) = IF col < Len(status) THEN status[col + 1]
                                    ELSE Blank

(* A session that has read its file saves under the base name it has       *)
(* opened, and changes no file of an earlier session; only the test's file *)
(* besides.  The extension is not kept: see SavesToOpened.                 *)
SavesUnderBase ==
  [][running /\ loaded =>
       \A name \in Names :
         disk'[name] # disk[name] => name \in SavesAs(opened) \cup {TestFile}]_vars

(* What :w promises ("Write the buffer content to the file",               *)
(* editor.c:229): the file that is written is the one that was opened,     *)
(* and none when that one could not be read ("No filename specified!",     *)
(* editor.c:96).                                                           *)
SavesToOpened ==
  [][running =>
       \A name \in Names : disk'[name] # disk[name] =>
         name = TestFile \/ (loaded /\ name = opened)]_vars

(* A buffer that was saved and not changed since comes back from the entry *)
(* it was saved to as it was, rows and all, when nothing else wrote there. *)
ReopenKeepsBuffer ==
  [][~running /\ running' /\ loaded' /\ fresh = opened' => buffer' = buffer]_vars
=============================================================================
