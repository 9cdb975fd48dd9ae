---------------------------- MODULE Directories ----------------------------
(***************************************************************************)
(* The directories of the FAT32 driver (drivers/fat32.c): the current one, *)
(* the stack of those above it, the path shown in the prompt, and the      *)
(* calls that change the entries of the current directory.                 *)
(*                                                                         *)
(* A directory is known by its first cluster.  One made by mkdir has none, *)
(* so its cluster is 0: cluster_to_lba takes that to sectors in the middle *)
(* of the second FAT, which all such directories share, and which every    *)
(* change of a FAT entry in Shadow overwrites with the sector of the first *)
(* FAT.  A call is one step, a file is one cluster and faults are left     *)
(* out: chains and faults are what Fat32 is about.                         *)
(***************************************************************************)
EXTENDS Integers, Sequences, SequencesExt

CONSTANTS
  MaxCluster,   \* the FAT has the clusters 2 .. MaxCluster
  Shadow,       \* those whose entry lies in the sectors of cluster 0
  Image,        \* the directories of the image: cluster to entries
  NSlots,       \* entries in a directory
  ZeroSlots,    \* those looked at in the directory at cluster 0
  MaxDepth,     \* size of parent_directories, 16
  Names,        \* names passed to write and cd, as converted
  Dot, DotDot,  \* those of the entries "." and ".."
  TypedNames,   \* what is passed to create, mkdir and delete
  Slash,        \* the separator, and the name of the root directory
  None

Root     == 2
Clusters == 2 .. MaxCluster
Slots    == 1 .. NSlots
Places   == {0} \cup DOMAIN Image

(* A name in an entry: converted ("fat"), padded but in the case it had    *)
(* on the host ("host"), or ended by a zero byte as it was typed.          *)
Forms     == {"fat", "host", "typed"}
DiskNames == (Names \cup {Dot, DotDot}) \X Forms
DotNames  == {Dot, DotDot} \X Forms
Kinds     == {"file", "dir"}

ImageEntries == [name : DiskNames, kind : Kinds, first : Clusters]

ASSUME SizeAssumption ==
  /\ MaxCluster \in Nat /\ NSlots \in Nat /\ MaxDepth \in Nat
  /\ MaxDepth > 0 /\ ZeroSlots \subseteq Slots
  /\ Shadow \subseteq Clusters
  /\ TypedNames \subseteq DiskNames
  /\ None \notin DiskNames /\ Slash \notin DiskNames

(* What mkfs makes of a host tree, behind the entries "." and ".." that    *)
(* every directory begins with: every entry has a cluster of its own, a    *)
(* directory's cluster comes after that of its parent, and every directory *)
(* but the root has an entry.                                              *)
ASSUME ImageAssumption ==
  /\ Root \in DOMAIN Image /\ DOMAIN Image \subseteq Clusters
  /\ \A p \in DOMAIN Image :
       /\ Image[p] \in Seq(ImageEntries) /\ Len(Image[p]) + 2 <= NSlots
       /\ \A i \in DOMAIN Image[p] :
            /\ Image[p][i].name \notin DotNames
            /\ Image[p][i].first > p
            /\ (Image[p][i].kind = "dir") <=> Image[p][i].first \in DOMAIN Image
  /\ \A p, q \in DOMAIN Image :
       \A i \in DOMAIN Image[p], j \in DOMAIN Image[q] :
         Image[p][i].first = Image[q][j].first => p = q /\ i = j
  /\ \A q \in DOMAIN Image \ {Root} :
       \E p \in DOMAIN Image : \E i \in DOMAIN Image[p] :
         Image[p][i].first = q

VARIABLES
  dir,     \* dir[p][s]: entry s of the directory at cluster p
  used,    \* the clusters the first FAT marks
  cwd,     \* current_directory: cluster and name
  stack,   \* parent_directories up to directory_depth
  path     \* current_directory.path, as slashes and names

vars == <<dir, used, cwd, stack, path>>

-----------------------------------------------------------------------------
Entries == [st : {"end", "deleted", "live"}, name : DiskNames \cup {None},
            kind : Kinds, first : {0} \cup Clusters]
Blank(st) == [st |-> st, name |-> None, kind |-> "file", first |-> 0]
(* What a sector of the FAT looks like as entries: a name no call gives,   *)
(* and never the attribute of a directory.                                 *)
Junk == Blank("live")
Wiped == [s \in Slots |-> Blank("end")]
JunkOrEnd ==
  {[s \in Slots |-> IF s \in J THEN Junk ELSE Blank("end")] :
     J \in SUBSET ZeroSlots}

Live(p, s)    == dir[p][s].st = "live"
IsDot(p, s)   == dir[p][s].name \in DotNames
IsFirst(s, S) == s \in S /\ \A t \in S : s <= t
SlotsOf(p)    == IF p = 0 THEN ZeroSlots ELSE Slots
FreeSlots(p)  == {s \in SlotsOf(p) : ~ Live(p, s)}
Named(p, dn)  == {s \in Slots : Live(p, s) /\ dir[p][s].name = dn}

RootDir == [cl |-> Root, name |-> Slash]

(* update_path: the names of the stack and of the current directory, each  *)
(* behind a slash, where the first one finds the slash the path starts     *)
(* with.  The root directory, when it is on the stack, is a name like any  *)
(* other; as the current directory it adds none.                           *)
NamesOf(stk, cur) ==
  LET above == [i \in 1 .. Len(stk) |-> stk[i].name]
  IN IF cur.name = Slash THEN above ELSE Append(above, cur.name)
PathOf(stk, cur) ==
  LET names == NamesOf(stk, cur)
  IN IF names = << >> THEN <<Slash>>
     ELSE [i \in 1 .. 2 * Len(names) |->
             IF i % 2 = 1 THEN Slash ELSE names[i \div 2]]

GoTo(d, stk) ==
  /\ cwd' = d
  /\ stack' = stk
  /\ path' = PathOf(stk, d)

Parent(p) ==
  IF p = Root THEN Root
  ELSE CHOOSE q \in DOMAIN Image : \E i \in DOMAIN Image[q] :
         Image[q][i].first = p

DirEntry(n, c) ==
  [st |-> "live", name |-> <<n, "fat">>, kind |-> "dir", first |-> c]

ImageSlot(p, s) ==
  IF p = 0 \/ s > Len(Image[p]) + 2 THEN Blank("end")
  ELSE IF s = 1 THEN DirEntry(Dot, p)
  ELSE IF s = 2 THEN DirEntry(DotDot, Parent(p))
  ELSE [st |-> "live", name |-> Image[p][s - 2].name,
        kind |-> Image[p][s - 2].kind, first |-> Image[p][s - 2].first]

Init ==
  /\ dir = [p \in Places |-> [s \in Slots |-> ImageSlot(p, s)]]
  /\ used = {Root} \cup {c \in Clusters : \E p \in DOMAIN Image :
                \E i \in DOMAIN Image[p] : Image[p][i].first = c}
  /\ cwd = RootDir
  /\ stack = << >>
  /\ path = <<Slash>>

-----------------------------------------------------------------------------
(* The search of fat32_change_directory ends at the first entry never used,*)
(* and a name that a zero byte ends is none it finds.  The arguments "."   *)
(* and ".." do not come here; a blank one does, and it is the name of ".". *)
Subdirectories(n) ==
  {s \in Slots :
     /\ Live(cwd.cl, s) /\ dir[cwd.cl][s].kind = "dir"
     /\ dir[cwd.cl][s].name \in {<<n, "fat">>, <<n, "host">>}
     /\ \A t \in Slots : t < s => dir[cwd.cl][t].st # "end"}

(* The current directory is pushed while there is room for it.             *)
(* Mutations: the new directory is pushed; the bound is one too high.      *)
PushNew(d) == IF Len(stack) < MaxDepth THEN Append(stack, d) ELSE stack
PushOneMore(d) ==
  IF Len(stack) <= MaxDepth THEN Append(stack, cwd) ELSE stack
Push(d) == IF Len(stack) < MaxDepth THEN Append(stack, cwd) ELSE stack

ChangeDirectory(n) ==
  /\ \E s \in Slots :
       /\ IsFirst(s, Subdirectories(n))
       /\ LET d == [cl |-> dir[cwd.cl][s].first, name |-> dir[cwd.cl][s].name]
          IN GoTo(d, Push(d))
  /\ UNCHANGED <<dir, used>>

(* "..": the top of the stack.                                             *)
(* Mutations: the entry ".." is followed like any other; the path is left. *)
GoUpByEntry ==
  /\ stack # << >>
  /\ GoTo(Last(stack), Push(cwd))
  /\ UNCHANGED <<dir, used>>
GoUpKeepPath ==
  /\ stack # << >>
  /\ cwd' = Last(stack) /\ stack' = Front(stack)
  /\ UNCHANGED <<dir, used, path>>
GoUp ==
  /\ stack # << >>
  /\ GoTo(Last(stack), Front(stack))
  /\ UNCHANGED <<dir, used>>

(* "/", and fat32_init after a restart.                                    *)
GoHome ==
  /\ GoTo(RootDir, << >>)
  /\ UNCHANGED <<dir, used>>

-----------------------------------------------------------------------------
(* Mutation: the entry is put in the root directory.                       *)
PutInRoot(s, e) ==
  /\ IsFirst(s, FreeSlots(cwd.cl))
  /\ dir' = [dir EXCEPT ![Root] = [@ EXCEPT ![s] = e]]
PutEntry(s, e) ==
  /\ IsFirst(s, FreeSlots(cwd.cl))
  /\ dir' = [dir EXCEPT ![cwd.cl] = [@ EXCEPT ![s] = e]]

(* fat32_create_file and fat32_create_directory: no cluster.               *)
CreateEntry(dn, kind) ==
  /\ \E s \in Slots :
       PutEntry(s, [st |-> "live", name |-> dn, kind |-> kind, first |-> 0])
  /\ UNCHANGED <<used, cwd, stack, path>>

(* fat32_delete_file, which deletes directories too.                       *)
DeleteEntry(dn) ==
  /\ \E s \in Slots :
       /\ IsFirst(s, Named(cwd.cl, dn))
       /\ dir' = [dir EXCEPT ![cwd.cl] = [@ EXCEPT ![s] = Blank("deleted")]]
  /\ UNCHANGED <<used, cwd, stack, path>>

(* Mutation: a cluster is taken whether it is free or not.                 *)
LowestOf(c, S) == c = Root + 1
FirstFree(c, S) == c \in Clusters \ S /\ \A d \in Clusters \ S : c <= d

(* fat32_write_file: `old` is the cluster given back, 0 if the entry is    *)
(* new, and `new` the one taken.  The data overwrite what lay in it, unless*)
(* the file is empty.  The last write is that of the new cluster's FAT     *)
(* entry: in Shadow it overwrites the entry just written to a directory at *)
(* 0, while an earlier one is undone by writing that entry's sector.       *)
Replace(s, n, old, new) ==
  LET e == [st |-> "live", name |-> <<n, "fat">>, kind |-> "file",
            first |-> new]
      put == [dir EXCEPT ![cwd.cl] = [@ EXCEPT ![s] = e]]
      shadowed == new \in Shadow \/ (old \in Shadow /\ cwd.cl # 0)
  IN \E zero \in IF shadowed THEN JunkOrEnd ELSE {put[0]},
        empty \in BOOLEAN :
       dir' = [p \in Places |->
                 IF p = 0 THEN zero
                 ELSE IF p = new /\ ~ empty THEN Wiped
                 ELSE put[p]]

WriteFile(n) ==
  /\ \E s \in Slots, old \in {0} \cup Clusters, new \in Clusters :
       /\ IsFirst(s, Named(cwd.cl, <<n, "fat">>) \cup FreeSlots(cwd.cl))
       /\ \/ Live(cwd.cl, s) /\ old # 0 /\ old = dir[cwd.cl][s].first
          \/ ~ Live(cwd.cl, s) /\ old = 0
       /\ FirstFree(new, used \ {old})
       /\ Replace(s, n, old, new)
       /\ used' = (used \ {old}) \cup {new}
  /\ UNCHANGED <<cwd, stack, path>>

Next ==
  \/ \E n \in Names : ChangeDirectory(n)
  \/ GoUp \/ GoHome
  \/ \E dn \in TypedNames, kind \in Kinds : CreateEntry(dn, kind)
  \/ \E dn \in TypedNames : DeleteEntry(dn)
  \/ \E n \in Names : WriteFile(n)

Spec == Init /\ [][Next]_vars
-----------------------------------------------------------------------------
Dirs == [cl : Places, name : DiskNames \cup {Slash}]

(* Every variable keeps to its range, the stack to its 16 directories      *)
(* (parent_directories).                                                   *)
TypeOK ==
  /\ dir \in [Places -> [Slots -> Entries]]
  /\ used \subseteq Clusters
  /\ cwd \in Dirs
  /\ stack \in Seq(Dirs) /\ Len(stack) <= MaxDepth
  /\ path \in Seq(DiskNames \cup {Slash})

Way == Append(stack, cwd)
LeadsTo(e, d) ==
  e.st = "live" /\ e.kind = "dir" /\ e.first = d.cl /\ e.name = d.name
ListedIn(p, d) == \E s \in Slots : LeadsTo(dir[p][s], d)

(* The stack is a way from the root: each directory on it has a live entry *)
(* of the next, the last one of the current directory, whatever was made,  *)
(* deleted or written on the way (fat32_change_directory and the calls on  *)
(* entries).  Not so from the directories without a cluster, which share   *)
(* their entries, and above the 16th.                                      *)
StackIsPath ==
  /\ Way[1] = RootDir
  /\ \A i \in 1 .. Len(stack) :
       Way[i].cl # 0 /\ i # MaxDepth => ListedIn(Way[i].cl, Way[i + 1])

(* A cluster belongs to one entry, "." and ".." aside, and is allocated    *)
(* (fat32_write_file).                                                     *)
Holds(p, s) == Live(p, s) /\ dir[p][s].first # 0 /\ ~ IsDot(p, s)
ClustersApart ==
  \A p \in Places, s \in Slots : Holds(p, s) =>
    /\ dir[p][s].first \in used \ {Root}
    /\ \A q \in Places, t \in Slots :
         Holds(q, t) /\ dir[q][t].first = dir[p][s].first => p = q /\ s = t

(* No file is written into the cluster of the current directory or of one  *)
(* that ".." may still lead back to, and none of them is given back, though*)
(* fat32_write_file overwrites directories and nothing on the disk says    *)
(* that a directory is in use.                                             *)
WayNotFiles ==
  \A i \in 1 .. Len(Way) : Way[i].cl # 0 =>
    /\ Way[i].cl \in used
    /\ \A p \in Places, s \in Slots :
         Live(p, s) /\ dir[p][s].first = Way[i].cl => dir[p][s].kind = "dir"

(* The entries of a directory that has a cluster change only while it is   *)
(* the current one, or when it is overwritten by a file of its name.       *)
EntriesChangeHere ==
  [][\A p \in Places \cap used : dir'[p] # dir[p] =>
       p = cwd.cl \/ \E s \in Slots : dir[cwd.cl][s].first = p]_vars

(* No call is given "." or "..", nor a blank name.  With one of these      *)
(* fat32_write_file finds the entry of the current directory or of its     *)
(* parent, and nothing of the above holds any longer.                      *)
NoDots ==
  {Dot, DotDot} \cap Names = {} /\ DotNames \cap TypedNames = {}
=============================================================================
