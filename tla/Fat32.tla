------------------------------- MODULE Fat32 -------------------------------
(***************************************************************************)
(* The FAT32 driver of RingOS (drivers/fat32.c): one directory, the file   *)
(* allocation table in NumFats copies, the data clusters, and the calls    *)
(* that change them.  fat32_write_file is split at every sector it writes, *)
(* so that a disk fault or a power loss can fall between any two of them;  *)
(* the calls that write one sector are one action.                         *)
(*                                                                         *)
(* Data is abstracted to what the properties tell apart: sizes are counted *)
(* in clusters, the i-th cluster of a file written with v holds <<v, i>>,  *)
(* a name is an identity and a form, and the "." and ".." entries are left *)
(* out: no name in Names converts to theirs.  Directories has them.        *)
(***************************************************************************)
EXTENDS Integers, Sequences

CONSTANTS
  MaxCluster,   \* the FAT has the entries 0 .. MaxCluster
  DiskEnd,      \* the last cluster that lies on the disk
  NumFats,      \* copies of the FAT, boot_sector.num_fats
  PerSector,    \* FAT entries in a sector: 128 on the disk
  Names,        \* what fat32_convert_to_fat_name makes of the names typed
  Vals,         \* what is written to files
  NSlots,       \* directory entries in the directory's cluster
  MaxLen,       \* the longest file, in clusters
  MaxFaults,    \* disk faults and power losses in a behaviour
  Tree,         \* the entries mkfs copied from the host, in order
  None, Garbage

FatIndex  == 0 .. MaxCluster
Clusters  == 2 .. MaxCluster
Root      == 2
Free      == 0
EOC       == MaxCluster + 1   \* every value from 0x0FFFFFF8 on
Copies    == 1 .. NumFats
Slots     == 1 .. NSlots
SectorOf(c) == c \div PerSector

(* A name on the disk: "fat" if it is the converted form byte for byte,    *)
(* "raw" if it is what was typed, which compare_filename normalises to the *)
(* same eleven characters but memcmp tells apart.                          *)
Forms     == {"fat", "raw"}
DiskNames == Names \X Forms
Kinds     == {"file", "dir"}

ASSUME SizeAssumption ==
  /\ MaxCluster \in Nat /\ MaxCluster >= 2
  /\ DiskEnd \in Clusters
  /\ NumFats \in Nat /\ NumFats >= 2
  /\ PerSector \in Nat \ {0}
  /\ NSlots \in Nat \ {0}
  /\ MaxLen \in Nat
  /\ MaxFaults \in Nat

ASSUME TreeAssumption ==
  /\ Tree \in Seq([name : DiskNames, kind : Kinds])
  /\ Len(Tree) <= NSlots
  /\ Len(Tree) + 2 <= DiskEnd

ASSUME NoneAssumption == None \notin Seq((Vals \X (1 .. MaxLen)) \cup {Garbage})

VARIABLES
  fat,      \* fat[k][c]: entry c of copy k
  dir,      \* the directory entries
  data,     \* the data clusters
  pc,       \* where fat32_write_file is; "idle" between calls
  args,     \* its arguments and the slot it chose
  cur,      \* current_cluster, then current_data_cluster
  nxt,      \* next_cluster of the write loop
  done,     \* clusters written: bytes_written
  from,     \* where the scan of fat32_allocate_cluster stands
  wr,       \* the write_fat_entry in progress: cluster, next copy, return
  result,   \* what the last call returned, or "crash"
  saved,    \* observer: what a call that returned true left in each slot
  orphans,  \* observer: first clusters of deleted entries
  faults    \* observer: faults so far

disk   == <<fat, dir, data>>
locals == <<args, cur, nxt, done, from, wr>>
vars   == <<fat, dir, data, pc, args, cur, nxt, done, from, wr,
            result, saved, orphans, faults>>

-----------------------------------------------------------------------------
FatVal  == {Free, EOC} \cup Clusters
Entries == [st : {"end", "deleted", "live"}, name : DiskNames \cup {None},
            kind : Kinds, first : FatVal, size : 0 .. MaxLen]
Blank(st) ==
  [st |-> st, name |-> None, kind |-> "file", first |-> 0, size |-> 0]

Whole(v, len) == [i \in 1 .. len |-> <<v, i>>]
NoArgs     == [name |-> None, val |-> None, len |-> 0, slot |-> 0]
NoWrite    == [cl |-> 0, copy |-> 0, then |-> "idle"]

Steps == {"free", "alloc", "entry", "data", "extend", "link", "final",
          "return"}

Live(s)     == dir[s].st = "live"
FreeSlots   == {s \in Slots : ~ Live(s)}
IsFirst(s, S) == s \in S /\ \A t \in S : s <= t
NamedFat(n) == {s \in Slots : Live(s) /\ dir[s].name = <<n, "fat">>}
(* Mutation: only a cluster with a successor counts as taken.              *)
AllocatedIfLinked(c) == fat[1][c] \in Clusters
Allocated(c) == fat[1][c] # Free

(* What the call in progress will do next, looking through the mirroring.  *)
Stage == IF pc = "mirror" THEN wr.then ELSE pc

-----------------------------------------------------------------------------
(* The image mkfs builds: every entry of the tree has one cluster of its   *)
(* own, given out in order after the root's, and both FATs agree.          *)
Init ==
  /\ fat = [k \in Copies |-> [c \in FatIndex |->
              IF c <= 2 + Len(Tree) THEN EOC ELSE Free]]
  /\ dir = [s \in Slots |->
              IF s <= Len(Tree)
              THEN [st |-> "live", name |-> Tree[s].name,
                    kind |-> Tree[s].kind, first |-> 2 + s, size |-> 0]
              ELSE Blank("end")]
  /\ data = [c \in Clusters |-> Garbage]
  /\ pc = "idle"
  /\ args = NoArgs /\ cur = 0 /\ nxt = 0 /\ done = 0 /\ from = 2
  /\ wr = NoWrite
  /\ result = "none"
  /\ saved = [s \in Slots |-> IF s <= Len(Tree) THEN << >> ELSE None]
  /\ orphans = {}
  /\ faults = 0

(* A call returns r: its locals go out of scope.                           *)
Finish(r) ==
  /\ pc' = "idle" /\ result' = r
  /\ args' = NoArgs /\ cur' = 0 /\ nxt' = 0 /\ done' = 0 /\ from' = 2
  /\ wr' = NoWrite

Refuse ==
  /\ Finish("fail")
  /\ UNCHANGED <<fat, dir, data, saved, orphans>>

(* The entry a create or a mkdir puts in the first slot that is not live:  *)
(* the name as typed, no cluster.                                          *)
PutEntry(s, dn, kind) ==
  /\ IsFirst(s, FreeSlots)
  /\ dir' = [dir EXCEPT ![s] = [st |-> "live", name |-> dn, kind |-> kind,
                                first |-> 0, size |-> 0]]
  /\ UNCHANGED <<fat, data, orphans>>

(* fat32_create_file and fat32_create_directory.                           *)
CreateEntry(dn, kind) ==
  /\ pc = "idle"
  /\ \/ \E s \in Slots :
          /\ PutEntry(s, dn, kind)
          /\ saved' = [saved EXCEPT ![s] = << >>]
          /\ Finish("ok")
     \/ FreeSlots = {} /\ Refuse
  /\ UNCHANGED faults

CreateFile(dn)      == CreateEntry(dn, "file")
CreateDirectory(dn) == CreateEntry(dn, "dir")

(* The first live entry that has the name byte for byte, file or not,      *)
(* becomes a deleted one.  Its clusters stay allocated.                    *)
Named(dn) == {s \in Slots : Live(s) /\ dir[s].name = dn}
(* Mutation: the entry is zeroed instead of marked deleted.                *)
RemoveByZeroing(s, dn) ==
  /\ IsFirst(s, Named(dn))
  /\ dir' = [dir EXCEPT ![s] = Blank("end")]
  /\ saved' = [saved EXCEPT ![s] = None]
  /\ orphans' = orphans \cup ({dir[s].first} \cap Clusters)
  /\ UNCHANGED <<fat, data>>

RemoveEntry(s, dn) ==
  /\ IsFirst(s, Named(dn))
  /\ dir' = [dir EXCEPT ![s] = Blank("deleted")]
  /\ saved' = [saved EXCEPT ![s] = None]
  /\ orphans' = orphans \cup ({dir[s].first} \cap Clusters)
  /\ UNCHANGED <<fat, data>>

DeleteFile(dn) ==
  /\ pc = "idle"
  /\ \/ \E s \in Slots : RemoveEntry(s, dn) /\ Finish("ok")
     \/ Named(dn) = {} /\ Refuse
  /\ UNCHANGED faults

-----------------------------------------------------------------------------
(* fat32_write_file up to the end of its directory scan, which stops at    *)
(* the first slot that has the name or is not live.  An entry found is     *)
(* refused by fat32_free_clusters when it has no cluster.                  *)
WriteFile(n, v, len) ==
  /\ pc = "idle"
  /\ \/ \E s \in Slots :
          /\ IsFirst(s, NamedFat(n) \cup FreeSlots)
          /\ \/ /\ ~ Live(s)
                /\ pc' = "alloc"
                /\ cur' = 0
                /\ UNCHANGED saved
             \/ /\ Live(s)
                /\ dir[s].first >= 2 /\ dir[s].first < EOC
                /\ pc' = "free"
                /\ cur' = dir[s].first
                /\ saved' = [saved EXCEPT ![s] = None]
          /\ args' = [name |-> n, val |-> v, len |-> len, slot |-> s]
          /\ UNCHANGED <<fat, dir, data, nxt, done, from, wr, result, orphans>>
     \/ \E s \in NamedFat(n) :
          /\ IsFirst(s, NamedFat(n) \cup FreeSlots)
          /\ ~ (dir[s].first >= 2 /\ dir[s].first < EOC)
          /\ Refuse
     \/ NamedFat(n) \cup FreeSlots = {} /\ Refuse
  /\ UNCHANGED faults

(* fat32_write_fat_entry: the first copy now, the others by Mirror.        *)
FatWrite(c, x, then) ==
  /\ fat' = [fat EXCEPT ![1] = [@ EXCEPT ![c] = x]]
  /\ wr' = [cl |-> c, copy |-> 2, then |-> then]
  /\ pc' = "mirror"

(* The sector read from the first copy and changed there goes whole to     *)
(* the next copy.                                                          *)
(* Mutation: the buffer is copied up to the changed entry, exclusive.      *)
MirrorShort ==
  fat' = [fat EXCEPT ![wr.copy] =
            [x \in FatIndex |-> IF SectorOf(x) = SectorOf(wr.cl) /\ x < wr.cl
                                THEN fat[1][x] ELSE @[x]]]

MirrorSector ==
  fat' = [fat EXCEPT ![wr.copy] =
            [x \in FatIndex |-> IF SectorOf(x) = SectorOf(wr.cl)
                                THEN fat[1][x] ELSE @[x]]]

Mirror ==
  /\ pc = "mirror"
  /\ MirrorSector
  /\ \/ /\ wr.copy < NumFats
        /\ wr' = [wr EXCEPT !.copy = @ + 1]
        /\ UNCHANGED pc
     \/ /\ wr.copy = NumFats
        /\ pc' = wr.then
        /\ wr' = NoWrite
  /\ UNCHANGED <<dir, data, args, cur, nxt, done, from,
                 result, saved, orphans, faults>>

(* One turn of the loop of fat32_free_clusters: nothing tells a link from  *)
(* the mark of a free cluster.                                             *)
(* Mutation: only the first cluster of the chain is freed.                 *)
FreeHeadOnly ==
  /\ pc = "free"
  /\ cur' = EOC
  /\ FatWrite(cur, Free, "alloc")
  /\ UNCHANGED <<dir, data, args, nxt, done, from, result, saved, orphans,
                 faults>>

(* Mutation: the link is followed after the entry was cleared.             *)
FreeThenFollow ==
  /\ pc = "free"
  /\ UNCHANGED cur
  /\ FatWrite(cur, Free, IF fat[1][cur] < EOC THEN "free" ELSE "alloc")
  /\ UNCHANGED <<dir, data, args, nxt, done, from, result, saved, orphans,
                 faults>>

FreeCluster ==
  /\ pc = "free"
  /\ cur' = fat[1][cur]
  /\ FatWrite(cur, Free, IF fat[1][cur] < EOC THEN "free" ELSE "alloc")
  /\ UNCHANGED <<dir, data, args, nxt, done, from, result, saved, orphans,
                 faults>>

(* fat32_allocate_cluster, for the first cluster and in the write loop: the*)
(* first free entry at or after `from` is marked end of chain.             *)
(* Mutation: the entry is not compared with zero.                          *)
FirstFrom(c) ==
  /\ c \in Clusters /\ c >= from
  /\ \A d \in Clusters : d >= from /\ d < c => Allocated(d)

FirstFreeFrom(c) ==
  /\ c \in Clusters /\ c >= from /\ ~ Allocated(c)
  /\ \A d \in Clusters : d >= from /\ d < c => Allocated(d)
DiskFull == \A c \in Clusters : c >= from => Allocated(c)

(* Mutation: the write loop keeps one variable for both clusters.          *)
TakeAsCurrent(c) == cur' = c /\ nxt' = IF pc = "alloc" THEN nxt ELSE c

TakeCluster(c) ==
  IF pc = "alloc" THEN cur' = c /\ UNCHANGED nxt
                  ELSE nxt' = c /\ UNCHANGED cur

AllocateCluster ==
  /\ pc \in {"alloc", "extend"}
  /\ \/ \E c \in Clusters :
          /\ FirstFreeFrom(c)
          /\ FatWrite(c, EOC, IF pc = "alloc" THEN "entry" ELSE "link")
          /\ TakeCluster(c)
          /\ from' = 2
          /\ UNCHANGED <<dir, data, args, done, result, saved, orphans>>
     \/ DiskFull /\ Refuse
  /\ UNCHANGED faults

(* The directory entry, with the whole size, before any data.              *)
(* Mutation: the size is rounded up once more.                             *)
NewEntryRoundedUp ==
  [st |-> "live", name |-> <<args.name, "fat">>, kind |-> "file",
   first |-> cur, size |-> args.len + 1]
NewEntry == [st |-> "live", name |-> <<args.name, "fat">>, kind |-> "file",
             first |-> cur, size |-> args.len]

WriteEntry ==
  /\ pc = "entry"
  /\ dir' = [dir EXCEPT ![args.slot] = NewEntry]
  /\ done' = 0
  /\ pc' = IF args.len = 0 THEN "final" ELSE "data"
  /\ UNCHANGED <<fat, data, args, cur, nxt, from, wr, result, saved, orphans,
                 faults>>

(* Mutation: a cluster too many is transferred.                            *)
WriteDataSpills ==
  /\ pc = "data"
  /\ \/ /\ cur <= DiskEnd
        /\ data' = [c \in Clusters |-> IF c = cur THEN <<args.val, done + 1>>
                                       ELSE IF c = cur + 1 THEN Garbage
                                       ELSE data[c]]
        /\ done' = done + 1
        /\ pc' = IF done + 1 < args.len THEN "extend" ELSE "final"
        /\ UNCHANGED <<fat, dir, args, cur, nxt, from, wr, result, saved,
                       orphans>>
     \/ cur > DiskEnd /\ Refuse
  /\ UNCHANGED faults

(* One cluster of data.  A cluster the FAT counts but the disk does not    *)
(* hold cannot be written.                                                 *)
WriteData ==
  /\ pc = "data"
  /\ \/ /\ cur <= DiskEnd
        /\ data' = [data EXCEPT ![cur] = <<args.val, done + 1>>]
        /\ done' = done + 1
        /\ pc' = IF done + 1 < args.len THEN "extend" ELSE "final"
        /\ UNCHANGED <<fat, dir, args, cur, nxt, from, wr, result, saved,
                       orphans>>
     \/ cur > DiskEnd /\ Refuse
  /\ UNCHANGED faults

(* Mutation: the loop does not go on to the cluster it linked.             *)
LinkAndStay ==
  /\ pc = "link"
  /\ FatWrite(cur, nxt, "data")
  /\ nxt' = 0
  /\ UNCHANGED <<dir, data, args, cur, done, from, result, saved, orphans,
                 faults>>

Link ==
  /\ pc = "link"
  /\ FatWrite(cur, nxt, "data")
  /\ cur' = nxt /\ nxt' = 0
  /\ UNCHANGED <<dir, data, args, done, from, result, saved, orphans, faults>>

(* Mutation: zero marks the end of the chain.                              *)
MarkEndFree ==
  /\ pc = "final"
  /\ FatWrite(cur, Free, "return")
  /\ UNCHANGED <<dir, data, args, cur, nxt, done, from, result, saved,
                 orphans, faults>>

MarkEnd ==
  /\ pc = "final"
  /\ FatWrite(cur, EOC, "return")
  /\ UNCHANGED <<dir, data, args, cur, nxt, done, from, result, saved,
                 orphans, faults>>

Return ==
  /\ pc = "return"
  /\ saved' = [saved EXCEPT ![args.slot] = Whole(args.val, args.len)]
  /\ Finish("ok")
  /\ UNCHANGED <<fat, dir, data, orphans, faults>>

-----------------------------------------------------------------------------
(* Faults.  A sector read or written fails; a failed write may have        *)
(* reached the disk.  Power may be lost at any time.                       *)
Fault == faults < MaxFaults /\ faults' = faults + 1

(* A sector cannot be read, in any call: nothing was written yet.  One     *)
(* read is left out, that of the FAT entry behind the last cluster of a    *)
(* full directory: its error value counts as a cluster (line 283) and      *)
(* takes the scan on into sectors of the first FAT.                        *)
ReadFault ==
  /\ pc \in {"idle", "free", "alloc", "extend", "link", "final"}
  /\ Refuse
  /\ Fault

(* The one sector a create, a mkdir or a delete writes is reported as      *)
(* failed, and holds the new entry nevertheless.                           *)
CallWriteFault ==
  /\ pc = "idle"
  /\ \/ \E s \in Slots, dn \in DiskNames, kind \in Kinds :
          PutEntry(s, dn, kind) /\ UNCHANGED saved
     \/ \E s \in Slots, dn \in DiskNames : RemoveEntry(s, dn)
  /\ Finish("fail")
  /\ Fault

(* Freeing, linking or ending a chain fails in the write of the first copy.*)
FatWriteFault ==
  /\ \/ pc = "free"  /\ fat' = [fat EXCEPT ![1] = [@ EXCEPT ![cur] = Free]]
     \/ pc = "link"  /\ fat' = [fat EXCEPT ![1] = [@ EXCEPT ![cur] = nxt]]
     \/ pc = "final" /\ fat' = [fat EXCEPT ![1] = [@ EXCEPT ![cur] = EOC]]
  /\ Finish("fail")
  /\ UNCHANGED <<dir, data, saved, orphans>>
  /\ Fault

(* Marking a cluster fails in the first copy: the scan goes on behind it.  *)
AllocFault ==
  /\ pc \in {"alloc", "extend"}
  /\ \E c \in Clusters :
       /\ FirstFreeFrom(c)
       /\ \/ fat' = [fat EXCEPT ![1] = [@ EXCEPT ![c] = EOC]]
          \/ UNCHANGED fat
       /\ from' = c + 1
  /\ UNCHANGED <<dir, data, pc, args, cur, nxt, done, wr, result, saved,
                 orphans>>
  /\ Fault

(* Another copy cannot be written: an allocation scans on and leaves the   *)
(* cluster marked, every other caller gives up.                            *)
MirrorFault ==
  /\ pc = "mirror"
  /\ MirrorSector \/ UNCHANGED fat
  /\ \/ /\ wr.then \in {"entry", "link"}
        /\ pc' = IF wr.then = "entry" THEN "alloc" ELSE "extend"
        /\ from' = wr.cl + 1
        /\ wr' = NoWrite
        /\ UNCHANGED <<args, cur, nxt, done, result>>
     \/ /\ wr.then \notin {"entry", "link"}
        /\ Finish("fail")
  /\ UNCHANGED <<dir, data, saved, orphans>>
  /\ Fault

EntryFault ==
  /\ pc = "entry"
  /\ \/ dir' = [dir EXCEPT ![args.slot] = NewEntry]
     \/ UNCHANGED dir
  /\ Finish("fail")
  /\ UNCHANGED <<fat, data, saved, orphans>>
  /\ Fault

(* The data of a cluster reaches the disk whole, in part or not at all.    *)
TornData ==
  \/ UNCHANGED data
  \/ /\ cur <= DiskEnd
     /\ \E x \in {Garbage, <<args.val, done + 1>>} :
          data' = [data EXCEPT ![cur] = x]

DataFault ==
  /\ pc = "data"
  /\ TornData
  /\ Finish("fail")
  /\ UNCHANGED <<fat, dir, saved, orphans>>
  /\ Fault

(* Power loss and reboot in the middle of a call.                          *)
Crash ==
  /\ pc # "idle"
  /\ \/ pc = "data" /\ TornData
     \/ UNCHANGED data
  /\ Finish("crash")
  /\ UNCHANGED <<fat, dir, saved, orphans>>
  /\ Fault

-----------------------------------------------------------------------------
Calls ==
  \/ \E dn \in DiskNames : CreateFile(dn)
  \/ \E dn \in DiskNames : CreateDirectory(dn)
  \/ \E dn \in DiskNames : DeleteFile(dn)
  \/ \E n \in Names, v \in Vals, len \in 0 .. MaxLen : WriteFile(n, v, len)

Continue ==
  \/ FreeCluster \/ AllocateCluster \/ Mirror \/ WriteEntry \/ WriteData
  \/ Link \/ MarkEnd \/ Return

Faults ==
  \/ ReadFault \/ CallWriteFault \/ FatWriteFault \/ AllocFault
  \/ MirrorFault \/ EntryFault \/ DataFault \/ Crash

Step == Calls \/ Continue
Next == Step \/ Faults

(* The kernel runs one thread with interrupts off: a call that was entered *)
(* keeps running.  Nobody is obliged to make a call.                       *)
Fairness == WF_vars(Continue)

Spec     == Init /\ [][Next]_vars /\ Fairness
SafeSpec == Init /\ [][Step]_vars /\ Fairness
-----------------------------------------------------------------------------
(* What fat32_read_file makes of an entry: it follows the chain while the  *)
(* size calls for more and the mark of the end is not reached; what it     *)
(* does not read stays whatever the buffer held, and a cluster number that *)
(* is no data cluster reads something else.                                *)
ChainOf(first) ==
  LET at[i \in 1 .. MaxLen + 1] ==
        IF i = 1 THEN first
        ELSE IF at[i - 1] \in FatIndex THEN fat[1][at[i - 1]] ELSE EOC
  IN at

ReadSlot(s) ==
  [i \in 1 .. dir[s].size |->
     LET c == ChainOf(dir[s].first)[i]
     IN IF c \in 2 .. DiskEnd THEN data[c] ELSE Garbage]

-----------------------------------------------------------------------------
(* Every variable keeps to its range.                                      *)
Ranges ==
  /\ fat \in [Copies -> [FatIndex -> FatVal]]
  /\ dir \in [Slots -> Entries]
  /\ data \in [Clusters -> (Vals \X (1 .. MaxLen)) \cup {Garbage}]
  /\ pc \in Steps \cup {"idle", "mirror"}
  /\ args \in [name : Names \cup {None}, val : Vals \cup {None},
               len : 0 .. MaxLen, slot : 0 .. NSlots]
  /\ cur \in FatVal /\ nxt \in FatIndex
  /\ done \in 0 .. MaxLen
  /\ from \in 2 .. EOC
  /\ wr \in [cl : FatIndex, copy : 0 .. NumFats, then : Steps \cup {"idle"}]
  /\ result \in {"none", "ok", "fail", "crash"}
  /\ saved \in [Slots -> Seq(Vals \X (1 .. MaxLen)) \cup {None}]
  /\ orphans \subseteq Clusters
  /\ faults \in 0 .. MaxFaults

(* The locals a call has set by the step it is at.                         *)
CallOK ==
  /\ pc # "idle" =>
       args.name \in Names /\ args.val \in Vals /\ args.slot \in Slots
  /\ pc = "mirror" => wr.copy \in 2 .. NumFats /\ wr.then \in Steps
  /\ pc = "mirror" /\ wr.then \in {"entry", "link"} => wr.cl \in Clusters
  /\ Stage = "free" => cur # EOC
  /\ Stage \in {"entry", "data", "extend", "link", "final"} =>
       cur \in Clusters
  /\ Stage = "link" => nxt \in Clusters
  /\ Stage \in {"data", "extend", "link"} => done < args.len

(* Every variable keeps to its range, and a call uses no local before it   *)
(* has set it (fat32_write_file and the calls it makes).                   *)
TypeOK == Ranges /\ CallOK

(* Until the call that rewrites a slot has written its new entry, the old  *)
(* entry names clusters that are being given back.                         *)
BeingReplaced(s) ==
  args.slot = s /\ Stage \in {"free", "alloc", "entry"}
Owners == {s \in Slots : Live(s) /\ ~ BeingReplaced(s)}

(* No two entries or links lead to the same cluster, so that no two files  *)
(* share data (fat32_write_file, fat32_free_clusters).                     *)
UniqueRefs ==
  /\ \A x, y \in Clusters :
       fat[1][x] \in Clusters /\ fat[1][x] = fat[1][y] => x = y
  /\ \A s, t \in Owners :
       dir[s].first \in Clusters /\ dir[s].first = dir[t].first => s = t
  /\ \A s \in Owners, x \in Clusters :
       dir[s].first \in Clusters => fat[1][x] # dir[s].first

(* What an entry or a link leads to is not free, so that no allocation     *)
(* hands out a cluster of a file.                                          *)
LinksLive ==
  /\ \A x \in Clusters : fat[1][x] \in Clusters => Allocated(fat[1][x])
  /\ \A s \in Owners : dir[s].first \in Clusters => Allocated(dir[s].first)

(* All copies of the FAT agree, except in the entry that                   *)
(* fat32_write_fat_entry is just carrying from copy to copy.               *)
MirrorsAgree ==
  \A k \in Copies, c \in FatIndex :
    fat[k][c] # fat[1][c] => pc = "mirror" /\ k >= wr.copy /\ c = wr.cl

(* Nothing in use lies behind an end-of-directory mark, where              *)
(* fat32_list_directory and fat32_change_directory would not find it.      *)
EndMarkLast ==
  \A s, t \in Slots : s < t /\ dir[s].st = "end" => dir[t].st = "end"

(* What a call reported as written can be read back, to the last cluster   *)
(* and in order, until a later call rewrites or deletes that entry,        *)
(* whatever happens to other entries meanwhile.                            *)
SavedReadable ==
  \A s \in Slots : saved[s] # None =>
    /\ Live(s)
    /\ dir[s].kind = "file" => ReadSlot(s) = saved[s]

(* The clusters a call works on are its own: the rest of the chain it      *)
(* gives back, and the cluster it has taken but not yet entered, are named *)
(* by no other entry or link; and an entry being replaced has left at      *)
(* least its own cluster for the allocation that follows.                  *)
Referenced(c) ==
  \/ \E x \in Clusters : fat[1][x] = c
  \/ \E s \in Owners : dir[s].first = c
Taken(c) == c \in Clusters /\ fat[1][c] = EOC

HeldApart ==
  /\ Stage = "free" =>
       /\ cur \in Clusters /\ Allocated(cur) /\ ~ Referenced(cur)
       /\ Live(args.slot) /\ dir[args.slot].first \in Clusters
       /\ Allocated(dir[args.slot].first) => cur = dir[args.slot].first
  /\ Stage = "alloc" /\ Live(args.slot) =>
       dir[args.slot].first \in Clusters /\ ~ Allocated(dir[args.slot].first)
  /\ Stage = "entry" => Taken(cur) /\ ~ Referenced(cur)
  /\ Stage \in {"data", "extend", "link", "final"} => Taken(cur)
  /\ Stage = "link" => Taken(nxt) /\ nxt # cur /\ ~ Referenced(nxt)

(* A fault damages no file but the one being written: while the chains are *)
(* apart, what was saved survives every step, the faulty ones included.    *)
(* Damage spreads only through a later call that trusts the broken entry.  *)
FaultsSpareOthers ==
  [][UniqueRefs /\ LinksLive /\ HeldApart /\ SavedReadable
       => SavedReadable']_vars

(* A cluster is lost only to a deleted file: every allocated one is named  *)
(* by an entry, by a link, by the call in progress or by a deleted entry.  *)
NoOtherLeak ==
  \A c \in Clusters \ {Root} : Allocated(c) =>
    \/ c \in orphans \cup {cur, nxt}
    \/ \E x \in Clusters : fat[1][x] = c
    \/ \E s \in Owners : dir[s].first = c

(* The directory's own cluster stays the end of its chain in every copy    *)
(* and is never given to a file, whatever fails.                           *)
RootIntact ==
  /\ \A k \in Copies : fat[k][Root] = EOC
  /\ \A k \in Copies, c \in FatIndex : fat[k][c] # Root
  /\ \A s \in Slots : dir[s].first # Root

(* No chain runs in a circle, whatever fails: from every cluster the end,  *)
(* or a free or reserved entry, is reached in MaxCluster hops at most.     *)
AcyclicFat ==
  \A c \in Clusters :
    LET at[i \in 0 .. MaxCluster] ==
          IF i = 0 THEN c
          ELSE IF at[i - 1] \in Clusters THEN fat[1][at[i - 1]] ELSE EOC
    IN at[MaxCluster] \notin Clusters

(* Every call returns.                                                     *)
CallsReturn == (pc # "idle") ~> (pc = "idle")

(* The one way a call may fail to return after faults: freeing a broken    *)
(* chain has cleared entry 0 of the FAT, which then leads to itself.       *)
HangsOnlyAtReserved ==
  (pc # "idle") ~> (pc = "idle" \/ (pc \in {"free", "mirror"} /\ cur = 0))
=============================================================================
