----------------------------- MODULE Fat32Store -----------------------------
(***************************************************************************)
(* The driver of Fat32 implements FileStore: a slot of the store is what   *)
(* fat32_read_file would make of the directory entry on the disk, and is   *)
(* undefined from the moment a write takes the entry over until a write    *)
(* of it has returned true.                                                *)
(***************************************************************************)
EXTENDS Fat32

CONSTANT NoEntry

ASSUME NoEntryAssumption ==
  NoEntry \notin [name : DiskNames \cup {None}, kind : Kinds,
                  content : Seq(Vals \X (1 .. MaxLen)) \cup {None}]

StoreSlot(s) ==
  IF ~ Live(s) THEN NoEntry
  ELSE [name |-> dir[s].name, kind |-> dir[s].kind,
        content |-> IF saved[s] = None THEN None
                    ELSE IF dir[s].kind = "dir" THEN << >>
                    ELSE ReadSlot(s)]

FS == INSTANCE FileStore WITH
        store <- [s \in Slots |-> StoreSlot(s)],
        Contents <- {Whole(v, n) : v \in Vals, n \in 0 .. MaxLen},
        Empty <- NoEntry, Undefined <- None

(* Without faults every step of the driver is a step of the file store or  *)
(* leaves it unchanged: no call disturbs another file, turns a directory   *)
(* into a file or mixes two writes.                                        *)
ImplementsFileStore == FS!Spec
=============================================================================
