----------------------------- MODULE FileStore -----------------------------
(***************************************************************************)
(* What the file calls of the kernel promise as long as no disk fault and  *)
(* no power loss interrupts one: the directory is a row of slots, a call   *)
(* changes one of them, an entry keeps its name and kind while it exists,  *)
(* and the content of a file changes only through a phase in which it is   *)
(* undefined, to the whole of what one call wrote.                         *)
(***************************************************************************)
CONSTANTS Slots, DiskNames, Kinds, Contents, Empty, Undefined

VARIABLE store

Entry(n, k, c) == [name |-> n, kind |-> k, content |-> c]

Init == store \in [Slots -> {Empty} \cup
                     {Entry(n, k, << >>) : n \in DiskNames, k \in Kinds}]

(* A create or a mkdir fills an empty slot.                                *)
Make(s) ==
  /\ store[s] = Empty
  /\ \E n \in DiskNames, k \in Kinds :
       store' = [store EXCEPT ![s] = Entry(n, k, << >>)]

Remove(s) ==
  /\ store[s] # Empty
  /\ store' = [store EXCEPT ![s] = Empty]

(* A write begins: on a file that exists, or with a new entry.             *)
Begin(s) ==
  \/ /\ store[s] # Empty
     /\ store[s].kind = "file"
     /\ store' = [store EXCEPT ![s].content = Undefined]
  \/ /\ store[s] = Empty
     /\ \E n \in DiskNames :
          store' = [store EXCEPT ![s] = Entry(n, "file", Undefined)]

(* A write succeeds.                                                       *)
Save(s) ==
  /\ store[s] # Empty
  /\ store[s].content = Undefined
  /\ \E c \in Contents : store' = [store EXCEPT ![s].content = c]

Next == \E s \in Slots : Make(s) \/ Remove(s) \/ Begin(s) \/ Save(s)

Spec == Init /\ [][Next]_store
=============================================================================
