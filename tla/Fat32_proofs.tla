---------------------------- MODULE Fat32_proofs ----------------------------
(***************************************************************************)
(* The invariants of Fat32, for every value of its constants: the types,   *)
(* the root directory, the end-of-directory mark; without faults, chains   *)
(* that stay apart and copies of the FAT that agree; under every fault, a  *)
(* call's own work and a FAT without circles.  Then what the chains hold:  *)
(* under every fault, what breaks is the file that is being written;       *)
(* without faults, what was written stays readable, no space is lost but   *)
(* to deletes, and the driver implements the abstract file store.          *)
(***************************************************************************)
EXTENDS Fat32Store, Extremes, SequenceTheorems, FiniteSetTheorems

(* The values the observer `saved` can record are sequences of data.       *)
LEMMA WholeType ==
  ASSUME NEW v \in Vals, NEW len \in 0 .. MaxLen
  PROVE  Whole(v, len) \in Seq(Vals \X (1 .. MaxLen))
<1>1. len \in Nat /\ \A i \in 1 .. len : <<v, i>> \in Vals \X (1 .. MaxLen)
  BY SizeAssumption
<1> QED  BY <1>1, IsASeq DEF Whole

LEMMA EmptyType == << >> \in Seq(Vals \X (1 .. MaxLen))
  OBVIOUS

(* The locals of a call that is over are in range.                         *)
LEMMA FinishType ==
  ASSUME NEW r \in {"ok", "fail", "crash"}, Finish(r)
  PROVE  /\ pc' = "idle"
         /\ result' \in {"none", "ok", "fail", "crash"}
         /\ args' \in [name : Names \cup {None}, val : Vals \cup {None},
                       len : 0 .. MaxLen, slot : 0 .. NSlots]
         /\ cur' \in FatVal /\ nxt' \in FatIndex
         /\ done' \in 0 .. MaxLen /\ from' \in 2 .. EOC
         /\ wr' \in [cl : FatIndex, copy : 0 .. NumFats,
                     then : Steps \cup {"idle"}]
         /\ CallOK'
  BY SizeAssumption
  DEF CallOK, Stage, Finish, NoArgs, NoWrite, FatVal, Free, Clusters, FatIndex, EOC, Steps

(* A call that only returns leaves everything in range.                    *)
LEMMA RefuseType ==
  ASSUME TypeOK, Refuse, faults' \in 0 .. MaxFaults
  PROVE  TypeOK'
<1> Finish("fail")
  BY DEF Refuse
<1> QED  BY FinishType DEF Refuse, TypeOK, Ranges

LEMMA FatWriteType ==
  ASSUME TypeOK, NEW c \in FatIndex, NEW x \in FatVal, NEW then \in Steps,
         FatWrite(c, x, then)
  PROVE  /\ fat' \in [Copies -> [FatIndex -> FatVal]]
         /\ wr' \in [cl : FatIndex, copy : 0 .. NumFats,
                     then : Steps \cup {"idle"}]
         /\ pc' = "mirror"
<1>1. 1 \in Copies /\ 2 \in 0 .. NumFats
  BY SizeAssumption DEF Copies
<1> QED  BY <1>1 DEF TypeOK, Ranges, FatWrite

LEMMA MirrorType ==
  ASSUME TypeOK, MirrorSector
  PROVE  fat' \in [Copies -> [FatIndex -> FatVal]]
<1>1. 1 \in Copies
  BY SizeAssumption DEF Copies
<1>2. \A k \in Copies :
        [x \in FatIndex |-> IF SectorOf(x) = SectorOf(wr.cl)
                            THEN fat[1][x] ELSE fat[k][x]]
          \in [FatIndex -> FatVal]
  BY <1>1 DEF TypeOK, Ranges
<1> QED  BY <1>1, <1>2 DEF TypeOK, Ranges, MirrorSector

-----------------------------------------------------------------------------
LEMMA InitType == Init => TypeOK
<1> SUFFICES ASSUME Init PROVE TypeOK
  OBVIOUS
<1>1. \A s \in Slots : s <= Len(Tree) =>
        /\ Tree[s].name \in DiskNames /\ Tree[s].kind \in Kinds
        /\ 2 + s \in FatVal
  <2> SUFFICES ASSUME NEW s \in Slots, s <= Len(Tree)
               PROVE  /\ Tree[s].name \in DiskNames /\ Tree[s].kind \in Kinds
                      /\ 2 + s \in FatVal
    OBVIOUS
  <2>1. Len(Tree) \in Nat /\ s \in 1 .. Len(Tree)
    BY TreeAssumption, SizeAssumption DEF Slots
  <2>2. Tree[s] \in [name : DiskNames, kind : Kinds]
    BY <2>1, TreeAssumption, ElementOfSeq
  <2>3. 2 + s \in FatVal
    BY <2>1, SizeAssumption, TreeAssumption DEF FatVal, Free, Clusters, FatIndex, Clusters
  <2> QED  BY <2>2, <2>3
<1>2. dir \in [Slots -> Entries]
  BY <1>1, SizeAssumption DEF Init, Entries, Blank, FatVal, Free, Clusters, FatIndex, Kinds
<1>3. fat \in [Copies -> [FatIndex -> FatVal]]
  BY SizeAssumption DEF Init, FatVal, Free, Clusters, FatIndex, Free
<1>4. data \in [Clusters -> (Vals \X (1 .. MaxLen)) \cup {Garbage}]
  BY DEF Init
<1>5. saved \in [Slots -> Seq(Vals \X (1 .. MaxLen)) \cup {None}]
  BY EmptyType DEF Init
<1> QED  BY <1>2, <1>3, <1>4, <1>5, SizeAssumption
         DEF Init, TypeOK, Ranges, CallOK, Stage, NoArgs, NoWrite, FatVal, Free, Clusters, FatIndex, EOC

(* The calls keep every variable in range.                                 *)
LEMMA CallsType == TypeOK /\ Calls => TypeOK'
<1> SUFFICES ASSUME TypeOK, Calls PROVE TypeOK'
  OBVIOUS
<1> USE DEF TypeOK, Ranges
<1>1. ASSUME NEW dn \in DiskNames, NEW kind \in Kinds, CreateEntry(dn, kind)
      PROVE  TypeOK'
  <2>1. CASE FreeSlots = {} /\ Refuse
    BY <1>1, <2>1, RefuseType DEF CreateEntry
  <2>2. ASSUME NEW s \in Slots, PutEntry(s, dn, kind), Finish("ok"),
               saved' = [saved EXCEPT ![s] = << >>]
        PROVE  TypeOK'
    <3>1. dir' \in [Slots -> Entries]
      BY <2>2, SizeAssumption DEF PutEntry, Entries, FatVal, Free, Clusters, FatIndex
    <3>2. saved' \in [Slots -> Seq(Vals \X (1 .. MaxLen)) \cup {None}]
      BY <2>2, EmptyType
    <3> QED  BY <1>1, <2>2, <3>1, <3>2, FinishType DEF PutEntry, CreateEntry
  <2> QED  BY <1>1, <2>1, <2>2 DEF CreateEntry
<1>2. ASSUME NEW dn \in DiskNames, DeleteFile(dn)
      PROVE  TypeOK'
  <2>1. CASE Named(dn) = {} /\ Refuse
    BY <1>2, <2>1, RefuseType DEF DeleteFile
  <2>2. ASSUME NEW s \in Slots, RemoveEntry(s, dn), Finish("ok")
        PROVE  TypeOK'
    <3>1. dir' \in [Slots -> Entries]
      BY <2>2, SizeAssumption
      DEF RemoveEntry, Blank, Entries, FatVal, Free, Clusters, FatIndex, Kinds
    <3> QED  BY <1>2, <2>2, <3>1, FinishType DEF RemoveEntry, DeleteFile
  <2> QED  BY <1>2, <2>1, <2>2 DEF DeleteFile
<1>3. ASSUME NEW n \in Names, NEW v \in Vals, NEW len \in 0 .. MaxLen,
             WriteFile(n, v, len)
      PROVE  TypeOK'
  <2>1. CASE Refuse
    BY <1>3, <2>1, RefuseType DEF WriteFile
  <2>2. ASSUME NEW s \in Slots,
               \/ pc' = "alloc" /\ cur' = 0
               \/ pc' = "free" /\ cur' = dir[s].first /\ dir[s].first < EOC,
               saved' = saved \/ saved' = [saved EXCEPT ![s] = None],
               args' = [name |-> n, val |-> v, len |-> len, slot |-> s],
               UNCHANGED <<fat, dir, data, nxt, done, from, wr, result,
                           orphans, faults>>
        PROVE  TypeOK'
    <3>1. cur' \in FatVal /\ (pc' = "free" => cur' # EOC)
      BY <2>2, SizeAssumption DEF Entries, FatVal, Free, Clusters, EOC
    <3>2. args' \in [name : Names \cup {None}, val : Vals \cup {None},
                     len : 0 .. MaxLen, slot : 0 .. NSlots]
      BY <2>2, SizeAssumption DEF Slots
    <3>3. CallOK'
      BY <2>2, <3>1 DEF CallOK, Stage
    <3> QED  BY <2>2, <3>1, <3>2, <3>3 DEF Steps
  <2> QED  BY <1>3, <2>1, <2>2 DEF WriteFile
<1> QED  BY <1>1, <1>2, <1>3 DEF Calls, CreateFile, CreateDirectory, Kinds

LEMMA ConstFacts ==
  /\ Free \in FatVal /\ EOC \in FatVal /\ 0 \in FatIndex
  /\ Clusters \subseteq FatIndex /\ Clusters \subseteq FatVal
  /\ FatVal \ {EOC} \subseteq FatIndex
  /\ 1 \in Copies /\ 2 \in 2 .. NumFats /\ 2 \in 2 .. EOC
  BY SizeAssumption DEF Free, FatVal, Free, Clusters, FatIndex, Clusters, Copies, EOC

(* A call in progress keeps every variable in range.                       *)
LEMMA ContinueType == TypeOK /\ Continue => TypeOK'
<1> SUFFICES ASSUME TypeOK, Continue PROVE TypeOK'
  OBVIOUS
<1> USE DEF TypeOK, Ranges
<1>1. CASE FreeCluster
  <2>1. cur \in FatIndex /\ fat[1][cur] \in FatVal
    BY <1>1, ConstFacts DEF FreeCluster, CallOK, Stage
  <2>2. fat[1][cur] < EOC => fat[1][cur] # EOC
    BY <2>1, SizeAssumption DEF FatVal, EOC, Free, Clusters
  <2>3. CallOK'
    BY <1>1, <2>1, <2>2, ConstFacts
    DEF FreeCluster, FatWrite, CallOK, Stage, Steps
  <2> QED  BY <1>1, <2>1, <2>3, ConstFacts, FatWriteType DEF FreeCluster, Steps
<1>2. CASE AllocateCluster
  <2>1. CASE Refuse
    BY <1>2, <2>1, RefuseType DEF AllocateCluster
  <2>2. ASSUME NEW c \in Clusters, TakeCluster(c), from' = 2,
               pc \in {"alloc", "extend"},
               FatWrite(c, EOC, IF pc = "alloc" THEN "entry" ELSE "link"),
               UNCHANGED <<dir, data, args, done, result, saved, orphans,
                           faults>>
        PROVE  TypeOK'
    <3>1. cur' \in FatVal /\ nxt' \in FatIndex
      BY ConstFacts, <2>2 DEF TakeCluster
    <3>2. CallOK'
      BY ConstFacts, <2>2 DEF TakeCluster, FatWrite, CallOK, Stage, Steps
    <3> QED  BY ConstFacts, <2>2, <3>1, <3>2, FatWriteType DEF Steps
  <2> QED  BY <1>2, <2>1, <2>2 DEF AllocateCluster
<1>3. CASE Mirror
  <2>0. wr.copy \in 2 .. NumFats /\ wr.then \in Steps /\ wr.cl \in FatIndex
    BY <1>3 DEF Mirror, CallOK
  <2>1. /\ wr' \in [cl : FatIndex, copy : 0 .. NumFats,
                     then : Steps \cup {"idle"}]
        /\ pc' \in Steps \cup {"idle", "mirror"}
    <3>1. CASE wr.copy < NumFats
      BY <1>3, <2>0, <3>1, SizeAssumption DEF Mirror
    <3>2. CASE wr.copy = NumFats
      BY <1>3, <2>0, <3>2, SizeAssumption, ConstFacts DEF Mirror, NoWrite
    <3> QED  BY <1>3, <3>1, <3>2 DEF Mirror
  <2>2. CallOK'
    <3>1. CASE wr.copy < NumFats
      BY <1>3, <2>0, <3>1, SizeAssumption DEF Mirror, CallOK, Stage, Steps
    <3>2. CASE wr.copy = NumFats
      BY <1>3, <2>0, <3>2, SizeAssumption DEF Mirror, CallOK, Stage, Steps
    <3> QED  BY <1>3, <3>1, <3>2 DEF Mirror
  <2> QED  BY <1>3, <2>1, <2>2, MirrorType DEF Mirror
<1>4. CASE WriteEntry
  <2>1. NewEntry \in Entries
    BY <1>4 DEF WriteEntry, CallOK, NewEntry, Entries, DiskNames, Forms, Kinds
  <2>2. CallOK'
    BY <1>4, SizeAssumption DEF WriteEntry, CallOK, Stage, Steps
  <2>3. dir' \in [Slots -> Entries]
    BY <1>4, <2>1 DEF WriteEntry
  <2>4. pc' \in Steps /\ done' \in 0 .. MaxLen
    BY <1>4, SizeAssumption DEF WriteEntry, Steps
  <2> QED  BY <1>4, <2>2, <2>3, <2>4 DEF WriteEntry
<1>5. CASE WriteData
  <2>1. CASE Refuse
    BY <1>5, <2>1, RefuseType DEF WriteData
  <2>2. CASE ~ Refuse
    <3>1. done < args.len /\ args.val \in Vals
      BY <1>5 DEF WriteData, CallOK, Stage
    <3>2. done' \in 1 .. MaxLen /\ done' = done + 1
      BY <1>5, <2>2, <3>1, SizeAssumption DEF WriteData
    <3>3. data' \in [Clusters -> (Vals \X (1 .. MaxLen)) \cup {Garbage}]
      BY <1>5, <2>2, <3>1, <3>2 DEF WriteData
    <3>4. CallOK'
      BY <1>5, <2>2, <3>1, <3>2 DEF WriteData, CallOK, Stage, Steps
    <3>5. pc' \in Steps /\ done' \in 0 .. MaxLen
      BY <1>5, <2>2, <3>2, SizeAssumption DEF WriteData, Steps
    <3> QED  BY <1>5, <2>2, <3>3, <3>4, <3>5 DEF WriteData
  <2> QED  BY <2>1, <2>2
<1>6. CASE Link
  <2>1. cur \in FatIndex /\ nxt \in Clusters
    BY <1>6, ConstFacts DEF Link, CallOK, Stage
  <2>2. CallOK'
    BY <1>6, <2>1, ConstFacts DEF Link, FatWrite, CallOK, Stage, Steps
  <2> QED  BY <1>6, <2>1, <2>2, ConstFacts, FatWriteType DEF Link, Steps
<1>7. CASE MarkEnd
  <2>1. cur \in FatIndex
    BY <1>7, ConstFacts DEF MarkEnd, CallOK, Stage
  <2>2. CallOK'
    BY <1>7, ConstFacts DEF MarkEnd, FatWrite, CallOK, Stage, Steps
  <2> QED  BY <1>7, <2>1, <2>2, ConstFacts, FatWriteType DEF MarkEnd, Steps
<1>8. CASE Return
  <2>1. args.val \in Vals
    BY <1>8 DEF Return, CallOK
  <2> QED  BY <1>8, <2>1, FinishType, WholeType DEF Return
<1> QED  BY <1>1, <1>2, <1>3, <1>4, <1>5, <1>6, <1>7, <1>8 DEF Continue

(* So does every fault.                                                    *)
LEMMA FaultsType == TypeOK /\ Faults => TypeOK'
<1> SUFFICES ASSUME TypeOK, Faults PROVE TypeOK'
  OBVIOUS
<1> USE DEF TypeOK, Ranges
<1>0. ASSUME Fault PROVE faults' \in 0 .. MaxFaults
  BY <1>0, SizeAssumption DEF Fault
<1>1. CASE ReadFault
  BY <1>0, <1>1, RefuseType DEF ReadFault
<1>2. CASE CallWriteFault
  <2>1. ASSUME NEW s \in Slots, NEW dn \in DiskNames, NEW kind \in Kinds,
               PutEntry(s, dn, kind)
        PROVE  dir' \in [Slots -> Entries] /\ orphans' \subseteq Clusters
    BY <2>1, SizeAssumption DEF PutEntry, Entries, FatVal, Free, Clusters, FatIndex
  <2>2. ASSUME NEW s \in Slots, NEW dn \in DiskNames, RemoveEntry(s, dn)
        PROVE  /\ dir' \in [Slots -> Entries] /\ orphans' \subseteq Clusters
               /\ saved' \in [Slots -> Seq(Vals \X (1 .. MaxLen)) \cup {None}]
    <3>1. Blank("deleted") \in Entries
      BY SizeAssumption DEF Blank, Entries, FatVal, Free, Kinds
    <3> QED  BY <2>2, <3>1 DEF RemoveEntry
  <2> QED  BY <1>0, <1>2, <2>1, <2>2, FinishType
           DEF CallWriteFault, PutEntry, RemoveEntry
<1>3. CASE FatWriteFault
  <2>1. fat' \in [Copies -> [FatIndex -> FatVal]]
    <3>1. CASE pc = "free"
      BY <1>3, <3>1, ConstFacts DEF FatWriteFault, CallOK, Stage
    <3>2. CASE pc = "link"
      <4>1. cur \in FatIndex /\ nxt \in FatVal
        BY <3>2, ConstFacts DEF CallOK, Stage
      <4> QED  BY <1>3, <3>2, <4>1, ConstFacts DEF FatWriteFault
    <3>3. CASE pc = "final"
      <4>1. cur \in FatIndex
        BY <3>3, ConstFacts DEF CallOK, Stage
      <4> QED  BY <1>3, <3>3, <4>1, ConstFacts DEF FatWriteFault
    <3> QED  BY <1>3, <3>1, <3>2, <3>3 DEF FatWriteFault
  <2> QED  BY <1>0, <1>3, <2>1, FinishType DEF FatWriteFault
<1>4. CASE AllocFault
  <2>1. fat' \in [Copies -> [FatIndex -> FatVal]]
    <3>1. ASSUME NEW c \in Clusters
          PROVE  [fat EXCEPT ![1] = [@ EXCEPT ![c] = EOC]]
                   \in [Copies -> [FatIndex -> FatVal]]
      BY <3>1, ConstFacts
    <3> QED  BY <1>4, <3>1 DEF AllocFault
  <2>2. from' \in 2 .. EOC
    BY <1>4, SizeAssumption DEF AllocFault, Clusters, EOC
  <2>3. CallOK'
    BY <1>4 DEF AllocFault, CallOK, Stage
  <2> QED  BY <1>0, <1>4, <2>1, <2>2, <2>3 DEF AllocFault
<1>5. CASE MirrorFault
  <2>1. fat' \in [Copies -> [FatIndex -> FatVal]]
    BY <1>5, MirrorType DEF MirrorFault
  <2>2. CASE Finish("fail")
    BY <1>0, <1>5, <2>1, <2>2, FinishType DEF MirrorFault
  <2>3. CASE ~ Finish("fail")
    <3>1. CallOK'
      BY <1>5, <2>3 DEF MirrorFault, CallOK, Stage
    <3>2. from' \in 2 .. EOC
      BY <1>5, <2>3, SizeAssumption DEF MirrorFault, CallOK, Clusters, EOC
    <3>3. wr' = NoWrite /\ pc' \in Steps
      BY <1>5, <2>3 DEF MirrorFault, Steps
    <3>4. NoWrite \in [cl : FatIndex, copy : 0 .. NumFats,
                       then : Steps \cup {"idle"}]
      BY SizeAssumption, ConstFacts DEF NoWrite
    <3> QED  BY <1>0, <1>5, <2>1, <2>3, <3>1, <3>2, <3>3, <3>4
             DEF MirrorFault
  <2> QED  BY <2>2, <2>3
<1>6. CASE EntryFault
  <2>1. NewEntry \in Entries
    BY <1>6 DEF EntryFault, CallOK, NewEntry, Entries, DiskNames, Forms, Kinds
  <2> QED  BY <1>0, <1>6, <2>1, FinishType DEF EntryFault
<1>7. ASSUME TornData, pc = "data"
      PROVE  data' \in [Clusters -> (Vals \X (1 .. MaxLen)) \cup {Garbage}]
  <2>1. <<args.val, done + 1>> \in Vals \X (1 .. MaxLen)
    BY <1>7, SizeAssumption DEF CallOK, Stage
  <2> QED  BY <1>7, <2>1 DEF TornData
<1>8. CASE DataFault
  BY <1>0, <1>7, <1>8, FinishType DEF DataFault
<1>9. CASE Crash
  BY <1>0, <1>7, <1>9, FinishType DEF Crash
<1> QED  BY <1>1, <1>2, <1>3, <1>4, <1>5, <1>6, <1>8, <1>9 DEF Faults

LEMMA NextType == TypeOK /\ [Next]_vars => TypeOK'
<1>1. TypeOK /\ UNCHANGED vars => TypeOK'
  BY DEF TypeOK, Ranges, CallOK, Stage, vars
<1> QED  BY <1>1, CallsType, ContinueType, FaultsType DEF Next, Step

(* Every variable keeps to its range and a call uses no local before it    *)
(* has set it, through any number of faults and power losses.              *)
THEOREM TypeCorrect == Spec => []TypeOK
<1> QED  BY InitType, NextType, PTL DEF Spec

-----------------------------------------------------------------------------
(* RootIntact is not inductive: a call must also keep away from the root   *)
(* cluster with the numbers it holds.                                      *)
AvoidsRoot ==
  /\ Stage \in {"free", "entry", "data", "extend", "link", "final"} =>
       cur # Root
  /\ Stage = "link" => nxt # Root
RootInv == RootIntact /\ AvoidsRoot

LEMMA RootConst == Root \in FatIndex /\ EOC # Root /\ Free # Root /\ EOC # Free
  BY SizeAssumption DEF Root, FatIndex, EOC, Free

(* Entries other than the root's take values other than the root.          *)
LEMMA RootFatSet ==
  ASSUME TypeOK, RootIntact, UNCHANGED dir,
         NEW c \in FatIndex, c # Root, NEW x \in FatVal, x # Root,
         fat' = [fat EXCEPT ![1] = [@ EXCEPT ![c] = x]]
  PROVE  RootIntact'
<1>1. fat \in [Copies -> [FatIndex -> FatVal]]
  BY DEF TypeOK, Ranges
<1> QED  BY <1>1, RootConst DEF RootIntact

LEMMA RootFatWrite ==
  ASSUME TypeOK, RootIntact, UNCHANGED dir,
         NEW c \in FatIndex, c # Root, NEW x \in FatVal, x # Root, NEW then,
         FatWrite(c, x, then)
  PROVE  RootIntact'
  BY RootFatSet DEF FatWrite

LEMMA RootMirror ==
  ASSUME TypeOK, RootIntact, UNCHANGED dir, MirrorSector
  PROVE  RootIntact'
<1>1. fat \in [Copies -> [FatIndex -> FatVal]]
  BY DEF TypeOK, Ranges
<1>2. ASSUME NEW k \in Copies, NEW c \in FatIndex
      PROVE  fat'[k][c] = fat[k][c] \/ fat'[k][c] = fat[1][c]
  BY <1>1, <1>2 DEF MirrorSector
<1> QED  BY <1>2, RootConst, ConstFacts DEF RootIntact

(* A call that is over holds no cluster.                                   *)
LEMMA RootFinish ==
  ASSUME NEW r, Finish(r)
  PROVE  AvoidsRoot'
  BY DEF Finish, AvoidsRoot, Stage

LEMMA RootEntry ==
  ASSUME TypeOK, RootIntact, UNCHANGED fat, NEW s \in Slots, NEW e \in Entries,
         e.first # Root, dir' = [dir EXCEPT ![s] = e]
  PROVE  RootIntact'
  BY DEF TypeOK, Ranges, RootIntact

LEMMA RootPut ==
  ASSUME TypeOK, RootIntact, NEW s \in Slots, NEW dn \in DiskNames,
         NEW kind \in Kinds, PutEntry(s, dn, kind)
  PROVE  RootIntact'
  BY SizeAssumption DEF PutEntry, TypeOK, Ranges, RootIntact, Root

LEMMA RootRemove ==
  ASSUME TypeOK, RootIntact, NEW s \in Slots, NEW dn, RemoveEntry(s, dn)
  PROVE  RootIntact'
  BY SizeAssumption DEF RemoveEntry, Blank, TypeOK, Ranges, RootIntact, Root

LEMMA RootCalls == TypeOK /\ RootInv /\ Calls => RootInv'
<1> SUFFICES ASSUME TypeOK, RootInv, Calls PROVE RootInv'
  OBVIOUS
<1> USE DEF RootInv
<1>0. ASSUME Refuse PROVE RootInv'
  BY <1>0, RootFinish DEF Refuse, RootIntact
<1>1. ASSUME NEW dn \in DiskNames, NEW kind \in Kinds, CreateEntry(dn, kind)
      PROVE  RootInv'
  BY <1>0, <1>1, RootPut, RootFinish DEF CreateEntry
<1>2. ASSUME NEW dn \in DiskNames, DeleteFile(dn)
      PROVE  RootInv'
  BY <1>0, <1>2, RootRemove, RootFinish DEF DeleteFile
<1>3. ASSUME NEW n \in Names, NEW v \in Vals, NEW len \in 0 .. MaxLen,
             WriteFile(n, v, len)
      PROVE  RootInv'
  <2>1. CASE Refuse
    BY <1>0, <2>1
  <2>2. ASSUME NEW s \in Slots, UNCHANGED <<fat, dir>>,
               pc' = "alloc" \/ (pc' = "free" /\ cur' = dir[s].first)
        PROVE  RootInv'
    BY <2>2 DEF RootIntact, AvoidsRoot, Stage
  <2> QED  BY <1>3, <2>1, <2>2 DEF WriteFile
<1> QED  BY <1>1, <1>2, <1>3 DEF Calls, CreateFile, CreateDirectory, Kinds

LEMMA RootContinue == TypeOK /\ RootInv /\ Continue => RootInv'
<1> SUFFICES ASSUME TypeOK, RootInv, Continue PROVE RootInv'
  OBVIOUS
<1> USE DEF RootInv
<1>0. ASSUME Refuse PROVE RootInv'
  BY <1>0, RootFinish DEF Refuse, RootIntact
<1>1. CASE FreeCluster
  <2>1. cur \in FatIndex /\ cur # Root /\ fat[1][cur] # Root
    BY <1>1, ConstFacts
    DEF FreeCluster, TypeOK, Ranges, CallOK, Stage, AvoidsRoot, RootIntact
  <2>2. AvoidsRoot'
    BY <1>1, <2>1 DEF FreeCluster, FatWrite, AvoidsRoot, Stage
  <2>3. PICK then : FatWrite(cur, Free, then)
    BY <1>1 DEF FreeCluster
  <2>4. UNCHANGED dir
    BY <1>1 DEF FreeCluster
  <2> QED  BY <2>1, <2>2, <2>3, <2>4, RootConst, ConstFacts, RootFatWrite
<1>2. CASE AllocateCluster
  <2>2. ASSUME NEW c \in Clusters, FirstFreeFrom(c), TakeCluster(c),
               FatWrite(c, EOC, IF pc = "alloc" THEN "entry" ELSE "link"),
               pc \in {"alloc", "extend"}, UNCHANGED dir
        PROVE  RootInv'
    <3>1. c \in FatIndex /\ c # Root
      BY <2>2, RootConst, ConstFacts
      DEF FirstFreeFrom, Allocated, RootIntact
    <3>2. AvoidsRoot'
      BY <2>2, <3>1 DEF TakeCluster, FatWrite, AvoidsRoot, Stage
    <3> QED  BY <2>2, <3>1, <3>2, RootConst, ConstFacts, RootFatWrite
  <2> QED  BY <1>0, <1>2, <2>2 DEF AllocateCluster
<1>3. CASE Mirror
  <2>1. AvoidsRoot'
    <3>1. Stage' = Stage
      BY <1>3 DEF Mirror, Stage, TypeOK, Ranges, CallOK, Steps
    <3> QED  BY <1>3, <3>1 DEF Mirror, AvoidsRoot
  <2> QED  BY <1>3, <2>1, RootMirror DEF Mirror
<1>4. CASE WriteEntry
  <2>1. NewEntry \in Entries /\ NewEntry.first # Root /\ args.slot \in Slots
    BY <1>4 DEF WriteEntry, TypeOK, Ranges, CallOK, Stage, AvoidsRoot,
                NewEntry, Entries, DiskNames, Forms, Kinds
  <2>2. AvoidsRoot'
    BY <1>4 DEF WriteEntry, AvoidsRoot, Stage
  <2> QED  BY <1>4, <2>1, <2>2, RootEntry DEF WriteEntry
<1>5. CASE WriteData
  <2>1. CASE ~ Refuse
    BY <1>5, <2>1 DEF WriteData, RootIntact, AvoidsRoot, Stage
  <2> QED  BY <1>0, <2>1
<1>6. CASE Link
  <2>1. cur \in FatIndex /\ cur # Root /\ nxt \in FatVal /\ nxt # Root
    BY <1>6, ConstFacts DEF Link, TypeOK, CallOK, Stage, AvoidsRoot
  <2>2. AvoidsRoot'
    BY <1>6, <2>1 DEF Link, FatWrite, AvoidsRoot, Stage
  <2> QED  BY <1>6, <2>1, <2>2, RootFatWrite DEF Link
<1>7. CASE MarkEnd
  <2>1. cur \in FatIndex /\ cur # Root
    BY <1>7, ConstFacts DEF MarkEnd, TypeOK, CallOK, Stage, AvoidsRoot
  <2>2. AvoidsRoot'
    BY <1>7, <2>1 DEF MarkEnd, FatWrite, AvoidsRoot, Stage
  <2> QED  BY <1>7, <2>1, <2>2, RootConst, ConstFacts, RootFatWrite DEF MarkEnd
<1>8. CASE Return
  BY <1>8, RootFinish DEF Return, RootIntact
<1> QED  BY <1>1, <1>2, <1>3, <1>4, <1>5, <1>6, <1>7, <1>8 DEF Continue

LEMMA RootFaults == TypeOK /\ RootInv /\ Faults => RootInv'
<1> SUFFICES ASSUME TypeOK, RootInv, Faults PROVE RootInv'
  OBVIOUS
<1> USE DEF RootInv
<1>1. CASE ReadFault
  BY <1>1, RootFinish DEF ReadFault, Refuse, RootIntact
<1>2. CASE CallWriteFault
  BY <1>2, RootPut, RootRemove, RootFinish DEF CallWriteFault
<1>3. CASE FatWriteFault
  <2>1. /\ cur \in FatIndex /\ cur # Root
        /\ pc = "link" => nxt \in FatVal /\ nxt # Root
    BY <1>3, ConstFacts DEF FatWriteFault, TypeOK, Ranges, CallOK, Stage, AvoidsRoot
  <2>2. RootIntact'
    <3>1. CASE pc = "free"
      BY <1>3, <2>1, <3>1, RootConst, ConstFacts, RootFatSet DEF FatWriteFault
    <3>2. CASE pc = "link"
      BY <1>3, <2>1, <3>2, RootFatSet DEF FatWriteFault
    <3>3. CASE pc = "final"
      BY <1>3, <2>1, <3>3, RootConst, ConstFacts, RootFatSet DEF FatWriteFault
    <3> QED  BY <1>3, <3>1, <3>2, <3>3 DEF FatWriteFault
  <2> QED  BY <1>3, <2>2, RootFinish DEF FatWriteFault
<1>4. CASE AllocFault
  <2>1. AvoidsRoot'
    BY <1>4 DEF AllocFault, AvoidsRoot, Stage
  <2>2. CASE UNCHANGED fat
    BY <1>4, <2>1, <2>2 DEF AllocFault, RootIntact
  <2>3. ASSUME NEW c \in Clusters, FirstFreeFrom(c), UNCHANGED dir,
               fat' = [fat EXCEPT ![1] = [@ EXCEPT ![c] = EOC]]
        PROVE  RootIntact'
    <3>1. c \in FatIndex /\ c # Root
      BY <2>3, RootConst, ConstFacts
      DEF FirstFreeFrom, Allocated, RootIntact
    <3> QED  BY <2>3, <3>1, RootConst, ConstFacts, RootFatSet
  <2> QED  BY <1>4, <2>1, <2>2, <2>3 DEF AllocFault
<1>5. CASE MirrorFault
  <2>1. RootIntact'
    <3>1. CASE UNCHANGED fat
      BY <1>5, <3>1 DEF MirrorFault, RootIntact
    <3> QED  BY <1>5, <3>1, RootMirror DEF MirrorFault
  <2>2. AvoidsRoot'
    <3>1. CASE Finish("fail")
      BY <3>1, RootFinish
    <3>2. CASE ~ Finish("fail")
      BY <1>5, <3>2 DEF MirrorFault, AvoidsRoot, Stage
    <3> QED  BY <3>1, <3>2
  <2> QED  BY <2>1, <2>2
<1>6. CASE EntryFault
  <2>1. NewEntry \in Entries /\ NewEntry.first # Root /\ args.slot \in Slots
    BY <1>6 DEF EntryFault, TypeOK, Ranges, CallOK, Stage, AvoidsRoot,
                NewEntry, Entries, DiskNames, Forms, Kinds
  <2>2. RootIntact'
    <3>1. CASE UNCHANGED dir
      BY <1>6, <3>1 DEF EntryFault, RootIntact
    <3> QED  BY <1>6, <2>1, <3>1, RootEntry DEF EntryFault
  <2> QED  BY <1>6, <2>2, RootFinish DEF EntryFault
<1>7. CASE DataFault
  BY <1>7, RootFinish DEF DataFault, RootIntact
<1>8. CASE Crash
  BY <1>8, RootFinish DEF Crash, RootIntact
<1> QED  BY <1>1, <1>2, <1>3, <1>4, <1>5, <1>6, <1>7, <1>8 DEF Faults

LEMMA RootInit == Init => RootInv
<1> SUFFICES ASSUME Init PROVE RootInv
  OBVIOUS
<1>1. Len(Tree) \in Nat
  BY TreeAssumption
<1>2. RootIntact
  BY <1>1, SizeAssumption, RootConst
  DEF Init, RootIntact, Root, EOC, Free, Blank, FatIndex, Slots
<1> QED  BY <1>2 DEF Init, RootInv, AvoidsRoot, Stage

(* The directory's cluster is never given to a file and never loses its    *)
(* mark in any copy of the FAT, whatever faults and power losses happen.   *)
THEOREM RootNeverLost == Spec => []RootIntact
<1>1. TypeOK /\ RootInv /\ [Next]_vars => RootInv'
  <2>1. RootInv /\ UNCHANGED vars => RootInv'
    BY DEF RootInv, RootIntact, AvoidsRoot, Stage, vars
  <2> QED  BY <2>1, RootCalls, RootContinue, RootFaults DEF Next, Step
<1>2. RootInv => RootIntact
  BY DEF RootInv
<1> QED  BY <1>1, <1>2, RootInit, TypeCorrect, PTL DEF Spec

-----------------------------------------------------------------------------
(* A call that has chosen a slot and not yet written its entry relies on   *)
(* every slot before it being in use.                                      *)
UsedBefore == \A t \in Slots : t < args.slot => Live(t)
SlotChosen == Stage \in {"free", "alloc", "entry"} => UsedBefore
EndInv == EndMarkLast /\ SlotChosen

LEMMA EndFill ==
  ASSUME TypeOK, EndMarkLast, NEW s \in Slots, NEW e \in Entries,
         e.st = "live", dir' = [dir EXCEPT ![s] = e],
         \A t \in Slots : t < s => Live(t)
  PROVE  EndMarkLast'
<1>1. dir \in [Slots -> Entries]
  BY DEF TypeOK, Ranges
<1>2. \A t \in Slots : t < s => dir[t].st # "end"
  BY DEF Live
<1>3. \A t \in Slots : dir'[t] = IF t = s THEN e ELSE dir[t]
  BY <1>1
<1> QED  BY <1>2, <1>3 DEF EndMarkLast

LEMMA EndPut ==
  ASSUME TypeOK, EndMarkLast, NEW s \in Slots, NEW dn \in DiskNames,
         NEW kind \in Kinds, PutEntry(s, dn, kind)
  PROVE  EndMarkLast'
<1> DEFINE e == [st |-> "live", name |-> dn, kind |-> kind, first |-> 0,
                 size |-> 0]
<1>1. e \in Entries
  BY SizeAssumption DEF Entries, FatVal, Free
<1>2. \A t \in Slots : t < s => Live(t)
  BY DEF PutEntry, IsFirst, FreeSlots, Slots
<1> QED  BY <1>1, <1>2, EndFill DEF PutEntry

LEMMA EndRemove ==
  ASSUME TypeOK, EndMarkLast, NEW s \in Slots, NEW dn, RemoveEntry(s, dn)
  PROVE  EndMarkLast'
<1>1. \A t \in Slots : dir'[t] = IF t = s THEN Blank("deleted") ELSE dir[t]
  BY DEF RemoveEntry, TypeOK, Ranges
<1>2. dir[s].st = "live"
  BY DEF RemoveEntry, IsFirst, Named, Live
<1> QED  BY <1>1, <1>2 DEF EndMarkLast, Blank

LEMMA EndFinish ==
  ASSUME NEW r, Finish(r)
  PROVE  SlotChosen'
  BY DEF Finish, SlotChosen, Stage

LEMMA EndEntry ==
  ASSUME TypeOK, EndInv, pc = "entry",
         dir' = [dir EXCEPT ![args.slot] = NewEntry]
  PROVE  EndMarkLast'
<1>1. NewEntry \in Entries /\ NewEntry.st = "live" /\ args.slot \in Slots
  BY DEF TypeOK, Ranges, CallOK, NewEntry, Entries, DiskNames, Forms, Kinds
<1>2. UsedBefore
  BY DEF EndInv, SlotChosen, Stage
<1> QED  BY <1>1, <1>2, EndFill DEF EndInv, UsedBefore

(* Steps that write no entry and stay in the same call.                    *)
LEMMA EndFrame ==
  ASSUME EndInv, UNCHANGED <<dir, args>>,
         Stage' \in {"free", "alloc", "entry"} =>
           Stage \in {"free", "alloc", "entry"}
  PROVE  EndInv'
  BY DEF EndInv, EndMarkLast, SlotChosen, UsedBefore, Live

LEMMA EndNext == TypeOK /\ EndInv /\ [Next]_vars => EndInv'
<1> SUFFICES ASSUME TypeOK, EndInv, [Next]_vars PROVE EndInv'
  OBVIOUS
<1>0. ASSUME NEW r, Finish(r), UNCHANGED dir PROVE EndInv'
  BY <1>0, EndFinish DEF EndInv, EndMarkLast
<1>00. ASSUME Refuse PROVE EndInv'
  BY <1>0, <1>00 DEF Refuse
<1>1. CASE Calls
  <2>1. ASSUME NEW dn \in DiskNames, NEW kind \in Kinds,
               CreateEntry(dn, kind)
        PROVE  EndInv'
    BY <1>00, <2>1, EndPut, EndFinish DEF CreateEntry, EndInv
  <2>2. ASSUME NEW dn \in DiskNames, DeleteFile(dn) PROVE EndInv'
    BY <1>00, <2>2, EndRemove, EndFinish DEF DeleteFile, EndInv
  <2>3. ASSUME NEW n \in Names, NEW v \in Vals, NEW len \in 0 .. MaxLen,
               WriteFile(n, v, len)
        PROVE  EndInv'
    <3>1. ASSUME NEW s \in Slots, IsFirst(s, NamedFat(n) \cup FreeSlots),
                 args'.slot = s, UNCHANGED dir
          PROVE  EndInv'
      <4>1. \A t \in Slots : t < s => Live(t)
        BY <3>1 DEF IsFirst, FreeSlots, Slots
      <4> QED  BY <3>1, <4>1
               DEF EndInv, EndMarkLast, SlotChosen, UsedBefore, Live
    <3> QED  BY <1>00, <2>3, <3>1 DEF WriteFile
  <2> QED  BY <1>1, <2>1, <2>2, <2>3
           DEF Calls, CreateFile, CreateDirectory, Kinds
<1>2. CASE Continue
  <2>1. CASE FreeCluster
    BY <2>1, EndFrame DEF FreeCluster, FatWrite, Stage
  <2>2. CASE AllocateCluster
    <3>1. CASE Refuse
      BY <1>00, <3>1
    <3>2. CASE ~ Refuse
      BY <2>2, <3>2, EndFrame DEF AllocateCluster, FatWrite, Stage
    <3> QED  BY <3>1, <3>2
  <2>3. CASE Mirror
    <3>1. Stage' = Stage
      BY <2>3 DEF Mirror, Stage, TypeOK, Ranges, CallOK, Steps
    <3> QED  BY <2>3, <3>1, EndFrame DEF Mirror
  <2>4. CASE WriteEntry
    <3>1. SlotChosen'
      BY <2>4 DEF WriteEntry, SlotChosen, Stage
    <3> QED  BY <2>4, <3>1, EndEntry DEF WriteEntry, EndInv
  <2>5. CASE WriteData
    <3>1. CASE ~ Refuse
      BY <2>5, <3>1, EndFrame DEF WriteData, Stage
    <3> QED  BY <1>00, <3>1
  <2>6. CASE Link
    BY <2>6, EndFrame DEF Link, FatWrite, Stage
  <2>7. CASE MarkEnd
    BY <2>7, EndFrame DEF MarkEnd, FatWrite, Stage
  <2>8. CASE Return
    BY <1>0, <2>8 DEF Return
  <2> QED  BY <1>2, <2>1, <2>2, <2>3, <2>4, <2>5, <2>6, <2>7, <2>8
           DEF Continue
<1>3. CASE Faults
  <2>1. CASE CallWriteFault
    BY <2>1, EndPut, EndRemove, EndFinish DEF CallWriteFault, EndInv
  <2>2. CASE AllocFault
    BY <2>2, EndFrame DEF AllocFault, Stage
  <2>3. CASE MirrorFault
    <3>1. CASE Finish("fail")
      BY <1>0, <2>3, <3>1 DEF MirrorFault
    <3>2. CASE ~ Finish("fail")
      BY <2>3, <3>2, EndFrame DEF MirrorFault, Stage
    <3> QED  BY <3>1, <3>2
  <2>4. CASE EntryFault
    <3>1. CASE UNCHANGED dir
      BY <1>0, <2>4, <3>1 DEF EntryFault
    <3>2. CASE ~ UNCHANGED dir
      BY <2>4, <3>2, EndEntry, EndFinish DEF EntryFault, EndInv
    <3> QED  BY <3>1, <3>2
  <2>5. CASE ReadFault \/ FatWriteFault \/ DataFault \/ Crash
    BY <1>0, <1>00, <2>5 DEF ReadFault, FatWriteFault, DataFault, Crash
  <2> QED  BY <1>3, <2>1, <2>2, <2>3, <2>4, <2>5 DEF Faults
<1>4. CASE UNCHANGED vars
  BY <1>4, EndFrame DEF vars, Stage
<1> QED  BY <1>1, <1>2, <1>3, <1>4 DEF Next, Step

(* No entry in use ever lies behind an end-of-directory mark, whatever     *)
(* faults and power losses happen: a listing shows every file.             *)
THEOREM ListingComplete == Spec => []EndMarkLast
<1>1. Init => EndInv
  BY TreeAssumption
  DEF Init, EndInv, EndMarkLast, SlotChosen, Stage, Blank, Slots
<1>2. EndInv => EndMarkLast
  BY DEF EndInv
<1> QED  BY <1>1, <1>2, EndNext, TypeCorrect, PTL DEF Spec

-----------------------------------------------------------------------------
(* The chains stay apart and the copies of the FAT agree, as long as no    *)
(* fault interrupts a call.                                                *)

(* Without faults a scan of the FAT starts at its beginning.               *)
ScanFromStart == from = 2
ChainInv == UniqueRefs /\ LinksLive /\ HeldApart /\ ScanFromStart

LEMMA NumFacts ==
  /\ 0 \notin Clusters /\ EOC \notin Clusters /\ EOC # 0 /\ Free = 0
  /\ FatVal = {0, EOC} \cup Clusters
  /\ \A c \in Clusters : c >= 2 /\ c < EOC
  /\ ~ (EOC < EOC)
  BY SizeAssumption DEF Clusters, EOC, Free, FatVal

LEMMA FatType ==
  ASSUME TypeOK
  PROVE  /\ fat \in [Copies -> [FatIndex -> FatVal]]
         /\ \A c \in Clusters : fat[1][c] \in FatVal
         /\ \A s \in Slots : dir[s].first \in FatVal
  BY ConstFacts DEF TypeOK, Ranges, Entries

(* What an update of one entry of the first copy leaves there.             *)
LEMMA FatWriteChain ==
  ASSUME TypeOK, NEW c \in FatIndex, NEW x, NEW then, then # "mirror",
         FatWrite(c, x, then)
  PROVE  /\ fat'[1][c] = x
         /\ \A d \in FatIndex : d # c => fat'[1][d] = fat[1][d]
         /\ Stage' = then /\ pc' = "mirror"
<1>1. 1 \in Copies /\ fat \in [Copies -> [FatIndex -> FatVal]]
  BY ConstFacts, FatType
<1> QED  BY <1>1 DEF FatWrite, Stage

(* The invariant speaks only of these.                                     *)
LEMMA ChainFrame ==
  ASSUME ChainInv, fat'[1] = fat[1], UNCHANGED <<dir, cur, nxt, args, from>>,
         Stage' = Stage
  PROVE  ChainInv'
  BY DEF ChainInv, UniqueRefs, LinksLive, HeldApart, ScanFromStart, Owners,
         BeingReplaced, Live, Allocated, Referenced, Taken

(* A call may end wherever the entry it replaces is gone or was not there. *)
LEMMA ChainFinish ==
  ASSUME ChainInv, UNCHANGED <<fat, dir>>, NEW r, Finish(r),
         Stage \notin {"free", "entry"},
         Stage = "alloc" => ~ Live(args.slot)
  PROVE  ChainInv'
<1>1. Stage' = "idle" /\ from' = 2
  BY DEF Finish, Stage
<1>2. Owners' = Owners
  BY <1>1 DEF Owners, BeingReplaced, Live
<1> QED  BY <1>1, <1>2
         DEF ChainInv, UniqueRefs, LinksLive, HeldApart, ScanFromStart,
             Allocated

-----------------------------------------------------------------------------
LEMMA ChainInit == Init => ChainInv
<1> SUFFICES ASSUME Init PROVE ChainInv
  OBVIOUS
<1>1. /\ Len(Tree) \in Nat /\ Stage = "idle" /\ 1 \in Copies
      /\ \A c \in Clusters : fat[1][c] \in {0, EOC}
  BY TreeAssumption, ConstFacts DEF Init, Stage, Free
<1>2. \A s \in Slots : dir[s].first \in Clusters =>
        dir[s].first = 2 + s /\ s <= Len(Tree)
  BY NumFacts DEF Init, Blank
<1>3. \A s \in Slots : dir[s].first \in Clusters => fat[1][dir[s].first] = EOC
  BY <1>1, <1>2, ConstFacts, SizeAssumption DEF Init, Slots
<1>4. UniqueRefs
  BY <1>1, <1>2, NumFacts, SizeAssumption
  DEF UniqueRefs, Owners, Slots
<1>5. LinksLive
  BY <1>1, <1>3, NumFacts DEF LinksLive, Owners, Allocated
<1> QED  BY <1>1, <1>4, <1>5 DEF ChainInv, HeldApart, ScanFromStart, Init

(* Filling a slot that is not live with an entry that has no cluster, or   *)
(* emptying one, leaves every chain alone.                                 *)
LEMMA ChainSlot ==
  ASSUME TypeOK, ChainInv, pc = "idle", UNCHANGED fat, NEW r, Finish(r),
         NEW s \in Slots, NEW e, e.first = 0,
         dir' = [dir EXCEPT ![s] = e]
  PROVE  ChainInv'
<1>1. Stage = "idle" /\ Stage' = "idle" /\ from' = 2
  BY DEF Finish, Stage
<1>2. Owners' \subseteq Owners \cup {s} /\ dir'[s].first = 0
  BY <1>1 DEF Owners, BeingReplaced, Live, TypeOK, Ranges
<1>3. \A t \in Owners' : dir'[t].first \in Clusters =>
        t \in Owners /\ dir'[t] = dir[t]
  BY <1>2, NumFacts DEF TypeOK, Ranges, Owners
<1> QED  BY <1>1, <1>3
         DEF ChainInv, UniqueRefs, LinksLive, HeldApart, ScanFromStart,
             Allocated

LEMMA ChainCalls == TypeOK /\ ChainInv /\ Calls => ChainInv'
<1> SUFFICES ASSUME TypeOK, ChainInv, Calls PROVE ChainInv'
  OBVIOUS
<1>0. ASSUME Refuse, pc = "idle" PROVE ChainInv'
  BY <1>0, ChainFinish DEF Refuse, Stage
<1>1. ASSUME NEW dn \in DiskNames, NEW kind \in Kinds, CreateEntry(dn, kind)
      PROVE  ChainInv'
  BY <1>0, <1>1, ChainSlot DEF CreateEntry, PutEntry
<1>2. ASSUME NEW dn \in DiskNames, DeleteFile(dn)
      PROVE  ChainInv'
  BY <1>0, <1>2, ChainSlot DEF DeleteFile, RemoveEntry, Blank
<1>3. ASSUME NEW n \in Names, NEW v \in Vals, NEW len \in 0 .. MaxLen,
             WriteFile(n, v, len)
      PROVE  ChainInv'
  <2>0. pc = "idle" /\ Stage = "idle" /\ from = 2
    BY <1>3 DEF WriteFile, Stage, ChainInv, ScanFromStart
  <2>1. CASE Refuse
    BY <1>0, <2>0, <2>1
  <2>2. ASSUME NEW s \in Slots, ~ Live(s), pc' = "alloc", args'.slot = s,
               UNCHANGED <<fat, dir, from>>
        PROVE  ChainInv'
    <3>1. Owners' = Owners /\ Stage' = "alloc" /\ ~ Live(s)'
      BY <2>0, <2>2 DEF Owners, BeingReplaced, Live, Stage
    <3> QED  BY <2>0, <2>2, <3>1
             DEF ChainInv, UniqueRefs, LinksLive, HeldApart, ScanFromStart,
                 Allocated
  <2>3. ASSUME NEW s \in Slots, Live(s), pc' = "free", args'.slot = s,
               cur' = dir[s].first, dir[s].first >= 2, dir[s].first < EOC,
               UNCHANGED <<fat, dir, from>>
        PROVE  ChainInv'
    <3>1. cur' \in Clusters
      BY <2>3, FatType, NumFacts
    <3>2. Owners' = Owners \ {s} /\ Stage' = "free" /\ s \in Owners
      BY <2>0, <2>3 DEF Owners, BeingReplaced, Live, Stage
    <3>3. Allocated(cur)' /\ ~ Referenced(cur)'
      BY <2>3, <3>1, <3>2
      DEF ChainInv, UniqueRefs, LinksLive, Allocated, Referenced
    <3>4. Live(args.slot)' /\ dir'[args'.slot].first = cur'
      BY <2>3 DEF Live
    <3>5. HeldApart'
      BY <3>1, <3>2, <3>3, <3>4 DEF HeldApart
    <3> QED  BY <2>3, <3>2, <3>5
             DEF ChainInv, UniqueRefs, LinksLive, ScanFromStart, Allocated
  <2> QED  BY <1>3, <2>1, <2>2, <2>3 DEF WriteFile
<1> QED  BY <1>1, <1>2, <1>3 DEF Calls, CreateFile, CreateDirectory, Kinds

-----------------------------------------------------------------------------
(* The steps of a call in progress, one by one.                            *)
LEMMA ChainFree == TypeOK /\ ChainInv /\ FreeCluster => ChainInv'
<1> SUFFICES ASSUME TypeOK, ChainInv, FreeCluster PROVE ChainInv'
  OBVIOUS
<1> DEFINE then == IF fat[1][cur] < EOC THEN "free" ELSE "alloc"
           first == dir[args.slot].first
<1>0. Stage = "free" /\ pc = "free"
  BY DEF FreeCluster, Stage
<1>1. /\ cur \in Clusters /\ Allocated(cur) /\ ~ Referenced(cur)
      /\ Live(args.slot) /\ first \in Clusters
      /\ Allocated(first) => cur = first
      /\ args.slot \in Slots
  BY <1>0 DEF ChainInv, HeldApart, TypeOK, CallOK
<1>2. /\ fat'[1][cur] = 0
      /\ \A d \in FatIndex : d # cur => fat'[1][d] = fat[1][d]
      /\ Stage' = then /\ pc' = "mirror"
      /\ cur' = fat[1][cur] /\ UNCHANGED <<dir, args, from>>
  <2>1. cur \in FatIndex /\ FatWrite(cur, Free, then) /\ then # "mirror"
    BY <1>1, ConstFacts DEF FreeCluster
  <2> QED  BY <2>1, FatWriteChain DEF FreeCluster, Free
<1>3. /\ Owners' = Owners /\ args.slot \notin Owners
      /\ \A d \in Clusters : d # cur => fat'[1][d] = fat[1][d]
  BY <1>0, <1>1, <1>2, ConstFacts DEF Owners, BeingReplaced, Live
<1>4. UniqueRefs'
  BY <1>1, <1>2, <1>3, NumFacts DEF ChainInv, UniqueRefs
<1>5. LinksLive'
  BY <1>1, <1>2, <1>3, NumFacts
  DEF ChainInv, LinksLive, Allocated, Referenced
<1>6. ~ Allocated(first)'
  BY <1>1, <1>2, <1>3 DEF Allocated, Free
<1>7. CASE then = "free"
  <2>1. fat[1][cur] \in Clusters
    <3>1. fat[1][cur] \in FatVal /\ fat[1][cur] # 0 /\ fat[1][cur] # EOC
      BY <1>1, <1>7, FatType, NumFacts DEF Allocated
    <3> QED  BY <3>1, NumFacts
  <2>2. fat[1][cur] # cur
    BY <1>1 DEF Referenced
  <2>3. Allocated(cur)'
    BY <1>1, <1>2, <1>3, <2>1, <2>2 DEF ChainInv, LinksLive, Allocated
  <2>4. ~ Referenced(cur)'
    BY <1>1, <1>2, <1>3, <2>1, NumFacts DEF ChainInv, UniqueRefs, Referenced
  <2>5. HeldApart'
    BY <1>1, <1>2, <1>6, <1>7, <2>1, <2>3, <2>4 DEF HeldApart, Live, Allocated
  <2> QED  BY <1>2, <1>4, <1>5, <2>5 DEF ChainInv, ScanFromStart
<1>8. CASE then = "alloc"
  <2>1. HeldApart'
    BY <1>1, <1>2, <1>6, <1>8 DEF HeldApart, Live, Allocated
  <2> QED  BY <1>2, <1>4, <1>5, <2>1 DEF ChainInv, ScanFromStart
<1> QED  BY <1>7, <1>8

LEMMA ChainAllocate == TypeOK /\ ChainInv /\ AllocateCluster => ChainInv'
<1> SUFFICES ASSUME TypeOK, ChainInv, AllocateCluster PROVE ChainInv'
  OBVIOUS
<1>0. Stage = pc /\ pc \in {"alloc", "extend"} /\ from = 2
  BY DEF AllocateCluster, Stage, ChainInv, ScanFromStart
<1>1. CASE DiskFull /\ Refuse
  <2>1. Stage = "alloc" => ~ Live(args.slot)
    BY <1>0, <1>1, NumFacts DEF DiskFull, ChainInv, HeldApart
  <2> QED  BY <1>0, <1>1, <2>1, ChainFinish DEF Refuse
<1>2. ASSUME NEW c \in Clusters, FirstFreeFrom(c), TakeCluster(c), from' = 2,
             FatWrite(c, EOC, IF pc = "alloc" THEN "entry" ELSE "link"),
             UNCHANGED <<dir, args>>
      PROVE  ChainInv'
  <2>1. fat[1][c] = 0
    BY <1>2 DEF FirstFreeFrom, Allocated, Free
  <2>2. /\ fat'[1][c] = EOC
        /\ \A d \in Clusters : d # c => fat'[1][d] = fat[1][d]
        /\ Stage' = IF pc = "alloc" THEN "entry" ELSE "link"
    BY <1>2, FatWriteChain, ConstFacts
  <2>3. Owners' = Owners
    BY <1>0, <1>2, <2>2 DEF Owners, BeingReplaced, Live
  <2>4. ~ Referenced(c) /\ ~ Referenced(c)'
    BY <1>2, <2>1, <2>2, <2>3, NumFacts
    DEF ChainInv, LinksLive, Allocated, Referenced
  <2>5. UniqueRefs'
    BY <1>2, <2>2, <2>3, NumFacts DEF ChainInv, UniqueRefs
  <2>6. LinksLive'
    BY <1>2, <2>2, <2>3, NumFacts DEF ChainInv, LinksLive, Allocated
  <2>7. HeldApart'
    <3>1. CASE pc = "alloc"
      <4>1. cur' = c /\ Stage' = "entry"
        BY <1>2, <2>2, <3>1 DEF TakeCluster
      <4> QED  BY <2>2, <2>4, <4>1 DEF HeldApart, Taken, Referenced
    <3>2. CASE pc = "extend"
      <4>1. nxt' = c /\ cur' = cur /\ Stage' = "link"
        BY <1>2, <2>2, <3>2 DEF TakeCluster
      <4>2. Taken(cur) /\ cur # c
        BY <1>0, <2>1, <3>2, NumFacts DEF ChainInv, HeldApart, Taken
      <4> QED  BY <2>2, <2>4, <4>1, <4>2 DEF HeldApart, Taken, Referenced
    <3> QED  BY <1>0, <3>1, <3>2
  <2> QED  BY <1>2, <2>5, <2>6, <2>7 DEF ChainInv, ScanFromStart
<1> QED  BY <1>1, <1>2 DEF AllocateCluster

LEMMA MirrorFrame ==
  ASSUME TypeOK, Mirror
  PROVE  /\ fat'[1] = fat[1] /\ Stage' = Stage
         /\ UNCHANGED <<dir, cur, nxt, args, from>>
<1>1. wr.copy \in 2 .. NumFats /\ wr.then # "mirror"
  BY DEF Mirror, TypeOK, CallOK, Steps
<1>2. fat'[1] = fat[1]
  BY <1>1, FatType, ConstFacts, SizeAssumption DEF Mirror, MirrorSector
<1>3. Stage' = Stage
  BY <1>1 DEF Mirror, Stage, TypeOK, Ranges
<1> QED  BY <1>2, <1>3 DEF Mirror

LEMMA ChainEntry == TypeOK /\ ChainInv /\ WriteEntry => ChainInv'
<1> SUFFICES ASSUME TypeOK, ChainInv, WriteEntry PROVE ChainInv'
  OBVIOUS
<1>1. Stage = "entry" /\ Stage' \in {"data", "final"} /\ args.slot \in Slots
  BY DEF WriteEntry, Stage, TypeOK, CallOK
<1>2. /\ dir'[args.slot].first = cur
      /\ \A s \in Slots : s # args.slot => dir'[s] = dir[s]
      /\ UNCHANGED <<fat, cur, args, from>>
  BY <1>1 DEF WriteEntry, NewEntry, TypeOK, Ranges
<1>3. Owners' \subseteq Owners \cup {args.slot} /\ args.slot \notin Owners
  BY <1>1, <1>2 DEF Owners, BeingReplaced, Live
<1>4. Taken(cur) /\ ~ Referenced(cur)
  BY <1>1 DEF ChainInv, HeldApart
<1>5. UniqueRefs'
  BY <1>2, <1>3, <1>4 DEF ChainInv, UniqueRefs, Referenced, Owners
<1>6. LinksLive'
  BY <1>2, <1>3, <1>4, NumFacts
  DEF ChainInv, LinksLive, Allocated, Taken, Owners
<1>7. HeldApart'
  BY <1>1, <1>2, <1>4 DEF HeldApart, Taken
<1> QED  BY <1>2, <1>5, <1>6, <1>7 DEF ChainInv, ScanFromStart

LEMMA ChainData == TypeOK /\ ChainInv /\ WriteData => ChainInv'
<1> SUFFICES ASSUME TypeOK, ChainInv, WriteData PROVE ChainInv'
  OBVIOUS
<1>0. Stage = "data"
  BY DEF WriteData, Stage
<1>1. CASE Refuse
  BY <1>0, <1>1, ChainFinish DEF Refuse
<1>2. CASE ~ Refuse
  <2>1. /\ UNCHANGED <<fat, dir, cur, args, from>>
        /\ Stage' \in {"extend", "final"}
    BY <1>2 DEF WriteData, Stage
  <2>2. Owners' = Owners
    BY <1>0, <2>1 DEF Owners, BeingReplaced, Live
  <2>3. HeldApart'
    BY <1>0, <2>1 DEF ChainInv, HeldApart, Taken
  <2> QED  BY <2>1, <2>2, <2>3
           DEF ChainInv, UniqueRefs, LinksLive, ScanFromStart, Allocated
<1> QED  BY <1>1, <1>2

LEMMA ChainLink == TypeOK /\ ChainInv /\ Link => ChainInv'
<1> SUFFICES ASSUME TypeOK, ChainInv, Link PROVE ChainInv'
  OBVIOUS
<1>0. Stage = "link"
  BY DEF Link, Stage
<1>1. Taken(cur) /\ Taken(nxt) /\ nxt # cur /\ ~ Referenced(nxt)
  BY <1>0 DEF ChainInv, HeldApart
<1>2. /\ fat'[1][cur] = nxt
      /\ \A d \in Clusters : d # cur => fat'[1][d] = fat[1][d]
      /\ Stage' = "data"
      /\ cur' = nxt /\ UNCHANGED <<dir, args, from>>
  <2>1. cur \in FatIndex /\ FatWrite(cur, nxt, "data")
    BY <1>1, ConstFacts DEF Link, Taken
  <2> QED  BY <2>1, FatWriteChain, ConstFacts DEF Link
<1>3. Owners' = Owners
  BY <1>0, <1>2 DEF Owners, BeingReplaced, Live
<1>4. UniqueRefs'
  BY <1>1, <1>2, <1>3 DEF ChainInv, UniqueRefs, Referenced, Taken
<1>5. LinksLive'
  BY <1>1, <1>2, <1>3, NumFacts DEF ChainInv, LinksLive, Allocated, Taken, Owners
<1>6. HeldApart'
  BY <1>1, <1>2 DEF HeldApart, Taken
<1> QED  BY <1>2, <1>4, <1>5, <1>6 DEF ChainInv, ScanFromStart

LEMMA ChainMarkEnd == TypeOK /\ ChainInv /\ MarkEnd => ChainInv'
<1> SUFFICES ASSUME TypeOK, ChainInv, MarkEnd PROVE ChainInv'
  OBVIOUS
<1>1. Stage = "final" /\ Taken(cur)
  BY DEF MarkEnd, Stage, ChainInv, HeldApart
<1>2. /\ fat'[1][cur] = EOC
      /\ \A d \in Clusters : d # cur => fat'[1][d] = fat[1][d]
      /\ Stage' = "return" /\ UNCHANGED <<dir, args, from>>
  <2>1. cur \in FatIndex /\ FatWrite(cur, EOC, "return")
    BY <1>1, ConstFacts DEF MarkEnd, Taken
  <2> QED  BY <2>1, FatWriteChain, ConstFacts DEF MarkEnd
<1>3. \A d \in Clusters : fat'[1][d] = fat[1][d]
  BY <1>1, <1>2 DEF Taken
<1>4. Owners' = Owners
  BY <1>1, <1>2 DEF Owners, BeingReplaced, Live
<1>5. UniqueRefs'
  BY <1>2, <1>3, <1>4 DEF ChainInv, UniqueRefs
<1>6. LinksLive'
  BY <1>2, <1>3, <1>4 DEF ChainInv, LinksLive, Allocated, Owners
<1> QED  BY <1>2, <1>5, <1>6 DEF ChainInv, HeldApart, ScanFromStart

LEMMA ChainNext == TypeOK /\ ChainInv /\ [Step]_vars => ChainInv'
<1> SUFFICES ASSUME TypeOK, ChainInv, [Step]_vars PROVE ChainInv'
  OBVIOUS
<1>1. CASE Calls
  BY <1>1, ChainCalls
<1>2. CASE Continue
  <2>1. CASE Mirror
    BY <2>1, MirrorFrame, ChainFrame
  <2>2. CASE Return
    BY <2>2, ChainFinish DEF Return, Stage
  <2> QED  BY <1>2, <2>1, <2>2, ChainFree, ChainAllocate, ChainEntry, ChainData,
              ChainLink, ChainMarkEnd DEF Continue
<1>3. CASE UNCHANGED vars
  <2>1. fat'[1] = fat[1] /\ Stage' = Stage
    BY <1>3 DEF vars, Stage
  <2> QED  BY <1>3, <2>1, ChainFrame DEF vars
<1> QED  BY <1>1, <1>2, <1>3 DEF Step

LEMMA SafeType == SafeSpec => []TypeOK
<1>1. TypeOK /\ [Step]_vars => TypeOK'
  BY NextType DEF Next
<1> QED  BY <1>1, InitType, PTL DEF SafeSpec

LEMMA SafeChains == SafeSpec => []ChainInv
  BY ChainInit, ChainNext, SafeType, PTL DEF SafeSpec

(* No two files share a cluster: whatever calls are made, as long as no    *)
(* fault interrupts one, no two directory entries and no two links of the  *)
(* FAT lead to one cluster.                                                *)
THEOREM ChainsApart == SafeSpec => []UniqueRefs
<1>1. ChainInv => UniqueRefs
  BY DEF ChainInv
<1> QED  BY <1>1, SafeChains, PTL

(* No chain leads to a free cluster, which the next allocate_cluster would *)
(* hand out a second time.                                                 *)
THEOREM ChainsAllocated == SafeSpec => []LinksLive
<1>1. ChainInv => LinksLive
  BY DEF ChainInv
<1> QED  BY <1>1, SafeChains, PTL

(* The cluster that fat32_write_file has allocated and not yet linked is   *)
(* named by no entry and no link.                                          *)
THEOREM AllocatedIsOwn == SafeSpec => []HeldApart
<1>1. ChainInv => HeldApart
  BY DEF ChainInv
<1> QED  BY <1>1, SafeChains, PTL

-----------------------------------------------------------------------------
(* The copies of the FAT.                                                  *)
LEMMA MirrorFatWrite ==
  ASSUME TypeOK, MirrorsAgree, pc # "mirror",
         NEW c \in FatIndex, NEW x, NEW then, FatWrite(c, x, then)
  PROVE  MirrorsAgree'
<1>1. /\ pc' = "mirror" /\ wr'.cl = c /\ wr'.copy = 2
      /\ \A k \in Copies : k # 1 => fat'[k] = fat[k] /\ k >= 2
      /\ \A d \in FatIndex : d # c => fat'[1][d] = fat[1][d]
  BY FatType, ConstFacts DEF FatWrite, Copies
<1>2. \A k \in Copies, d \in FatIndex : fat[k][d] = fat[1][d]
  BY DEF MirrorsAgree
<1> QED  BY <1>1, <1>2 DEF MirrorsAgree

LEMMA MirrorStays ==
  ASSUME MirrorsAgree, UNCHANGED fat, pc # "mirror"
  PROVE  MirrorsAgree'
  BY DEF MirrorsAgree

LEMMA MirrorNext == TypeOK /\ MirrorsAgree /\ [Step]_vars => MirrorsAgree'
<1> SUFFICES ASSUME TypeOK, MirrorsAgree, [Step]_vars PROVE MirrorsAgree'
  OBVIOUS
<1>0. ASSUME Refuse, pc # "mirror" PROVE MirrorsAgree'
  BY <1>0, MirrorStays DEF Refuse
<1>1. CASE Calls
  BY <1>0, <1>1, MirrorStays
  DEF Calls, CreateFile, CreateDirectory, CreateEntry, DeleteFile, WriteFile,
      PutEntry, RemoveEntry
<1>2. CASE FreeCluster
  <2>1. cur \in FatIndex /\ pc # "mirror"
    BY <1>2, ConstFacts DEF FreeCluster, TypeOK, Ranges, CallOK, Stage
  <2> QED  BY <1>2, <2>1, MirrorFatWrite DEF FreeCluster
<1>3. CASE AllocateCluster
  BY <1>0, <1>3, MirrorFatWrite, ConstFacts DEF AllocateCluster
<1>4. CASE Mirror
  <2>1. wr.copy \in 2 .. NumFats /\ wr.copy \in Copies /\ 1 # wr.copy
    BY <1>4, SizeAssumption DEF Mirror, TypeOK, CallOK, Copies
  <2>2. \A c \in FatIndex :
          /\ fat'[1][c] = fat[1][c]
          /\ fat'[wr.copy][c] = fat[1][c] \/ fat'[wr.copy][c] = fat[wr.copy][c]
          /\ c = wr.cl => fat'[wr.copy][c] = fat[1][c]
          /\ \A k \in Copies : k # wr.copy => fat'[k][c] = fat[k][c]
    BY <1>4, <2>1, FatType, ConstFacts DEF Mirror, MirrorSector
  <2>3. \A k \in Copies, c \in FatIndex :
          fat'[k][c] # fat'[1][c] => c = wr.cl /\ k >= wr.copy + 1
    <3> SUFFICES ASSUME NEW k \in Copies, NEW c \in FatIndex,
                        fat'[k][c] # fat'[1][c]
                 PROVE  c = wr.cl /\ k >= wr.copy + 1
      OBVIOUS
    <3>1. fat[k][c] # fat[1][c]
      BY <2>2
    <3>2. c = wr.cl /\ k >= wr.copy
      BY <3>1 DEF MirrorsAgree
    <3>3. k # wr.copy
      BY <2>2, <3>2
    <3> QED  BY <2>1, <3>2, <3>3 DEF Copies
  <2>4. CASE wr.copy < NumFats
    BY <1>4, <2>3, <2>4 DEF Mirror, MirrorsAgree, TypeOK, Ranges
  <2>5. CASE wr.copy = NumFats
    BY <2>1, <2>3, <2>5 DEF MirrorsAgree, Copies
  <2> QED  BY <1>4, <2>4, <2>5 DEF Mirror
<1>5. CASE WriteEntry
  BY <1>5, MirrorStays DEF WriteEntry
<1>6. CASE WriteData
  BY <1>0, <1>6, MirrorStays DEF WriteData
<1>7. CASE Link
  <2>1. cur \in FatIndex /\ pc # "mirror"
    BY <1>7, ConstFacts DEF Link, TypeOK, Ranges, CallOK, Stage
  <2> QED  BY <1>7, <2>1, MirrorFatWrite DEF Link
<1>8. CASE MarkEnd
  <2>1. cur \in FatIndex /\ pc # "mirror"
    BY <1>8, ConstFacts DEF MarkEnd, TypeOK, Ranges, CallOK, Stage
  <2> QED  BY <1>8, <2>1, MirrorFatWrite DEF MarkEnd
<1>9. CASE Return
  BY <1>9, MirrorStays DEF Return
<1>10. CASE UNCHANGED vars
  BY <1>10 DEF vars, MirrorsAgree
<1> QED  BY <1>1, <1>2, <1>3, <1>4, <1>5, <1>6, <1>7, <1>8, <1>9, <1>10
         DEF Step, Continue

(* Between the writes of fat32_write_fat_entry all copies of the FAT are   *)
(* equal, as long as no fault interrupts a call.                           *)
THEOREM CopiesAgree == SafeSpec => []MirrorsAgree
<1>1. Init => MirrorsAgree
  BY ConstFacts DEF Init, MirrorsAgree
<1> QED  BY <1>1, MirrorNext, SafeType, PTL DEF SafeSpec

-----------------------------------------------------------------------------
(* The work of the call in progress, whatever has failed before it.        *)

(* The entry is written and the chain is under way.                        *)
Filled == Stage \in {"data", "extend", "link", "final", "return"}

(* The first n clusters of the file being written, as its chain has them.  *)
Growing(n, at) ==
  /\ at \in [1 .. n -> Clusters]
  /\ at[1] = dir[args.slot].first /\ at[n] = cur
  /\ \A i \in 1 .. n : i < n => fat[1][at[i]] = at[i + 1]
  /\ \A i \in 1 .. n :
       i <= done => at[i] <= DiskEnd /\ data[at[i]] = <<args.val, i>>

(* How far it is: the data of the last cluster are written or come next.   *)
Reached(n) ==
  /\ n = done \/ n = done + 1
  /\ Stage = "data" => n = done + 1
  /\ Stage \in {"extend", "link"} => n = done
  /\ Stage \in {"final", "return"} => done = args.len

(* A call's own work is right, whatever earlier faults have left: what it  *)
(* has marked stays marked, and the chain it builds is that of its entry.  *)
OwnWork ==
  /\ Stage \in {"entry", "data", "extend", "link", "final"} => Taken(cur)
  /\ Stage = "link" => Taken(nxt) /\ nxt # cur
  /\ Filled =>
       /\ Live(args.slot) /\ dir[args.slot].kind = "file"
       /\ dir[args.slot].name = <<args.name, "fat">>
       /\ dir[args.slot].size = args.len
       /\ \E n \in 1 .. MaxLen + 1 :
            Reached(n) /\ \E at \in [1 .. n -> Clusters] : Growing(n, at)

(* What is reported as written is listed, and is not being written.        *)
SavedListed ==
  /\ \A s \in Slots : saved[s] # None => Live(s)
  /\ pc # "idle" => saved[args.slot] = None

(* The two entries of the FAT that belong to no cluster lead to none.      *)
LowEntries == \A c \in FatIndex \ Clusters : fat[1][c] \notin Clusters

(* No set of clusters is closed under the links.                           *)
WayOut ==
  \A S \in SUBSET Clusters : S # {} => \E c \in S : fat[1][c] \notin S

WriterInv == OwnWork /\ SavedListed /\ LowEntries /\ WayOut

-----------------------------------------------------------------------------
(* The first copy, and the other variables the invariant speaks of, after  *)
(* a step that leaves it alone.                                            *)
LEMMA RowType ==
  ASSUME TypeOK
  PROVE  fat[1] \in [FatIndex -> FatVal]
  BY FatType, ConstFacts

LEMMA WriterFrame ==
  ASSUME WriterInv, fat'[1] = fat[1], Stage' = Stage,
         UNCHANGED <<dir, data, cur, nxt, args, done, saved>>,
         pc' # "idle" => pc # "idle"
  PROVE  WriterInv'
<1>1. LowEntries' /\ WayOut'
  BY DEF WriterInv, LowEntries, WayOut
<1>2. SavedListed'
  BY DEF WriterInv, SavedListed, Live
<1>3. ASSUME Filled, NEW n \in 1 .. MaxLen + 1, Reached(n),
             NEW at \in [1 .. n -> Clusters], Growing(n, at)
      PROVE  Reached(n)' /\ Growing(n, at)'
  BY <1>3 DEF Reached, Growing
<1>4. OwnWork'
  BY <1>3 DEF WriterInv, OwnWork, Filled, Taken, Live
<1> QED  BY <1>1, <1>2, <1>4 DEF WriterInv

(* One link changed: to no cluster, or to one that ends a chain.           *)
LEMMA LinkChanged ==
  ASSUME LowEntries, WayOut, NEW c \in FatIndex, NEW x,
         \/ x \notin Clusters
         \/ c \in Clusters /\ x # c /\ fat[1][x] \notin Clusters,
         fat'[1][c] = x,
         \A d \in FatIndex : d # c => fat'[1][d] = fat[1][d]
  PROVE  LowEntries' /\ WayOut'
<1>1. LowEntries'
  BY DEF LowEntries
<1>2. ASSUME NEW S \in SUBSET Clusters, S # {}
      PROVE  \E d \in S : fat'[1][d] \notin S
  <2>1. Clusters \subseteq FatIndex
    BY ConstFacts
  <2>2. PICK d \in S : fat[1][d] \notin S
    BY <1>2 DEF WayOut
  <2>3. CASE c \notin S
    BY <2>1, <2>2, <2>3
  <2>4. CASE c \in S /\ x \notin S
    BY <2>4
  <2>5. CASE c \in S /\ x \in S
    BY <2>1, <2>5
  <2> QED  BY <2>3, <2>4, <2>5
<1> QED  BY <1>1, <1>2 DEF WayOut

LEMMA LinksSame ==
  ASSUME LowEntries, WayOut, fat'[1] = fat[1]
  PROVE  LowEntries' /\ WayOut'
  BY DEF LowEntries, WayOut

(* When the call is over, or has yet to mark a cluster, nothing is claimed *)
(* of its own work.                                                        *)
LEMMA NoWork ==
  ASSUME Stage' \in {"idle", "free", "alloc"}
  PROVE  OwnWork'
  BY DEF OwnWork, Filled

LEMMA FinishStage ==
  ASSUME NEW r, Finish(r)
  PROVE  Stage' = "idle" /\ pc' = "idle" /\ OwnWork'
<1>1. Stage' = "idle" /\ pc' = "idle"
  BY DEF Finish, Stage
<1> QED  BY <1>1, NoWork

(* The clusters of the chain are marked, and only the last one ends it.    *)
LEMMA GrowingMarked ==
  ASSUME Taken(cur), NEW n \in Nat \ {0}, NEW at \in [1 .. n -> Clusters],
         Growing(n, at), NEW i \in 1 .. n
  PROVE  /\ fat[1][at[i]] # Free
         /\ i < n => at[i] # cur
<1>1. CASE i = n
  BY <1>1, NumFacts DEF Growing, Taken
<1>2. CASE i < n
  <2>1. fat[1][at[i]] = at[i + 1] /\ at[i + 1] \in Clusters
    BY <1>2 DEF Growing
  <2> QED  BY <2>1, NumFacts DEF Taken
<1> QED  BY <1>1, <1>2

LEMMA WriterInit == Init => WriterInv
<1> SUFFICES ASSUME Init PROVE WriterInv
  OBVIOUS
<1>1. /\ Stage = "idle" /\ 1 \in Copies /\ Clusters \subseteq FatIndex
      /\ \A c \in FatIndex : fat[1][c] \notin Clusters
  BY NumFacts, ConstFacts DEF Init, Stage, Free
<1>2. OwnWork
  BY <1>1 DEF OwnWork, Filled
<1>3. SavedListed
  BY DEF Init, SavedListed, Live
<1>4. LowEntries /\ WayOut
  BY <1>1 DEF LowEntries, WayOut
<1> QED  BY <1>2, <1>3, <1>4 DEF WriterInv

LEMMA WriterCalls == TypeOK /\ WriterInv /\ Calls => WriterInv'
<1> SUFFICES ASSUME TypeOK, WriterInv, Calls PROVE WriterInv'
  OBVIOUS
<1>0. UNCHANGED fat
  BY DEF Calls, CreateFile, CreateDirectory, CreateEntry, DeleteFile,
         WriteFile, PutEntry, RemoveEntry, Refuse
<1>1. LowEntries' /\ WayOut'
  BY <1>0, LinksSame DEF WriterInv
<1>2. ASSUME Refuse PROVE WriterInv'
  BY <1>1, <1>2, FinishStage DEF Refuse, WriterInv, SavedListed, Live
<1>3. ASSUME NEW dn \in DiskNames, NEW kind \in Kinds, CreateEntry(dn, kind)
      PROVE  WriterInv'
  <2>1. ASSUME NEW s \in Slots, PutEntry(s, dn, kind), Finish("ok"),
               saved' = [saved EXCEPT ![s] = << >>]
        PROVE  WriterInv'
    <3>1. SavedListed'
      BY <2>1, FinishStage
      DEF WriterInv, SavedListed, Live, PutEntry, TypeOK, Ranges
    <3> QED  BY <1>1, <2>1, <3>1, FinishStage DEF WriterInv
  <2> QED  BY <1>2, <1>3, <2>1 DEF CreateEntry
<1>4. ASSUME NEW dn \in DiskNames, DeleteFile(dn)
      PROVE  WriterInv'
  <2>1. ASSUME NEW s \in Slots, RemoveEntry(s, dn), Finish("ok")
        PROVE  WriterInv'
    <3>1. SavedListed'
      BY <2>1, FinishStage
      DEF WriterInv, SavedListed, Live, RemoveEntry, TypeOK, Ranges
    <3> QED  BY <1>1, <2>1, <3>1, FinishStage DEF WriterInv
  <2> QED  BY <1>2, <1>4, <2>1 DEF DeleteFile
<1>5. ASSUME NEW n \in Names, NEW v \in Vals, NEW len \in 0 .. MaxLen,
             WriteFile(n, v, len)
      PROVE  WriterInv'
  <2>1. CASE ~ Refuse
    <3>1. PICK s \in Slots :
            /\ args' = [name |-> n, val |-> v, len |-> len, slot |-> s]
            /\ UNCHANGED dir
            /\ \/ ~ Live(s) /\ pc' = "alloc" /\ UNCHANGED saved
               \/ pc' = "free" /\ saved' = [saved EXCEPT ![s] = None]
      BY <1>5, <2>1 DEF WriteFile
    <3>2. OwnWork'
      BY <3>1, NoWork DEF Stage
    <3>3. SavedListed'
      BY <3>1 DEF WriterInv, SavedListed, Live, TypeOK, Ranges
    <3> QED  BY <1>1, <3>2, <3>3 DEF WriterInv
  <2> QED  BY <1>2, <2>1
<1> QED  BY <1>3, <1>4, <1>5 DEF Calls, CreateFile, CreateDirectory, Kinds

(* An allocation marks a free cluster; the chain under way stays.          *)
LEMMA WriterMarks ==
  ASSUME TypeOK, WriterInv, pc \in {"alloc", "extend"},
         NEW c \in Clusters, fat[1][c] = Free, fat'[1][c] \in {Free, EOC},
         \A d \in FatIndex : d # c => fat'[1][d] = fat[1][d],
         UNCHANGED <<dir, data, args, done, saved>>,
         pc = "extend" => UNCHANGED cur,
         \/ Stage' = pc
         \/ Stage' = "entry" /\ pc = "alloc" /\ Taken(cur)'
         \/ Stage' = "link" /\ pc = "extend" /\ nxt' = c /\ Taken(nxt)'
  PROVE  WriterInv'
<1>0. Stage = pc /\ pc # "idle"
  BY DEF Stage
<1>1. LowEntries' /\ WayOut'
  BY LinkChanged, ConstFacts, NumFacts DEF WriterInv
<1>2. SavedListed'
  BY <1>0 DEF WriterInv, SavedListed, Live
<1>3. OwnWork'
  <2>1. CASE pc = "alloc"
    BY <2>1 DEF OwnWork, Filled
  <2>2. CASE pc = "extend"
    <3>0. Stage = "extend" /\ Stage' \in {"extend", "link"} /\ cur' = cur
      BY <1>0, <2>2
    <3>1. /\ Taken(cur) /\ Live(args.slot) /\ dir[args.slot].kind = "file"
          /\ dir[args.slot].name = <<args.name, "fat">>
          /\ dir[args.slot].size = args.len
      BY <3>0 DEF WriterInv, OwnWork, Filled
    <3>2. PICK n \in 1 .. MaxLen + 1 :
            Reached(n) /\ \E at \in [1 .. n -> Clusters] : Growing(n, at)
      BY <3>0 DEF WriterInv, OwnWork, Filled
    <3>3. PICK at \in [1 .. n -> Clusters] : Growing(n, at)
      BY <3>2
    <3>4. c # cur /\ Taken(cur)'
      BY <3>0, <3>1, ConstFacts, NumFacts DEF Taken
    <3>5. n \in Nat \ {0} /\ n = done
      BY <3>0, <3>2 DEF Reached
    <3>6. \A i \in 1 .. n : fat'[1][at[i]] = fat[1][at[i]]
      <4> TAKE i \in 1 .. n
      <4>1. at[i] \in FatIndex /\ at[i] # c
        BY <3>1, <3>3, <3>5, GrowingMarked, ConstFacts
      <4> QED  BY <4>1
    <3>7. Growing(n, at)'
      BY <3>0, <3>3, <3>6 DEF Growing
    <3>8. Reached(n)'
      BY <3>0, <3>5 DEF Reached
    <3>9. Stage' = "link" => Taken(nxt)' /\ nxt' # cur'
      BY <3>0, <3>4
    <3> QED  BY <3>0, <3>1, <3>3, <3>4, <3>7, <3>8, <3>9
             DEF OwnWork, Filled, Live
  <2> QED  BY <2>1, <2>2
<1> QED  BY <1>1, <1>2, <1>3 DEF WriterInv

(* What a step leaves alone that ends the call: the invariant holds again. *)
LEMMA WriterEnds ==
  ASSUME WriterInv, LowEntries', WayOut', NEW r, Finish(r), UNCHANGED saved,
         \A s \in Slots : Live(s) => Live(s)'
  PROVE  WriterInv'
<1>1. Stage' = "idle" /\ pc' = "idle" /\ OwnWork'
  BY FinishStage
<1> QED  BY <1>1 DEF WriterInv, SavedListed

LEMMA WriterEntry == TypeOK /\ WriterInv /\ WriteEntry => WriterInv'
<1> SUFFICES ASSUME TypeOK, WriterInv, WriteEntry PROVE WriterInv'
  OBVIOUS
<1>1. Stage = "entry" /\ Stage' = pc' /\ pc' \in {"data", "final"}
  BY DEF WriteEntry, Stage
<1>2. Taken(cur) /\ args.slot \in Slots /\ pc # "idle"
  BY <1>1 DEF WriterInv, OwnWork, WriteEntry, TypeOK, CallOK
<1>3. /\ dir'[args.slot] = NewEntry
      /\ \A s \in Slots : s # args.slot => dir'[s] = dir[s]
      /\ UNCHANGED <<fat, data, cur, args, saved>> /\ done' = 0
      /\ Stage' = "final" => args.len = 0
  BY <1>1, <1>2 DEF WriteEntry, TypeOK, Ranges
<1>4. LowEntries' /\ WayOut'
  BY <1>3, LinksSame DEF WriterInv
<1>5. SavedListed'
  BY <1>2, <1>3 DEF WriterInv, SavedListed, Live
<1>6. OwnWork'
  <2>1. PICK one \in [1 .. 1 -> Clusters] : one[1] = cur
    <3>1. /\ [i \in 1 .. 1 |-> cur] \in [1 .. 1 -> Clusters]
          /\ [i \in 1 .. 1 |-> cur][1] = cur
      BY <1>2 DEF Taken
    <3> QED  BY <3>1
  <2>2. Growing(1, one)'
    BY <1>2, <1>3, <2>1 DEF Growing, NewEntry
  <2>3. Reached(1)'
    BY <1>1, <1>3 DEF Reached
  <2>4. \E n \in 1 .. MaxLen + 1 :
          Reached(n)' /\ \E at \in [1 .. n -> Clusters] : Growing(n, at)'
    <3>1. 1 \in 1 .. MaxLen + 1
      BY SizeAssumption
    <3> QED  BY <2>1, <2>2, <2>3, <3>1, Zenon
  <2>5. Taken(cur)'
    BY <1>2, <1>3 DEF Taken
  <2> QED  BY <1>1, <1>3, <2>4, <2>5 DEF OwnWork, Filled, Live, NewEntry
<1> QED  BY <1>4, <1>5, <1>6 DEF WriterInv

LEMMA WriterData ==
  ASSUME TypeOK, WriterInv, pc = "data", cur <= DiskEnd,
         data' = [data EXCEPT ![cur] = <<args.val, done + 1>>],
         done' = done + 1,
         pc' = IF done + 1 < args.len THEN "extend" ELSE "final",
         UNCHANGED <<fat, dir, args, cur, saved>>
  PROVE  WriterInv'
<1>1. Stage = "data" /\ Stage' = pc' /\ pc' \in {"extend", "final"}
  BY DEF Stage
<1>2. /\ Taken(cur) /\ Live(args.slot) /\ dir[args.slot].kind = "file"
      /\ dir[args.slot].name = <<args.name, "fat">>
      /\ dir[args.slot].size = args.len /\ args.slot \in Slots
  BY <1>1 DEF WriterInv, OwnWork, Filled, TypeOK, CallOK
<1>3. PICK n \in 1 .. MaxLen + 1 :
        Reached(n) /\ \E at \in [1 .. n -> Clusters] : Growing(n, at)
  BY <1>1 DEF WriterInv, OwnWork, Filled
<1>4. PICK at \in [1 .. n -> Clusters] : Growing(n, at)
  BY <1>3
<1>5. n = done + 1 /\ done < args.len /\ done \in Nat /\ args.len \in Nat
  BY <1>1, <1>3 DEF Reached, TypeOK, Ranges, CallOK
<1>6. Growing(n, at)'
  <2>1. ASSUME NEW i \in 1 .. n
        PROVE  at[i] <= DiskEnd /\ data'[at[i]] = <<args.val, i>>
    <3>1. CASE i = n
      <4>1. at[i] = cur /\ cur \in Clusters /\ i = done + 1
        BY <1>2, <1>4, <1>5, <3>1 DEF Growing, Taken
      <4> QED  BY <4>1 DEF TypeOK, Ranges
    <3>2. CASE i < n
      <4>1. at[i] # cur /\ at[i] \in Clusters
        BY <1>2, <1>4, <1>5, <3>2, GrowingMarked
      <4>2. i <= done
        BY <1>5, <3>2
      <4>3. at[i] <= DiskEnd /\ data[at[i]] = <<args.val, i>>
        BY <1>4, <4>2 DEF Growing
      <4> QED  BY <4>1, <4>3 DEF TypeOK, Ranges
    <3> QED  BY <1>5, <3>1, <3>2
  <2> QED  BY <1>4, <2>1 DEF Growing
<1>7. Reached(n)'
  <2>1. pc' = "final" => done + 1 = args.len
    BY <1>5
  <2> QED  BY <1>1, <1>5, <2>1 DEF Reached
<1>8. LowEntries' /\ WayOut'
  BY LinksSame DEF WriterInv
<1>9. SavedListed'
  BY DEF WriterInv, SavedListed, Live
<1>10. Taken(cur)'
  BY <1>2 DEF Taken
<1>11. OwnWork'
  BY <1>1, <1>2, <1>3, <1>4, <1>6, <1>7, <1>10 DEF OwnWork, Filled, Live
<1> QED  BY <1>8, <1>9, <1>11 DEF WriterInv

LEMMA WriterLink == TypeOK /\ WriterInv /\ Link => WriterInv'
<1> SUFFICES ASSUME TypeOK, WriterInv, Link PROVE WriterInv'
  OBVIOUS
<1>1. Stage = "link" /\ pc # "idle"
  BY DEF Link, Stage
<1>2. /\ Taken(cur) /\ Taken(nxt) /\ nxt # cur
      /\ Live(args.slot) /\ dir[args.slot].kind = "file"
      /\ dir[args.slot].name = <<args.name, "fat">>
      /\ dir[args.slot].size = args.len
  BY <1>1 DEF WriterInv, OwnWork, Filled
<1>3. /\ fat'[1][cur] = nxt
      /\ \A d \in FatIndex : d # cur => fat'[1][d] = fat[1][d]
      /\ Stage' = "data" /\ pc' = "mirror"
      /\ cur' = nxt /\ UNCHANGED <<dir, data, args, done, saved>>
  <2>1. cur \in FatIndex /\ FatWrite(cur, nxt, "data")
    BY <1>2, ConstFacts DEF Link, Taken
  <2> QED  BY <2>1, FatWriteChain DEF Link
<1>4. LowEntries' /\ WayOut'
  BY <1>2, <1>3, LinkChanged, ConstFacts, NumFacts DEF WriterInv, Taken
<1>5. SavedListed'
  BY <1>1, <1>3 DEF WriterInv, SavedListed, Live
<1>6. Taken(cur)'
  BY <1>2, <1>3, ConstFacts DEF Taken
<1>7. PICK n \in 1 .. MaxLen + 1 :
        Reached(n) /\ \E at \in [1 .. n -> Clusters] : Growing(n, at)
  BY <1>1 DEF WriterInv, OwnWork, Filled
<1>8. PICK at \in [1 .. n -> Clusters] : Growing(n, at)
  BY <1>7
<1>9. /\ n = done /\ done < args.len /\ args.len \in 0 .. MaxLen
      /\ n \in Nat \ {0} /\ MaxLen \in Nat /\ n + 1 \in 1 .. MaxLen + 1
  BY <1>1, <1>7, SizeAssumption DEF Reached, TypeOK, Ranges, CallOK
<1>10. PICK longer \in [1 .. n + 1 -> Clusters] :
         longer[n + 1] = nxt /\ \A i \in 1 .. n : longer[i] = at[i]
  <2> DEFINE next == [i \in 1 .. n + 1 |-> IF i = n + 1 THEN nxt ELSE at[i]]
  <2>1. /\ next \in [1 .. n + 1 -> Clusters] /\ next[n + 1] = nxt
        /\ \A i \in 1 .. n : next[i] = at[i]
    BY <1>2, <1>9 DEF Taken
  <2> HIDE DEF next
  <2> QED  BY <2>1
<1>11. Growing(n + 1, longer)'
  <2>1. longer[1] = dir'[args'.slot].first
    BY <1>3, <1>8, <1>9, <1>10 DEF Growing
  <2>2. \A i \in 1 .. n + 1 : i < n + 1 => fat'[1][longer[i]] = longer[i + 1]
    <3> SUFFICES ASSUME NEW i \in 1 .. n
                 PROVE  fat'[1][at[i]] = longer[i + 1]
      BY <1>9, <1>10
    <3>1. CASE i = n
      BY <1>3, <1>8, <1>9, <1>10, <3>1 DEF Growing
    <3>2. CASE i < n
      <4>1. at[i] # cur /\ at[i] \in FatIndex
        BY <1>2, <1>8, <1>9, <3>2, GrowingMarked, ConstFacts
      <4>2. i + 1 \in 1 .. n
        BY <1>9, <3>2
      <4> QED  BY <1>3, <1>8, <1>10, <3>2, <4>1, <4>2 DEF Growing
    <3> QED  BY <1>9, <3>1, <3>2
  <2>3. \A i \in 1 .. n + 1 :
          i <= done' => longer[i] <= DiskEnd /\ data'[longer[i]] = <<args'.val, i>>
    BY <1>3, <1>8, <1>9, <1>10 DEF Growing
  <2> QED  BY <1>3, <1>10, <2>1, <2>2, <2>3 DEF Growing
<1>12. Reached(n + 1)'
  BY <1>3, <1>9 DEF Reached
<1>13. \E m \in 1 .. MaxLen + 1 :
          Reached(m)' /\ \E a \in [1 .. m -> Clusters] : Growing(m, a)'
  BY <1>9, <1>10, <1>11, <1>12
<1>14. OwnWork'
  BY <1>2, <1>3, <1>6, <1>13 DEF OwnWork, Filled, Live
<1> QED  BY <1>4, <1>5, <1>14 DEF WriterInv

LEMMA WriterMarkEnd == TypeOK /\ WriterInv /\ MarkEnd => WriterInv'
<1> SUFFICES ASSUME TypeOK, WriterInv, MarkEnd PROVE WriterInv'
  OBVIOUS
<1>1. Stage = "final" /\ pc # "idle"
  BY DEF MarkEnd, Stage
<1>2. Taken(cur)
  BY <1>1 DEF WriterInv, OwnWork
<1>3. /\ fat'[1][cur] = EOC
      /\ \A d \in FatIndex : d # cur => fat'[1][d] = fat[1][d]
      /\ Stage' = "return" /\ pc' = "mirror"
      /\ UNCHANGED <<dir, data, cur, nxt, args, done, saved>>
  <2>1. cur \in FatIndex /\ FatWrite(cur, EOC, "return")
    BY <1>2, ConstFacts DEF MarkEnd, Taken
  <2> QED  BY <2>1, FatWriteChain DEF MarkEnd
<1>4. \A d \in FatIndex : fat'[1][d] = fat[1][d]
  BY <1>2, <1>3 DEF Taken
<1>5. LowEntries' /\ WayOut'
  BY <1>4, ConstFacts DEF WriterInv, LowEntries, WayOut
<1>6. SavedListed'
  BY <1>1, <1>3 DEF WriterInv, SavedListed, Live
<1>7. /\ Live(args.slot) /\ dir[args.slot].kind = "file"
      /\ dir[args.slot].name = <<args.name, "fat">>
      /\ dir[args.slot].size = args.len
  BY <1>1 DEF WriterInv, OwnWork, Filled
<1>8. PICK n \in 1 .. MaxLen + 1 :
        Reached(n) /\ \E at \in [1 .. n -> Clusters] : Growing(n, at)
  BY <1>1 DEF WriterInv, OwnWork, Filled
<1>9. PICK at \in [1 .. n -> Clusters] : Growing(n, at)
  BY <1>8
<1>10. Growing(n, at)' /\ Reached(n)'
  BY <1>1, <1>3, <1>4, <1>8, <1>9, ConstFacts DEF Growing, Reached
<1>11. OwnWork'
  BY <1>3, <1>7, <1>9, <1>10 DEF OwnWork, Filled, Live
<1> QED  BY <1>5, <1>6, <1>11 DEF WriterInv

LEMMA MirrorFaultFrame ==
  ASSUME TypeOK, MirrorFault
  PROVE  /\ fat'[1] = fat[1] /\ UNCHANGED <<dir, data, saved>>
         /\ Stage' \in {"idle", "alloc", "extend"}
         /\ \/ Finish("fail")
            \/ /\ pc' = Stage' /\ UNCHANGED <<args, cur, nxt, done>>
               /\ Stage \in {"entry", "link"}
               /\ Stage' = "extend" => Stage = "link"
<1>1. wr.copy \in 2 .. NumFats /\ Stage = wr.then
  BY DEF MirrorFault, TypeOK, CallOK, Stage
<1>2. fat'[1] = fat[1]
  BY <1>1, FatType, ConstFacts, SizeAssumption DEF MirrorFault, MirrorSector
<1> QED  BY <1>1, <1>2 DEF MirrorFault, Finish, Stage

LEMMA WriterContinue == TypeOK /\ WriterInv /\ Continue => WriterInv'
<1> SUFFICES ASSUME TypeOK, WriterInv, Continue PROVE WriterInv'
  OBVIOUS
<1>0. ASSUME Refuse PROVE WriterInv'
  BY <1>0, LinksSame, WriterEnds DEF Refuse, WriterInv, Live
<1>1. CASE FreeCluster
  <2>1. cur \in FatIndex /\ pc # "idle"
    BY <1>1, ConstFacts DEF FreeCluster, TypeOK, Ranges, CallOK, Stage
  <2>2. /\ FatWrite(cur, Free, IF fat[1][cur] < EOC THEN "free" ELSE "alloc")
        /\ UNCHANGED <<dir, args, saved>>
    BY <1>1 DEF FreeCluster
  <2>3. /\ fat'[1][cur] = Free
        /\ \A d \in FatIndex : d # cur => fat'[1][d] = fat[1][d]
        /\ Stage' \in {"free", "alloc"}
    BY <2>1, <2>2, FatWriteChain
  <2>4. LowEntries' /\ WayOut'
    BY <2>1, <2>3, LinkChanged, NumFacts DEF WriterInv
  <2>5. SavedListed'
    BY <2>1, <2>2 DEF WriterInv, SavedListed, Live
  <2> QED  BY <2>3, <2>4, <2>5, NoWork DEF WriterInv
<1>2. CASE AllocateCluster
  <2>1. ASSUME NEW c \in Clusters, FirstFreeFrom(c), TakeCluster(c),
               FatWrite(c, EOC, IF pc = "alloc" THEN "entry" ELSE "link"),
               UNCHANGED <<dir, data, args, done, saved>>,
               pc \in {"alloc", "extend"}
        PROVE  WriterInv'
    <3>1. fat[1][c] = Free
      BY <2>1 DEF FirstFreeFrom, Allocated
    <3>2. /\ fat'[1][c] = EOC
          /\ \A d \in FatIndex : d # c => fat'[1][d] = fat[1][d]
          /\ Stage' = IF pc = "alloc" THEN "entry" ELSE "link"
      BY <2>1, FatWriteChain, ConstFacts
    <3>3. /\ pc = "extend" => UNCHANGED cur
          /\ \/ Stage' = "entry" /\ pc = "alloc" /\ Taken(cur)'
             \/ Stage' = "link" /\ pc = "extend" /\ nxt' = c /\ Taken(nxt)'
      BY <2>1, <3>2 DEF TakeCluster, Taken
    <3> QED  BY <2>1, <3>1, <3>2, <3>3, WriterMarks
  <2> QED  BY <1>0, <1>2, <2>1 DEF AllocateCluster
<1>3. CASE Mirror
  <2>1. pc # "idle" /\ UNCHANGED <<data, done, saved>>
    BY <1>3 DEF Mirror
  <2> QED  BY <1>3, <2>1, MirrorFrame, WriterFrame
<1>4. CASE WriteData
  BY <1>0, <1>4, WriterData DEF WriteData
<1>5. CASE Return
  <2>1. /\ Live(args.slot) /\ args.slot \in Slots
        /\ UNCHANGED <<fat, dir>> /\ Finish("ok")
        /\ saved' = [saved EXCEPT ![args.slot] = Whole(args.val, args.len)]
    BY <1>5 DEF Return, WriterInv, OwnWork, Filled, Stage, TypeOK, CallOK
  <2>2. LowEntries' /\ WayOut'
    BY <2>1, LinksSame DEF WriterInv
  <2>3. SavedListed'
    BY <2>1, FinishStage DEF WriterInv, SavedListed, Live, TypeOK, Ranges
  <2> QED  BY <2>1, <2>2, <2>3, FinishStage DEF WriterInv
<1> QED  BY <1>1, <1>2, <1>3, <1>4, <1>5, WriterEntry, WriterLink, WriterMarkEnd
         DEF Continue

LEMMA WriterFaults == TypeOK /\ WriterInv /\ Faults => WriterInv'
<1> SUFFICES ASSUME TypeOK, WriterInv, Faults PROVE WriterInv'
  OBVIOUS
<1>1. CASE ReadFault
  BY <1>1, LinksSame, WriterEnds DEF ReadFault, Refuse, WriterInv, Live
<1>2. CASE CallWriteFault
  <2>1. UNCHANGED fat /\ Finish("fail")
    BY <1>2 DEF CallWriteFault, PutEntry, RemoveEntry
  <2>2. LowEntries' /\ WayOut'
    BY <2>1, LinksSame DEF WriterInv
  <2>3. ASSUME NEW s \in Slots, NEW dn \in DiskNames, NEW kind \in Kinds,
               PutEntry(s, dn, kind), UNCHANGED saved
        PROVE  SavedListed'
    BY <2>1, <2>3, FinishStage
    DEF WriterInv, SavedListed, Live, PutEntry, TypeOK, Ranges
  <2>4. ASSUME NEW s \in Slots, NEW dn \in DiskNames, RemoveEntry(s, dn)
        PROVE  SavedListed'
    BY <2>1, <2>4, FinishStage
    DEF WriterInv, SavedListed, Live, RemoveEntry, TypeOK, Ranges
  <2> QED  BY <1>2, <2>1, <2>2, <2>3, <2>4, FinishStage
           DEF CallWriteFault, WriterInv
<1>3. CASE FatWriteFault
  <2>1. /\ Stage = pc /\ pc \in {"free", "link", "final"}
        /\ fat \in [Copies -> [FatIndex -> FatVal]] /\ 1 \in Copies
    BY <1>3, FatType, ConstFacts DEF FatWriteFault, Stage
  <2>2. cur \in FatIndex
    BY <2>1, ConstFacts DEF TypeOK, Ranges, CallOK
  <2>3. PICK x : /\ fat'[1] = [fat[1] EXCEPT ![cur] = x]
                 /\ \/ x \in {Free, EOC}
                    \/ pc = "link" /\ x = nxt
    BY <1>3, <2>1 DEF FatWriteFault
  <2>4. /\ fat'[1][cur] = x
        /\ \A d \in FatIndex : d # cur => fat'[1][d] = fat[1][d]
    BY <2>1, <2>2, <2>3, RowType
  <2>5. \/ x \notin Clusters
        \/ cur \in Clusters /\ x # cur /\ fat[1][x] \notin Clusters
    BY <2>1, <2>3, NumFacts DEF WriterInv, OwnWork, Taken
  <2>6. LowEntries' /\ WayOut'
    BY <2>2, <2>4, <2>5, LinkChanged DEF WriterInv
  <2> QED  BY <1>3, <2>6, WriterEnds DEF FatWriteFault, Live
<1>4. CASE AllocFault
  <2>1. PICK c \in Clusters :
          /\ FirstFreeFrom(c)
          /\ \/ fat' = [fat EXCEPT ![1] = [@ EXCEPT ![c] = EOC]]
             \/ UNCHANGED fat
    BY <1>4 DEF AllocFault
  <2>2. /\ fat[1][c] = Free
        /\ fat'[1][c] \in {Free, EOC}
        /\ \A d \in FatIndex : d # c => fat'[1][d] = fat[1][d]
    BY <2>1, FatType, ConstFacts DEF FirstFreeFrom, Allocated
  <2>3. /\ pc \in {"alloc", "extend"} /\ Stage' = pc
        /\ UNCHANGED <<dir, data, args, cur, done, saved>>
    BY <1>4 DEF AllocFault, Stage
  <2> QED  BY <2>2, <2>3, WriterMarks
<1>5. CASE MirrorFault
  <2>1. LowEntries' /\ WayOut' /\ UNCHANGED <<dir, data, saved>>
    BY <1>5, MirrorFaultFrame, LinksSame DEF WriterInv
  <2>2. CASE Finish("fail")
    BY <2>1, <2>2, WriterEnds DEF Live
  <2>3. CASE ~ Finish("fail")
    <3>1. /\ fat'[1] = fat[1] /\ pc' = Stage'
          /\ UNCHANGED <<args, cur, nxt, done>>
          /\ Stage' \in {"alloc", "extend", "idle"}
          /\ Stage \in {"entry", "link"}
          /\ Stage' = "extend" => Stage = "link"
      BY <1>5, <2>3, MirrorFaultFrame
    <3>2. SavedListed'
      BY <1>5, <2>1, <3>1 DEF WriterInv, SavedListed, Live, MirrorFault
    <3>3. CASE Stage' # "extend"
      BY <2>1, <3>1, <3>2, <3>3, NoWork DEF WriterInv
    <3>4. CASE Stage' = "extend"
      <4>1. Stage = "link"
        BY <3>1, <3>4
      <4>2. OwnWork'
        BY <2>1, <3>1, <3>4, <4>1
        DEF WriterInv, OwnWork, Filled, Taken, Live, Growing, Reached
      <4> QED  BY <2>1, <3>2, <4>2 DEF WriterInv
    <3> QED  BY <3>3, <3>4
  <2> QED  BY <2>2, <2>3
<1>6. CASE EntryFault
  <2>1. args.slot \in Slots /\ UNCHANGED <<fat, saved>> /\ Finish("fail")
    BY <1>6 DEF EntryFault, TypeOK, CallOK
  <2>2. \A s \in Slots : Live(s) => Live(s)'
    BY <1>6, <2>1 DEF EntryFault, Live, NewEntry, TypeOK, Ranges
  <2> QED  BY <2>1, <2>2, LinksSame, WriterEnds DEF WriterInv
<1>7. CASE DataFault
  BY <1>7, LinksSame, WriterEnds DEF DataFault, WriterInv, Live
<1>8. CASE Crash
  BY <1>8, LinksSame, WriterEnds DEF Crash, WriterInv, Live
<1> QED  BY <1>1, <1>2, <1>3, <1>4, <1>5, <1>6, <1>7, <1>8 DEF Faults

LEMMA WriterNext == TypeOK /\ WriterInv /\ [Next]_vars => WriterInv'
<1>1. TypeOK /\ WriterInv /\ UNCHANGED vars => WriterInv'
  <2> SUFFICES ASSUME TypeOK, WriterInv, UNCHANGED vars PROVE WriterInv'
    OBVIOUS
  <2>1. Stage' = Stage
    BY DEF vars, Stage
  <2> QED  BY <2>1, WriterFrame DEF vars
<1> QED  BY <1>1, WriterCalls, WriterContinue, WriterFaults DEF Next, Step

LEMMA WriterAlways == Spec => [](TypeOK /\ WriterInv)
<1>1. TypeOK /\ WriterInv /\ [Next]_vars => (TypeOK /\ WriterInv)'
  BY NextType, WriterNext
<1> QED  BY <1>1, InitType, WriterInit, PTL DEF Spec

-----------------------------------------------------------------------------
(* No circle: clusters that all lead to one another would be a set with no *)
(* way out.                                                                *)

(* The hops of AcyclicFat.                                                 *)
Hops(c) ==
  LET at[i \in 0 .. MaxCluster] ==
        IF i = 0 THEN c
        ELSE IF at[i - 1] \in Clusters THEN fat[1][at[i - 1]] ELSE EOC
  IN at

LEMMA HopsUnfold ==
  ASSUME TypeOK, NEW c \in Clusters
  PROVE  /\ Hops(c) \in [0 .. MaxCluster -> FatVal] /\ Hops(c)[0] = c
         /\ \A i \in 1 .. MaxCluster :
              Hops(c)[i] = IF Hops(c)[i - 1] \in Clusters
                           THEN fat[1][Hops(c)[i - 1]] ELSE EOC
<1> DEFINE hops == Hops(c)
           next == [d \in FatVal |-> IF d \in Clusters THEN fat[1][d] ELSE EOC]
           body(f) == [i \in 0 .. MaxCluster |->
                         IF i = 0 THEN c
                         ELSE IF f[i - 1] \in Clusters THEN fat[1][f[i - 1]]
                              ELSE EOC]
<1>1. next \in [FatVal -> FatVal]
  BY FatType, ConstFacts
<1>2. PICK g \in [1 .. MaxCluster + 1 -> FatVal] :
             g[1] = c /\ \A i \in 1 .. MaxCluster : g[i + 1] = next[g[i]]
  <2>1. c \in FatVal /\ MaxCluster \in Nat
    BY SizeAssumption, ConstFacts
  <2> HIDE DEF next
  <2> QED  BY <1>1, <2>1, Iterate
<1> DEFINE f == [i \in 0 .. MaxCluster |-> g[i + 1]]
<1>3. f = body(f)
  <2>1. \A i \in 0 .. MaxCluster : f[i] = body(f)[i]
    <3> TAKE i \in 0 .. MaxCluster
    <3>1. CASE i = 0
      BY <1>2, <3>1, SizeAssumption
    <3>2. CASE i # 0
      <4>1. i \in 1 .. MaxCluster /\ i - 1 \in 0 .. MaxCluster /\ (i - 1) + 1 = i
        BY <3>2, SizeAssumption
      <4>2. g[i + 1] = next[g[i]] /\ g[i] \in FatVal
        BY <1>2, <4>1, SizeAssumption
      <4> QED  BY <3>2, <4>1, <4>2
    <3> QED  BY <3>1, <3>2
  <2> QED  BY <2>1
<1>4. hops = body(hops)
  <2> HIDE DEF f
  <2>1. hops = CHOOSE h : h = body(h)
    BY DEF Hops
  <2> HIDE DEF body
  <2> QED  BY <1>3, <2>1
<1>5. /\ hops[0] = c /\ hops = [i \in 0 .. MaxCluster |-> hops[i]]
      /\ \A i \in 1 .. MaxCluster :
              hops[i] = IF hops[i - 1] \in Clusters THEN fat[1][hops[i - 1]]
                        ELSE EOC
  <2> HIDE DEF hops
  <2>1. hops[0] = c
    BY <1>4, SizeAssumption
  <2>2. hops = [i \in 0 .. MaxCluster |-> hops[i]]
    BY <1>4
  <2>3. ASSUME NEW i \in 1 .. MaxCluster
        PROVE  hops[i] = IF hops[i - 1] \in Clusters THEN fat[1][hops[i - 1]]
                         ELSE EOC
    <3>1. i \in 0 .. MaxCluster /\ i # 0
      BY SizeAssumption
    <3> QED  BY <1>4, <3>1
  <2> QED  BY <2>1, <2>2, <2>3
<1>6. \A i \in 0 .. MaxCluster : hops[i] \in FatVal
  <2> TAKE i \in 0 .. MaxCluster
  <2>1. CASE i = 0
    BY <2>1, <1>5, ConstFacts
  <2>2. CASE i # 0
    <3>1. i \in 1 .. MaxCluster
      BY <2>2, SizeAssumption
    <3> QED  BY <1>5, <3>1, FatType, ConstFacts
  <2> QED  BY <2>1, <2>2
<1> QED  BY <1>5, <1>6

(* While clusters are met none is met twice: a circle would be closed.     *)
LEMMA NoCircle ==
  ASSUME TypeOK, WayOut, NEW n \in Nat, NEW a \in [0 .. n -> Clusters],
         \A i \in 1 .. n : a[i] = fat[1][a[i - 1]]
  PROVE  \A i \in 0 .. n : \A j \in 0 .. n : i < j => a[i] # a[j]
<1> SUFFICES ASSUME NEW i \in 0 .. n, NEW j \in 0 .. n, i < j, a[i] = a[j]
             PROVE  FALSE
  OBVIOUS
<1> DEFINE S == {a[k] : k \in i .. j - 1}
<1>1. S \in SUBSET Clusters /\ a[i] \in S
  BY SMT
<1>2. \A d \in S : fat[1][d] \in S
  <2> TAKE d \in S
  <2>1. PICK k \in i .. j - 1 : d = a[k]
    OBVIOUS
  <2>2. k + 1 \in 1 .. n /\ (k + 1) - 1 = k /\ fat[1][d] = a[k + 1]
    BY <2>1
  <2>3. CASE k + 1 < j
    <3>1. k + 1 \in i .. j - 1
      BY <2>3
    <3> QED  BY <2>2, <3>1
  <2>4. CASE k + 1 = j
    BY <1>1, <2>2, <2>4
  <2> QED  BY <2>3, <2>4
<1> HIDE DEF S
<1> QED  BY <1>1, <1>2 DEF WayOut

LEMMA AcyclicState == TypeOK /\ WayOut => AcyclicFat
<1> SUFFICES ASSUME TypeOK, WayOut, NEW c \in Clusters,
                    Hops(c)[MaxCluster] \in Clusters
             PROVE  FALSE
  BY DEF AcyclicFat, Hops
<1>0. MaxCluster \in Nat
  BY SizeAssumption
<1>1. PICK hops \in [0 .. MaxCluster -> FatVal] :
        /\ hops[MaxCluster] \in Clusters
        /\ \A i \in 1 .. MaxCluster :
             hops[i] = IF hops[i - 1] \in Clusters THEN fat[1][hops[i - 1]]
                       ELSE EOC
  BY HopsUnfold
<1>2. ASSUME NEW i \in 0 .. MaxCluster, hops[i] \notin Clusters
      PROVE  FALSE
  <2> DEFINE Back == {j \in i .. MaxCluster : hops[j] \in Clusters}
  <2>1. Back \in SUBSET Nat /\ MaxCluster \in Back
    BY <1>0, <1>1
  <2>2. PICK j \in Back : \A k \in Back : j <= k
    <3> HIDE DEF Back
    <3> QED  BY <2>1, LeastNat
  <2>3. j \in 1 .. MaxCluster /\ j - 1 \in i .. MaxCluster /\ j # i
    BY <1>0, <1>2, <2>2
  <2>4. hops[j - 1] \notin Clusters
    BY <2>2, <2>3
  <2> QED  BY <1>1, <2>2, <2>3, <2>4, NumFacts
<1>3. hops \in [0 .. MaxCluster -> Clusters]
  BY <1>1, <1>2
<1>4. \A i \in 1 .. MaxCluster : hops[i] = fat[1][hops[i - 1]]
  <2> TAKE i \in 1 .. MaxCluster
  <2>1. i - 1 \in 0 .. MaxCluster
    BY <1>0
  <2> QED  BY <1>1, <1>3, <2>1
<1>5. \A i \in 0 .. MaxCluster : \A j \in 0 .. MaxCluster :
        i < j => hops[i] # hops[j]
  BY <1>0, <1>3, <1>4, NoCircle
<1>6. /\ IsFiniteSet(0 .. MaxCluster) /\ IsFiniteSet(Clusters)
      /\ Cardinality(Clusters) < Cardinality(0 .. MaxCluster)
  <2>1. 0 \in Int /\ 2 \in Int /\ MaxCluster \in Int /\ MaxCluster >= 2
    BY SizeAssumption
  <2>2. IsFiniteSet(0 .. MaxCluster) /\ Cardinality(0 .. MaxCluster) = MaxCluster + 1
    BY <2>1, FS_Interval
  <2>3. IsFiniteSet(2 .. MaxCluster) /\ Cardinality(2 .. MaxCluster) = MaxCluster - 1
    BY <2>1, FS_Interval
  <2> QED  BY <2>1, <2>2, <2>3 DEF Clusters
<1>7. \E i, j \in 0 .. MaxCluster : i # j /\ hops[i] = hops[j]
  <2>1. \E i, j \in 0 .. MaxCluster : i # j /\ hops[i] = hops[j]
    BY <1>3, <1>6, FS_PigeonHole
  <2> QED  BY <2>1
<1> QED  BY <1>0, <1>5, <1>7

(* No chain of the FAT runs in a circle, so every walk of get_next_cluster *)
(* along a file's chain ends: whatever calls are made and whatever faults  *)
(* and crashes interrupt them, for every size of the disk.                 *)
THEOREM NoChainIsACircle == Spec => []AcyclicFat
<1>1. WriterInv => WayOut
  BY DEF WriterInv
<1> QED  BY <1>1, WriterAlways, AcyclicState, PTL

-----------------------------------------------------------------------------
(* What ChainOf makes of a copy of the FAT, and the two facts that say it  *)
(* all: where it begins and how it goes on.                                *)
Chain(row, first) ==
  LET at[i \in 1 .. MaxLen + 1] ==
        IF i = 1 THEN first
        ELSE IF at[i - 1] \in FatIndex THEN row[at[i - 1]] ELSE EOC
  IN at

Follows(at, row, first) ==
  /\ at \in [1 .. MaxLen + 1 -> FatVal] /\ at[1] = first
  /\ \A i \in 1 .. MaxLen :
       at[i + 1] = IF at[i] \in FatIndex THEN row[at[i]] ELSE EOC

LEMMA ChainFollows ==
  ASSUME NEW row \in [FatIndex -> FatVal], NEW first \in FatVal
  PROVE  Follows(Chain(row, first), row, first)
<1> DEFINE next == [c \in FatVal |-> IF c \in FatIndex THEN row[c] ELSE EOC]
           body(f) == [i \in 1 .. MaxLen + 1 |->
                         IF i = 1 THEN first
                         ELSE IF f[i - 1] \in FatIndex THEN row[f[i - 1]] ELSE EOC]
<1>0. MaxLen \in Nat
  BY SizeAssumption
<1>1. next \in [FatVal -> FatVal]
  BY ConstFacts
<1>2. PICK f \in [1 .. MaxLen + 1 -> FatVal] :
             f[1] = first /\ \A i \in 1 .. MaxLen : f[i + 1] = next[f[i]]
  <2>1. first \in FatVal /\ MaxLen \in Nat
    BY <1>0
  <2> HIDE DEF next
  <2>2. \E f \in [1 .. MaxLen + 1 -> FatVal] :
          f[1] = first /\ \A i \in 1 .. MaxLen : f[i + 1] = next[f[i]]
    BY <1>1, <2>1, Iterate, SMTT(60)
  <2> QED  BY <2>2
<1>3. f = body(f)
  <2>1. \A i \in 1 .. MaxLen + 1 : f[i] = body(f)[i]
    <3> TAKE i \in 1 .. MaxLen + 1
    <3>1. CASE i = 1
      BY <1>2, <3>1
    <3>2. CASE i # 1
      <4>1. i - 1 \in 1 .. MaxLen /\ (i - 1) + 1 = i
        BY <1>0, <3>2
      <4>2. f[i] = next[f[i - 1]] /\ f[i - 1] \in FatVal
        BY <1>0, <1>2, <4>1
      <4> QED  BY <3>2, <4>2
    <3> QED  BY <3>1, <3>2
  <2> QED  BY <2>1
<1> DEFINE at == Chain(row, first)
<1>4. at = body(at)
  <2>1. at = CHOOSE g : g = body(g)
    BY DEF Chain
  <2> HIDE DEF body
  <2> QED  BY <1>3, <2>1
<1>5. /\ at[1] = first /\ at = [i \in 1 .. MaxLen + 1 |-> at[i]]
      /\ \A i \in 1 .. MaxLen : at[i + 1] = IF at[i] \in FatIndex THEN row[at[i]] ELSE EOC
  <2> HIDE DEF at
  <2>1. at[1] = first
    BY <1>0, <1>4
  <2>2. at = [i \in 1 .. MaxLen + 1 |-> at[i]]
    BY <1>4
  <2>3. ASSUME NEW i \in 1 .. MaxLen
        PROVE  at[i + 1] = IF at[i] \in FatIndex THEN row[at[i]] ELSE EOC
    <3>1. i + 1 \in 1 .. MaxLen + 1 /\ i + 1 # 1 /\ (i + 1) - 1 = i
      BY <1>0
    <3> QED  BY <1>4, <3>1
  <2> QED  BY <2>1, <2>2, <2>3
<1>6. \A i \in 1 .. MaxLen + 1 : at[i] \in FatVal
  <2> TAKE i \in 1 .. MaxLen + 1
  <2> HIDE DEF at
  <2>1. CASE i = 1
    BY <2>1, <1>5
  <2>2. CASE i # 1
    <3>1. i - 1 \in 1 .. MaxLen /\ (i - 1) + 1 = i
      BY <1>0, <2>2
    <3>2. at[i] = IF at[i - 1] \in FatIndex THEN row[at[i - 1]] ELSE EOC
      BY <1>5, <3>1
    <3> QED  BY <3>2, ConstFacts
  <2> QED  BY <2>1, <2>2
<1> QED  BY <1>5, <1>6 DEF Follows

(* Two chains that begin alike and meet the same links are the same.       *)
LEMMA SameChain ==
  ASSUME NEW r, NEW q, NEW first, NEW a, NEW b,
         Follows(a, r, first), Follows(b, q, first),
         \A i \in 1 .. MaxLen : a[i] \in FatIndex => q[a[i]] = r[a[i]]
  PROVE  a = b
<1> DEFINE Bad == {i \in 1 .. MaxLen + 1 : a[i] # b[i]}
<1>0. MaxLen \in Nat /\ Bad \in SUBSET Nat
  BY SizeAssumption
<1>1. ASSUME Bad # {} PROVE FALSE
  <2>1. PICK i \in Bad : \A j \in Bad : i <= j
    <3> HIDE DEF Bad
    <3> QED  BY <1>0, <1>1, LeastNat
  <2>2. i # 1
    BY <2>1 DEF Follows
  <2>3. i - 1 \in 1 .. MaxLen /\ (i - 1) + 1 = i
    BY <1>0, <2>1, <2>2
  <2>4. a[i - 1] = b[i - 1]
    <3>1. i - 1 \notin Bad
      BY <1>0, <2>1, <2>3
    <3> QED  BY <1>0, <2>3, <3>1
  <2>5. a[i] = b[i]
    BY <2>3, <2>4 DEF Follows
  <2> QED  BY <2>1, <2>5
<1>2. \A i \in 1 .. MaxLen + 1 : a[i] = b[i]
  BY <1>1
<1>3. /\ a = [i \in 1 .. MaxLen + 1 |-> a[i]]
      /\ b = [i \in 1 .. MaxLen + 1 |-> b[i]]
  BY DEF Follows
<1>4. [i \in 1 .. MaxLen + 1 |-> a[i]] = [i \in 1 .. MaxLen + 1 |-> b[i]]
  BY <1>2
<1> QED  BY <1>3, <1>4, Zenon

(* The chain of a slot, as fat32_read_file follows it.                     *)
LEMMA SlotChain ==
  ASSUME TypeOK, NEW s \in Slots
  PROVE  Follows(ChainOf(dir[s].first), fat[1], dir[s].first)
<1>1. fat[1] \in [FatIndex -> FatVal] /\ dir[s].first \in FatVal
  BY FatType, RowType
<1>2. ChainOf(dir[s].first) = Chain(fat[1], dir[s].first)
  BY DEF ChainOf, Chain
<1> QED  BY <1>1, <1>2, ChainFollows

(* What is not changed is read as before: a file whose entry stays and     *)
(* whose chain does not meet the one cluster c where a link or the data    *)
(* may have changed.                                                       *)
LEMMA ReadStays ==
  ASSUME TypeOK, TypeOK', NEW s \in Slots, dir'[s] = dir[s], NEW c,
         \A d \in FatIndex : d # c => fat'[1][d] = fat[1][d],
         \A d \in Clusters : d # c => data'[d] = data[d],
         \A i \in 1 .. MaxLen + 1 : ChainOf(dir[s].first)[i] # c
  PROVE  ReadSlot(s)' = ReadSlot(s)
<1> DEFINE first == dir[s].first
           a == Chain(fat[1], first)
           b == Chain(fat'[1], first)
<1>0. MaxLen \in Nat /\ dir[s].size \in 0 .. MaxLen /\ 2 .. DiskEnd \subseteq Clusters
  BY SizeAssumption DEF TypeOK, Ranges, Entries, Clusters
<1>1. ChainOf(first) = a /\ ChainOf(dir[s].first)' = b
  BY DEF ChainOf, Chain
<1>2. Follows(a, fat[1], first) /\ Follows(b, fat'[1], first)
  <2>1. /\ fat[1] \in [FatIndex -> FatVal] /\ fat'[1] \in [FatIndex -> FatVal]
        /\ first \in FatVal
    BY FatType, ConstFacts DEF TypeOK, Ranges
  <2> QED  BY <2>1, ChainFollows
<1>3. a = b
  <2> HIDE DEF a, b
  <2>1. \A i \in 1 .. MaxLen : a[i] # c
    BY <1>0, <1>1
  <2> QED  BY <1>2, <2>1, SameChain
<1>4. \A i \in 1 .. dir[s].size : a[i] \in 2 .. DiskEnd => data'[a[i]] = data[a[i]]
  <2> HIDE DEF a
  <2> QED  BY <1>0, <1>1
<1> HIDE DEF a, b
<1> QED  BY <1>1, <1>3, <1>4 DEF ReadSlot

(* What no entry and no link names lies on no file's chain.                *)
LEMMA UnnamedAvoided ==
  ASSUME TypeOK, LowEntries, NEW s \in Owners, NEW c \in Clusters,
         ~ Referenced(c)
  PROVE  \A i \in 1 .. MaxLen + 1 : ChainOf(dir[s].first)[i] # c
<1> DEFINE a == ChainOf(dir[s].first)
<1>1. s \in Slots /\ MaxLen \in Nat
  BY SizeAssumption DEF Owners
<1>2. Follows(a, fat[1], dir[s].first)
  BY <1>1, SlotChain
<1> HIDE DEF a
<1>3. ASSUME NEW i \in 1 .. MaxLen + 1, a[i] = c PROVE FALSE
  <2>1. i # 1
    BY <1>2, <1>3 DEF Follows, Referenced
  <2>2. i - 1 \in 1 .. MaxLen /\ (i - 1) + 1 = i
    BY <1>1, <2>1
  <2>3. c = IF a[i - 1] \in FatIndex THEN fat[1][a[i - 1]] ELSE EOC
    BY <1>2, <1>3, <2>2 DEF Follows
  <2>4. a[i - 1] \in FatIndex /\ fat[1][a[i - 1]] = c
    BY <2>3, NumFacts
  <2> QED  BY <2>4 DEF LowEntries, Referenced
<1> QED  BY <1>3 DEF a

(* The clusters of the file being written lie on no other file's chain.    *)
LEMMA GrowingAvoided ==
  ASSUME TypeOK, LowEntries, UniqueRefs, NEW s \in Owners,
         args.slot \in Owners, s # args.slot,
         NEW n \in 1 .. MaxLen + 1, NEW at \in [1 .. n -> Clusters],
         Growing(n, at)
  PROVE  \A j \in 1 .. n : \A i \in 1 .. MaxLen + 1 :
           ChainOf(dir[s].first)[i] # at[j]
<1> DEFINE a == ChainOf(dir[s].first)
           Met == {j \in 1 .. n : \E i \in 1 .. MaxLen + 1 : a[i] = at[j]}
<1>1. s \in Slots /\ MaxLen \in Nat /\ n \in Nat
  BY SizeAssumption DEF Owners
<1>2. Follows(a, fat[1], dir[s].first)
  BY <1>1, SlotChain
<1> HIDE DEF a
<1>3. ASSUME Met # {} PROVE FALSE
  <2>1. PICK j \in Met : \A k \in Met : j <= k
    <3>1. Met \in SUBSET Nat
      BY <1>1
    <3> HIDE DEF Met
    <3> QED  BY <1>3, <3>1, LeastNat
  <2>2. PICK i \in 1 .. MaxLen + 1 : a[i] = at[j]
    BY <2>1
  <2>3. at[j] \in Clusters /\ j \in 1 .. n
    BY <2>1
  <2>4. i # 1 =>
          /\ i - 1 \in 1 .. MaxLen
          /\ a[i - 1] \in Clusters /\ fat[1][a[i - 1]] = at[j]
    <3> SUFFICES ASSUME i # 1
                 PROVE  /\ i - 1 \in 1 .. MaxLen
                        /\ a[i - 1] \in Clusters /\ fat[1][a[i - 1]] = at[j]
      OBVIOUS
    <3>1. i - 1 \in 1 .. MaxLen /\ (i - 1) + 1 = i
      BY <1>1
    <3>2. at[j] = IF a[i - 1] \in FatIndex THEN fat[1][a[i - 1]] ELSE EOC
      BY <1>2, <2>2, <3>1 DEF Follows
    <3>3. a[i - 1] \in FatIndex /\ fat[1][a[i - 1]] = at[j]
      BY <2>3, <3>2, NumFacts
    <3> QED  BY <2>3, <3>1, <3>3 DEF LowEntries
  <2>5. i = 1 => at[j] = dir[s].first
    BY <1>2, <2>2 DEF Follows
  <2>6. CASE j = 1
    <3>1. at[j] = dir[args.slot].first
      BY <2>6 DEF Growing
    <3>2. CASE i = 1
      BY <2>3, <2>5, <3>1, <3>2 DEF UniqueRefs
    <3>3. CASE i # 1
      BY <2>3, <2>4, <3>1, <3>3 DEF UniqueRefs
    <3> QED  BY <3>2, <3>3
  <2>7. CASE j # 1
    <3>1. j - 1 \in 1 .. n /\ j - 1 < n /\ (j - 1) + 1 = j
      BY <1>1, <2>3, <2>7
    <3>2. at[j - 1] \in Clusters /\ fat[1][at[j - 1]] = at[j]
      BY <3>1 DEF Growing
    <3>3. CASE i = 1
      BY <2>3, <2>5, <3>2, <3>3 DEF UniqueRefs
    <3>4. CASE i # 1
      <4>1. a[i - 1] = at[j - 1]
        BY <2>3, <2>4, <3>2, <3>4 DEF UniqueRefs
      <4>2. j - 1 \in Met
        BY <1>1, <2>4, <3>1, <3>4, <4>1
      <4>3. j <= j - 1
        BY <2>1, <4>2
      <4> QED  BY <2>3, <4>3
    <3> QED  BY <3>3, <3>4
  <2> QED  BY <2>6, <2>7
<1> QED  BY <1>3 DEF a

(* A file that was written whole, and whose cluster chain is the one just  *)
(* built, reads back as what was written.                                  *)
LEMMA WrittenReadable ==
  ASSUME TypeOK, OwnWork, Stage = "return"
  PROVE  ReadSlot(args.slot) = Whole(args.val, args.len)
<1>1. Live(args.slot) /\ dir[args.slot].size = args.len
  BY DEF OwnWork, Filled
<1>2. PICK n \in 1 .. MaxLen + 1 :
        Reached(n) /\ \E at \in [1 .. n -> Clusters] : Growing(n, at)
  BY DEF OwnWork, Filled
<1>3. PICK at \in [1 .. n -> Clusters] : Growing(n, at)
  BY <1>2
<1>4. done = args.len /\ args.len \in Nat /\ args.len <= n /\ args.slot \in Slots
      /\ n \in Nat /\ n <= MaxLen + 1 /\ MaxLen \in Nat
  BY <1>2, SizeAssumption DEF Reached, TypeOK, Ranges, CallOK, Stage, Steps
<1> DEFINE a == ChainOf(dir[args.slot].first)
<1>5. Follows(a, fat[1], dir[args.slot].first)
  BY <1>4, SlotChain
<1> HIDE DEF a
<1>6. \A i \in 1 .. n : a[i] = at[i]
  <2> DEFINE Off == {i \in 1 .. n : a[i] # at[i]}
  <2>1. ASSUME Off # {} PROVE FALSE
    <3>1. PICK i \in Off : \A j \in Off : i <= j
      <4>1. Off \in SUBSET Nat
        BY <1>4
      <4> HIDE DEF Off
      <4> QED  BY <2>1, <4>1, LeastNat
    <3>2. i # 1
      BY <1>3, <1>5, <3>1 DEF Follows, Growing
    <3>3. i - 1 \in 1 .. n /\ i - 1 \in 1 .. MaxLen /\ (i - 1) + 1 = i /\ i - 1 < n
      BY <1>4, <3>1, <3>2
    <3>4. a[i - 1] = at[i - 1]
      <4>1. i - 1 \notin Off
        BY <3>1, <3>3
      <4> QED  BY <3>3, <4>1
    <3>5. a[i] = fat[1][at[i - 1]]
      <4>1. at[i - 1] \in FatIndex
        BY <3>3, ConstFacts
      <4> QED  BY <1>5, <3>3, <3>4, <4>1 DEF Follows
    <3>6. fat[1][at[i - 1]] = at[i]
      BY <1>3, <3>3 DEF Growing
    <3> QED  BY <3>1, <3>5, <3>6
  <2> QED  BY <2>1
<1>7. ASSUME NEW i \in 1 .. args.len
      PROVE  a[i] \in 2 .. DiskEnd /\ data[a[i]] = <<args.val, i>>
  <2>1. i \in 1 .. n /\ i <= done
    BY <1>4
  <2>2. a[i] = at[i] /\ at[i] \in Clusters
    BY <1>6, <2>1
  <2>3. at[i] <= DiskEnd /\ data[at[i]] = <<args.val, i>>
    BY <1>3, <2>1 DEF Growing
  <2> QED  BY <2>2, <2>3, SizeAssumption DEF Clusters
<1> QED  BY <1>1, <1>7 DEF ReadSlot, Whole, a

-----------------------------------------------------------------------------
(* What a step must leave alone for the files to stay readable.           *)

(* A step spares what was saved if it leaves those entries alone and       *)
(* touches one cluster at most, which is on none of their chains.          *)
LEMMA Spared ==
  ASSUME TypeOK, TypeOK', SavedListed, SavedReadable, NEW c,
         \A d \in FatIndex : d # c => fat'[1][d] = fat[1][d],
         \A d \in Clusters : d # c => data'[d] = data[d],
         \A s \in Slots : saved'[s] # None =>
           /\ saved'[s] = saved[s] /\ dir'[s] = dir[s]
           /\ \A i \in 1 .. MaxLen + 1 : ChainOf(dir[s].first)[i] # c
  PROVE  SavedReadable'
<1> SUFFICES ASSUME NEW s \in Slots, saved'[s] # None
             PROVE  Live(s)' /\ (dir'[s].kind = "file" =>
                                   ReadSlot(s)' = saved'[s])
  BY DEF SavedReadable
<1>1. saved'[s] = saved[s] /\ dir'[s] = dir[s]
  OBVIOUS
<1>2. Live(s) /\ (dir[s].kind = "file" => ReadSlot(s) = saved[s])
  BY <1>1 DEF SavedReadable
<1>3. ReadSlot(s)' = ReadSlot(s)
  BY <1>1, ReadStays
<1> QED  BY <1>1, <1>2, <1>3 DEF Live

(* The same when no link and no data change.                               *)
LEMMA SparedDisk ==
  ASSUME TypeOK, TypeOK', SavedListed, SavedReadable,
         fat'[1] = fat[1], UNCHANGED data,
         \A s \in Slots : saved'[s] # None =>
           saved'[s] = saved[s] /\ dir'[s] = dir[s]
  PROVE  SavedReadable'
<1>1. \A s \in Slots, i \in 1 .. MaxLen + 1 : ChainOf(dir[s].first)[i] # EOC + 1
  <2> TAKE s \in Slots, i \in 1 .. MaxLen + 1
  <2>1. ChainOf(dir[s].first)[i] \in FatVal
    BY SlotChain DEF Follows
  <2> QED  BY <2>1, SizeAssumption DEF FatVal, Free, EOC, Clusters
<1> QED  BY <1>1, Spared

(* What is saved and not being written owns its entry.                     *)
LEMMA SavedOwns ==
  ASSUME SavedListed, NEW s \in Slots, saved[s] # None
  PROVE  s \in Owners /\ (pc # "idle" => s # args.slot)
<1>1. pc # "idle" => s # args.slot
  BY DEF SavedListed
<1>2. pc = "idle" => Stage = "idle"
  BY DEF Stage
<1> QED  BY <1>1, <1>2 DEF Owners, BeingReplaced, SavedListed

(* A step of a call in progress touches its own clusters only.             *)
LEMMA SparedUnnamed ==
  ASSUME TypeOK, TypeOK', WriterInv, SavedReadable, NEW c \in Clusters,
         ~ Referenced(c), UNCHANGED <<dir, saved>>,
         \A d \in FatIndex : d # c => fat'[1][d] = fat[1][d],
         \A d \in Clusters : d # c => data'[d] = data[d]
  PROVE  SavedReadable'
<1>1. \A s \in Slots : saved'[s] # None =>
        \A i \in 1 .. MaxLen + 1 : ChainOf(dir[s].first)[i] # c
  BY SavedOwns, UnnamedAvoided DEF WriterInv
<1> QED  BY <1>1, Spared DEF WriterInv

LEMMA SparedCurrent ==
  ASSUME TypeOK, TypeOK', WriterInv, UniqueRefs, SavedReadable,
         Stage \in {"data", "link", "final"}, UNCHANGED <<dir, saved>>,
         \A d \in FatIndex : d # cur => fat'[1][d] = fat[1][d],
         \A d \in Clusters : d # cur => data'[d] = data[d]
  PROVE  SavedReadable'
<1>1. Live(args.slot) /\ args.slot \in Slots /\ pc # "idle"
  BY DEF WriterInv, OwnWork, Filled, TypeOK, CallOK, Stage
<1>2. args.slot \in Owners
  BY <1>1 DEF Owners, BeingReplaced
<1>3. PICK n \in 1 .. MaxLen + 1 :
        \E at \in [1 .. n -> Clusters] : Growing(n, at)
  BY DEF WriterInv, OwnWork, Filled
<1>4. PICK at \in [1 .. n -> Clusters] : Growing(n, at)
  BY <1>3
<1>5. at[n] = cur /\ n \in 1 .. n
  BY <1>4, SizeAssumption DEF Growing
<1>6. \A s \in Slots : saved'[s] # None =>
        \A i \in 1 .. MaxLen + 1 : ChainOf(dir[s].first)[i] # cur
  <2> SUFFICES ASSUME NEW s \in Slots, saved[s] # None
               PROVE  \A i \in 1 .. MaxLen + 1 :
                        ChainOf(dir[s].first)[i] # cur
    OBVIOUS
  <2>1. s \in Owners /\ s # args.slot
    BY <1>1, SavedOwns DEF WriterInv
  <2> QED  BY <1>2, <1>4, <1>5, <2>1, GrowingAvoided DEF WriterInv
<1> QED  BY <1>6, Spared DEF WriterInv

(* An entry that comes, goes or is rewritten is not one of a saved file.   *)
LEMMA SparedPut ==
  ASSUME TypeOK, TypeOK', WriterInv, SavedReadable,
         NEW s \in Slots, NEW dn, NEW kind, PutEntry(s, dn, kind),
         saved' = saved \/ saved' = [saved EXCEPT ![s] = << >>]
  PROVE  SavedReadable'
<1>1. ~ Live(s) /\ saved[s] = None /\ UNCHANGED <<fat, data>>
  BY DEF PutEntry, IsFirst, FreeSlots, WriterInv, SavedListed
<1>2. \A t \in Slots : t # s => dir'[t] = dir[t] /\ saved'[t] = saved[t]
  BY DEF PutEntry, TypeOK, Ranges
<1>3. CASE saved' = saved
  BY <1>1, <1>2, <1>3, SparedDisk DEF WriterInv
<1>4. CASE saved' # saved
  <2>1. ReadSlot(s)' = << >> /\ Live(s)' /\ saved'[s] = << >>
    <3>1. dir'[s].size = 0 /\ dir'[s].st = "live" /\ saved'[s] = << >>
      BY <1>4 DEF PutEntry, TypeOK, Ranges
    <3> QED  BY <3>1 DEF ReadSlot, Live
  <2>2. ASSUME NEW t \in Slots, t # s, saved'[t] # None
        PROVE  Live(t)' /\ (dir'[t].kind = "file" => ReadSlot(t)' = saved'[t])
    <3>1. dir'[t] = dir[t] /\ saved'[t] = saved[t]
      BY <1>2, <2>2
    <3>2. \A i \in 1 .. MaxLen + 1 : ChainOf(dir[t].first)[i] # EOC + 1
      <4> TAKE i \in 1 .. MaxLen + 1
      <4>1. ChainOf(dir[t].first)[i] \in FatVal
        BY SlotChain DEF Follows
      <4> QED  BY <4>1, SizeAssumption DEF FatVal, Free, EOC, Clusters
    <3>3. ReadSlot(t)' = ReadSlot(t)
      BY <1>1, <3>1, <3>2, ReadStays
    <3> QED  BY <2>2, <3>1, <3>3 DEF SavedReadable, Live
  <2> QED  BY <2>1, <2>2 DEF SavedReadable
<1> QED  BY <1>3, <1>4

LEMMA SparedRemove ==
  ASSUME TypeOK, TypeOK', WriterInv, SavedReadable,
         NEW s \in Slots, NEW dn, RemoveEntry(s, dn)
  PROVE  SavedReadable'
<1>1. UNCHANGED <<fat, data>> /\ saved'[s] = None
  BY DEF RemoveEntry, TypeOK, Ranges
<1>2. \A t \in Slots : t # s => dir'[t] = dir[t] /\ saved'[t] = saved[t]
  BY DEF RemoveEntry, TypeOK, Ranges
<1> QED  BY <1>1, <1>2, SparedDisk DEF WriterInv

LEMMA SparedEntry ==
  ASSUME TypeOK, TypeOK', WriterInv, SavedReadable, pc = "entry",
         dir' = [dir EXCEPT ![args.slot] = NewEntry], UNCHANGED <<fat, data, saved>>
  PROVE  SavedReadable'
<1>1. args.slot \in Slots /\ saved[args.slot] = None
  BY DEF TypeOK, CallOK, WriterInv, SavedListed
<1>2. \A t \in Slots : t # args.slot => dir'[t] = dir[t]
  BY <1>1 DEF TypeOK, Ranges
<1> QED  BY <1>1, <1>2, SparedDisk DEF WriterInv

LEMMA SparedReturn ==
  ASSUME TypeOK, TypeOK', WriterInv, SavedReadable, Return
  PROVE  SavedReadable'
<1> DEFINE s == args.slot
<1>1. /\ Stage = "return" /\ s \in Slots /\ UNCHANGED <<fat, dir, data>>
      /\ saved' = [saved EXCEPT ![s] = Whole(args.val, args.len)]
  BY DEF Return, Stage, TypeOK, CallOK
<1>2. Live(s) /\ ReadSlot(s) = Whole(args.val, args.len)
  BY <1>1, WrittenReadable DEF WriterInv, OwnWork, Filled
<1>3. \A t \in Slots : ReadSlot(t)' = ReadSlot(t) /\ Live(t)' = Live(t)
  BY <1>1 DEF ReadSlot, ChainOf, Live
<1>4. \A t \in Slots :
        saved'[t] = IF t = s THEN Whole(args.val, args.len) ELSE saved[t]
  BY <1>1 DEF TypeOK, Ranges
<1> HIDE DEF s
<1> QED  BY <1>1, <1>2, <1>3, <1>4 DEF SavedReadable

-----------------------------------------------------------------------------
(* Each step leaves it alone.                                              *)

(* The premise of FaultsSpareOthers, and all it needs besides.             *)
Sound ==
  /\ TypeOK /\ WriterInv
  /\ UniqueRefs /\ LinksLive /\ HeldApart /\ SavedReadable

LEMMA SparedCalls == Sound /\ TypeOK' /\ Calls => SavedReadable'
<1> SUFFICES ASSUME Sound, TypeOK', Calls PROVE SavedReadable'
  OBVIOUS
<1>0. ASSUME Refuse PROVE SavedReadable'
  BY <1>0, SparedDisk DEF Refuse, Sound, WriterInv
<1>1. ASSUME NEW dn \in DiskNames, NEW kind \in Kinds, CreateEntry(dn, kind)
      PROVE  SavedReadable'
  BY <1>0, <1>1, SparedPut DEF CreateEntry, Sound
<1>2. ASSUME NEW dn \in DiskNames, DeleteFile(dn)
      PROVE  SavedReadable'
  BY <1>0, <1>2, SparedRemove DEF DeleteFile, Sound
<1>3. ASSUME NEW n \in Names, NEW v \in Vals, NEW len \in 0 .. MaxLen,
             WriteFile(n, v, len), ~ Refuse
      PROVE  SavedReadable'
  <2>1. UNCHANGED <<fat, dir, data>>
    BY <1>3 DEF WriteFile
  <2>2. PICK s \in Slots : saved' = saved \/ saved' = [saved EXCEPT ![s] = None]
    BY <1>3 DEF WriteFile
  <2>3. \A t \in Slots : saved'[t] # None => saved'[t] = saved[t]
    BY <2>2 DEF Sound, TypeOK, Ranges
  <2> QED  BY <2>1, <2>3, SparedDisk DEF Sound, WriterInv
<1> QED  BY <1>0, <1>1, <1>2, <1>3
         DEF Calls, CreateFile, CreateDirectory, Kinds

(* The first copy of the FAT changes where the call is working.            *)
LEMMA SparedFatWrite ==
  ASSUME Sound, TypeOK', Stage \in {"free", "link", "final"},
         UNCHANGED <<dir, data, saved>>,
         \A d \in FatIndex : d # cur => fat'[1][d] = fat[1][d]
  PROVE  SavedReadable'
<1>1. CASE Stage = "free"
  <2>1. cur \in Clusters /\ ~ Referenced(cur)
    BY <1>1 DEF Sound, HeldApart
  <2> QED  BY <2>1, SparedUnnamed DEF Sound
<1>2. CASE Stage # "free"
  BY <1>2, SparedCurrent DEF Sound
<1> QED  BY <1>1, <1>2

LEMMA SparedAllocate ==
  ASSUME Sound, TypeOK', UNCHANGED <<dir, data, saved>>,
         NEW c \in Clusters, FirstFreeFrom(c),
         \A d \in FatIndex : d # c => fat'[1][d] = fat[1][d]
  PROVE  SavedReadable'
<1>1. ~ Referenced(c)
  BY DEF Sound, LinksLive, Referenced, FirstFreeFrom, Allocated
<1> QED  BY <1>1, SparedUnnamed DEF Sound

LEMMA SparedTorn ==
  ASSUME Sound, TypeOK', pc = "data", TornData, UNCHANGED <<fat, dir, saved>>
  PROVE  SavedReadable'
<1>1. Stage = "data"
  BY DEF Stage
<1>2. \A d \in Clusters : d # cur => data'[d] = data[d]
  BY DEF TornData, Sound, TypeOK, Ranges
<1> QED  BY <1>1, <1>2, SparedCurrent DEF Sound

LEMMA SparedContinue == Sound /\ TypeOK' /\ Continue => SavedReadable'
<1> SUFFICES ASSUME Sound, TypeOK', Continue PROVE SavedReadable'
  OBVIOUS
<1>0. ASSUME Refuse PROVE SavedReadable'
  BY <1>0, SparedDisk DEF Refuse, Sound, WriterInv
<1>1. ASSUME NEW x, NEW then, FatWrite(cur, x, then), cur \in FatIndex,
             then # "mirror"
      PROVE  \A d \in FatIndex : d # cur => fat'[1][d] = fat[1][d]
  BY <1>1, FatWriteChain DEF Sound
<1>2. CASE FreeCluster
  <2>1. /\ Stage = "free" /\ UNCHANGED <<dir, data, saved>>
        /\ FatWrite(cur, Free, IF fat[1][cur] < EOC THEN "free" ELSE "alloc")
    BY <1>2 DEF FreeCluster, Stage
  <2>2. cur \in FatIndex
    BY <2>1, ConstFacts DEF Sound, HeldApart
  <2> QED  BY <1>1, <2>1, <2>2, SparedFatWrite
<1>3. CASE AllocateCluster
  <2>1. ASSUME NEW c \in Clusters, FirstFreeFrom(c),
               FatWrite(c, EOC, IF pc = "alloc" THEN "entry" ELSE "link"),
               UNCHANGED <<dir, data, saved>>
        PROVE  SavedReadable'
    BY <2>1, FatWriteChain, SparedAllocate, ConstFacts DEF Sound
  <2> QED  BY <1>0, <1>3, <2>1 DEF AllocateCluster
<1>4. CASE Mirror
  <2>1. UNCHANGED <<data, saved>>
    BY <1>4 DEF Mirror
  <2> QED  BY <1>4, <2>1, MirrorFrame, SparedDisk DEF Sound, WriterInv
<1>5. CASE WriteEntry
  BY <1>5, SparedEntry DEF WriteEntry, Sound
<1>6. CASE WriteData
  <2>1. CASE ~ Refuse
    <3>1. /\ data' = [data EXCEPT ![cur] = <<args.val, done + 1>>]
          /\ Stage = "data" /\ UNCHANGED <<fat, dir, saved>>
      BY <1>6, <2>1 DEF WriteData, Stage
    <3>2. \A d \in Clusters : d # cur => data'[d] = data[d]
      BY <3>1 DEF Sound, TypeOK, Ranges
    <3> QED  BY <3>1, <3>2, SparedCurrent DEF Sound
  <2> QED  BY <1>0, <2>1
<1>7. CASE Link
  <2>1. /\ Stage = "link" /\ UNCHANGED <<dir, data, saved>>
        /\ FatWrite(cur, nxt, "data")
    BY <1>7 DEF Link, Stage
  <2>2. cur \in FatIndex
    BY <2>1, ConstFacts DEF Sound, HeldApart, Taken
  <2> QED  BY <1>1, <2>1, <2>2, SparedFatWrite
<1>8. CASE MarkEnd
  <2>1. /\ Stage = "final" /\ UNCHANGED <<dir, data, saved>>
        /\ FatWrite(cur, EOC, "return")
    BY <1>8 DEF MarkEnd, Stage
  <2>2. cur \in FatIndex
    BY <2>1, ConstFacts DEF Sound, HeldApart, Taken
  <2> QED  BY <1>1, <2>1, <2>2, SparedFatWrite
<1>9. CASE Return
  BY <1>9, SparedReturn DEF Sound
<1> QED  BY <1>2, <1>3, <1>4, <1>5, <1>6, <1>7, <1>8, <1>9 DEF Continue

LEMMA SparedFaults == Sound /\ TypeOK' /\ Faults => SavedReadable'
<1> SUFFICES ASSUME Sound, TypeOK', Faults PROVE SavedReadable'
  OBVIOUS
<1>0. fat \in [Copies -> [FatIndex -> FatVal]] /\ 1 \in Copies
  BY FatType, ConstFacts DEF Sound
<1>1. CASE ReadFault
  BY <1>1, SparedDisk DEF ReadFault, Refuse, Sound, WriterInv
<1>2. CASE CallWriteFault
  BY <1>2, SparedPut, SparedRemove DEF CallWriteFault, Sound
<1>3. CASE FatWriteFault
  <2>1. /\ Stage \in {"free", "link", "final"}
        /\ UNCHANGED <<dir, data, saved>>
    BY <1>3 DEF FatWriteFault, Stage
  <2>2. \A d \in FatIndex : d # cur => fat'[1][d] = fat[1][d]
    <3>1. PICK x : fat' = [fat EXCEPT ![1] = [@ EXCEPT ![cur] = x]]
      BY <1>3 DEF FatWriteFault
    <3> QED  BY <1>0, <3>1
  <2> QED  BY <2>1, <2>2, SparedFatWrite
<1>4. CASE AllocFault
  <2>1. PICK c \in Clusters :
          /\ FirstFreeFrom(c)
          /\ \/ fat' = [fat EXCEPT ![1] = [@ EXCEPT ![c] = EOC]]
             \/ UNCHANGED fat
    BY <1>4 DEF AllocFault
  <2>2. \A d \in FatIndex : d # c => fat'[1][d] = fat[1][d]
    BY <1>0, <2>1
  <2>3. UNCHANGED <<dir, data, saved>>
    BY <1>4 DEF AllocFault
  <2> QED  BY <2>1, <2>2, <2>3, SparedAllocate
<1>5. CASE MirrorFault
  BY <1>5, MirrorFaultFrame, SparedDisk DEF Sound, WriterInv
<1>6. CASE EntryFault
  <2>1. CASE UNCHANGED dir
    BY <1>6, <2>1, SparedDisk DEF EntryFault, Sound, WriterInv
  <2>2. CASE ~ UNCHANGED dir
    BY <1>6, <2>2, SparedEntry DEF EntryFault, Sound
  <2> QED  BY <2>1, <2>2
<1>7. CASE DataFault
  BY <1>7, SparedTorn DEF DataFault
<1>8. CASE Crash
  <2>1. CASE UNCHANGED data
    BY <1>8, <2>1, SparedDisk DEF Crash, Sound, WriterInv
  <2>2. CASE ~ UNCHANGED data
    BY <1>8, <2>2, SparedTorn DEF Crash
  <2> QED  BY <2>1, <2>2
<1> QED  BY <1>1, <1>2, <1>3, <1>4, <1>5, <1>6, <1>7, <1>8 DEF Faults

LEMMA SparedStep == Sound /\ TypeOK' /\ [Next]_vars => SavedReadable'
<1>1. Sound /\ TypeOK' /\ UNCHANGED vars => SavedReadable'
  <2> SUFFICES ASSUME Sound, TypeOK', UNCHANGED vars PROVE SavedReadable'
    OBVIOUS
  <2> QED  BY SparedDisk DEF vars, Sound, WriterInv
<1> QED  BY <1>1, SparedCalls, SparedContinue, SparedFaults DEF Next, Step

(* A step that finds the chains apart, be it a fault or a crash in the     *)
(* middle of fat32_write_file, leaves every other file that was reported   *)
(* as written readable as it was written: what breaks is the file that is  *)
(* being written.                                                          *)
THEOREM OthersSpared == Spec => FaultsSpareOthers
<1>1. TypeOK /\ WriterInv /\ [Next]_vars =>
        [UniqueRefs /\ LinksLive /\ HeldApart /\ SavedReadable
           => SavedReadable']_vars
  BY SparedStep, NextType DEF Sound
<1> QED  BY <1>1, WriterAlways, PTL DEF Spec, FaultsSpareOthers

LEMMA SafeInvariants ==
  SafeSpec => [](TypeOK /\ ChainInv /\ WriterInv /\ SavedReadable)
<1> DEFINE I == TypeOK /\ ChainInv /\ WriterInv /\ SavedReadable
<1>1. Init => SavedReadable
  <2> SUFFICES ASSUME Init, NEW s \in Slots, saved[s] # None
               PROVE  Live(s) /\ ReadSlot(s) = saved[s]
    BY DEF SavedReadable
  <2>1. dir[s].st = "live" /\ dir[s].size = 0 /\ saved[s] = << >>
    BY DEF Init
  <2> QED  BY <2>1 DEF Live, ReadSlot
<1>2. I /\ [Step]_vars => I'
  BY NextType, ChainNext, WriterNext, SparedStep DEF Next, Sound, ChainInv
<1>3. Init => I
  BY <1>1, InitType, ChainInit, WriterInit
<1> QED  BY <1>2, <1>3, PTL DEF SafeSpec

(* What fat32_write_file reported as written is what fat32_read_file       *)
(* returns, until the next write or delete of that name: whatever calls    *)
(* are made on other files, as long as no fault interrupts one.            *)
THEOREM WhatIsSavedIsRead == SafeSpec => []SavedReadable
BY SafeInvariants, PTL

-----------------------------------------------------------------------------
(* No space is lost but to deletes.                                        *)

(* The cluster a call writes to is named by its entry or by a link.        *)
LEMMA CurrentNamed ==
  ASSUME TypeOK, OwnWork, Filled
  PROVE  cur \in Clusters /\ Referenced(cur)
<1>1. PICK n \in 1 .. MaxLen + 1 :
        \E at \in [1 .. n -> Clusters] : Growing(n, at)
  BY DEF OwnWork, Filled
<1>2. PICK at \in [1 .. n -> Clusters] : Growing(n, at)
  BY <1>1
<1>3. n \in Nat /\ n \in 1 .. n /\ at[n] = cur /\ cur \in Clusters
  BY <1>2, SizeAssumption DEF Growing
<1>4. CASE n = 1
  <2>1. dir[args.slot].first = cur
    BY <1>2, <1>4 DEF Growing
  <2>2. args.slot \in Owners
    BY DEF OwnWork, Filled, Owners, BeingReplaced, TypeOK, CallOK, Stage, Live
  <2> QED  BY <1>3, <2>1, <2>2 DEF Referenced
<1>5. CASE n # 1
  <2>1. n - 1 \in 1 .. n /\ n - 1 < n /\ (n - 1) + 1 = n
    BY <1>3, <1>5
  <2>2. at[n - 1] \in Clusters /\ fat[1][at[n - 1]] = cur
    BY <1>2, <1>3, <2>1 DEF Growing
  <2> QED  BY <1>3, <2>2 DEF Referenced
<1> QED  BY <1>4, <1>5

(* The locals that hold clusters are clear when they hold none.            *)
LocalsClear ==
  /\ Stage # "link" => nxt = 0
  /\ Stage \in {"idle", "alloc"} => cur \notin Clusters

LeakInv == NoOtherLeak /\ LocalsClear

(* What a reader of the two says at once.                                  *)
Accounted(c) ==
  c \in orphans \cup {cur, nxt} \/ Referenced(c)

LEMMA LeakForm ==
  NoOtherLeak <=> \A c \in Clusters \ {Root} : Allocated(c) => Accounted(c)
  BY DEF NoOtherLeak, Accounted, Referenced

LEMMA LeakInit == Init => LeakInv
<1> SUFFICES ASSUME Init PROVE LeakInv
  OBVIOUS
<1>1. Stage = "idle" /\ cur = 0 /\ nxt = 0 /\ 1 \in Copies /\ Len(Tree) \in Nat
  BY TreeAssumption, ConstFacts DEF Init, Stage
<1>2. ASSUME NEW c \in Clusters \ {Root}, Allocated(c)
      PROVE  \E s \in Owners : dir[s].first = c
  <2>1. c \in FatIndex /\ c <= 2 + Len(Tree)
    BY <1>1, <1>2, ConstFacts DEF Allocated, Init
  <2>2. c - 2 \in Slots /\ c - 2 <= Len(Tree) /\ 2 + (c - 2) = c
    BY <1>1, <2>1, SizeAssumption, TreeAssumption DEF Clusters, Root, Slots
  <2>3. dir[c - 2].st = "live" /\ dir[c - 2].first = c
    BY <2>2 DEF Init
  <2> QED  BY <1>1, <2>2, <2>3 DEF Owners, BeingReplaced, Live
<1> QED  BY <1>1, <1>2, NumFacts DEF LeakInv, LocalsClear, NoOtherLeak

(* A call that ends names its cluster, or has none.                        *)
LEMMA LeakFinish ==
  ASSUME TypeOK, WriterInv, LeakInv, NEW r, Finish(r),
         UNCHANGED <<fat, dir, orphans>>,
         Stage \in {"idle", "alloc", "data", "extend", "final", "return"}
  PROVE  LeakInv'
<1>1. Stage' = "idle" /\ cur' = 0 /\ nxt' = 0 /\ nxt = 0
  BY FinishStage DEF Finish, LeakInv, LocalsClear
<1>2. Owners \subseteq Owners'
  BY <1>1 DEF Owners, BeingReplaced, Live
<1>3. \A c \in Clusters : Accounted(c) => Accounted(c)'
  <2> SUFFICES ASSUME NEW c \in Clusters, Accounted(c) PROVE Accounted(c)'
    OBVIOUS
  <2>1. Referenced(c) => Referenced(c)'
    BY <1>2 DEF Referenced
  <2>2. c = cur => Referenced(c)
    BY CurrentNamed DEF WriterInv, Filled, LeakInv, LocalsClear
  <2> QED  BY <1>1, <2>1, <2>2, NumFacts DEF Accounted
<1>4. NoOtherLeak'
  BY <1>3, LeakForm DEF LeakInv, NoOtherLeak, Accounted, Referenced, Allocated
<1> QED  BY <1>1, <1>4, NumFacts DEF LeakInv, LocalsClear

LEMMA LeakFrame ==
  ASSUME LeakInv, fat'[1] = fat[1], Stage' = Stage,
         UNCHANGED <<dir, cur, nxt, args, orphans>>
  PROVE  LeakInv'
  BY DEF LeakInv, LocalsClear, NoOtherLeak, Owners, BeingReplaced, Live,
         Allocated

LEMMA LeakCalls == TypeOK /\ WriterInv /\ LeakInv /\ Calls => LeakInv'
<1> SUFFICES ASSUME TypeOK, WriterInv, LeakInv, Calls PROVE LeakInv'
  OBVIOUS
<1>0. Stage = "idle" /\ nxt = 0 /\ cur \notin Clusters /\ UNCHANGED fat
  BY DEF Calls, CreateFile, CreateDirectory, CreateEntry, DeleteFile,
         WriteFile, PutEntry, RemoveEntry, Refuse, Stage, LeakInv, LocalsClear
<1>1. ASSUME Refuse PROVE LeakInv'
  BY <1>0, <1>1, LeakFinish DEF Refuse
<1>2. ASSUME NEW s \in Slots, NEW dn, NEW kind, PutEntry(s, dn, kind), Finish("ok")
      PROVE  LeakInv'
  <2>1. Stage' = "idle" /\ cur' = 0 /\ nxt' = 0
    BY <1>2, FinishStage DEF Finish
  <2>2. \A t \in Owners : t \in Owners' /\ dir'[t] = dir[t]
    BY <1>2, <2>1
    DEF PutEntry, IsFirst, FreeSlots, Owners, BeingReplaced, Live, TypeOK, Ranges
  <2>3. UNCHANGED orphans
    BY <1>2 DEF PutEntry
  <2> QED  BY <1>0, <2>1, <2>2, <2>3, NumFacts
           DEF LeakInv, LocalsClear, NoOtherLeak, Allocated
<1>3. ASSUME NEW s \in Slots, NEW dn, RemoveEntry(s, dn), Finish("ok")
      PROVE  LeakInv'
  <2>1. Stage' = "idle" /\ cur' = 0 /\ nxt' = 0
    BY <1>3, FinishStage DEF Finish
  <2>2. \A t \in Owners : t # s => t \in Owners' /\ dir'[t] = dir[t]
    BY <1>3, <2>1 DEF RemoveEntry, Owners, BeingReplaced, Live, TypeOK, Ranges
  <2>3. orphans' = orphans \cup ({dir[s].first} \cap Clusters)
    BY <1>3 DEF RemoveEntry
  <2> QED  BY <1>0, <2>1, <2>2, <2>3, NumFacts
           DEF LeakInv, LocalsClear, NoOtherLeak, Allocated
<1>4. ASSUME NEW n \in Names, NEW v \in Vals, NEW len \in 0 .. MaxLen,
             WriteFile(n, v, len), ~ Refuse
      PROVE  LeakInv'
  <2>1. PICK s \in Slots :
          /\ args'.slot = s /\ UNCHANGED <<dir, nxt, orphans>>
          /\ \/ ~ Live(s) /\ pc' = "alloc" /\ cur' = 0
             \/ Live(s) /\ pc' = "free" /\ cur' = dir[s].first
    BY <1>4 DEF WriteFile
  <2>2. Stage' = pc'
    BY <2>1 DEF Stage
  <2>3. \A t \in Owners : t # s => t \in Owners'
    BY <2>1 DEF Owners, BeingReplaced, Live
  <2>4. \A t \in Owners : t = s => dir[t].first = cur'
    BY <2>1 DEF Owners
  <2> QED  BY <1>0, <2>1, <2>2, <2>3, <2>4, NumFacts
           DEF LeakInv, LocalsClear, NoOtherLeak, Allocated
<1> QED  BY <1>1, <1>2, <1>3, <1>4
         DEF Calls, CreateFile, CreateDirectory, CreateEntry, DeleteFile, Kinds

LEMMA LeakFree ==
  TypeOK /\ ChainInv /\ WriterInv /\ LeakInv /\ FreeCluster => LeakInv'
<1> SUFFICES ASSUME TypeOK, ChainInv, LeakInv, FreeCluster PROVE LeakInv'
  OBVIOUS
<1> DEFINE then == IF fat[1][cur] < EOC THEN "free" ELSE "alloc"
<1>1. Stage = "free" /\ nxt = 0 /\ UNCHANGED <<dir, args, orphans, nxt>>
  BY DEF FreeCluster, Stage, LeakInv, LocalsClear
<1>2. cur \in Clusters /\ cur \in FatIndex /\ fat[1][cur] \in FatVal
  BY <1>1, ConstFacts, FatType DEF ChainInv, HeldApart
<1>3. /\ fat'[1][cur] = 0
      /\ \A d \in FatIndex : d # cur => fat'[1][d] = fat[1][d]
      /\ Stage' = then /\ cur' = fat[1][cur]
  <2>1. FatWrite(cur, Free, then) /\ then # "mirror"
    BY DEF FreeCluster
  <2> QED  BY <1>2, <2>1, FatWriteChain DEF FreeCluster, Free
<1>4. Owners' = Owners
  BY <1>1, <1>3 DEF Owners, BeingReplaced, Live
<1>5. then = "alloc" => fat[1][cur] = EOC
  BY <1>2, NumFacts, SizeAssumption DEF EOC
<1>6. ASSUME NEW c \in Clusters \ {Root}, Allocated(c)'
      PROVE  Accounted(c)'
  <2>1. c # cur /\ Allocated(c) /\ c # nxt
    BY <1>1, <1>3, <1>6, ConstFacts, NumFacts DEF Allocated, Free
  <2>2. c \in orphans \/ Referenced(c)
    BY <2>1, LeakForm DEF LeakInv, Accounted
  <2>3. c \in orphans \/ c = cur' \/ Referenced(c)'
    BY <1>1, <1>3, <1>4, <2>2, ConstFacts DEF Referenced
  <2> QED  BY <1>1, <2>3 DEF Accounted
<1>7. NoOtherLeak'
  BY <1>6 DEF NoOtherLeak, Accounted, Referenced
<1>8. LocalsClear'
  BY <1>1, <1>3, <1>5, NumFacts DEF LocalsClear
<1> QED  BY <1>7, <1>8 DEF LeakInv

LEMMA LeakAllocate ==
  TypeOK /\ WriterInv /\ LeakInv /\ AllocateCluster => LeakInv'
<1> SUFFICES ASSUME TypeOK, WriterInv, LeakInv, AllocateCluster PROVE LeakInv'
  OBVIOUS
<1>0. Stage = pc /\ pc \in {"alloc", "extend"} /\ nxt = 0
  BY DEF AllocateCluster, Stage, LeakInv, LocalsClear
<1>1. CASE Refuse
  BY <1>0, <1>1, LeakFinish DEF Refuse
<1>2. ASSUME NEW c \in Clusters, FirstFreeFrom(c), TakeCluster(c),
             FatWrite(c, EOC, IF pc = "alloc" THEN "entry" ELSE "link"),
             UNCHANGED <<dir, args, orphans>>
      PROVE  LeakInv'
  <2>1. /\ \A d \in FatIndex : d # c => fat'[1][d] = fat[1][d]
        /\ Stage' = IF pc = "alloc" THEN "entry" ELSE "link"
        /\ fat[1][c] = Free
    BY <1>2, FatWriteChain, ConstFacts DEF FirstFreeFrom, Allocated
  <2>2. Owners' = Owners
    BY <1>0, <1>2, <2>1 DEF Owners, BeingReplaced, Live
  <2>3. c \in {cur', nxt'} /\ (cur \in Clusters => cur' = cur)
    BY <1>0, <1>2 DEF TakeCluster, LeakInv, LocalsClear
  <2>4. ASSUME NEW d \in Clusters \ {Root}, Allocated(d)'
        PROVE  Accounted(d)'
    <3>1. CASE d = c
      BY <2>3, <3>1 DEF Accounted
    <3>2. CASE d # c
      <4>1. Allocated(d)
        BY <2>1, <2>4, <3>2, ConstFacts DEF Allocated
      <4>2. d \in orphans \/ d = cur \/ Referenced(d)
        BY <1>0, <4>1, LeakForm, NumFacts DEF LeakInv, Accounted
      <4>3. Referenced(d) => Referenced(d)'
        BY <1>2, <2>1, <2>2, ConstFacts, NumFacts DEF Referenced
      <4> QED  BY <1>2, <2>3, <4>2, <4>3 DEF Accounted
    <3> QED  BY <3>1, <3>2
  <2>5. NoOtherLeak'
    BY <2>4 DEF NoOtherLeak, Accounted, Referenced
  <2>6. LocalsClear'
    BY <1>0, <1>2, <2>1 DEF LocalsClear, TakeCluster
  <2> QED  BY <2>5, <2>6 DEF LeakInv
<1> QED  BY <1>1, <1>2 DEF AllocateCluster

LEMMA LeakEntry == TypeOK /\ LeakInv /\ WriteEntry => LeakInv'
<1> SUFFICES ASSUME TypeOK, LeakInv, WriteEntry PROVE LeakInv'
  OBVIOUS
<1>1. /\ Stage = "entry" /\ Stage' \in {"data", "final"}
      /\ args.slot \in Slots /\ UNCHANGED <<fat, cur, nxt, args, orphans>>
  BY DEF WriteEntry, Stage, TypeOK, CallOK
<1>2. \A t \in Owners : t \in Owners' /\ dir'[t] = dir[t]
  BY <1>1 DEF WriteEntry, Owners, BeingReplaced, Live, TypeOK, Ranges
<1> QED  BY <1>1, <1>2 DEF LeakInv, LocalsClear, NoOtherLeak, Allocated

LEMMA LeakLink == TypeOK /\ WriterInv /\ LeakInv /\ Link => LeakInv'
<1> SUFFICES ASSUME TypeOK, WriterInv, LeakInv, Link PROVE LeakInv'
  OBVIOUS
<1>1. Stage = "link" /\ UNCHANGED <<dir, args, orphans>> /\ cur' = nxt /\ nxt' = 0
  BY DEF Link, Stage
<1>2. Taken(cur) /\ Taken(nxt) /\ Referenced(cur)
  BY <1>1, CurrentNamed DEF WriterInv, OwnWork, Filled
<1>3. /\ fat'[1][cur] = nxt
      /\ \A d \in FatIndex : d # cur => fat'[1][d] = fat[1][d]
      /\ Stage' = "data"
  <2>1. cur \in FatIndex /\ FatWrite(cur, nxt, "data")
    BY <1>2, ConstFacts DEF Link, Taken
  <2> QED  BY <2>1, FatWriteChain
<1>4. Owners' = Owners
  BY <1>1, <1>3 DEF Owners, BeingReplaced, Live
<1>5. ASSUME NEW c \in Clusters, Referenced(c) PROVE Referenced(c)'
  BY <1>1, <1>2, <1>3, <1>4, <1>5, ConstFacts, NumFacts DEF Referenced, Taken
<1>6. ASSUME NEW c \in Clusters \ {Root}, Allocated(c)'
      PROVE  Accounted(c)'
  <2>1. Allocated(c)
    BY <1>2, <1>3, <1>6, ConstFacts, NumFacts DEF Allocated, Taken
  <2>2. c \in orphans \/ c = nxt \/ Referenced(c)
    BY <1>2, <2>1, LeakForm DEF LeakInv, Accounted
  <2> QED  BY <1>1, <1>5, <2>2 DEF Accounted
<1>7. NoOtherLeak'
  BY <1>6 DEF NoOtherLeak, Accounted, Referenced
<1> QED  BY <1>1, <1>3, <1>7 DEF LeakInv, LocalsClear

LEMMA LeakContinue ==
  TypeOK /\ ChainInv /\ WriterInv /\ LeakInv /\ Continue => LeakInv'
<1> SUFFICES ASSUME TypeOK, ChainInv, WriterInv, LeakInv, Continue
             PROVE  LeakInv'
  OBVIOUS
<1>1. CASE Mirror
  <2>1. UNCHANGED orphans
    BY <1>1 DEF Mirror
  <2> QED  BY <1>1, <2>1, MirrorFrame, LeakFrame
<1>2. CASE WriteData
  <2>0. Stage = "data"
    BY <1>2 DEF WriteData, Stage
  <2>1. CASE Refuse
    BY <2>0, <2>1, LeakFinish DEF Refuse
  <2>2. CASE ~ Refuse
    <3>1. /\ UNCHANGED <<fat, dir, cur, nxt, args, orphans>>
          /\ Stage' \in {"extend", "final"}
      BY <1>2, <2>2 DEF WriteData, Stage
    <3>2. Owners' = Owners
      BY <2>0, <3>1 DEF Owners, BeingReplaced, Live
    <3> QED  BY <2>0, <3>1, <3>2 DEF LeakInv, LocalsClear, NoOtherLeak, Allocated
  <2> QED  BY <2>1, <2>2
<1>3. CASE MarkEnd
  <2>1. Stage = "final" /\ UNCHANGED <<dir, args, cur, nxt, orphans>>
    BY <1>3 DEF MarkEnd, Stage
  <2>2. Taken(cur) /\ cur \in FatIndex
    BY <2>1, ConstFacts DEF WriterInv, OwnWork, Taken
  <2>3. /\ fat'[1][cur] = EOC /\ Stage' = "return"
        /\ \A d \in FatIndex : d # cur => fat'[1][d] = fat[1][d]
    BY <1>3, <2>2, FatWriteChain DEF MarkEnd
  <2>4. \A d \in Clusters : fat'[1][d] = fat[1][d]
    BY <2>2, <2>3, ConstFacts DEF Taken
  <2>5. Owners' = Owners
    BY <2>1, <2>3 DEF Owners, BeingReplaced, Live
  <2> QED  BY <2>1, <2>3, <2>4, <2>5
           DEF LeakInv, LocalsClear, NoOtherLeak, Allocated
<1>4. CASE Return
  BY <1>4, LeakFinish DEF Return, Stage
<1> QED  BY <1>1, <1>2, <1>3, <1>4, LeakFree, LeakAllocate, LeakEntry, LeakLink
         DEF Continue

(* Every allocated cluster belongs to an entry, to another cluster's link  *)
(* or to the call in progress, or was lost by fat32_delete_file, which     *)
(* frees no cluster: no write loses space unless a fault interrupts it.    *)
THEOREM OnlyDeletesLoseSpace == SafeSpec => []NoOtherLeak
<1> DEFINE I == TypeOK /\ ChainInv /\ WriterInv
<1>1. I /\ LeakInv /\ [Step]_vars => LeakInv'
  <2>1. LeakInv /\ UNCHANGED vars => LeakInv'
    BY LeakFrame DEF vars, Stage
  <2> QED  BY <2>1, LeakCalls, LeakContinue DEF Step
<1>2. LeakInv => NoOtherLeak
  BY DEF LeakInv
<1>3. SafeSpec => []I
  BY SafeInvariants, PTL
<1> QED  BY <1>1, <1>2, <1>3, LeakInit, PTL DEF SafeSpec

-----------------------------------------------------------------------------
(* The driver implements FileStore.                                        *)

(* The directories the image begins with have their names as typed: lower  *)
(* case, or not padded to eleven characters.                               *)
DirectoriesAsTyped ==
  \A s \in 1 .. Len(Tree) : Tree[s].kind = "dir" => Tree[s].name[2] = "raw"

(* So no write finds a directory by its name, and what a write replaces is *)
(* a file of that name.                                                    *)
FilesReplaced ==
  /\ \A s \in Slots :
       Live(s) /\ dir[s].kind = "dir" /\ dir[s].name[2] = "fat"
         => dir[s].first \notin Clusters
  /\ Stage \in {"free", "alloc", "entry"} /\ Live(args.slot) =>
       dir[args.slot].kind = "file" /\ dir[args.slot].name = <<args.name, "fat">>

(* A slot of the store, by what was reported as written.                   *)
SavedSlot(s) ==
  IF ~ Live(s) THEN NoEntry
  ELSE [name |-> dir[s].name, kind |-> dir[s].kind,
        content |-> IF saved[s] = None THEN None
                    ELSE IF dir[s].kind = "dir" THEN << >> ELSE saved[s]]

LEMMA StoreAsSaved ==
  ASSUME TypeOK, SavedReadable, NEW s \in Slots
  PROVE  StoreSlot(s) = SavedSlot(s)
<1>1. dir[s].kind \in {"file", "dir"}
  BY DEF TypeOK, Ranges, Entries, Kinds
<1>2. saved[s] # None /\ dir[s].kind # "dir" => ReadSlot(s) = saved[s]
  BY <1>1 DEF SavedReadable
<1> QED  BY <1>2 DEF StoreSlot, SavedSlot

(* The same of the next state, which is what a step changes the store to.  *)
LEMMA StoreAsSavedNext ==
  ASSUME TypeOK', SavedReadable', NEW s \in Slots
  PROVE  StoreSlot(s)' = SavedSlot(s)'
<1>1. dir'[s].kind \in {"file", "dir"}
  BY DEF TypeOK, Ranges, Entries, Kinds
<1>2. saved'[s] # None /\ dir'[s].kind # "dir" => ReadSlot(s)' = saved'[s]
  BY <1>1 DEF SavedReadable
<1> QED  BY <1>2 DEF StoreSlot, SavedSlot

LEMMA SavedSlotType ==
  ASSUME TypeOK, NEW s \in Slots, Live(s)
  PROVE  SavedSlot(s) # NoEntry
<1>1. /\ dir[s].name \in DiskNames \cup {None} /\ dir[s].kind \in Kinds
      /\ saved[s] \in Seq(Vals \X (1 .. MaxLen)) \cup {None}
  BY DEF TypeOK, Ranges, Entries
<1>2. SavedSlot(s) \in [name : DiskNames \cup {None}, kind : Kinds,
              content : Seq(Vals \X (1 .. MaxLen)) \cup {None}]
  BY <1>1, EmptyType DEF SavedSlot
<1> QED  BY <1>2, NoEntryAssumption

-----------------------------------------------------------------------------
LEMMA ReplacedInit == DirectoriesAsTyped /\ Init => FilesReplaced
<1> SUFFICES ASSUME DirectoriesAsTyped, Init PROVE FilesReplaced
  OBVIOUS
<1>1. Stage = "idle"
  BY DEF Init, Stage
<1>2. ASSUME NEW s \in Slots, Live(s), dir[s].kind = "dir"
      PROVE  dir[s].name[2] = "raw"
  <2>1. s <= Len(Tree)
    BY <1>2 DEF Init, Live, Blank
  <2>2. s \in 1 .. Len(Tree)
    BY <2>1, TreeAssumption, SizeAssumption DEF Slots
  <2>3. dir[s].kind = Tree[s].kind /\ dir[s].name = Tree[s].name
    BY <2>1 DEF Init
  <2> QED  BY <1>2, <2>2, <2>3 DEF DirectoriesAsTyped
<1> QED  BY <1>1, <1>2 DEF FilesReplaced

LEMMA ReplacedFrame ==
  ASSUME FilesReplaced, UNCHANGED <<dir, args>>,
         Stage' \in {"free", "alloc", "entry"} =>
           Stage \in {"free", "alloc", "entry"}
  PROVE  FilesReplaced'
  BY DEF FilesReplaced, Live

LEMMA ReplacedIdle ==
  ASSUME FilesReplaced, UNCHANGED dir, Stage' = "idle"
  PROVE  FilesReplaced'
  BY DEF FilesReplaced, Live

LEMMA ReplacedCalls == TypeOK /\ FilesReplaced /\ Calls => FilesReplaced'
<1> SUFFICES ASSUME TypeOK, FilesReplaced, Calls PROVE FilesReplaced'
  OBVIOUS
<1>1. ASSUME Refuse PROVE FilesReplaced'
  BY <1>1, FinishStage, ReplacedIdle DEF Refuse
<1>2. ASSUME NEW s \in Slots, NEW e, Finish("ok"),
             dir' = [dir EXCEPT ![s] = e], e.first = 0
      PROVE  FilesReplaced'
  <2>1. Stage' = "idle"
    BY <1>2, FinishStage
  <2>2. \A t \in Slots : dir'[t] = dir[t] \/ dir'[t].first = 0
    BY <1>2 DEF TypeOK, Ranges
  <2> QED  BY <2>1, <2>2, NumFacts DEF FilesReplaced, Live
<1>3. ASSUME NEW n \in Names, NEW v \in Vals, NEW len \in 0 .. MaxLen,
             WriteFile(n, v, len), ~ Refuse
      PROVE  FilesReplaced'
  <2>1. PICK s \in Slots :
          /\ IsFirst(s, NamedFat(n) \cup FreeSlots)
          /\ args' = [name |-> n, val |-> v, len |-> len, slot |-> s]
          /\ UNCHANGED dir
          /\ Live(s) => dir[s].first >= 2 /\ dir[s].first < EOC
    BY <1>3 DEF WriteFile
  <2>2. ASSUME Live(s)
        PROVE  dir[s].kind = "file" /\ dir[s].name = <<n, "fat">>
    <3>1. dir[s].name = <<n, "fat">>
      BY <2>1, <2>2 DEF IsFirst, NamedFat, FreeSlots
    <3>2. dir[s].first \in Clusters
      BY <2>1, <2>2, FatType, NumFacts
    <3>3. dir[s].kind \in {"file", "dir"}
      BY DEF TypeOK, Ranges, Entries, Kinds
    <3>4. dir[s].kind # "dir"
      BY <2>2, <3>1, <3>2 DEF FilesReplaced
    <3> QED  BY <3>1, <3>3, <3>4
  <2> QED  BY <2>1, <2>2 DEF FilesReplaced, Live
<1>4. ASSUME NEW dn \in DiskNames, NEW kind \in Kinds, CreateEntry(dn, kind)
      PROVE  FilesReplaced'
  <2>1. ASSUME NEW s \in Slots, PutEntry(s, dn, kind), Finish("ok")
        PROVE  FilesReplaced'
    <3> DEFINE e == [st |-> "live", name |-> dn, kind |-> kind, first |-> 0,
                     size |-> 0]
    <3>1. dir' = [dir EXCEPT ![s] = e] /\ e.first = 0
      BY <2>1 DEF PutEntry
    <3> HIDE DEF e
    <3> QED  BY <1>2, <2>1, <3>1
  <2> QED  BY <1>1, <1>4, <2>1 DEF CreateEntry
<1>5. ASSUME NEW dn \in DiskNames, DeleteFile(dn)
      PROVE  FilesReplaced'
  <2>1. ASSUME NEW s \in Slots, RemoveEntry(s, dn), Finish("ok")
        PROVE  FilesReplaced'
    <3>1. dir' = [dir EXCEPT ![s] = Blank("deleted")] /\ Blank("deleted").first = 0
      BY <2>1 DEF RemoveEntry, Blank
    <3> QED  BY <1>2, <2>1, <3>1
  <2> QED  BY <1>1, <1>5, <2>1 DEF DeleteFile
<1> QED  BY <1>1, <1>3, <1>4, <1>5
         DEF Calls, CreateFile, CreateDirectory, Kinds

LEMMA ReplacedContinue == TypeOK /\ FilesReplaced /\ Continue => FilesReplaced'
<1> SUFFICES ASSUME TypeOK, FilesReplaced, Continue PROVE FilesReplaced'
  OBVIOUS
<1>1. ASSUME Refuse PROVE FilesReplaced'
  BY <1>1, FinishStage, ReplacedIdle DEF Refuse
<1>2. CASE WriteEntry
  <2>1. args.slot \in Slots /\ Stage' \in {"data", "final"}
    BY <1>2 DEF WriteEntry, Stage, TypeOK, CallOK
  <2>2. /\ dir'[args.slot].kind = "file"
        /\ \A t \in Slots : t # args.slot => dir'[t] = dir[t]
    BY <1>2, <2>1 DEF WriteEntry, NewEntry, TypeOK, Ranges
  <2> QED  BY <2>1, <2>2 DEF FilesReplaced, Live
<1>3. CASE Mirror
  BY <1>3, MirrorFrame, ReplacedFrame
<1>4. CASE Return
  BY <1>4, FinishStage, ReplacedIdle DEF Return
<1>5. CASE FreeCluster \/ Link \/ MarkEnd
  BY <1>5, ReplacedFrame DEF FreeCluster, Link, MarkEnd, FatWrite, Stage
<1>6. CASE AllocateCluster
  BY <1>1, <1>6, ReplacedFrame DEF AllocateCluster, FatWrite, Stage
<1>7. CASE WriteData
  BY <1>1, <1>7, ReplacedFrame DEF WriteData, Stage
<1> QED  BY <1>2, <1>3, <1>4, <1>5, <1>6, <1>7 DEF Continue

LEMMA ReplacedNext ==
  TypeOK /\ FilesReplaced /\ [Step]_vars => FilesReplaced'
<1>1. FilesReplaced /\ UNCHANGED vars => FilesReplaced'
  BY ReplacedFrame DEF vars, Stage
<1> QED  BY <1>1, ReplacedCalls, ReplacedContinue DEF Step

-----------------------------------------------------------------------------
(* The store and a step of it: one slot changes, or none.                  *)
Store == [s \in Slots |-> StoreSlot(s)]

LEMMA StoreSame ==
  ASSUME TypeOK, TypeOK', SavedReadable, SavedReadable',
         \A s \in Slots : SavedSlot(s)' = SavedSlot(s)
  PROVE  Store' = Store
<1>1. \A s \in Slots : StoreSlot(s)' = StoreSlot(s)
  BY StoreAsSaved, StoreAsSavedNext
<1> QED  BY <1>1 DEF Store

LEMMA StoreChange ==
  ASSUME TypeOK, TypeOK', SavedReadable, SavedReadable', NEW s \in Slots,
         \A t \in Slots : t # s => SavedSlot(t)' = SavedSlot(t)
  PROVE  /\ Store[s] = SavedSlot(s)
         /\ \A x : x = SavedSlot(s)' => Store' = [Store EXCEPT ![s] = x]
<1>1. \A t \in Slots : StoreSlot(t) = SavedSlot(t)
  BY StoreAsSaved
<1>2. \A t \in Slots : StoreSlot(t)' = SavedSlot(t)'
  BY StoreAsSavedNext
<1> QED  BY <1>1, <1>2 DEF Store

(* What a slot holds depends on these alone.                               *)
LEMMA SlotFrame ==
  ASSUME NEW s \in Slots, dir'[s] = dir[s],
         saved'[s] = saved[s] \/ ~ Live(s)
  PROVE  SavedSlot(s)' = SavedSlot(s)
  BY DEF SavedSlot, Live

LEMMA StoreInit == Init => FS!Init
<1> SUFFICES ASSUME Init PROVE FS!Init
  OBVIOUS
<1>1. << >> # None
  <2>1. << >> \in Seq((Vals \X (1 .. MaxLen)) \cup {Garbage})
    OBVIOUS
  <2> QED  BY <2>1, NoneAssumption
<1>2. ASSUME NEW s \in Slots
      PROVE  \/ StoreSlot(s) = NoEntry
             \/ \E n \in DiskNames, k \in Kinds :
                  StoreSlot(s) = [name |-> n, kind |-> k, content |-> << >>]
  <2>1. CASE Live(s)
    <3>1. s <= Len(Tree)
      BY <2>1 DEF Init, Live, Blank
    <3>2. s \in 1 .. Len(Tree)
      BY <3>1, TreeAssumption, SizeAssumption DEF Slots
    <3>3. Tree[s].name \in DiskNames /\ Tree[s].kind \in Kinds
      <4>1. Tree[s] \in [name : DiskNames, kind : Kinds]
        BY <3>2, TreeAssumption, ElementOfSeq
      <4> QED  BY <4>1
    <3>4. /\ dir[s].name = Tree[s].name /\ dir[s].kind = Tree[s].kind
          /\ dir[s].size = 0 /\ saved[s] = << >>
      BY <3>1 DEF Init
    <3>5. ReadSlot(s) = << >>
      BY <3>4 DEF ReadSlot
    <3>6. StoreSlot(s) =
            [name |-> Tree[s].name, kind |-> Tree[s].kind, content |-> << >>]
      BY <1>1, <2>1, <3>4, <3>5 DEF StoreSlot
    <3> QED  BY <3>3, <3>6
  <2>2. CASE ~ Live(s)
    BY <2>2 DEF StoreSlot
  <2> QED  BY <2>1, <2>2
<1> QED  BY <1>2 DEF FS!Init, FS!Entry

(* The states on both sides of a step, as the proof of it needs them.      *)
Steady == TypeOK /\ WriterInv /\ SavedReadable /\ FilesReplaced

(* A step of the store, or none.                                           *)
StoreStep == FS!Next \/ Store' = Store

LEMMA StoreQuiet ==
  ASSUME Steady, Steady', UNCHANGED dir,
         \A s \in Slots : Live(s) => saved'[s] = saved[s]
  PROVE  StoreStep
<1>1. \A s \in Slots : SavedSlot(s)' = SavedSlot(s)
  BY SlotFrame
<1> QED  BY <1>1, StoreSame DEF Steady, StoreStep

LEMMA StoreMake ==
  ASSUME Steady, Steady', NEW s \in Slots, NEW dn \in DiskNames,
         NEW kind \in Kinds, PutEntry(s, dn, kind),
         saved' = [saved EXCEPT ![s] = << >>]
  PROVE  StoreStep
<1>1. ~ Live(s)
  BY DEF PutEntry, IsFirst, FreeSlots
<1>2. /\ \A t \in Slots : t # s => dir'[t] = dir[t] /\ saved'[t] = saved[t]
      /\ dir'[s] = [st |-> "live", name |-> dn, kind |-> kind,
                    first |-> 0, size |-> 0]
      /\ saved'[s] = << >>
  BY DEF PutEntry, Steady, TypeOK, Ranges
<1>3. SavedSlot(s)' = FS!Entry(dn, kind, << >>)
  BY <1>2, NoneAssumption DEF SavedSlot, Live, FS!Entry
<1>4. SavedSlot(s) = NoEntry
  BY <1>1 DEF SavedSlot
<1>5. Store[s] = NoEntry /\ Store' = [Store EXCEPT ![s] = FS!Entry(dn, kind, << >>)]
  BY <1>2, <1>3, <1>4, SlotFrame, StoreChange DEF Steady
<1>6. FS!Make(s)
  BY <1>5 DEF FS!Make, Store
<1> QED  BY <1>6 DEF StoreStep, FS!Next

LEMMA StoreRemove ==
  ASSUME Steady, Steady', NEW s \in Slots, NEW dn, RemoveEntry(s, dn)
  PROVE  StoreStep
<1>1. Live(s)
  BY DEF RemoveEntry, IsFirst, Named
<1>2. /\ \A t \in Slots : t # s => dir'[t] = dir[t] /\ saved'[t] = saved[t]
      /\ dir'[s].st = "deleted"
  BY DEF RemoveEntry, Blank, Steady, TypeOK, Ranges
<1>3. SavedSlot(s)' = NoEntry
  BY <1>2 DEF SavedSlot, Live
<1>4. SavedSlot(s) # NoEntry
  BY <1>1, SavedSlotType DEF Steady
<1>5. Store[s] # NoEntry /\ Store' = [Store EXCEPT ![s] = NoEntry]
  BY <1>2, <1>3, <1>4, SlotFrame, StoreChange DEF Steady
<1>6. FS!Remove(s)
  BY <1>5 DEF FS!Remove, Store
<1> QED  BY <1>6 DEF StoreStep, FS!Next

(* A write takes over the entry of a file.                                 *)
LEMMA StoreBegin ==
  ASSUME Steady, Steady', NEW s \in Slots, UNCHANGED dir, Live(s),
         args'.slot = s, Stage' = "free", saved' = [saved EXCEPT ![s] = None]
  PROVE  StoreStep
<1>1. /\ \A t \in Slots : t # s => dir'[t] = dir[t] /\ saved'[t] = saved[t]
      /\ dir'[s] = dir[s] /\ saved'[s] = None
  BY DEF Steady, TypeOK, Ranges
<1>2. dir[s].kind = "file" /\ Live(s)'
  BY <1>1 DEF Steady, FilesReplaced, Live
<1>3. SavedSlot(s) # NoEntry
  BY SavedSlotType DEF Steady
<1>4. /\ SavedSlot(s).kind = "file"
      /\ SavedSlot(s)' = [SavedSlot(s) EXCEPT !.content = None]
  BY <1>1, <1>2 DEF SavedSlot
<1>5. /\ Store[s] # NoEntry /\ Store[s].kind = "file"
      /\ Store' = [Store EXCEPT ![s] = [Store[s] EXCEPT !.content = None]]
  BY <1>1, <1>3, <1>4, SlotFrame, StoreChange DEF Steady
<1>6. Store' = [Store EXCEPT ![s].content = None]
  BY <1>5
<1>7. FS!Begin(s)
  BY <1>5, <1>6 DEF FS!Begin, Store
<1> QED  BY <1>7 DEF StoreStep, FS!Next

(* It writes the entry: a new one, or the one that is there.               *)
LEMMA StoreEntry == ASSUME Steady, Steady', WriteEntry PROVE StoreStep
<1>0. PICK s \in Slots, n \in DiskNames :
        s = args.slot /\ n = <<args.name, "fat">>
  BY DEF WriteEntry, Steady, TypeOK, CallOK, DiskNames, Forms
<1>1. /\ Stage = "entry" /\ pc # "idle" /\ UNCHANGED <<args, saved>>
      /\ saved[s] = None
  BY <1>0 DEF WriteEntry, Stage, Steady, WriterInv, SavedListed
<1>2. /\ \A t \in Slots : t # s => dir'[t] = dir[t]
      /\ dir'[s] = NewEntry
  BY <1>0 DEF WriteEntry, Steady, TypeOK, Ranges
<1>3. SavedSlot(s)' = FS!Entry(n, "file", None)
  BY <1>0, <1>1, <1>2 DEF SavedSlot, Live, NewEntry, FS!Entry
<1>4. CASE Live(s)
  <2>1. SavedSlot(s) = FS!Entry(n, "file", None)
    BY <1>0, <1>1, <1>4 DEF SavedSlot, FS!Entry, Steady, FilesReplaced
  <2>2. \A t \in Slots : SavedSlot(t)' = SavedSlot(t)
    BY <1>1, <1>2, <1>3, <2>1, SlotFrame
  <2> QED  BY <2>2, StoreSame DEF Steady, StoreStep
<1>5. CASE ~ Live(s)
  <2>1. SavedSlot(s) = NoEntry
    BY <1>5 DEF SavedSlot
  <2>2. Store[s] = NoEntry /\ Store' = [Store EXCEPT ![s] = FS!Entry(n, "file", None)]
    BY <1>1, <1>2, <1>3, <2>1, SlotFrame, StoreChange DEF Steady
  <2>3. FS!Begin(s)
    BY <1>3, <2>2 DEF FS!Begin, Store
  <2> QED  BY <1>1, <2>3 DEF StoreStep, FS!Next
<1> QED  BY <1>4, <1>5

(* It returns true.                                                        *)
LEMMA StoreSave == ASSUME Steady, Steady', Return PROVE StoreStep
<1>0. PICK s \in Slots, v \in Vals, len \in 0 .. MaxLen :
        s = args.slot /\ v = args.val /\ len = args.len
  BY DEF Return, Steady, TypeOK, Ranges, CallOK
<1> DEFINE c == Whole(v, len)
<1>1. /\ Stage = "return" /\ UNCHANGED dir
      /\ saved' = [saved EXCEPT ![s] = c] /\ saved[s] = None
  BY <1>0 DEF Return, Stage, Steady, WriterInv, SavedListed
<1>2. Live(s) /\ dir[s].kind = "file"
  BY <1>0, <1>1 DEF Steady, WriterInv, OwnWork, Filled
<1>3. c # None
  <2>1. c \in Seq(Vals \X (1 .. MaxLen))
    BY WholeType
  <2>2. Seq(Vals \X (1 .. MaxLen)) \subseteq Seq((Vals \X (1 .. MaxLen)) \cup {Garbage})
    OBVIOUS
  <2> QED  BY <2>1, <2>2, NoneAssumption
<1>4. /\ \A t \in Slots : t # s => dir'[t] = dir[t] /\ saved'[t] = saved[t]
      /\ dir'[s] = dir[s] /\ saved'[s] = c
  BY <1>1 DEF Steady, TypeOK, Ranges
<1> HIDE DEF c
<1>5. /\ SavedSlot(s).content = None
      /\ SavedSlot(s)' = [SavedSlot(s) EXCEPT !.content = c]
      /\ SavedSlot(s) # NoEntry
  <2>1. SavedSlot(s) = [name |-> dir[s].name, kind |-> dir[s].kind, content |-> None]
    BY <1>1, <1>2 DEF SavedSlot
  <2>2. SavedSlot(s)' = [name |-> dir[s].name, kind |-> dir[s].kind, content |-> c]
    BY <1>2, <1>3, <1>4 DEF SavedSlot, Live
  <2>3. SavedSlot(s) # NoEntry
    BY <1>1, <1>2, SavedSlotType DEF Steady
  <2> QED  BY <2>1, <2>2, <2>3
<1>6. /\ Store[s] # NoEntry /\ Store[s].content = None
      /\ Store' = [Store EXCEPT ![s] = [Store[s] EXCEPT !.content = c]]
  BY <1>1, <1>4, <1>5, SlotFrame, StoreChange DEF Steady
<1>7. c \in {Whole(w, n) : w \in Vals, n \in 0 .. MaxLen}
  BY DEF c
<1>8. Store' = [Store EXCEPT ![s].content = c]
  BY <1>6
<1>9. FS!Save(s)
  <2> DEFINE All == {Whole(w, n) : w \in Vals, n \in 0 .. MaxLen}
  <2>1. FS!Save(s) <=>
          /\ Store[s] # NoEntry /\ Store[s].content = None
          /\ \E x \in All : Store' = [Store EXCEPT ![s].content = x]
    BY DEF FS!Save, Store
  <2>2. c \in All
    BY <1>7
  <2> HIDE DEF All
  <2> QED  BY <1>6, <1>8, <2>1, <2>2
<1> QED  BY <1>9 DEF StoreStep, FS!Next

LEMMA StoreNext == Steady /\ Steady' /\ [Step]_vars => StoreStep
<1> SUFFICES ASSUME Steady, Steady', [Step]_vars PROVE StoreStep
  OBVIOUS
<1>0. ASSUME Refuse PROVE StoreStep
  BY <1>0, StoreQuiet DEF Refuse
<1>1. ASSUME NEW dn \in DiskNames, NEW kind \in Kinds, CreateEntry(dn, kind)
      PROVE  StoreStep
  BY <1>0, <1>1, StoreMake DEF CreateEntry
<1>2. ASSUME NEW dn \in DiskNames, DeleteFile(dn)
      PROVE  StoreStep
  BY <1>0, <1>2, StoreRemove DEF DeleteFile
<1>3. ASSUME NEW n \in Names, NEW v \in Vals, NEW len \in 0 .. MaxLen,
             WriteFile(n, v, len), ~ Refuse
      PROVE  StoreStep
  <2>1. PICK s \in Slots :
          /\ args'.slot = s /\ UNCHANGED dir
          /\ \/ UNCHANGED saved
             \/ Live(s) /\ pc' = "free" /\ saved' = [saved EXCEPT ![s] = None]
    BY <1>3 DEF WriteFile
  <2>2. CASE UNCHANGED saved
    BY <2>1, <2>2, StoreQuiet
  <2>3. CASE Live(s) /\ pc' = "free" /\ saved' = [saved EXCEPT ![s] = None]
    <3>1. Stage' = "free"
      BY <2>3 DEF Stage
    <3> QED  BY <2>1, <2>3, <3>1, StoreBegin
  <2> QED  BY <2>1, <2>2, <2>3
<1>4. CASE Continue
  <2>1. CASE WriteEntry
    BY <2>1, StoreEntry
  <2>2. CASE Return
    BY <2>2, StoreSave
  <2>3. CASE FreeCluster \/ AllocateCluster \/ Mirror \/ WriteData \/ Link \/ MarkEnd
    <3>1. Refuse \/ UNCHANGED <<dir, saved>>
      BY <2>3 DEF FreeCluster, AllocateCluster, Mirror, WriteData, Link, MarkEnd
    <3> QED  BY <1>0, <3>1, StoreQuiet
  <2> QED  BY <1>4, <2>1, <2>2, <2>3 DEF Continue
<1>5. CASE UNCHANGED vars
  BY <1>5, StoreQuiet DEF vars
<1> QED  BY <1>0, <1>1, <1>2, <1>3, <1>4, <1>5
         DEF Step, Calls, CreateFile, CreateDirectory, Kinds

(* Without faults the driver implements FileStore: every step of a call is *)
(* one atomic change of one named entry, or none at all.  The host's       *)
(* directories must not have names that a write can form, since            *)
(* fat32_write_file takes over an entry of its name without looking at     *)
(* what it is.                                                             *)
THEOREM DriverIsAFileStore ==
  ASSUME DirectoriesAsTyped
  PROVE  SafeSpec => ImplementsFileStore
<1>1. SafeSpec => []Steady
  <2>1. TypeOK /\ FilesReplaced /\ [Step]_vars => FilesReplaced'
    BY ReplacedNext
  <2>2. Init => FilesReplaced
    BY ReplacedInit
  <2>3. SafeSpec => [](TypeOK /\ WriterInv /\ SavedReadable)
    BY SafeInvariants, PTL
  <2>4. SafeSpec => []FilesReplaced
    BY <2>1, <2>2, <2>3, PTL DEF SafeSpec
  <2> QED  BY <2>3, <2>4, PTL DEF Steady
<1>2. Steady /\ Steady' /\ [Step]_vars =>
        [FS!Next]_([s \in Slots |-> StoreSlot(s)])
  BY StoreNext DEF StoreStep, Store
<1> QED  BY <1>1, <1>2, StoreInit, PTL DEF SafeSpec, ImplementsFileStore, FS!Spec
=============================================================================
