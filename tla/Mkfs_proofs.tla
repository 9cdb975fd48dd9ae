---------------------------- MODULE Mkfs_proofs -----------------------------
(***************************************************************************)
(* What holds of the image that Mkfs builds, for every tree of the host    *)
(* and every size of the image, a cluster and a directory.                 *)
(***************************************************************************)
EXTENDS Mkfs, Extremes, SequenceTheorems

(* The states' ranges.                                                     *)
EntrySet == [name : Nodes \cup {".", ".."}, kind : {"directory", "file"},
             cluster : Clusters, size : Nat]
FrameSet == [node : Nodes \cup {Top}, cluster : Clusters, unread : SUBSET Nodes]

Typed ==
  /\ host \in Trees
  /\ fats \in [{1, 2} -> [Clusters -> {Free, EOC} \cup Clusters]]
  /\ next \in Nat /\ Root <= next
  /\ entries \in [Clusters -> [Slots -> EntrySet \cup {None}]]
  /\ data \in [Clusters -> (Nodes \X (Nat \ {0})) \cup {None}]
  /\ stack \in Seq(FrameSet)
  /\ state \in {"walk", "failed", "copied", "written"}
  /\ stack # << >> => state = "walk" /\ Root < next
  /\ state \in {"copied", "written"} => Root < next

(* The clusters below next are handed out, each linked to the one after it *)
(* or ending a chain; those from next on are as at first.                  *)
InARow ==
  /\ fats[2] = fats[1]
  /\ \A c \in Clusters :
       /\ c < next => fats[1][c] # Free
       /\ fats[1][c] \in Clusters => fats[1][c] = c + 1 /\ c + 1 < next
       /\ next <= c => /\ c = Root \/ fats[1][c] = Free
                       /\ data[c] = None /\ Listed(c) = {}
       /\ data[c] = None \/ Listed(c) = {}

(* An entry leads to the first cluster of a chain, and each to another.    *)
EntriesApart ==
  /\ \A p \in Placed : /\ At(p).cluster \in Clusters
                       /\ Root < At(p).cluster /\ At(p).cluster < next
                       /\ \A c \in Clusters : fats[1][c] # At(p).cluster
  /\ \A p, q \in Placed : At(p).cluster = At(q).cluster => p = q

(* What is being walked over are directories' clusters.                    *)
WalkedInUse ==
  \A i \in 1 .. Len(stack) :
    stack[i].cluster < next /\ data[stack[i].cluster] = None

BuildInv == Typed /\ InARow /\ EntriesApart /\ WalkedInUse

-----------------------------------------------------------------------------
LEMMA NumFacts ==
  /\ TotalClusters \in Nat /\ DirSize \in Nat /\ 1 \in Slots /\ 2 \in Slots
  /\ Root = 2 /\ Free = 0 /\ EOC = TotalClusters + 2 /\ EOC \in Nat
  /\ \A c \in Clusters : c \in Nat /\ Root <= c /\ c < EOC
  /\ \A c \in Nat : c \in Clusters <=> Root <= c /\ c < EOC
  BY MkfsAssumption DEF Slots, Root, Free, EOC, Clusters

(* An entry is something.                                                  *)
LEMMA EntrySome ==
  /\ None \notin EntrySet
  /\ "." \notin Nodes /\ ".." \notin Nodes
<1>1. EntrySet \subseteq [name : Nodes \cup {".", ".."},
                         kind : {"directory", "file"}, cluster : Nat, size : Nat]
  BY NumFacts DEF EntrySet
<1> QED  BY <1>1, MkfsAssumption

LEMMA MakeEntry ==
  ASSUME NEW n \in Nodes \cup {".", ".."}, NEW k \in {"directory", "file"},
         NEW c \in Clusters, NEW z \in Nat
  PROVE  Entry(n, k, c, z) \in EntrySet /\ Entry(n, k, c, z) # None
  BY EntrySome DEF Entry, EntrySet

LEMMA DotsType ==
  ASSUME NEW own \in Clusters, NEW parent \in Clusters
  PROVE  /\ Dots(own, parent) \in [Slots -> EntrySet \cup {None}]
         /\ Dots(own, parent)[1] # None /\ Dots(own, parent)[1].cluster = own
         /\ Dots(own, parent)[2] # None /\ Dots(own, parent)[2].cluster = parent
         /\ \A s \in Slots : Dots(own, parent)[s] # None =>
                             Dots(own, parent)[s].name \notin Nodes
<1> DEFINE one == Entry(".", "directory", own, 0)
           two == Entry("..", "directory", parent, 0)
<1>1. /\ one \in EntrySet /\ one # None /\ one.name \notin Nodes /\ one.cluster = own
      /\ two \in EntrySet /\ two # None /\ two.name \notin Nodes /\ two.cluster = parent
  BY MakeEntry, EntrySome DEF Entry
<1>2. Dots(own, parent) =
        [s \in Slots |-> IF s = 1 THEN one ELSE IF s = 2 THEN two ELSE None]
  BY DEF Dots
<1> HIDE DEF one, two
<1> QED  BY <1>1, <1>2, NumFacts

(* What allocate_clusters does to the table.                               *)
LEMMA Allocated ==
  ASSUME Typed, InARow, NEW count \in Nat \ {0}, HasRoom(count), Allocate(count)
  PROVE  /\ fats' \in [{1, 2} -> [Clusters -> {Free, EOC} \cup Clusters]]
         /\ next' = next + count /\ next' \in Nat /\ Root < next'
         /\ next .. next + count - 1 \subseteq Clusters
         /\ fats'[2] = fats'[1]
         /\ \A c \in Clusters : c \notin next .. next + count - 1 =>
                               fats'[1][c] = fats[1][c]
         /\ \A c \in next .. next + count - 1 :
              fats'[1][c] = IF c < next + count - 1 THEN c + 1 ELSE EOC
<1>1. next \in Nat /\ next >= 2 /\ next + count < TotalClusters
  BY DEF Typed, Root, HasRoom
<1>2. next .. next + count - 1 \subseteq Clusters
  BY <1>1, MkfsAssumption DEF Clusters
<1> DEFINE New(k) == [c \in Clusters |->
                IF c \in next .. next + count - 2 THEN c + 1
                ELSE IF c = next + count - 1 THEN EOC ELSE fats[k][c]]
<1>3. fats' = [k \in {1, 2} |-> New(k)] /\ next' = next + count
  BY DEF Allocate
<1>4. ASSUME NEW k \in {1, 2}
      PROVE  New(k) \in [Clusters -> {Free, EOC} \cup Clusters]
  <2>1. fats[k] \in [Clusters -> {Free, EOC} \cup Clusters]
    BY DEF Typed
  <2>2. \A c \in Clusters : c \in next .. next + count - 2 => c + 1 \in Clusters
    BY <1>1, <1>2
  <2> QED  BY <2>1, <2>2
<1>5. New(1) = New(2)
  BY DEF InARow
<1>6. fats'[1] = New(1) /\ fats'[2] = New(2)
  BY <1>3
<1>7. fats' \in [{1, 2} -> [Clusters -> {Free, EOC} \cup Clusters]]
  <2> HIDE DEF New
  <2> QED  BY <1>3, <1>4
<1>8. \A c \in Clusters : c \notin next .. next + count - 1 =>
                               fats'[1][c] = fats[1][c]
  BY <1>1, <1>6, NumFacts
<1>9. \A c \in next .. next + count - 1 :
        fats'[1][c] = IF c < next + count - 1 THEN c + 1 ELSE EOC
  BY <1>1, <1>2, <1>6
<1> QED  BY <1>1, <1>2, <1>3, <1>5, <1>6, <1>7, <1>8, <1>9 DEF Root

(* What is handed out links to nothing that was handed out before.         *)
LEMMA LinksNew ==
  ASSUME Typed, InARow, NEW count \in Nat \ {0}, HasRoom(count), Allocate(count),
         NEW x \in Clusters, x <= next, \A c \in Clusters : fats[1][c] # x
  PROVE  \A c \in Clusters : fats'[1][c] # x
<1> SUFFICES ASSUME NEW c \in Clusters, fats'[1][c] = x PROVE FALSE
  OBVIOUS
<1>1. c \in next .. next + count - 1
  BY Allocated
<1>2. next \in Nat /\ c \in Nat /\ x \in Nat /\ x # EOC
  BY NumFacts DEF Typed
<1> QED  BY <1>1, <1>2, Allocated

LEMMA RowGrows ==
  ASSUME Typed, InARow, NEW count \in Nat \ {0}, HasRoom(count), Allocate(count),
         \A c \in Clusters : /\ data'[c] = None \/ Listed(c)' = {}
                             /\ next' <= c => data'[c] = None /\ Listed(c)' = {}
  PROVE  InARow'
<1>1. next \in Nat /\ next' = next + count /\ EOC # Free
  BY Allocated, NumFacts DEF Typed
<1>2. ASSUME NEW c \in Clusters, c \in next .. next + count - 1
      PROVE  /\ fats'[1][c] # Free
             /\ fats'[1][c] \in Clusters => fats'[1][c] = c + 1 /\ c + 1 < next'
             /\ ~ (next' <= c)
  <2>1. c \in Nat /\ c + 1 # Free /\ EOC \notin Clusters
    BY NumFacts
  <2>2. fats'[1][c] = IF c < next + count - 1 THEN c + 1 ELSE EOC
    BY <1>2, Allocated
  <2> QED  BY <1>1, <1>2, <2>1, <2>2
<1>3. ASSUME NEW c \in Clusters, c \notin next .. next + count - 1
      PROVE  /\ c < next' => fats'[1][c] # Free
             /\ fats'[1][c] \in Clusters => fats'[1][c] = c + 1 /\ c + 1 < next'
             /\ next' <= c => c = Root \/ fats'[1][c] = Free
  <2>1. c \in Nat /\ fats'[1][c] = fats[1][c]
    BY <1>3, Allocated, NumFacts
  <2>2. c < next \/ next' <= c
    BY <1>1, <1>3, <2>1
  <2> QED  BY <1>1, <2>1, <2>2 DEF InARow
<1>4. fats'[2] = fats'[1]
  BY Allocated
<1> QED  BY <1>2, <1>3, <1>4 DEF InARow

LEMMA NextUnlinked ==
  ASSUME Typed, InARow, next \in Clusters
  PROVE  \A c \in Clusters : fats[1][c] # next
  BY NumFacts DEF Typed, InARow

(* An entry e more, in slot s of d, and the dots of a new directory x.     *)
Grown(d, s, e, x) ==
  \A c \in Clusters, r \in Slots :
    entries'[c][r] = IF c = d /\ r = s THEN e
                     ELSE IF c = x THEN Dots(x, d)[r] ELSE entries[c][r]

LEMMA PlacedGrown ==
  ASSUME NEW d \in Clusters, NEW s \in FreeSlots(d),
         NEW e \in EntrySet, e.name \in Nodes,
         NEW x, x # d, x \in Clusters => Listed(x) = {}, Grown(d, s, e, x)
  PROVE  /\ Placed' = Placed \cup {<<d, s>>} /\ <<d, s>> \notin Placed
         /\ \A p \in Placed : At(p)' = At(p)
         /\ At(<<d, s>>)' = e
         /\ \A c \in Clusters : c # d /\ c # x => Listed(c)' = Listed(c)
<1>1. s \in Slots /\ entries[d][s] = None /\ e # None
  BY EntrySome DEF FreeSlots
<1>2. ASSUME NEW c \in Clusters, NEW r \in Slots
      PROVE  <<c, r>> \in Placed' <=> <<c, r>> \in Placed \/ (c = d /\ r = s)
  <2>1. /\ <<c, r>> \in Placed <=> entries[c][r] # None /\ entries[c][r].name \in Nodes
        /\ <<c, r>> \in Placed' <=> entries'[c][r] # None /\ entries'[c][r].name \in Nodes
    BY DEF Placed, Named, Listed
  <2>2. CASE c = d /\ r = s
    BY <1>1, <2>1, <2>2 DEF Grown
  <2>3. CASE ~ (c = d /\ r = s) /\ c # x
    BY <2>1, <2>3 DEF Grown
  <2>4. CASE ~ (c = d /\ r = s) /\ c = x
    <3>1. entries'[c][r] = Dots(x, d)[r] /\ entries[c][r] = None
      BY <2>4 DEF Grown, Listed
    <3> QED  BY <2>1, <2>4, <3>1, DotsType
  <2> QED  BY <2>2, <2>3, <2>4
<1>3. <<d, s>> \notin Placed
  BY <1>1 DEF Placed, Named, Listed
<1>4. Placed' = Placed \cup {<<d, s>>}
  <2>1. Placed \subseteq Clusters \X Slots /\ Placed' \subseteq Clusters \X Slots
    BY DEF Placed
  <2> QED  BY <1>1, <1>2, <2>1
<1>5. ASSUME NEW p \in Placed PROVE At(p)' = At(p)
  <2>1. p[1] \in Clusters /\ p[2] \in Slots /\ p = <<p[1], p[2]>>
        /\ entries[p[1]][p[2]] # None
    BY DEF Placed, Named, Listed
  <2>2. p[1] # x
    BY <2>1 DEF Listed
  <2>3. ~ (p[1] = d /\ p[2] = s)
    BY <1>3, <2>1
  <2> QED  BY <2>1, <2>2, <2>3 DEF Grown, At
<1>6. At(<<d, s>>)' = e
  BY <1>1 DEF Grown, At
<1>7. \A c \in Clusters : c # d /\ c # x => Listed(c)' = Listed(c)
  BY DEF Grown, Listed
<1> QED  BY <1>3, <1>4, <1>5, <1>6, <1>7

(* The entries' chains stay apart when clusters are handed out, and when   *)
(* the first of these gets an entry.                                       *)
LEMMA ApartAllocated ==
  ASSUME Typed, InARow, EntriesApart, Placed' = Placed,
         \A p \in Placed : At(p)' = At(p) /\ At(p).cluster \in Clusters,
         NEW count \in Nat \ {0}, HasRoom(count), Allocate(count)
  PROVE  EntriesApart'
<1>1. next \in Nat /\ next' = next + count /\ next' \in Nat
  BY Allocated DEF Typed
<1>2. \A p \in Placed : At(p).cluster \in Nat
  BY NumFacts
<1>3. ASSUME NEW p \in Placed
      PROVE  /\ At(p)'.cluster \in Clusters
             /\ Root < At(p)'.cluster /\ At(p)'.cluster < next'
             /\ \A c \in Clusters : fats'[1][c] # At(p)'.cluster
  <2>1. PICK a : a = At(p).cluster
    OBVIOUS
  <2>2. /\ a \in Clusters /\ a \in Nat /\ Root < a /\ a < next
        /\ \A c \in Clusters : fats[1][c] # a
    BY <1>2, <2>1 DEF EntriesApart
  <2>3. a <= next /\ a < next'
    BY <1>1, <2>2
  <2>4. \A c \in Clusters : fats'[1][c] # a
    BY <2>2, <2>3, LinksNew
  <2> QED  BY <2>1, <2>2, <2>3, <2>4
<1>4. \A p, q \in Placed : At(p)'.cluster = At(q)'.cluster => p = q
  BY DEF EntriesApart
<1> QED  BY <1>3, <1>4 DEF EntriesApart

LEMMA ApartGrown ==
  ASSUME Typed, InARow, EntriesApart, Root < next, NEW x, x \notin Placed,
         Placed' = Placed \cup {x}, At(x)'.cluster = next,
         \A p \in Placed : At(p)' = At(p) /\ At(p).cluster \in Clusters,
         NEW count \in Nat \ {0}, HasRoom(count), Allocate(count)
  PROVE  EntriesApart'
<1>1. next \in Nat /\ next' = next + count /\ next' \in Nat /\ next \in Clusters
  BY Allocated DEF Typed
<1>2. \A p \in Placed : At(p).cluster \in Nat
  BY NumFacts
<1>3. \A c \in Clusters : fats'[1][c] # next
  BY <1>1, NextUnlinked, LinksNew
<1>4. ASSUME NEW p \in Placed
      PROVE  /\ At(p)' = At(p) /\ At(p).cluster \in Clusters
             /\ Root < At(p).cluster /\ At(p).cluster < next /\ At(p).cluster < next'
             /\ \A c \in Clusters : fats'[1][c] # At(p).cluster
  <2>1. PICK a : a = At(p).cluster
    OBVIOUS
  <2>2. /\ a \in Clusters /\ a \in Nat /\ Root < a /\ a < next
        /\ \A c \in Clusters : fats[1][c] # a
    BY <1>2, <2>1 DEF EntriesApart
  <2>3. a <= next /\ a < next'
    BY <1>1, <2>2
  <2>4. \A c \in Clusters : fats'[1][c] # a
    BY <2>2, <2>3, LinksNew
  <2> QED  BY <2>1, <2>2, <2>3, <2>4
<1>5. Root < next /\ next < next'
  BY <1>1
<1>6. ASSUME NEW p \in Placed'
      PROVE  /\ At(p)'.cluster \in Clusters
             /\ Root < At(p)'.cluster /\ At(p)'.cluster < next'
             /\ \A c \in Clusters : fats'[1][c] # At(p)'.cluster
  <2>1. CASE p = x
    BY <1>1, <1>3, <1>5, <2>1
  <2>2. CASE p \in Placed
    BY <1>4, <2>2
  <2> QED  BY <2>1, <2>2
<1>7. ASSUME NEW p \in Placed', NEW q \in Placed', At(p)'.cluster = At(q)'.cluster
      PROVE  p = q
  <2>1. \A y \in Placed : At(y)'.cluster # next
    BY <1>1, <1>2, <1>4
  <2>2. CASE p = x \/ q = x
    BY <1>7, <2>1, <2>2
  <2>3. CASE p # x /\ q # x
    BY <1>4, <1>7, <2>3 DEF EntriesApart
  <2> QED  BY <2>2, <2>3
<1> QED  BY <1>6, <1>7 DEF EntriesApart

LEMMA PlacedType ==
  ASSUME Typed, NEW p \in Placed
  PROVE  /\ p[1] \in Clusters /\ p[2] \in Slots /\ p = <<p[1], p[2]>>
         /\ At(p) \in EntrySet /\ At(p).name \in Nodes
         /\ At(p).cluster \in Clusters
<1>1. /\ p[1] \in Clusters /\ p[2] \in Slots /\ p = <<p[1], p[2]>>
      /\ At(p) # None /\ At(p).name \in Nodes
  BY DEF Placed, Named, Listed, At
<1>2. At(p) \in EntrySet \cup {None}
  BY <1>1 DEF Typed, At
<1> QED  BY <1>1, <1>2 DEF EntrySet

LEMMA FirstFreeIsFree ==
  ASSUME NEW d, FreeSlots(d) # {}
  PROVE  FirstFree(d) \in FreeSlots(d)
<1>1. FreeSlots(d) \in SUBSET Nat
  BY NumFacts DEF FreeSlots, Slots
<1>2. \E s \in FreeSlots(d) : \A r \in FreeSlots(d) : s <= r
  BY <1>1, LeastNat
<1> QED  BY <1>2 DEF FirstFree

(* The clusters that a file needs hold it all.                             *)
LEMMA NeededHolds ==
  ASSUME NEW size \in Nat
  PROVE  /\ Needed(size) \in Nat \ {0}
         /\ \A i \in Nat \ {0} : size > (i - 1) * ClusterSize => i <= Needed(size)
<1>1. ClusterSize \in Nat /\ ClusterSize > 0
  BY MkfsAssumption
<1>2. CASE size = 0
  <2>1. \A i \in Nat \ {0} : (i - 1) * ClusterSize >= 0
    BY <1>1, SMTT(30)
  <2>2. Needed(size) = 1
    BY <1>2 DEF Needed
  <2>3. \A i \in Nat \ {0} : ~ (size > (i - 1) * ClusterSize)
    BY <1>1, <1>2, <2>1, SMTT(30)
  <2> QED  BY <2>2, <2>3
<1>3. CASE size > 0
  <2> DEFINE q == (size + ClusterSize - 1) \div ClusterSize
  <2>1. q \in Int /\ q * ClusterSize <= size + ClusterSize - 1
        /\ size + ClusterSize - 1 < (q + 1) * ClusterSize
    BY <1>1, SMTT(30)
  <2>2. Needed(size) = q
    BY <1>3 DEF Needed
  <2> HIDE DEF q
  <2>3. q >= 1
    BY <1>1, <1>3, <2>1, SMTT(30)
  <2>4. ASSUME NEW i \in Nat \ {0}, size > (i - 1) * ClusterSize, i > q
        PROVE  FALSE
    <3>1. (i - 1) * ClusterSize >= q * ClusterSize
      BY <1>1, <2>1, <2>4, SMTT(30)
    <3>2. (q + 1) * ClusterSize = q * ClusterSize + ClusterSize
      BY <1>1, <2>1, SMTT(30)
    <3>3. (i - 1) * ClusterSize \in Int /\ q * ClusterSize \in Int
      BY <1>1, <2>1
    <3> QED  BY <1>1, <2>1, <2>4, <3>1, <3>2, <3>3
  <2> QED  BY <2>1, <2>2, <2>3, <2>4
<1> QED  BY <1>2, <1>3

(* The stack of calls.                                                     *)
LEMMA CurrentFrame ==
  ASSUME Typed, Walking
  PROVE  /\ Len(stack) \in Nat \ {0} /\ Len(stack) \in 1 .. Len(stack)
         /\ Current = stack[Len(stack)] /\ Current \in FrameSet
         /\ Current.cluster \in Clusters /\ Current.unread \subseteq Nodes
         /\ Root < next
<1>1. stack \in Seq(FrameSet) /\ stack # << >> /\ Root < next
  BY DEF Typed, Walking
<1>2. Len(stack) \in Nat \ {0} /\ Len(stack) \in 1 .. Len(stack)
  BY <1>1
<1>3. Current = stack[Len(stack)] /\ Current \in FrameSet
  BY <1>1, <1>2 DEF Current, Last
<1> QED  BY <1>1, <1>2, <1>3 DEF FrameSet

LEMMA RememberStack ==
  ASSUME Typed, Walking, NEW n
  PROVE  /\ Remember(n) \in Seq(FrameSet) /\ Len(Remember(n)) = Len(stack)
         /\ Remember(n) # << >>
         /\ \A i \in 1 .. Len(stack) :
              /\ Remember(n)[i].node = stack[i].node
              /\ Remember(n)[i].cluster = stack[i].cluster
              /\ Remember(n)[i].unread =
                   IF i = Len(stack) THEN stack[i].unread \ {n} ELSE stack[i].unread
<1> DEFINE top == [stack[Len(stack)] EXCEPT !.unread = @ \ {n}]
<1>1. stack \in Seq(FrameSet) /\ Len(stack) \in 1 .. Len(stack)
  BY CurrentFrame DEF Typed
<1>2. stack[Len(stack)] \in FrameSet
  BY <1>1
<1>3. /\ top \in FrameSet /\ top.node = stack[Len(stack)].node
      /\ top.cluster = stack[Len(stack)].cluster
      /\ top.unread = stack[Len(stack)].unread \ {n}
  BY <1>2 DEF FrameSet
<1>4. Remember(n) = [stack EXCEPT ![Len(stack)] = top]
  BY DEF Remember
<1> HIDE DEF top
<1>5. /\ Remember(n) \in Seq(FrameSet) /\ Len(Remember(n)) = Len(stack)
      /\ \A i \in 1 .. Len(stack) :
           Remember(n)[i] = IF i = Len(stack) THEN top ELSE stack[i]
  BY <1>1, <1>3, <1>4, ExceptSeq
<1>6. Remember(n) # << >>
  BY <1>1, <1>5
<1> QED  BY <1>3, <1>5, <1>6

-----------------------------------------------------------------------------
(* The state is in range, and clusters stay apart.                         *)
LEMMA EmptyStack == << >> \in Seq(FrameSet)
  OBVIOUS

LEMMA BuildInit == Init => BuildInv
<1> SUFFICES ASSUME Init PROVE BuildInv
  OBVIOUS
<1>1. /\ next = Root /\ stack = << >> /\ state = "walk" /\ host \in Trees
      /\ \A c \in Clusters : data[c] = None /\ Listed(c) = {}
      /\ \A c \in Clusters : fats[1][c] = IF c = Root THEN EOC ELSE Free
      /\ fats[2] = fats[1]
  BY DEF Init, Listed
<1>2. Placed = {}
  BY <1>1 DEF Placed, Named
<1>3. Typed
  <2>1. fats \in [{1, 2} -> [Clusters -> {Free, EOC} \cup Clusters]]
    BY DEF Init
  <2>2. entries \in [Clusters -> [Slots -> EntrySet \cup {None}]]
    BY DEF Init
  <2>3. data \in [Clusters -> (Nodes \X (Nat \ {0})) \cup {None}]
    BY DEF Init
  <2> QED  BY <1>1, <2>1, <2>2, <2>3, EmptyStack, NumFacts DEF Typed
<1>4. InARow
  BY <1>1, NumFacts DEF InARow
<1>5. EntriesApart /\ WalkedInUse
  BY <1>1, <1>2 DEF EntriesApart, WalkedInUse
<1> QED  BY <1>3, <1>4, <1>5 DEF BuildInv

(* The calls on the stack are on the clusters of before.                   *)
WalkedBefore ==
  \A i \in 1 .. Len(stack') :
    \E j \in 1 .. Len(stack) : stack'[i].cluster = stack[j].cluster

LEMMA BuildStays ==
  ASSUME BuildInv, UNCHANGED <<host, fats, next, entries, data>>,
         stack' \in Seq(FrameSet), WalkedBefore,
         state' \in {"walk", "failed", "copied", "written"},
         stack' # << >> => state' = "walk" /\ Root < next,
         state' \in {"copied", "written"} => Root < next
  PROVE  BuildInv'
<1>1. Typed'
  BY DEF BuildInv, Typed
<1>2. InARow'
  BY DEF BuildInv, InARow, Listed
<1>3. EntriesApart'
  BY DEF BuildInv, EntriesApart, Placed, Named, Listed, At
<1>4. WalkedInUse'
  BY DEF BuildInv, WalkedInUse, WalkedBefore
<1> QED  BY <1>1, <1>2, <1>3, <1>4 DEF BuildInv

LEMMA BuildFails ==
  ASSUME BuildInv, Fail, UNCHANGED <<host, fats, next, entries, data>>
  PROVE  BuildInv'
<1>1. WalkedBefore
  BY DEF Fail, WalkedBefore
<1> QED  BY <1>1, BuildStays, EmptyStack DEF Fail

LEMMA BuildSkips ==
  ASSUME BuildInv, NEW n \in Nodes, Skip(n)
  PROVE  BuildInv'
<1>1. Typed /\ Walking /\ stack' = Remember(n)
  BY DEF Skip, BuildInv
<1>2. stack' \in Seq(FrameSet) /\ WalkedBefore
  BY <1>1, RememberStack DEF WalkedBefore
<1>3. state' = "walk" /\ Root < next
  BY <1>1, CurrentFrame DEF Skip, Walking
<1> QED  BY <1>2, <1>3, BuildStays DEF Skip

LEMMA FrontStack ==
  ASSUME Typed, Walking
  PROVE  /\ Front(stack) \in Seq(FrameSet) /\ Len(Front(stack)) = Len(stack) - 1
         /\ \A i \in 1 .. Len(stack) - 1 : Front(stack)[i] = stack[i]
         /\ Len(stack) = 1 => Front(stack) = << >>
<1>0. Len(stack) \in Nat /\ Len(stack) # 0
  BY CurrentFrame
<1>1. /\ 1 \in Int /\ Len(stack) - 1 \in Int
      /\ \A i \in 1 .. Len(stack) - 1 : stack[i] \in FrameSet
  BY <1>0 DEF Typed
<1>2. /\ Front(stack) \in Seq(FrameSet)
      /\ Len(Front(stack)) =
           IF 1 <= Len(stack) - 1 THEN (Len(stack) - 1) - 1 + 1 ELSE 0
      /\ \A i \in 1 .. (Len(stack) - 1) - 1 + 1 :
           Front(stack)[i] = stack[1 + i - 1]
  BY <1>1, SubSeqProperties DEF Front
<1>3. Len(Front(stack)) = Len(stack) - 1
  <2>1. CASE 1 <= Len(stack) - 1
    BY <1>0, <1>2, <2>1
  <2>2. CASE ~ (1 <= Len(stack) - 1)
    <3>0. \A l \in Nat : l # 0 /\ ~ (1 <= l - 1) => l = 1
      OBVIOUS
    <3>1. Len(stack) = 1
      BY <1>0, <2>2, <3>0, Zenon
    <3>2. Len(Front(stack)) = 0
      BY <1>2, <2>2, Zenon
    <3> QED  BY <3>1, <3>2
  <2> QED  BY <2>1, <2>2
<1>4. ASSUME NEW i \in 1 .. Len(stack) - 1 PROVE Front(stack)[i] = stack[i]
  <2>1. i \in 1 .. (Len(stack) - 1) - 1 + 1 /\ 1 + i - 1 = i
    BY <1>0
  <2> QED  BY <1>2, <2>1
<1>5. Len(stack) = 1 => Front(stack) = << >>
  BY <1>2, <1>3
<1> QED  BY <1>2, <1>3, <1>4, <1>5

LEMMA BuildLeaves == ASSUME BuildInv, Leave PROVE BuildInv'
<1>1. Typed /\ Walking /\ stack' = Front(stack)
  BY DEF Leave, BuildInv
<1>2. /\ stack' \in Seq(FrameSet) /\ Len(stack) \in Nat \ {0}
      /\ Len(stack') = Len(stack) - 1
      /\ \A i \in 1 .. Len(stack) - 1 : stack'[i] = stack[i]
      /\ Len(stack) = 1 => stack' = << >>
  BY <1>1, FrontStack, CurrentFrame
<1>3. WalkedBefore
  BY <1>2 DEF WalkedBefore
<1>4. Root < next /\ state' \in {"walk", "copied"}
      /\ (stack' # << >> => state' = "walk")
  BY <1>1, <1>2, CurrentFrame DEF Leave, Walking
<1> QED  BY <1>2, <1>3, <1>4, BuildStays DEF Leave

LEMMA BuildWrites == ASSUME BuildInv, WriteImage PROVE BuildInv'
<1>1. stack = << >> /\ Root < next
  BY DEF WriteImage, BuildInv, Typed
<1>2. stack' = stack /\ WalkedBefore /\ stack' \in Seq(FrameSet)
  BY DEF WriteImage, WalkedBefore, BuildInv, Typed
<1> QED  BY <1>1, <1>2, BuildStays DEF WriteImage

LEMMA BuildEntersTop == ASSUME BuildInv, EnterTop PROVE BuildInv'
<1>1. CASE ~ HasRoom(1)
  <2>1. Fail /\ UNCHANGED <<host, fats, next, entries, data>>
    BY <1>1 DEF EnterTop
  <2> QED  BY <2>1, BuildFails
<1>2. CASE HasRoom(1)
  <2>1. /\ Typed /\ InARow /\ next = Root /\ Allocate(1) /\ UNCHANGED <<host, data, state>>
        /\ entries' = [entries EXCEPT ![Root] = Dots(Root, Root)]
        /\ stack' = <<Frame(Top, Root)>> /\ state = "walk" /\ 1 \in Nat \ {0}
    BY <1>2 DEF EnterTop, BuildInv
  <2>2. /\ fats' \in [{1, 2} -> [Clusters -> {Free, EOC} \cup Clusters]]
        /\ next' = 3 /\ Root \in Clusters /\ Root < next'
    BY <1>2, <2>1, Allocated DEF Root
  <2>3. Frame(Top, Root) \in FrameSet /\ Frame(Top, Root).cluster = Root
    BY <2>2 DEF Frame, FrameSet, Children
  <2>4. stack' \in Seq(FrameSet) /\ Len(stack') = 1 /\ stack'[1].cluster = Root
    BY <2>1, <2>3
  <2>5. entries' \in [Clusters -> [Slots -> EntrySet \cup {None}]]
    BY <2>1, <2>2, DotsType DEF Typed
  <2>6. Typed'
    BY <2>1, <2>2, <2>4, <2>5 DEF Typed
  <2>7. \A c \in Clusters : data[c] = None /\ Listed(c) = {}
    BY <2>1, NumFacts DEF InARow
  <2>8. \A c \in Clusters : c # Root => Listed(c)' = Listed(c)
    BY <2>1 DEF Listed, Typed
  <2>9. \A c \in Clusters : next' <= c => c # Root
    BY <2>2, NumFacts
  <2>10. InARow'
    BY <1>2, <2>1, <2>7, <2>8, <2>9, RowGrows
  <2>11. Placed' = {}
    <3> SUFFICES ASSUME NEW p \in Placed' PROVE FALSE
      OBVIOUS
    <3>1. p[1] \in Clusters /\ p[2] \in Slots /\ p[2] \in Listed(p[1])'
          /\ entries'[p[1]][p[2]].name \in Nodes
      BY DEF Placed, Named
    <3>2. p[1] = Root
      BY <2>7, <2>8, <3>1
    <3>3. /\ entries'[Root][p[2]] = Dots(Root, Root)[p[2]]
          /\ entries'[Root][p[2]] # None
      BY <2>1, <2>2, <3>1, <3>2 DEF Typed, Listed
    <3> QED  BY <2>2, <3>1, <3>2, <3>3, DotsType
  <2>12. EntriesApart'
    BY <2>11 DEF EntriesApart
  <2>13. WalkedInUse'
    BY <2>1, <2>2, <2>4, <2>7 DEF WalkedInUse
  <2> QED  BY <2>6, <2>10, <2>12, <2>13 DEF BuildInv
<1> QED  BY <1>1, <1>2

(* What becomes of the data is the matter of process_file.                 *)
DataKept(count) ==
  /\ data' \in [Clusters -> (Nodes \X (Nat \ {0})) \cup {None}]
  /\ \A c \in Clusters : c \notin next .. next + count - 1 => data'[c] = data[c]

(* An error after the clusters were handed out.                            *)
LEMMA BuildFailsLate ==
  ASSUME BuildInv, Fail, UNCHANGED <<host, entries>>,
         NEW count \in Nat \ {0}, HasRoom(count), Allocate(count), DataKept(count)
  PROVE  BuildInv'
<1>1. Typed /\ InARow /\ EntriesApart /\ next \in Nat
  BY DEF BuildInv, Typed
<1>2. /\ fats' \in [{1, 2} -> [Clusters -> {Free, EOC} \cup Clusters]]
      /\ next' = next + count /\ next' \in Nat /\ Root < next'
  BY <1>1, Allocated
<1>3. Typed'
  BY <1>1, <1>2, EmptyStack, NumFacts DEF Typed, Fail, DataKept
<1>4. \A c \in Clusters : Listed(c)' = Listed(c)
  BY DEF Listed
<1>5. ASSUME NEW c \in Clusters
      PROVE  /\ data'[c] = None \/ Listed(c)' = {}
             /\ next' <= c => data'[c] = None /\ Listed(c)' = {}
  <2>1. c \in Nat
    BY NumFacts
  <2>2. CASE c \in next .. next + count - 1
    BY <1>1, <1>2, <1>4, <2>1, <2>2 DEF InARow
  <2>3. CASE c \notin next .. next + count - 1
    <3>1. data'[c] = data[c] /\ (next' <= c => next <= c)
      BY <1>1, <1>2, <2>1, <2>3 DEF DataKept
    <3> QED  BY <1>1, <1>4, <3>1 DEF InARow
  <2> QED  BY <2>2, <2>3
<1>6. InARow'
  BY <1>1, <1>5, RowGrows
<1>7. Placed' = Placed /\ \A p \in Placed : At(p)' = At(p) /\ At(p).cluster \in Clusters
  BY <1>1, PlacedType DEF Placed, Named, Listed, At
<1>8. EntriesApart'
  BY <1>1, <1>7, ApartAllocated
<1>9. WalkedInUse'
  BY DEF Fail, WalkedInUse
<1> QED  BY <1>3, <1>6, <1>8, <1>9 DEF BuildInv

(* A new entry in the directory that is walked over.                       *)
LEMMA BuildGrows ==
  ASSUME BuildInv, Walking, UNCHANGED <<host, state>>,
         NEW count \in Nat \ {0}, HasRoom(count), Allocate(count), DataKept(count),
         NEW d, d = Current.cluster, NEW s \in FreeSlots(d), NEW e \in EntrySet,
         e.name \in Nodes, e.cluster = next,
         NEW x, x \in Clusters => x = next /\ UNCHANGED data,
         Grown(d, s, e, x),
         entries' \in [Clusters -> [Slots -> EntrySet \cup {None}]],
         stack' \in Seq(FrameSet), stack' # << >>,
         \A i \in 1 .. Len(stack') :
           \/ stack'[i].cluster = x
           \/ \E j \in 1 .. Len(stack) : stack'[i].cluster = stack[j].cluster
  PROVE  BuildInv'
<1>1. Typed /\ InARow /\ EntriesApart /\ next \in Nat /\ Root < next
  BY CurrentFrame DEF BuildInv, Typed
<1>2. /\ fats' \in [{1, 2} -> [Clusters -> {Free, EOC} \cup Clusters]]
      /\ next' = next + count /\ next' \in Nat /\ Root < next' /\ next < next'
      /\ next \in Clusters /\ next \in next .. next + count - 1
  <2>1. next \in next .. next + count - 1 /\ next < next + count
    BY <1>1
  <2> QED  BY <1>1, <2>1, Allocated
<1>3. Typed'
  <2>1. state' = "walk" /\ host' \in Trees
    BY <1>1 DEF Walking, Typed
  <2>2. Root <= next'
    BY <1>2, NumFacts
  <2>3. data' \in [Clusters -> (Nodes \X (Nat \ {0})) \cup {None}]
    BY DEF DataKept
  <2> QED  BY <1>2, <2>1, <2>2, <2>3 DEF Typed
<1>4. d \in Clusters /\ d < next /\ data[d] = None /\ d \in Nat
  BY <1>1, CurrentFrame, NumFacts DEF BuildInv, WalkedInUse
<1>5. x # d /\ (x \in Clusters => Listed(x) = {} /\ data[x] = None)
  BY <1>1, <1>4 DEF InARow
<1>6. /\ Placed' = Placed \cup {<<d, s>>} /\ <<d, s>> \notin Placed
      /\ \A p \in Placed : At(p)' = At(p)
      /\ At(<<d, s>>)' = e
      /\ \A c \in Clusters : c # d /\ c # x => Listed(c)' = Listed(c)
  BY <1>4, <1>5, PlacedGrown
<1>7. ASSUME NEW c \in Clusters
      PROVE  /\ data'[c] = None \/ Listed(c)' = {}
             /\ next' <= c => data'[c] = None /\ Listed(c)' = {}
  <2>1. c \in Nat
    BY NumFacts
  <2>2. CASE c = d \/ c = x
    <3>1. c = d => data'[c] = data[c]
      BY <1>1, <1>2, <1>4 DEF DataKept
    <3>2. c < next'
      BY <1>2, <1>4, <2>2
    <3> QED  BY <1>2, <1>4, <1>5, <2>1, <2>2, <3>1, <3>2
  <2>3. CASE c # d /\ c # x /\ c \in next .. next + count - 1
    BY <1>1, <1>2, <1>6, <2>1, <2>3 DEF InARow
  <2>4. CASE c # d /\ c # x /\ c \notin next .. next + count - 1
    <3>1. data'[c] = data[c] /\ (next' <= c => next <= c)
      BY <1>1, <1>2, <2>1, <2>4 DEF DataKept
    <3> QED  BY <1>1, <1>6, <2>4, <3>1 DEF InARow
  <2> QED  BY <2>2, <2>3, <2>4
<1>8. InARow'
  BY <1>1, <1>7, RowGrows
<1>9. \A p \in Placed : At(p).cluster \in Clusters
  BY <1>1, PlacedType
<1>10. EntriesApart'
  <2>1. At(<<d, s>>)'.cluster = next
    BY <1>6
  <2> QED  BY <1>1, <1>6, <1>9, <2>1, ApartGrown
<1>11. WalkedInUse'
  <2> SUFFICES ASSUME NEW i \in 1 .. Len(stack')
               PROVE  stack'[i].cluster < next' /\ data'[stack'[i].cluster] = None
    BY DEF WalkedInUse
  <2>1. stack'[i].cluster \in Clusters
    <3>1. stack'[i] \in FrameSet
      BY ElementOfSeq
    <3> QED  BY <3>1 DEF FrameSet
  <2>2. CASE stack'[i].cluster = x
    BY <1>2, <1>5, <2>1, <2>2
  <2>3. CASE \E j \in 1 .. Len(stack) : stack'[i].cluster = stack[j].cluster
    <3>1. stack'[i].cluster < next /\ data[stack'[i].cluster] = None
      BY <2>3 DEF BuildInv, WalkedInUse
    <3>2. stack'[i].cluster \in Nat /\ stack'[i].cluster \notin next .. next + count - 1
      BY <1>1, <2>1, <3>1, NumFacts
    <3> QED  BY <1>1, <1>2, <2>1, <3>1, <3>2 DEF DataKept
  <2> QED  BY <2>2, <2>3
<1> QED  BY <1>3, <1>8, <1>10, <1>11 DEF BuildInv

(* What process_directory and process_file do when all goes well.          *)
Made(n, kind, count, d, s, e, x) ==
  /\ Walking /\ n \in Current.unread \ Hidden /\ host.kind[n] = kind
  /\ UNCHANGED <<host, state>>
  /\ HasRoom(count) /\ Allocate(count) /\ DataKept(count)
  /\ d = Current.cluster /\ s \in FreeSlots(d) /\ e \in EntrySet
  /\ e.name = n /\ e.kind = kind /\ e.cluster = next /\ Grown(d, s, e, x)
  /\ entries' \in [Clusters -> [Slots -> EntrySet \cup {None}]]

LEMMA DirectoryMade ==
  ASSUME BuildInv, NEW n \in Nodes, ProcessDirectory(n),
         HasRoom(1), FreeSlots(Current.cluster) # {}
  PROVE  /\ \E d, s, e, x : x = next /\ Made(n, "directory", 1, d, s, e, x)
         /\ UNCHANGED data
         /\ stack' = Append(Remember(n), Frame(n, next))
<1>0. PICK d, x : d = Current.cluster /\ x = next
  OBVIOUS
<1>1. /\ Typed /\ InARow /\ Walking /\ n \in Current.unread \ Hidden
      /\ host.kind[n] = "directory" /\ UNCHANGED <<host, data, state>> /\ Allocate(1)
      /\ stack' = Append(Remember(n), Frame(n, x))
      /\ entries' = [entries EXCEPT ![d][FirstFree(d)] = Entry(n, "directory", x, 0),
                                    ![x] = Dots(x, d)]
  BY <1>0 DEF BuildInv, ProcessDirectory
<1>2. PICK s, e : s = FirstFree(d) /\ e = Entry(n, "directory", x, 0)
  OBVIOUS
<1>3. /\ d \in Clusters /\ x \in Clusters /\ d < next /\ next \in Nat
  <2>1. next .. next + 1 - 1 \subseteq Clusters /\ next \in Nat
    BY <1>1, Allocated DEF Typed
  <2>2. next \in next .. next + 1 - 1
    BY <2>1
  <2> QED  BY <1>0, <1>1, <2>1, <2>2, CurrentFrame DEF BuildInv, WalkedInUse
<1>4. d # x
  BY <1>0, <1>3
<1>5. s \in FreeSlots(d) /\ s \in Slots
  BY <1>0, <1>2, FirstFreeIsFree DEF FreeSlots
<1>6. e \in EntrySet /\ e.name = n /\ e.kind = "directory" /\ e.cluster = x
  BY <1>2, <1>3, MakeEntry DEF Entry
<1>7. Dots(x, d) \in [Slots -> EntrySet \cup {None}]
  BY <1>3, DotsType
<1>8. entries' = [entries EXCEPT ![d] = [entries[d] EXCEPT ![s] = e], ![x] = Dots(x, d)]
  BY <1>1, <1>2
<1>9. /\ entries' \in [Clusters -> [Slots -> EntrySet \cup {None}]]
      /\ Grown(d, s, e, x)
  <2>1. /\ entries \in [Clusters -> [Slots -> EntrySet \cup {None}]]
        /\ [entries[d] EXCEPT ![s] = e] \in [Slots -> EntrySet \cup {None}]
    BY <1>1, <1>3, <1>6 DEF Typed
  <2>2. entries' \in [Clusters -> [Slots -> EntrySet \cup {None}]]
    BY <1>3, <1>7, <1>8, <2>1
  <2>3. \A c \in Clusters : entries'[c] =
          IF c = x THEN Dots(x, d)
          ELSE IF c = d THEN [entries[d] EXCEPT ![s] = e] ELSE entries[c]
    BY <1>3, <1>4, <1>8, <2>1
  <2>4. \A r \in Slots : [entries[d] EXCEPT ![s] = e][r] =
          IF r = s THEN e ELSE entries[d][r]
    BY <1>3, <1>5, <2>1
  <2> QED  BY <1>4, <2>2, <2>3, <2>4 DEF Grown
<1>10. DataKept(1)
  BY <1>1 DEF DataKept, Typed
<1>11. Made(n, "directory", 1, d, s, e, x)
  BY <1>0, <1>1, <1>5, <1>6, <1>9, <1>10 DEF Made
<1> QED  BY <1>0, <1>1, <1>11

(* The data of a new file.                                                 *)
LEMMA FileData ==
  ASSUME Typed, NEW n \in Nodes, NEW size \in Nat, NEW count, count = Needed(size),
         next .. next + count - 1 \subseteq Clusters,
         data' = [c \in Clusters |->
                  LET i == c - next + 1
                  IN IF i > 0 /\ size > (i - 1) * ClusterSize THEN <<n, i>> ELSE data[c]]
  PROVE  /\ DataKept(count)
         /\ \A i \in 1 .. count :
              (i - 1) * ClusterSize < size => data'[next + i - 1] = <<n, i>>
<1>1. /\ next \in Nat /\ count \in Nat \ {0} /\ ClusterSize \in Nat
      /\ \A c \in Clusters : c \in Nat
      /\ \A i \in Nat \ {0} : size > (i - 1) * ClusterSize => i <= count
  BY NeededHolds, NumFacts, MkfsAssumption DEF Typed
<1>2. ASSUME NEW c \in Clusters
      PROVE  /\ data'[c] \in (Nodes \X (Nat \ {0})) \cup {None}
             /\ c \notin next .. next + count - 1 => data'[c] = data[c]
  <2>1. PICK i \in Int : i = c - next + 1
    BY <1>1
  <2>2. data'[c] = IF i > 0 /\ size > (i - 1) * ClusterSize THEN <<n, i>> ELSE data[c]
    BY <2>1
  <2>3. data[c] \in (Nodes \X (Nat \ {0})) \cup {None}
    BY DEF Typed
  <2>4. CASE i > 0 /\ size > (i - 1) * ClusterSize
    <3>1. i \in Nat \ {0} /\ i <= count
      BY <1>1, <2>4
    <3>2. c \in next .. next + count - 1
      BY <1>1, <2>1, <3>1
    <3> QED  BY <2>2, <2>4, <3>1, <3>2
  <2>5. CASE ~ (i > 0 /\ size > (i - 1) * ClusterSize)
    BY <2>2, <2>3, <2>5
  <2> QED  BY <2>4, <2>5
<1>3. data' \in [Clusters -> (Nodes \X (Nat \ {0})) \cup {None}]
  <2>1. DOMAIN data' = Clusters /\ data' = [c \in Clusters |-> data'[c]]
    OBVIOUS
  <2> QED  BY <1>2, <2>1
<1>4. ASSUME NEW i \in 1 .. count, (i - 1) * ClusterSize < size
      PROVE  data'[next + i - 1] = <<n, i>>
  <2>1. PICK c \in Clusters : c = next + i - 1
    BY <1>1
  <2>2. c - next + 1 = i /\ i > 0
    BY <1>1, <2>1
  <2>3. data'[c] = IF i > 0 /\ size > (i - 1) * ClusterSize THEN <<n, i>> ELSE data[c]
    BY <2>2
  <2>4. size > (i - 1) * ClusterSize
    BY <1>1, <1>4
  <2> QED  BY <2>1, <2>2, <2>3, <2>4
<1> QED  BY <1>2, <1>3, <1>4 DEF DataKept

LEMMA FileMade ==
  ASSUME BuildInv, NEW n \in Nodes, ProcessFile(n),
         HasRoom(Needed(host.size[n])), FreeSlots(Current.cluster) # {}
  PROVE  /\ \E d, s, e : /\ e.size = host.size[n]
                         /\ Made(n, "file", Needed(host.size[n]), d, s, e, 0)
         /\ \A i \in 1 .. Needed(host.size[n]) :
              (i - 1) * ClusterSize < host.size[n] => data'[next + i - 1] = <<n, i>>
         /\ stack' = Remember(n)
<1>0. PICK d, size, count : d = Current.cluster /\ size = host.size[n] /\ count = Needed(size)
  OBVIOUS
<1>1. /\ Typed /\ InARow /\ Walking /\ n \in Current.unread \ Hidden
      /\ host.kind[n] = "file" /\ UNCHANGED <<host, state>>
      /\ HasRoom(count) /\ Allocate(count) /\ stack' = Remember(n)
      /\ entries' = [entries EXCEPT ![d][FirstFree(d)] = Entry(n, "file", next, size)]
      /\ data' = [c \in Clusters |->
                  LET i == c - next + 1
                  IN IF i > 0 /\ size > (i - 1) * ClusterSize THEN <<n, i>> ELSE data[c]]
  BY <1>0 DEF BuildInv, ProcessFile
<1>2. size \in Nat /\ count \in Nat \ {0}
  <2>1. host.size \in [Nodes -> Sizes]
    BY <1>1 DEF Typed, Trees
  <2>2. size \in Nat
    BY <1>0, <2>1, MkfsAssumption
  <2> QED  BY <1>0, <2>2, NeededHolds
<1>3. d \in Clusters /\ next .. next + count - 1 \subseteq Clusters /\ next \in Clusters
  <2>1. next .. next + count - 1 \subseteq Clusters /\ next \in Nat
    BY <1>1, <1>2, Allocated DEF Typed
  <2>2. next \in next .. next + count - 1
    BY <1>2, <2>1
  <2> QED  BY <1>0, <1>1, <2>1, <2>2, CurrentFrame
<1>4. PICK s, e : s = FirstFree(d) /\ e = Entry(n, "file", next, size)
  OBVIOUS
<1>5. s \in FreeSlots(d) /\ s \in Slots
  BY <1>0, <1>4, FirstFreeIsFree DEF FreeSlots
<1>6. /\ e \in EntrySet /\ e.name = n /\ e.kind = "file" /\ e.cluster = next
      /\ e.size = size
  BY <1>2, <1>3, <1>4, MakeEntry DEF Entry
<1>7. entries' = [entries EXCEPT ![d] = [entries[d] EXCEPT ![s] = e]]
  BY <1>1, <1>4
<1>8. /\ entries' \in [Clusters -> [Slots -> EntrySet \cup {None}]]
      /\ Grown(d, s, e, 0)
  <2>1. /\ entries \in [Clusters -> [Slots -> EntrySet \cup {None}]]
        /\ [entries[d] EXCEPT ![s] = e] \in [Slots -> EntrySet \cup {None}]
    BY <1>1, <1>3, <1>6 DEF Typed
  <2>2. entries' \in [Clusters -> [Slots -> EntrySet \cup {None}]]
    BY <1>3, <1>7, <2>1
  <2>3. \A c \in Clusters : entries'[c] =
          IF c = d THEN [entries[d] EXCEPT ![s] = e] ELSE entries[c]
    BY <1>3, <1>7, <2>1
  <2>4. \A r \in Slots : [entries[d] EXCEPT ![s] = e][r] =
          IF r = s THEN e ELSE entries[d][r]
    BY <1>3, <1>5, <2>1
  <2>5. 0 \notin Clusters
    BY NumFacts
  <2> QED  BY <2>2, <2>3, <2>4, <2>5 DEF Grown
<1>9. /\ DataKept(count)
      /\ \A i \in 1 .. count :
           (i - 1) * ClusterSize < size => data'[next + i - 1] = <<n, i>>
  BY <1>0, <1>1, <1>2, <1>3, FileData
<1>10. Made(n, "file", count, d, s, e, 0)
  BY <1>0, <1>1, <1>5, <1>6, <1>8, <1>9 DEF Made
<1> QED  BY <1>0, <1>1, <1>6, <1>9, <1>10

LEMMA PushedStack ==
  ASSUME Typed, Walking, NEW n, NEW f \in FrameSet
  PROVE  LET pushed == Append(Remember(n), f)
         IN /\ pushed \in Seq(FrameSet) /\ Len(pushed) = Len(stack) + 1
            /\ pushed # << >>
            /\ \A i \in 1 .. Len(stack) : pushed[i] = Remember(n)[i]
            /\ pushed[Len(stack) + 1] = f
  BY RememberStack, AppendProperties

LEMMA BuildMakesDirectory ==
  ASSUME BuildInv, NEW n \in Nodes, ProcessDirectory(n) PROVE BuildInv'
<1>0. Typed /\ Walking /\ 1 \in Nat \ {0}
  BY DEF BuildInv, ProcessDirectory
<1>1. CASE ~ HasRoom(1)
  <2>1. Fail /\ UNCHANGED <<host, fats, next, entries, data>>
    BY <1>1 DEF ProcessDirectory
  <2> QED  BY <2>1, BuildFails
<1>2. CASE HasRoom(1) /\ FreeSlots(Current.cluster) = {}
  <2>1. Fail /\ UNCHANGED <<host, entries, data>> /\ Allocate(1)
    BY <1>2 DEF ProcessDirectory
  <2>2. DataKept(1)
    BY <1>0, <2>1 DEF DataKept, Typed
  <2> QED  BY <1>0, <1>2, <2>1, <2>2, BuildFailsLate
<1>3. CASE HasRoom(1) /\ FreeSlots(Current.cluster) # {}
  <2>1. PICK d, s, e, x : x = next /\ Made(n, "directory", 1, d, s, e, x)
    BY <1>3, DirectoryMade
  <2>2. UNCHANGED data /\ stack' = Append(Remember(n), Frame(n, next))
    BY <1>3, DirectoryMade
  <2>3. next \in Clusters
    <3>1. next \in Nat /\ next .. next + 1 - 1 \subseteq Clusters
      BY <1>0, <2>1, Allocated DEF Made, BuildInv, Typed
    <3>2. next \in next .. next + 1 - 1
      BY <3>1
    <3> QED  BY <3>1, <3>2
  <2>4. Frame(n, next) \in FrameSet /\ Frame(n, next).cluster = next
    BY <2>3 DEF Frame, FrameSet, Children
  <2>5. /\ stack' \in Seq(FrameSet) /\ Len(stack') = Len(stack) + 1 /\ stack' # << >>
        /\ \A i \in 1 .. Len(stack) : stack'[i] = Remember(n)[i]
        /\ stack'[Len(stack) + 1] = Frame(n, next)
    BY <1>0, <2>2, <2>4, PushedStack
  <2>6. ASSUME NEW i \in 1 .. Len(stack')
        PROVE  \/ stack'[i].cluster = x
               \/ \E j \in 1 .. Len(stack) : stack'[i].cluster = stack[j].cluster
    <3>1. Len(stack) \in Nat
      BY <1>0, CurrentFrame
    <3>2. CASE i = Len(stack) + 1
      BY <2>1, <2>4, <2>5, <3>2
    <3>3. CASE i \in 1 .. Len(stack)
      <4>1. stack'[i] = Remember(n)[i]
        BY <2>5, <3>3
      <4>2. Remember(n)[i].cluster = stack[i].cluster
        BY <1>0, <3>3, RememberStack
      <4> QED  BY <3>3, <4>1, <4>2
    <3> QED  BY <2>5, <3>1, <3>2, <3>3
  <2> QED  BY <1>0, <2>1, <2>2, <2>5, <2>6, BuildGrows DEF Made
<1> QED  BY <1>1, <1>2, <1>3

LEMMA BuildMakesFile ==
  ASSUME BuildInv, NEW n \in Nodes, ProcessFile(n) PROVE BuildInv'
<1>0. PICK size, count : size = host.size[n] /\ count = Needed(size)
  OBVIOUS
<1>1. Typed /\ Walking /\ size \in Nat /\ count \in Nat \ {0}
  <2>1. Typed /\ Walking
    BY DEF BuildInv, ProcessFile
  <2>2. size \in Nat
    BY <1>0, <2>1, MkfsAssumption DEF Typed, Trees
  <2> QED  BY <1>0, <2>1, <2>2, NeededHolds
<1>2. CASE ~ HasRoom(count)
  <2>1. Fail /\ UNCHANGED <<host, fats, next, entries, data>>
    BY <1>0, <1>2 DEF ProcessFile
  <2> QED  BY <2>1, BuildFails
<1>3. CASE HasRoom(count) /\ FreeSlots(Current.cluster) = {}
  <2>1. /\ Fail /\ UNCHANGED <<host, entries>> /\ Allocate(count)
        /\ data' = [c \in Clusters |->
             LET i == c - next + 1
             IN IF i > 0 /\ size > (i - 1) * ClusterSize THEN <<n, i>> ELSE data[c]]
    BY <1>0, <1>3 DEF ProcessFile
  <2>2. next .. next + count - 1 \subseteq Clusters
    BY <1>1, <1>3, <2>1, Allocated DEF BuildInv
  <2>3. DataKept(count)
    BY <1>0, <1>1, <2>1, <2>2, FileData
  <2> QED  BY <1>1, <1>3, <2>1, <2>3, BuildFailsLate
<1>4. CASE HasRoom(count) /\ FreeSlots(Current.cluster) # {}
  <2>1. PICK d, s, e : Made(n, "file", count, d, s, e, 0)
    BY <1>0, <1>4, FileMade
  <2>2. stack' = Remember(n)
    BY <1>0, <1>4, FileMade
  <2>3. /\ stack' \in Seq(FrameSet) /\ stack' # << >>
        /\ \A i \in 1 .. Len(stack') :
             \E j \in 1 .. Len(stack) : stack'[i].cluster = stack[j].cluster
    BY <1>1, <2>2, RememberStack
  <2>4. 0 \notin Clusters
    BY NumFacts
  <2> QED  BY <1>1, <2>1, <2>3, <2>4, BuildGrows DEF Made
<1> QED  BY <1>2, <1>3, <1>4

LEMMA BuildNext == BuildInv /\ [Next]_vars => BuildInv'
<1>1. BuildInv /\ UNCHANGED vars => BuildInv'
  <2> SUFFICES ASSUME BuildInv, UNCHANGED vars PROVE BuildInv'
    OBVIOUS
  <2>1. WalkedBefore /\ Typed
    BY DEF vars, WalkedBefore, BuildInv
  <2> QED  BY <2>1, BuildStays DEF vars, Typed
<1>2. BuildInv /\ HostFails => BuildInv'
  BY BuildFails DEF HostFails
<1> QED  BY <1>1, <1>2, BuildEntersTop, BuildLeaves, BuildWrites, BuildSkips,
            BuildMakesDirectory, BuildMakesFile DEF Next

LEMMA BuildAlways == Spec => []BuildInv
  BY BuildInit, BuildNext, PTL DEF Spec

LEMMA ApartState == BuildInv => ClustersApart
<1> SUFFICES ASSUME BuildInv, NEW k \in {1, 2}
             PROVE
    LET refs == Placed \cup Links(k)
    IN /\ \A r, t \in refs : Target(k, r) = Target(k, t) => r = t
       /\ \A r \in refs : Target(k, r) # Root /\ fats[k][Target(k, r)] # Free
       /\ \A c \in Clusters : fats[k][c] = Free => data[c] = None /\ Listed(c) = {}
       /\ \A c \in Clusters : data[c] = None \/ Listed(c) = {}
  BY DEF ClustersApart
<1>1. /\ fats[k] = fats[1] /\ Typed /\ InARow /\ next \in Nat
      /\ \A c \in Clusters : c \in Nat /\ Root <= c
  BY NumFacts DEF BuildInv, InARow, Typed
<1>2. ASSUME NEW r \in Placed
      PROVE  /\ r[2] # 0 /\ Target(k, r) = At(r).cluster /\ Target(k, r) \in Clusters
             /\ Target(k, r) # Root /\ Target(k, r) < next
             /\ \A c \in Clusters : fats[k][c] # Target(k, r)
  <2>1. r[2] # 0 /\ At(r).cluster \in Clusters
    BY <1>1, PlacedType DEF Slots
  <2>2. /\ Root < At(r).cluster /\ At(r).cluster < next
        /\ \A c \in Clusters : fats[1][c] # At(r).cluster
    BY DEF BuildInv, EntriesApart
  <2> QED  BY <1>1, <2>1, <2>2 DEF Target, Root
<1>3. ASSUME NEW r \in Links(k)
      PROVE  /\ r = <<r[1], 0>> /\ r[1] \in Clusters /\ Target(k, r) = r[1] + 1
             /\ Target(k, r) = fats[k][r[1]] /\ Target(k, r) \in Clusters
             /\ Target(k, r) # Root /\ Target(k, r) < next
  <2>1. r = <<r[1], 0>> /\ r[2] = 0 /\ r[1] \in Clusters /\ fats[k][r[1]] \in Clusters
    BY DEF Links
  <2>2. fats[1][r[1]] = r[1] + 1 /\ r[1] + 1 < next
    BY <1>1, <2>1 DEF InARow
  <2>3. r[1] + 1 # Root
    BY <1>1, <2>1 DEF Root
  <2> QED  BY <1>1, <2>1, <2>2, <2>3 DEF Target
<1>4. ASSUME NEW r \in Placed \cup Links(k), NEW t \in Placed \cup Links(k),
             Target(k, r) = Target(k, t)
      PROVE  r = t
  <2>1. CASE r \in Placed /\ t \in Placed
    BY <1>2, <1>4, <2>1 DEF BuildInv, EntriesApart
  <2>2. CASE r \in Links(k) /\ t \in Links(k)
    <3>1. r[1] + 1 = t[1] + 1 /\ r[1] \in Nat /\ t[1] \in Nat
      BY <1>1, <1>3, <1>4, <2>2
    <3>2. r[1] = t[1]
      BY <3>1
    <3> QED  BY <1>3, <2>2, <3>2
  <2>3. CASE r \in Placed /\ t \in Links(k)
    BY <1>2, <1>3, <1>4, <2>3
  <2>4. CASE r \in Links(k) /\ t \in Placed
    BY <1>2, <1>3, <1>4, <2>4
  <2> QED  BY <2>1, <2>2, <2>3, <2>4
<1>5. ASSUME NEW r \in Placed \cup Links(k)
      PROVE  Target(k, r) # Root /\ fats[k][Target(k, r)] # Free
  BY <1>1, <1>2, <1>3 DEF InARow
<1>6. ASSUME NEW c \in Clusters, fats[k][c] = Free
      PROVE  data[c] = None /\ Listed(c) = {}
  <2>1. next <= c
    BY <1>1, <1>6 DEF InARow
  <2> QED  BY <1>1, <2>1 DEF InARow
<1> QED  BY <1>1, <1>4, <1>5, <1>6 DEF InARow

(* While the image is built no two entries and links lead to one cluster,  *)
(* in neither copy of the FAT, what is free is empty, and no cluster holds *)
(* both a directory and a file's data: also where process_file or          *)
(* process_directory fails after allocate_clusters.                        *)
THEOREM ImageClustersApart == Spec => []ClustersApart
  BY BuildAlways, ApartState, PTL

-----------------------------------------------------------------------------
(* What is written is a copy of the host's tree.  As it grows:             *)
IsPlaced(n) == \E p \in Placed : At(p).name = n

(* The directory d of the host is at cluster c.                            *)
LiesAt(d, c) ==
  \/ d = Top /\ c = Root
  \/ \E p \in Placed : At(p).name = d /\ At(p).cluster = c /\ At(p).kind = "directory"

FileWhole(p) ==
  LET e == At(p) count == Needed(e.size)
  IN /\ e.size = host.size[e.name] /\ e.cluster + count <= next
     /\ \A i \in 1 .. count :
          /\ e.cluster + i - 1 \in Clusters
          /\ fats[1][e.cluster + i - 1] = IF i < count THEN e.cluster + i ELSE EOC
          /\ (i - 1) * ClusterSize < e.size => data[e.cluster + i - 1] = <<e.name, i>>

DotsRight(p) ==
  LET own == entries[At(p).cluster]
  IN /\ own[1] # None /\ own[1].cluster = At(p).cluster
     /\ own[2] # None /\ own[2].cluster = p[1]

EntryTrue(p) ==
  LET n == At(p).name
  IN /\ n \notin Hidden /\ At(p).kind = host.kind[n]
     /\ LiesAt(host.parent[n], p[1])
     /\ At(p).kind = "directory" => DotsRight(p)
     /\ At(p).kind = "file" => FileWhole(p)

EntriesTrue ==
  /\ \A p \in Placed : EntryTrue(p)
  /\ \A p, q \in Placed : At(p).name = At(q).name => p = q

WayDown ==
  /\ \A i \in 1 .. Len(stack) :
       /\ LiesAt(stack[i].node, stack[i].cluster)
       /\ \A n \in stack[i].unread :
            host.parent[n] = stack[i].node /\ ~ IsPlaced(n)
  /\ \A i, j \in 1 .. Len(stack) : stack[i].node = stack[j].node => i = j

AllSeen ==
  state # "failed" /\ Root < next =>
    \A n \in Nodes \ Hidden :
      host.kind[n] # "other" /\ (host.parent[n] = Top \/ IsPlaced(host.parent[n]))
        => IsPlaced(n) \/ \E i \in 1 .. Len(stack) : n \in stack[i].unread

(* After an error nothing is written, and nothing is claimed.              *)
CopyInv ==
  /\ state # "failed" => EntriesTrue /\ WayDown /\ AllSeen
  /\ state \in {"copied", "written"} => stack = << >>


LEMMA OwnParent ==
  ASSUME Typed, NEW n \in Nodes
  PROVE  host.parent[n] # n
<1>1. {n} \in (SUBSET Nodes) \ {{}}
  OBVIOUS
<1>2. \E m \in {n} : host.parent[m] \notin {n}
  BY <1>1 DEF Typed, Trees
<1> QED  BY <1>2

LEMMA LiesPlaced ==
  ASSUME NEW d \in Nodes, NEW c, LiesAt(d, c)
  PROVE  IsPlaced(d)
  BY MkfsAssumption DEF LiesAt, IsPlaced

(* A node is reached only through its parent.                              *)
LEMMA ChildrenUnplaced ==
  ASSUME EntriesTrue, NEW n \in Nodes, ~ IsPlaced(n),
         NEW m \in Nodes, host.parent[m] = n
  PROVE  ~ IsPlaced(m)
<1> SUFFICES ASSUME NEW p \in Placed, At(p).name = m PROVE FALSE
  BY DEF IsPlaced
<1>1. LiesAt(n, p[1])
  BY DEF EntriesTrue, EntryTrue
<1> QED  BY <1>1, LiesPlaced

(* What a new entry adds.                                                  *)
Adds(d, s, e, x) ==
  /\ d \in Clusters /\ d < next /\ d # x /\ next \in Clusters /\ next \in Nat
  /\ s \in Slots /\ entries[d][s] = None
  /\ Placed' = Placed \cup {<<d, s>>} /\ <<d, s>> \notin Placed
  /\ \A p \in Placed : At(p)' = At(p)
  /\ At(<<d, s>>)' = e

LEMMA MadeGrows ==
  ASSUME BuildInv, NEW n \in Nodes, NEW kind, NEW count \in Nat \ {0},
         NEW s, NEW e, NEW x, x \in {0, next}, NEW d,
         Made(n, kind, count, d, s, e, x)
  PROVE  Adds(d, s, e, x)
<1>1. /\ Typed /\ InARow /\ Walking /\ HasRoom(count) /\ Allocate(count)
      /\ s \in FreeSlots(d) /\ e \in EntrySet /\ e.name \in Nodes /\ Grown(d, s, e, x)
      /\ d = Current.cluster
  BY DEF BuildInv, Made
<1>2. next \in Nat /\ next .. next + count - 1 \subseteq Clusters
  BY <1>1, Allocated DEF Typed
<1>3. next \in next .. next + count - 1
  BY <1>2
<1>4. d \in Clusters /\ d < next /\ d \in Nat
  BY <1>1, CurrentFrame, NumFacts DEF BuildInv, WalkedInUse
<1>5. x # d /\ (x \in Clusters => Listed(x) = {})
  <2>1. 0 \notin Clusters
    BY NumFacts
  <2> QED  BY <1>1, <1>2, <1>4, <2>1 DEF InARow
<1>6. s \in Slots /\ entries[d][s] = None
  BY <1>1 DEF FreeSlots
<1>7. /\ Placed' = Placed \cup {<<d, s>>} /\ <<d, s>> \notin Placed
      /\ \A p \in Placed : At(p)' = At(p)
      /\ At(<<d, s>>)' = e
  BY <1>1, <1>4, <1>5, PlacedGrown
<1> QED  BY <1>2, <1>3, <1>4, <1>5, <1>6, <1>7 DEF Adds

LEMMA MadePlaces ==
  ASSUME BuildInv, NEW n \in Nodes, NEW kind, NEW count \in Nat \ {0},
         NEW s, NEW e, NEW x, x \in {0, next}, NEW d,
         Made(n, kind, count, d, s, e, x)
  PROVE  /\ \A m : IsPlaced(m)' <=> IsPlaced(m) \/ m = n
         /\ \A m, c : LiesAt(m, c) => LiesAt(m, c)'
         /\ \A c : kind = "directory" /\ c = next => LiesAt(n, c)'
<1>1. /\ Placed' = Placed \cup {<<d, s>>}
      /\ \A p \in Placed : At(p)' = At(p)
      /\ At(<<d, s>>)' = e
  BY MadeGrows DEF Adds
<1>2. e.name = n /\ e.kind = kind /\ e.cluster = next
  BY DEF Made
<1>3. \A m : IsPlaced(m)' <=> IsPlaced(m) \/ m = n
  BY <1>1, <1>2 DEF IsPlaced
<1>4. \A m, c : LiesAt(m, c) => LiesAt(m, c)'
  BY <1>1 DEF LiesAt
<1>5. \A c : kind = "directory" /\ c = next => LiesAt(n, c)'
  BY <1>1, <1>2 DEF LiesAt
<1> QED  BY <1>3, <1>4, <1>5

(* The other entries stay true.                                            *)
LEMMA OthersTrue ==
  ASSUME BuildInv, EntriesTrue, NEW n \in Nodes, NEW kind, NEW count \in Nat \ {0},
         NEW s, NEW e, NEW x, x \in {0, next}, NEW d,
         Made(n, kind, count, d, s, e, x), NEW p \in Placed
  PROVE  EntryTrue(p)'
<1>1. /\ d \in Clusters /\ next \in Clusters /\ next \in Nat /\ entries[d][s] = None
      /\ At(p)' = At(p)
  <2>1. Adds(d, s, e, x)
    BY MadeGrows
  <2> QED  BY <2>1 DEF Adds
<1>2. /\ Typed /\ InARow /\ HasRoom(count) /\ Allocate(count) /\ DataKept(count)
      /\ Grown(d, s, e, x) /\ host' = host
  BY DEF BuildInv, Made
<1>3. EntryTrue(p) /\ At(p).cluster \in Clusters /\ Root < At(p).cluster /\ At(p).cluster < next
  BY <1>2, PlacedType DEF EntriesTrue, BuildInv, EntriesApart
<1>4. LiesAt(host.parent[At(p).name], p[1])'
  BY <1>1, <1>2, <1>3, MadePlaces DEF EntryTrue
<1>5. ASSUME At(p).kind = "directory" PROVE DotsRight(p)'
  <2>1. DotsRight(p) /\ At(p).cluster # x
    BY <1>3, <1>5, NumFacts DEF EntryTrue
  <2>2. \A r \in {1, 2} : entries'[At(p).cluster][r] = entries[At(p).cluster][r]
    BY <1>1, <1>2, <1>3, <2>1, NumFacts DEF Grown, DotsRight
  <2> QED  BY <1>1, <2>1, <2>2 DEF DotsRight
<1>6. ASSUME At(p).kind = "file" PROVE FileWhole(p)'
  <2>1. FileWhole(p)
    BY <1>3, <1>6 DEF EntryTrue
  <2>2. PICK c, m : c = At(p).cluster /\ m = Needed(At(p).size)
    OBVIOUS
  <2>3. /\ c \in Nat /\ Root < c /\ m \in Nat /\ c + m <= next /\ next' = next + count
    <3>1. At(p).size \in Nat
      BY <1>2, PlacedType DEF EntrySet
    <3> QED  BY <1>2, <1>3, <2>1, <2>2, <3>1, NumFacts, NeededHolds, Allocated
             DEF FileWhole
  <2>4. ASSUME NEW i \in 1 .. m
        PROVE  /\ fats'[1][c + i - 1] = fats[1][c + i - 1]
               /\ data'[c + i - 1] = data[c + i - 1]
    <3>1. /\ c + i - 1 \in Nat /\ Root <= c + i - 1 /\ c + i - 1 < next
      BY <1>1, <2>3, NumFacts
    <3>2. c + i - 1 \in Clusters /\ c + i - 1 \notin next .. next + count - 1
      BY <1>1, <3>1, NumFacts
    <3> QED  BY <1>2, <3>2, Allocated DEF DataKept
  <2>5. At(p)'.cluster + m <= next'
    BY <1>1, <2>2, <2>3
  <2> QED  BY <1>1, <1>2, <2>1, <2>2, <2>4, <2>5 DEF FileWhole
<1> QED  BY <1>1, <1>2, <1>3, <1>4, <1>5, <1>6 DEF EntryTrue

LEMMA EntriesMade ==
  ASSUME BuildInv, EntriesTrue, NEW n \in Nodes, NEW kind, NEW count \in Nat \ {0},
         NEW s, NEW e, NEW x, x \in {0, next}, NEW d,
         Made(n, kind, count, d, s, e, x), ~ IsPlaced(n), EntryTrue(<<d, s>>)'
  PROVE  EntriesTrue'
<1>1. /\ Placed' = Placed \cup {<<d, s>>}
      /\ \A p \in Placed : At(p)' = At(p)
      /\ At(<<d, s>>)' = e /\ e.name = n
  <2>1. Adds(d, s, e, x)
    BY MadeGrows
  <2> QED  BY <2>1 DEF Adds, Made
<1>2. \A p \in Placed : EntryTrue(p)'
  BY OthersTrue
<1>3. \A p \in Placed : At(p).name # n
  BY DEF IsPlaced
<1>4. ASSUME NEW p \in Placed', NEW q \in Placed', At(p)'.name = At(q)'.name
      PROVE  p = q
  BY <1>1, <1>3, <1>4 DEF EntriesTrue
<1> QED  BY <1>1, <1>2, <1>4 DEF EntriesTrue

(* The directory that is being walked over.                                *)
LEMMA CurrentLies ==
  ASSUME Typed, Walking, WayDown, NEW n \in Current.unread
  PROVE  /\ host.parent[n] = Current.node /\ ~ IsPlaced(n) /\ n \in Nodes
         /\ LiesAt(host.parent[n], Current.cluster)
         /\ \A i \in 1 .. Len(stack) : n \in stack[i].unread => i = Len(stack)
<1>1. /\ Len(stack) \in 1 .. Len(stack) /\ Current = stack[Len(stack)]
      /\ Current.unread \subseteq Nodes
  BY CurrentFrame
<1>2. \A i \in 1 .. Len(stack) :
        /\ LiesAt(stack[i].node, stack[i].cluster)
        /\ \A m \in stack[i].unread :
             host.parent[m] = stack[i].node /\ ~ IsPlaced(m)
  BY DEF WayDown
<1>3. \A i, j \in 1 .. Len(stack) : stack[i].node = stack[j].node => i = j
  BY DEF WayDown
<1>4. host.parent[n] = Current.node /\ ~ IsPlaced(n)
      /\ LiesAt(host.parent[n], Current.cluster)
  BY <1>1, <1>2
<1>5. ASSUME NEW i \in 1 .. Len(stack), n \in stack[i].unread PROVE i = Len(stack)
  BY <1>1, <1>2, <1>3, <1>4, <1>5
<1> QED  BY <1>1, <1>4, <1>5

(* One node less is unread.                                                *)
LEMMA WayRemembers ==
  ASSUME Typed, Walking, WayDown, UNCHANGED host, NEW n, stack' = Remember(n),
         \A m, c : LiesAt(m, c) => LiesAt(m, c)',
         \A m : IsPlaced(m)' => IsPlaced(m) \/ m = n,
         n \in Current.unread
  PROVE  WayDown'
<1>1. /\ Len(stack') = Len(stack)
      /\ \A i \in 1 .. Len(stack) :
           /\ stack'[i].node = stack[i].node /\ stack'[i].cluster = stack[i].cluster
           /\ stack'[i].unread =
                IF i = Len(stack) THEN stack[i].unread \ {n} ELSE stack[i].unread
  BY RememberStack
<1>2. ASSUME NEW i \in 1 .. Len(stack)
      PROVE  /\ LiesAt(stack[i].node, stack[i].cluster)'
             /\ n \notin stack'[i].unread
             /\ \A m \in stack'[i].unread :
                  host.parent[m] = stack[i].node /\ ~ IsPlaced(m)
  <2>1. n \notin stack'[i].unread
    BY <1>1, CurrentLies
  <2>2. /\ LiesAt(stack[i].node, stack[i].cluster)
        /\ stack'[i].unread \subseteq stack[i].unread
        /\ \A m \in stack[i].unread :
             host.parent[m] = stack[i].node /\ ~ IsPlaced(m)
    BY <1>1 DEF WayDown
  <2>3. PICK m, c : m = stack[i].node /\ c = stack[i].cluster
    OBVIOUS
  <2>4. m = stack'[i].node /\ c = stack'[i].cluster /\ LiesAt(m, c)'
    BY <1>1, <2>2, <2>3
  <2>5. LiesAt(stack[i].node, stack[i].cluster)'
    BY <2>4
  <2> QED  BY <2>1, <2>2, <2>5
<1>3. \A i, j \in 1 .. Len(stack') : stack'[i].node = stack'[j].node => i = j
  BY <1>1 DEF WayDown
<1>4. ASSUME NEW i \in 1 .. Len(stack')
      PROVE  /\ LiesAt(stack[i].node, stack[i].cluster)'
             /\ \A m \in stack'[i].unread :
                  host'.parent[m] = stack'[i].node /\ ~ IsPlaced(m)'
  BY <1>1, <1>2
<1> QED  BY <1>3, <1>4 DEF WayDown

LEMMA CopyFrame ==
  ASSUME UNCHANGED <<host, fats, next, entries, data>>
  PROVE  /\ EntriesTrue => EntriesTrue'
         /\ \A m : IsPlaced(m)' <=> IsPlaced(m)
         /\ \A m, c : LiesAt(m, c)' <=> LiesAt(m, c)
<1>1. Placed' = Placed /\ \A p : At(p)' = At(p)
  BY DEF Placed, Named, Listed, At
<1>2. \A m : IsPlaced(m)' <=> IsPlaced(m)
  BY <1>1 DEF IsPlaced
<1>3. \A m, c : LiesAt(m, c)' <=> LiesAt(m, c)
  BY <1>1 DEF LiesAt
<1>4. ASSUME NEW p PROVE EntryTrue(p)' <=> EntryTrue(p)
  <2>1. FileWhole(p)' <=> FileWhole(p)
    BY <1>1 DEF FileWhole
  <2>2. DotsRight(p)' <=> DotsRight(p)
    BY <1>1 DEF DotsRight
  <2>3. LiesAt(host.parent[At(p).name], p[1])' <=> LiesAt(host.parent[At(p).name], p[1])
    BY <1>1 DEF LiesAt
  <2> QED  BY <1>1, <2>1, <2>2, <2>3 DEF EntryTrue
<1>5. EntriesTrue => EntriesTrue'
  BY <1>1, <1>4 DEF EntriesTrue
<1> QED  BY <1>2, <1>3, <1>5

LEMMA CopyFails == ASSUME Fail PROVE CopyInv'
  BY DEF Fail, CopyInv

LEMMA CopySkips ==
  ASSUME BuildInv, CopyInv, NEW n \in Nodes, Skip(n)
  PROVE  CopyInv'
<1>1. /\ Typed /\ Walking /\ EntriesTrue /\ WayDown /\ AllSeen
      /\ n \in Current.unread /\ (n \in Hidden \/ host.kind[n] = "other")
      /\ stack' = Remember(n) /\ UNCHANGED <<host, fats, next, entries, data, state>>
      /\ state = "walk"
  BY DEF BuildInv, CopyInv, Skip, Walking
<1>2. EntriesTrue'
  BY <1>1, CopyFrame
<1>3. WayDown'
  BY <1>1, CopyFrame, WayRemembers
<1>4. AllSeen'
  <2> SUFFICES ASSUME Root < next, NEW m \in Nodes \ Hidden, host.kind[m] # "other",
                      host.parent[m] = Top \/ IsPlaced(host.parent[m]), ~ IsPlaced(m)
               PROVE  \E i \in 1 .. Len(stack') : m \in stack'[i].unread
    <3>1. \A m : IsPlaced(host.parent[m])' <=> IsPlaced(host.parent[m])
      BY <1>1 DEF IsPlaced, Placed, Named, Listed, At
    <3> QED  BY <1>1, <3>1, CopyFrame DEF AllSeen
  <2>1. PICK i \in 1 .. Len(stack) : m \in stack[i].unread
    BY <1>1 DEF AllSeen
  <2>2. m # n
    BY <1>1
  <2> QED  BY <1>1, <2>1, <2>2, RememberStack
<1> QED  BY <1>1, <1>2, <1>3, <1>4 DEF CopyInv

LEMMA CopyLeaves == ASSUME BuildInv, CopyInv, Leave PROVE CopyInv'
<1>1. /\ Typed /\ Walking /\ EntriesTrue /\ WayDown /\ AllSeen
      /\ Current.unread = {} /\ stack' = Front(stack)
      /\ UNCHANGED <<host, fats, next, entries, data>> /\ state = "walk"
      /\ state' = IF Len(stack) = 1 THEN "copied" ELSE state
  BY DEF BuildInv, CopyInv, Leave, Walking
<1>2. /\ Len(stack') = Len(stack) - 1 /\ Len(stack) \in Nat
      /\ \A i \in 1 .. Len(stack) - 1 : stack'[i] = stack[i]
      /\ Len(stack) = 1 => stack' = << >>
  BY <1>1, FrontStack, CurrentFrame
<1>3. EntriesTrue'
  BY <1>1, CopyFrame
<1>4. WayDown'
  <2>1. ASSUME NEW i \in 1 .. Len(stack')
        PROVE  /\ i \in 1 .. Len(stack) /\ stack'[i] = stack[i]
               /\ LiesAt(stack[i].node, stack[i].cluster)'
               /\ \A m \in stack'[i].unread :
                    host'.parent[m] = stack'[i].node /\ ~ IsPlaced(m)'
    <3>1. i \in 1 .. Len(stack) /\ stack'[i] = stack[i]
      BY <1>2
    <3>2. PICK m, c : m = stack[i].node /\ c = stack[i].cluster
      OBVIOUS
    <3>3. LiesAt(m, c) /\ m = stack'[i].node /\ c = stack'[i].cluster
      BY <1>1, <3>1, <3>2 DEF WayDown
    <3>4. LiesAt(m, c)'
      BY <1>1, <3>3, CopyFrame
    <3>5. LiesAt(stack[i].node, stack[i].cluster)'
      BY <3>3, <3>4
    <3>6. \A o : IsPlaced(o)' <=> IsPlaced(o)
      BY <1>1, CopyFrame
    <3>7. \A o \in stack[i].unread : host.parent[o] = stack[i].node /\ ~ IsPlaced(o)
      BY <1>1, <3>1 DEF WayDown
    <3> QED  BY <1>1, <3>1, <3>5, <3>6, <3>7
  <2>2. \A i, j \in 1 .. Len(stack') : stack'[i].node = stack'[j].node => i = j
    BY <1>1, <2>1 DEF WayDown
  <2> QED  BY <2>1, <2>2 DEF WayDown
<1>5. AllSeen'
  <2> SUFFICES ASSUME Root < next, NEW m \in Nodes \ Hidden, host.kind[m] # "other",
                      host.parent[m] = Top \/ IsPlaced(host.parent[m]), ~ IsPlaced(m)
               PROVE  \E i \in 1 .. Len(stack') : m \in stack'[i].unread
    <3>1. \A o : IsPlaced(host.parent[o])' <=> IsPlaced(host.parent[o])
      BY <1>1 DEF IsPlaced, Placed, Named, Listed, At
    <3> QED  BY <1>1, <3>1, CopyFrame DEF AllSeen
  <2>1. PICK i \in 1 .. Len(stack) : m \in stack[i].unread
    BY <1>1 DEF AllSeen
  <2>2. i # Len(stack)
    BY <1>1, <2>1, CurrentFrame
  <2>3. i \in 1 .. Len(stack')
    BY <1>2, <2>2
  <2> QED  BY <1>2, <2>1, <2>3
<1> QED  BY <1>1, <1>2, <1>3, <1>4, <1>5 DEF CopyInv

LEMMA CopyWrites == ASSUME BuildInv, CopyInv, WriteImage PROVE CopyInv'
<1>1. /\ stack = << >> /\ stack' = stack /\ EntriesTrue /\ AllSeen
      /\ UNCHANGED <<host, fats, next, entries, data>>
      /\ state = "copied" /\ state' \in {"written", "failed"}
  BY DEF CopyInv, WriteImage
<1>2. EntriesTrue'
  BY <1>1, CopyFrame
<1>3. WayDown'
  BY <1>1 DEF WayDown
<1>4. AllSeen'
  <2>1. \A o : IsPlaced(host.parent[o])' <=> IsPlaced(host.parent[o])
    BY <1>1 DEF IsPlaced, Placed, Named, Listed, At
  <2> QED  BY <1>1, <2>1, CopyFrame DEF AllSeen
<1> QED  BY <1>1, <1>2, <1>3, <1>4 DEF CopyInv

LEMMA CopyInit == Init => CopyInv
<1> SUFFICES ASSUME Init PROVE CopyInv
  OBVIOUS
<1>1. BuildInv /\ next = Root /\ stack = << >> /\ state = "walk"
  BY BuildInit DEF Init
<1>2. Placed = {}
  <2> SUFFICES ASSUME NEW p \in Placed PROVE FALSE
    OBVIOUS
  <2>1. At(p).cluster \in Clusters /\ Root < At(p).cluster /\ At(p).cluster < Root
    BY <1>1, PlacedType DEF BuildInv, EntriesApart
  <2> QED  BY <2>1, NumFacts
<1> QED  BY <1>1, <1>2, NumFacts DEF CopyInv, EntriesTrue, WayDown, AllSeen

LEMMA CopyEntersTop == ASSUME BuildInv, BuildInv', EnterTop PROVE CopyInv'
<1>1. CASE ~ HasRoom(1)
  BY <1>1, CopyFails DEF EnterTop
<1>2. CASE HasRoom(1)
  <2>1. /\ Typed /\ InARow /\ next = Root /\ Allocate(1) /\ UNCHANGED <<host, state>>
        /\ stack' = <<Frame(Top, Root)>> /\ state = "walk" /\ 1 \in Nat \ {0}
    BY <1>2 DEF EnterTop, BuildInv
  <2>2. next' = 3 /\ Typed' /\ EntriesApart'
    BY <1>2, <2>1, Allocated DEF Root, BuildInv
  <2>3. Placed' = {}
    <3> SUFFICES ASSUME NEW p \in Placed' PROVE FALSE
      OBVIOUS
    <3>1. At(p)'.cluster \in Clusters
      BY <2>2 DEF EntriesApart
    <3>2. Root < At(p)'.cluster /\ At(p)'.cluster < next'
      BY <2>2 DEF EntriesApart
    <3> QED  BY <2>2, <3>1, <3>2, NumFacts
  <2>4. /\ Len(stack') = 1 /\ stack'[1].node = Top /\ stack'[1].cluster = Root
        /\ stack'[1].unread = {n \in Nodes : host'.parent[n] = Top}
    BY <2>1 DEF Frame, Children
  <2>5. \A m : ~ IsPlaced(m)'
    BY <2>3 DEF IsPlaced
  <2>6. WayDown'
    <3>1. LiesAt(stack[1].node, stack[1].cluster)'
      BY <2>4 DEF LiesAt
    <3> QED  BY <2>4, <2>5, <3>1 DEF WayDown
  <2>7. AllSeen'
    <3>1. \A o : ~ IsPlaced(host.parent[o])'
      BY <2>3 DEF IsPlaced
    <3> QED  BY <2>4, <3>1 DEF AllSeen
  <2>8. EntriesTrue'
    BY <2>3 DEF EntriesTrue
  <2> QED  BY <2>1, <2>6, <2>7, <2>8 DEF CopyInv
<1> QED  BY <1>1, <1>2

(* What was unread still is, but for the new entry's node.                 *)
LEMMA SeenMade ==
  ASSUME Typed, Walking, AllSeen, state # "failed", UNCHANGED host, NEW n,
         \A m : IsPlaced(m)' <=> IsPlaced(m) \/ m = n,
         NEW m \in Nodes \ Hidden, host.kind[m] # "other", m # n,
         host.parent[m] = Top \/ IsPlaced(host.parent[m]), ~ IsPlaced(m)
  PROVE  \E i \in 1 .. Len(stack) : m \in Remember(n)[i].unread
<1>1. PICK i \in 1 .. Len(stack) : m \in stack[i].unread
  BY CurrentFrame DEF AllSeen
<1> QED  BY <1>1, RememberStack

LEMMA CopyMakesDirectory ==
  ASSUME BuildInv, CopyInv, NEW n \in Nodes, ProcessDirectory(n),
         HasRoom(1), FreeSlots(Current.cluster) # {}
  PROVE  CopyInv'
<1>1. /\ Typed /\ Walking /\ state = "walk" /\ EntriesTrue /\ WayDown /\ AllSeen
      /\ n \in Current.unread \ Hidden /\ 1 \in Nat \ {0}
  BY DEF BuildInv, CopyInv, ProcessDirectory, Walking
<1>2. PICK d, s, e, x : x = next /\ Made(n, "directory", 1, d, s, e, x)
  BY DirectoryMade
<1>3. stack' = Append(Remember(n), Frame(n, x))
  BY <1>2, DirectoryMade
<1>4. /\ UNCHANGED <<host, state>> /\ host.kind[n] = "directory" /\ d = Current.cluster
      /\ e.name = n /\ e.kind = "directory" /\ e.cluster = x /\ Grown(d, s, e, x)
  BY <1>2 DEF Made
<1>5. ~ IsPlaced(n) /\ LiesAt(host.parent[n], d)
  BY <1>1, <1>4, CurrentLies
<1>6. /\ d \in Clusters /\ d # x /\ x \in Clusters /\ s \in Slots
      /\ Placed' = Placed \cup {<<d, s>>}
      /\ At(<<d, s>>)' = e
  <2>1. Adds(d, s, e, x)
    BY <1>1, <1>2, MadeGrows
  <2> QED  BY <1>2, <2>1 DEF Adds
<1>7. /\ \A m : IsPlaced(m)' <=> IsPlaced(m) \/ m = n
      /\ \A m, c : LiesAt(m, c) => LiesAt(m, c)'
      /\ LiesAt(n, x)'
  BY <1>1, <1>2, MadePlaces
<1>8. EntryTrue(<<d, s>>)'
  <2>1. LiesAt(host.parent[n], d)'
    <3>1. PICK m : m = host.parent[n]
      OBVIOUS
    <3>2. LiesAt(m, d)' /\ m = host'.parent[n]
      BY <1>4, <1>5, <1>7, <3>1
    <3> QED  BY <3>2
  <2>2. DotsRight(<<d, s>>)'
    <3>1. \A r \in {1, 2} : entries'[x][r] = Dots(x, d)[r]
      BY <1>4, <1>6, NumFacts DEF Grown
    <3>2. /\ Dots(x, d)[1] # None /\ Dots(x, d)[1].cluster = x
          /\ Dots(x, d)[2] # None /\ Dots(x, d)[2].cluster = d
      BY <1>6, DotsType
    <3> QED  BY <1>4, <1>6, <3>1, <3>2 DEF DotsRight
  <2> QED  BY <1>1, <1>4, <1>6, <2>1, <2>2 DEF EntryTrue
<1>9. EntriesTrue'
  BY <1>1, <1>2, <1>5, <1>8, EntriesMade
<1>10. Frame(n, x) \in FrameSet /\ Frame(n, x).node = n /\ Frame(n, x).cluster = x
       /\ Frame(n, x).unread = {m \in Nodes : host.parent[m] = n}
  BY <1>6 DEF Frame, FrameSet, Children
<1>11. /\ Len(stack') = Len(stack) + 1 /\ Len(stack) \in Nat
       /\ \A i \in 1 .. Len(stack) : stack'[i] = Remember(n)[i]
       /\ stack'[Len(stack) + 1] = Frame(n, x)
  BY <1>1, <1>3, <1>10, PushedStack, CurrentFrame
<1>12. ASSUME NEW i \in 1 .. Len(stack)
       PROVE  /\ stack'[i].node = stack[i].node /\ stack[i].node # n
              /\ LiesAt(stack[i].node, stack[i].cluster)'
              /\ \A m \in stack'[i].unread :
                   host.parent[m] = stack[i].node /\ ~ IsPlaced(m)'
  <2>1. /\ stack'[i].node = stack[i].node /\ stack'[i].cluster = stack[i].cluster
        /\ stack'[i].unread =
             IF i = Len(stack) THEN stack[i].unread \ {n} ELSE stack[i].unread
    <3>1. stack'[i] = Remember(n)[i]
      BY <1>11
    <3>2. /\ Remember(n)[i].node = stack[i].node
          /\ Remember(n)[i].cluster = stack[i].cluster
          /\ Remember(n)[i].unread =
               IF i = Len(stack) THEN stack[i].unread \ {n} ELSE stack[i].unread
      BY <1>1, RememberStack
    <3> QED  BY <3>1, <3>2
  <2>2. PICK m, c : m = stack[i].node /\ c = stack[i].cluster
    OBVIOUS
  <2>3. LiesAt(m, c) /\ \A o \in stack[i].unread :
          host.parent[o] = stack[i].node /\ ~ IsPlaced(o)
    BY <1>1, <2>2 DEF WayDown
  <2>4. m # n
    BY <1>5, <2>3, LiesPlaced
  <2>5. LiesAt(m, c)' /\ m = stack'[i].node /\ c = stack'[i].cluster
    BY <1>7, <2>1, <2>2, <2>3
  <2>6. LiesAt(stack[i].node, stack[i].cluster)'
    BY <2>5
  <2>7. n \notin stack'[i].unread
    BY <1>1, <2>1, CurrentLies
  <2>8. \A o \in stack'[i].unread : o \in stack[i].unread /\ o # n
    BY <2>1, <2>7
  <2> QED  BY <1>7, <2>1, <2>2, <2>3, <2>4, <2>6, <2>8
<1>13. WayDown'
  <2>1. ASSUME NEW i \in 1 .. Len(stack')
        PROVE  /\ LiesAt(stack[i].node, stack[i].cluster)'
               /\ \A m \in stack'[i].unread :
                    host'.parent[m] = stack'[i].node /\ ~ IsPlaced(m)'
    <3>1. CASE i = Len(stack) + 1
      <4>1. stack'[i].node = n /\ stack'[i].cluster = x
            /\ stack'[i].unread = {m \in Nodes : host.parent[m] = n}
        BY <1>10, <1>11, <3>1
      <4>2. LiesAt(stack[i].node, stack[i].cluster)'
        BY <1>7, <4>1
      <4>3. \A m \in Nodes : host.parent[m] = n => m # n /\ ~ IsPlaced(m)
        BY <1>1, <1>5, OwnParent, ChildrenUnplaced
      <4> QED  BY <1>4, <1>7, <4>1, <4>2, <4>3
    <3>2. CASE i \in 1 .. Len(stack)
      BY <1>4, <1>12, <3>2
    <3> QED  BY <1>11, <3>1, <3>2
  <2>2. ASSUME NEW i \in 1 .. Len(stack'), NEW j \in 1 .. Len(stack'),
               stack'[i].node = stack'[j].node
        PROVE  i = j
    <3>1. stack'[Len(stack) + 1].node = n
      BY <1>10, <1>11
    <3>2. \A k \in 1 .. Len(stack) : stack'[k].node = stack[k].node /\ stack[k].node # n
      BY <1>12
    <3>3. \A k, l \in 1 .. Len(stack) : stack[k].node = stack[l].node => k = l
      BY <1>1 DEF WayDown
    <3>4. \A k \in 1 .. Len(stack') : k = Len(stack) + 1 \/ k \in 1 .. Len(stack)
      BY <1>11
    <3> QED  BY <2>2, <3>1, <3>2, <3>3, <3>4
  <2> QED  BY <2>1, <2>2 DEF WayDown
<1>14. AllSeen'
  <2> SUFFICES ASSUME NEW m \in Nodes \ Hidden, host.kind[m] # "other", ~ IsPlaced(m)',
                      host.parent[m] = Top \/ IsPlaced(host.parent[m])'
               PROVE  \E i \in 1 .. Len(stack') : m \in stack'[i].unread
    BY <1>4 DEF AllSeen
  <2>1. m # n /\ ~ IsPlaced(m)
    BY <1>7
  <2>2. host.parent[m] = Top \/ IsPlaced(host.parent[m]) \/ host.parent[m] = n
    <3>1. PICK o : o = host.parent[m]
      OBVIOUS
    <3>2. o = Top \/ IsPlaced(o)'
      BY <1>4, <3>1
    <3> QED  BY <1>7, <3>1, <3>2
  <2>3. CASE host.parent[m] = n
    <3>1. Len(stack) + 1 \in 1 .. Len(stack') /\ m \in stack'[Len(stack) + 1].unread
      BY <1>10, <1>11, <2>3
    <3> QED  BY <3>1
  <2>4. CASE host.parent[m] = Top \/ IsPlaced(host.parent[m])
    <3>1. PICK i \in 1 .. Len(stack) : m \in Remember(n)[i].unread
      BY <1>1, <1>4, <1>7, <2>1, <2>4, SeenMade
    <3> QED  BY <1>11, <3>1
  <2> QED  BY <2>2, <2>3, <2>4
<1>15. state' = "walk"
  BY <1>1, <1>4
<1> QED  BY <1>9, <1>13, <1>14, <1>15 DEF CopyInv

LEMMA CopyMakesFile ==
  ASSUME BuildInv, CopyInv, NEW n \in Nodes, ProcessFile(n),
         HasRoom(Needed(host.size[n])), FreeSlots(Current.cluster) # {}
  PROVE  CopyInv'
<1>0. PICK size, count, x, new :
        size = host.size[n] /\ count = Needed(size) /\ x = 0 /\ new = next
  OBVIOUS
<1>1. /\ Typed /\ InARow /\ Walking /\ state = "walk" /\ EntriesTrue /\ WayDown /\ AllSeen
      /\ n \in Current.unread \ Hidden /\ x \in {0, next}
  BY <1>0 DEF BuildInv, CopyInv, ProcessFile, Walking
<1>2. PICK d, s, e : e.size = size /\ Made(n, "file", count, d, s, e, x)
  BY <1>0, FileMade
<1>3. /\ stack' = Remember(n)
      /\ \A i \in 1 .. count :
           (i - 1) * ClusterSize < size => data'[new + i - 1] = <<n, i>>
  BY <1>0, FileMade
<1>4. /\ UNCHANGED <<host, state>> /\ host.kind[n] = "file" /\ d = Current.cluster
      /\ e.name = n /\ e.kind = "file" /\ e.cluster = new
      /\ HasRoom(count) /\ Allocate(count)
  BY <1>0, <1>2 DEF Made
<1>5. ~ IsPlaced(n) /\ LiesAt(host.parent[n], d)
  BY <1>1, <1>4, CurrentLies
<1>6. size \in Nat /\ count \in Nat \ {0}
  <2>1. size \in Nat
    BY <1>0, <1>1, MkfsAssumption DEF Typed, Trees
  <2> QED  BY <1>0, <2>1, NeededHolds
<1>7. Placed' = Placed \cup {<<d, s>>} /\ At(<<d, s>>)' = e
  <2>1. Adds(d, s, e, x)
    BY <1>1, <1>2, <1>6, MadeGrows
  <2> QED  BY <2>1 DEF Adds
<1>8. /\ \A m : IsPlaced(m)' <=> IsPlaced(m) \/ m = n
      /\ \A m, c : LiesAt(m, c) => LiesAt(m, c)'
  BY <1>1, <1>2, <1>6, MadePlaces
<1>9. EntryTrue(<<d, s>>)'
  <2>1. LiesAt(host.parent[n], d)'
    <3>1. PICK m : m = host.parent[n]
      OBVIOUS
    <3>2. LiesAt(m, d)' /\ m = host'.parent[n]
      BY <1>4, <1>5, <1>8, <3>1
    <3> QED  BY <3>2
  <2>2. FileWhole(<<d, s>>)'
    <3>1. /\ next' = new + count /\ new \in Nat
          /\ \A c \in new .. new + count - 1 :
               /\ c \in Clusters
               /\ fats'[1][c] = IF c < new + count - 1 THEN c + 1 ELSE EOC
      BY <1>0, <1>1, <1>4, <1>6, Allocated DEF Typed
    <3>2. ASSUME NEW i \in 1 .. count
          PROVE  /\ new + i - 1 \in Clusters
                 /\ fats'[1][new + i - 1] = IF i < count THEN new + i ELSE EOC
      <4>1. PICK c : c = new + i - 1
        OBVIOUS
      <4>2. c \in new .. new + count - 1 /\ (c < new + count - 1 <=> i < count)
            /\ c + 1 = new + i
        BY <1>6, <3>1, <4>1
      <4> QED  BY <3>1, <4>1, <4>2
    <3>3. e.cluster + count <= next'
      BY <1>4, <1>6, <3>1
    <3> QED  BY <1>0, <1>2, <1>3, <1>4, <1>7, <3>2, <3>3 DEF FileWhole
  <2> QED  BY <1>1, <1>4, <1>7, <2>1, <2>2 DEF EntryTrue
<1>10. EntriesTrue'
  BY <1>1, <1>2, <1>5, <1>6, <1>9, EntriesMade
<1>11. WayDown'
  BY <1>1, <1>3, <1>4, <1>8, WayRemembers
<1>12. AllSeen'
  <2> SUFFICES ASSUME NEW m \in Nodes \ Hidden, host.kind[m] # "other", ~ IsPlaced(m)',
                      host.parent[m] = Top \/ IsPlaced(host.parent[m])'
               PROVE  \E i \in 1 .. Len(stack') : m \in stack'[i].unread
    BY <1>4 DEF AllSeen
  <2>1. m # n /\ ~ IsPlaced(m)
    BY <1>8
  <2>2. host.parent[m] = Top \/ IsPlaced(host.parent[m])
    <3>1. PICK o : o = host.parent[m]
      OBVIOUS
    <3>2. o = Top \/ IsPlaced(o)'
      BY <1>4, <3>1
    <3>3. o # n
      <4>1. n # Top /\ (o # Top => host.kind[o] = "directory")
        BY <1>1, <3>1, MkfsAssumption DEF Typed, Trees
      <4> QED  BY <1>4, <4>1
    <3> QED  BY <1>8, <3>1, <3>2, <3>3
  <2>3. PICK i \in 1 .. Len(stack) : m \in Remember(n)[i].unread
    BY <1>1, <1>4, <1>8, <2>1, <2>2, SeenMade
  <2>4. Len(stack') = Len(stack)
    BY <1>1, <1>3, RememberStack
  <2> QED  BY <1>3, <2>3, <2>4
<1>13. state' = "walk"
  BY <1>1, <1>4
<1> QED  BY <1>10, <1>11, <1>12, <1>13 DEF CopyInv

LEMMA CopyNext == BuildInv /\ BuildInv' /\ CopyInv /\ [Next]_vars => CopyInv'
<1> SUFFICES ASSUME BuildInv, BuildInv', CopyInv, [Next]_vars PROVE CopyInv'
  OBVIOUS
<1>1. CASE UNCHANGED vars
  <2>1. UNCHANGED <<host, fats, next, entries, data, stack, state>>
    BY <1>1 DEF vars
  <2>2. Placed' = Placed /\ \A p : At(p)' = At(p)
    BY <2>1 DEF Placed, Named, Listed, At
  <2>3. EntriesTrue => EntriesTrue'
    BY <2>1, CopyFrame
  <2>4. WayDown => WayDown'
    BY <2>1, <2>2 DEF WayDown, LiesAt, IsPlaced
  <2>5. AllSeen => AllSeen'
    BY <2>1, <2>2 DEF AllSeen, IsPlaced
  <2> QED  BY <2>1, <2>3, <2>4, <2>5 DEF CopyInv
<1>2. ASSUME NEW n \in Nodes, ProcessDirectory(n) PROVE CopyInv'
  <2>1. CASE HasRoom(1) /\ FreeSlots(Current.cluster) # {}
    BY <1>2, <2>1, CopyMakesDirectory
  <2>2. CASE ~ (HasRoom(1) /\ FreeSlots(Current.cluster) # {})
    BY <1>2, <2>2, CopyFails DEF ProcessDirectory
  <2> QED  BY <2>1, <2>2
<1>3. ASSUME NEW n \in Nodes, ProcessFile(n) PROVE CopyInv'
  <2>1. CASE HasRoom(Needed(host.size[n])) /\ FreeSlots(Current.cluster) # {}
    BY <1>3, <2>1, CopyMakesFile
  <2>2. CASE ~ (HasRoom(Needed(host.size[n])) /\ FreeSlots(Current.cluster) # {})
    BY <1>3, <2>2, CopyFails DEF ProcessFile
  <2> QED  BY <2>1, <2>2
<1>4. CASE HostFails
  BY <1>4, CopyFails DEF HostFails
<1> QED  BY <1>1, <1>2, <1>3, <1>4, CopyEntersTop, CopyLeaves, CopyWrites, CopySkips
         DEF Next

LEMMA CopyAlways == Spec => [](BuildInv /\ CopyInv)
  BY BuildInit, BuildNext, CopyInit, CopyNext, PTL DEF Spec

-----------------------------------------------------------------------------
(* The count clusters from first on, linked one to the next.               *)
InRow(k, first, count) ==
  \A i \in 1 .. count :
    /\ first + i - 1 \in Clusters
    /\ fats[k][first + i - 1] = IF i < count THEN first + i ELSE EOC

Follows(chain, first, count) ==
  \A i \in 1 .. count + 1 : chain[i] = IF i <= count THEN first + i - 1 ELSE EOC

(* What ImageIsCopy says of a file, read by the links of copy k.           *)
ReadWhole(p, chain, count) ==
  /\ At(p).size = host.size[At(p).name] /\ chain[count + 1] = EOC
  /\ \A i \in 1 .. count :
       /\ chain[i] \in Clusters
       /\ (i - 1) * ClusterSize < At(p).size => data[chain[i]] = <<At(p).name, i>>

(* Following the links of either FAT finds a file's clusters in a row.     *)
LEMMA ChainInRow ==
  ASSUME NEW k, NEW first \in Nat, NEW count \in Nat \ {0}, InRow(k, first, count)
  PROVE  Follows(Chain(k, first, count + 1), first, count)
<1> DEFINE row == [i \in 1 .. count + 1 |-> IF i <= count THEN first + i - 1 ELSE EOC]
           body(f) == [i \in 1 .. count + 1 |->
             IF i = 1 THEN first
             ELSE IF f[i - 1] \in Clusters THEN fats[k][f[i - 1]] ELSE None]
           at == Chain(k, first, count + 1)
<1>1. row = body(row)
  <2>1. ASSUME NEW i \in 1 .. count + 1 PROVE row[i] = body(row)[i]
    <3>1. CASE i = 1
      BY <3>1
    <3>2. CASE i # 1
      <4>1. i - 1 \in 1 .. count /\ first + (i - 1) = first + i - 1
            /\ (i - 1 < count <=> i <= count)
        BY <3>2
      <4>2. row[i - 1] = first + (i - 1) - 1
        BY <4>1
      <4>3. /\ first + (i - 1) - 1 \in Clusters
            /\ fats[k][first + (i - 1) - 1] =
                 IF i - 1 < count THEN first + (i - 1) ELSE EOC
        BY <4>1 DEF InRow
      <4> QED  BY <3>2, <4>1, <4>2, <4>3
    <3> QED  BY <3>1, <3>2
  <2> QED  BY <2>1
<1>2. at = body(at)
  <2>1. at = CHOOSE g : g = body(g)
    BY DEF Chain
  <2> HIDE DEF body, row
  <2> QED  BY <1>1, <2>1
<1> HIDE DEF at
<1> DEFINE Wrong == {i \in 1 .. count + 1 : at[i] # row[i]}
<1>3. ASSUME Wrong # {} PROVE FALSE
  <2>1. PICK i \in Wrong : \A j \in Wrong : i <= j
    <3>1. Wrong \in SUBSET Nat
      OBVIOUS
    <3> HIDE DEF Wrong
    <3> QED  BY <1>3, <3>1, LeastNat
  <2>2. i \in 1 .. count + 1 /\ at[i] # row[i]
    BY <2>1
  <2>3. i # 1
    BY <1>2, <2>2
  <2>4. i - 1 \in 1 .. count + 1 /\ i - 1 \notin Wrong
    BY <2>1, <2>2, <2>3
  <2>5. at[i - 1] = row[i - 1]
    BY <2>4
  <2>6. at[i] = body(row)[i]
    BY <1>2, <2>2, <2>3, <2>5
  <2> QED  BY <1>1, <2>2, <2>6
<1>4. \A i \in 1 .. count + 1 : at[i] = row[i]
  BY <1>3
<1> QED  BY <1>4 DEF at, Follows

LEMMA VisiblePlaced ==
  ASSUME BuildInv, CopyInv, state = "written", NEW n \in Nodes
  PROVE  Visible(n) <=> IsPlaced(n)
<1>1. /\ Typed /\ EntriesTrue /\ AllSeen /\ stack = << >> /\ Root < next
  BY DEF BuildInv, CopyInv, Typed
<1>2. ASSUME IsPlaced(n) PROVE Visible(n)
  <2> DEFINE S == {m \in Nodes : IsPlaced(m)}
  <2>1. ASSUME NEW m \in S
        PROVE  /\ m \notin Hidden /\ host.kind[m] # "other"
               /\ host.parent[m] # Top => host.parent[m] \in S
    <3>1. PICK p \in Placed : At(p).name = m
      BY DEF IsPlaced
    <3>2. m \notin Hidden /\ At(p).kind = host.kind[m] /\ LiesAt(host.parent[m], p[1])
      BY <1>1, <3>1 DEF EntriesTrue, EntryTrue
    <3>3. At(p).kind # "other"
      BY <1>1, PlacedType DEF EntrySet
    <3>4. host.parent[m] # Top => IsPlaced(host.parent[m]) /\ host.parent[m] \in Nodes
      <4>1. host.parent[m] \in Nodes \cup {Top}
        BY <1>1 DEF Typed, Trees
      <4> QED  BY <3>2, <4>1, LiesPlaced
    <3> QED  BY <3>2, <3>3, <3>4
  <2>2. S \in SUBSET Nodes /\ n \in S
    BY <1>2
  <2> HIDE DEF S
  <2> QED  BY <2>1, <2>2 DEF Visible
<1>3. ASSUME Visible(n), ~ IsPlaced(n) PROVE FALSE
  <2>1. PICK S \in SUBSET Nodes :
          /\ n \in S
          /\ \A m \in S : /\ m \notin Hidden /\ host.kind[m] # "other"
                          /\ host.parent[m] # Top => host.parent[m] \in S
    BY <1>3 DEF Visible
  <2> DEFINE U == {m \in S : ~ IsPlaced(m)}
  <2>2. U \in (SUBSET Nodes) \ {{}}
    BY <1>3, <2>1
  <2>3. PICK m \in U : host.parent[m] \notin U
    <3> HIDE DEF U
    <3> QED  BY <1>1, <2>2 DEF Typed, Trees
  <2>4. /\ m \in Nodes \ Hidden /\ host.kind[m] # "other" /\ ~ IsPlaced(m)
        /\ host.parent[m] = Top \/ IsPlaced(host.parent[m])
    BY <2>1, <2>3
  <2>5. IsPlaced(m) \/ \E i \in 1 .. Len(stack) : m \in stack[i].unread
    BY <1>1, <2>4 DEF AllSeen, CopyInv
  <2> QED  BY <1>1, <2>4, <2>5
<1> QED  BY <1>2, <1>3

LEMMA WhereItLies ==
  ASSUME Typed, EntriesTrue, NEW d, NEW c, LiesAt(d, c)
  PROVE  PlaceOf(d) = c
<1>1. CASE d = Top
  <2>1. \A p \in Placed : At(p).name # Top
    BY PlacedType, MkfsAssumption
  <2> QED  BY <1>1, <2>1 DEF LiesAt, PlaceOf
<1>2. CASE d # Top
  <2>1. PICK p \in Placed : At(p).name = d /\ At(p).cluster = c
    BY <1>2 DEF LiesAt
  <2>2. \A q \in Placed : At(q).name = d => q = p
    BY <2>1 DEF EntriesTrue
  <2>3. (CHOOSE q \in Placed : At(q).name = d) = p
    BY <2>1, <2>2
  <2> QED  BY <1>2, <2>1, <2>3 DEF PlaceOf
<1> QED  BY <1>1, <1>2

LEMMA CopyState == BuildInv /\ CopyInv => ImageIsCopy
<1> SUFFICES ASSUME BuildInv, CopyInv, state = "written" PROVE ImageIsCopy
  BY DEF ImageIsCopy
<1>1. Typed /\ InARow /\ EntriesTrue
  BY DEF BuildInv, CopyInv
<1>2. \A n \in Nodes : Visible(n) <=> \E p \in Placed : At(p).name = n
  BY VisiblePlaced DEF IsPlaced
<1>3. \A p, q \in Placed : At(p).name = At(q).name => p = q
  BY <1>1 DEF EntriesTrue
<1>4. ASSUME NEW p \in Placed
      PROVE  /\ p[1] = PlaceOf(host.parent[At(p).name])
             /\ At(p).kind = host.kind[At(p).name]
             /\ At(p).kind = "directory" =>
                  /\ entries[At(p).cluster][1].cluster = At(p).cluster
                  /\ entries[At(p).cluster][2].cluster = p[1]
  <2>1. EntryTrue(p)
    BY <1>1 DEF EntriesTrue
  <2>2. LiesAt(host.parent[At(p).name], p[1])
    BY <2>1 DEF EntryTrue
  <2>3. p[1] = PlaceOf(host.parent[At(p).name])
    BY <1>1, <2>2, WhereItLies
  <2> QED  BY <2>1, <2>3 DEF EntryTrue, DotsRight
<1>5. ASSUME NEW p \in Placed, NEW k \in {1, 2}, At(p).kind = "file"
      PROVE  ReadWhole(p, Chain(k, At(p).cluster, Needed(At(p).size) + 1),
                       Needed(At(p).size))
  <2>1. FileWhole(p) /\ At(p).cluster \in Clusters /\ At(p).size \in Nat
    BY <1>1, <1>5, PlacedType DEF EntriesTrue, EntryTrue, EntrySet
  <2>2. PICK first, count : first = At(p).cluster /\ count = Needed(At(p).size)
    OBVIOUS
  <2>3. first \in Nat /\ count \in Nat \ {0} /\ fats[k] = fats[1]
    BY <1>1, <1>5, <2>1, <2>2, NumFacts, NeededHolds DEF InARow
  <2>4. /\ At(p).size = host.size[At(p).name]
        /\ \A i \in 1 .. count :
             /\ first + i - 1 \in Clusters
             /\ fats[k][first + i - 1] = IF i < count THEN first + i ELSE EOC
             /\ (i - 1) * ClusterSize < At(p).size =>
                  data[first + i - 1] = <<At(p).name, i>>
    BY <2>1, <2>2, <2>3 DEF FileWhole
  <2>5. InRow(k, first, count)
    BY <2>4 DEF InRow
  <2>6. PICK chain : chain = Chain(k, first, count + 1)
    OBVIOUS
  <2>7. Follows(chain, first, count)
    BY <2>3, <2>5, <2>6, ChainInRow
  <2>8. chain[count + 1] = EOC /\ \A i \in 1 .. count : chain[i] = first + i - 1
    BY <2>3, <2>7 DEF Follows
  <2>9. ASSUME NEW i \in 1 .. count
        PROVE  /\ chain[i] \in Clusters
               /\ (i - 1) * ClusterSize < At(p).size => data[chain[i]] = <<At(p).name, i>>
    BY <2>4, <2>8
  <2>10. ReadWhole(p, chain, count)
    BY <2>4, <2>8, <2>9 DEF ReadWhole
  <2> QED  BY <2>2, <2>6, <2>10
<1> QED  BY <1>2, <1>3, <1>4, <1>5 DEF ImageIsCopy, ReadWhole

(* An image that create_filesystem_image writes is a copy of the host's    *)
(* tree, whatever the order in which readdir gives it: every visible file  *)
(* and directory is listed once, in its parent's directory, directories    *)
(* lead to themselves and to their parents, and following the links of     *)
(* either FAT gives every file whole.                                      *)
THEOREM WrittenIsCopy == Spec => []ImageIsCopy
  BY CopyAlways, CopyState, PTL
=============================================================================
