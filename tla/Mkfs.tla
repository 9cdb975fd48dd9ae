-------------------------------- MODULE Mkfs --------------------------------
(***************************************************************************)
(* The builder of the disk's image (tools/mkfs.c): a walk over a tree of   *)
(* the host that copies directories and files into a buffer, in whatever   *)
(* order readdir gives them, and writes the buffer out if all went well.   *)
(*                                                                         *)
(* Names stand for themselves: what becomes of their characters is the     *)
(* matter of module Names.  A file's data are its pieces of one cluster.   *)
(***************************************************************************)
EXTENDS Integers, Sequences, FiniteSets, SequencesExt

CONSTANTS
  Nodes,         \* what lies below the source directory
  Top,           \* the source directory
  Hidden,        \* the nodes whose names begin with a dot
  TotalClusters, \* the clusters that fit into the image
  DirSize,       \* entries in a cluster
  ClusterSize,   \* bytes in a cluster
  Sizes,         \* of files
  None

ASSUME MkfsAssumption ==
  /\ Top \notin Nodes /\ Hidden \subseteq Nodes /\ IsFiniteSet(Nodes)
  /\ TotalClusters \in Nat /\ DirSize > 1 /\ DirSize \in Nat
  /\ ClusterSize \in Nat \ {0} /\ Sizes \subseteq Nat
  /\ None \notin Nat /\ None \notin Nodes
  /\ {".", ".."} \cap Nodes = {}
  /\ None \notin [name : Nodes \cup {".", ".."}, kind : {"directory", "file"},
                  cluster : Nat, size : Nat]

VARIABLES
  host,     \* the tree: each node's parent, kind and size
  fats,     \* the two copies of the FAT
  next,     \* next_free_cluster
  entries,  \* the slots of each cluster, as a directory
  data,     \* what a cluster has of a file
  stack,    \* the process_directory calls: node, cluster and what is unread
  state     \* "walk", "failed", "copied", "written"

vars == <<host, fats, next, entries, data, stack, state>>

Clusters == 2 .. TotalClusters + 1
Root     == 2
Slots    == 1 .. DirSize
Free     == 0
EOC      == TotalClusters + 2

Trees ==
  {t \in [parent : [Nodes -> Nodes \cup {Top}],
          kind   : [Nodes -> {"file", "directory", "other"}],
          size   : [Nodes -> Sizes]] :
     /\ \A n \in Nodes : t.parent[n] # Top => t.kind[t.parent[n]] = "directory"
     /\ \A n \in Nodes : t.kind[n] # "file" => \A m \in Sizes : t.size[n] <= m
     /\ \A S \in (SUBSET Nodes) \ {{}} : \E n \in S : t.parent[n] \notin S}

Children(d) == {n \in Nodes : host.parent[n] = d}
Entry(name, kind, cluster, size) ==
  [name |-> name, kind |-> kind, cluster |-> cluster, size |-> size]

(* create_filesystem.                                                      *)
Init ==
  /\ host \in Trees
  /\ fats = [k \in {1, 2} |-> [c \in Clusters |-> IF c = Root THEN EOC ELSE Free]]
  /\ next = Root
  /\ entries = [c \in Clusters |-> [s \in Slots |-> None]]
  /\ data = [c \in Clusters |-> None]
  /\ stack = << >> /\ state = "walk"

----------------------------------------------------------------------------
(* allocate_clusters: count of them in a row, at next.                     *)
HasRoom(count) == next + count < TotalClusters

(* A slip for comparison: the second copy of the FAT is left behind.       *)
AllocateOneFat(count) ==
  /\ fats' = [fats EXCEPT ![1] = [c \in Clusters |->
                IF c \in next .. next + count - 2 THEN c + 1
                ELSE IF c = next + count - 1 THEN EOC ELSE @[c]]]
  /\ next' = next + count

Allocate(count) ==
  /\ fats' = [k \in {1, 2} |-> [c \in Clusters |->
                IF c \in next .. next + count - 2 THEN c + 1
                ELSE IF c = next + count - 1 THEN EOC ELSE fats[k][c]]]
  /\ next' = next + count

Needed(size) == IF size = 0 THEN 1 ELSE (size + ClusterSize - 1) \div ClusterSize

FreeSlots(d) == {s \in Slots : entries[d][s] = None}
FirstFree(d) == CHOOSE s \in FreeSlots(d) : \A r \in FreeSlots(d) : s <= r

Frame(node, cluster) ==
  [node |-> node, cluster |-> cluster, unread |-> Children(node)]

(* A slip for comparison: the new directory's .. is the source directory.  *)
DotsOfTop(own, parent) ==
  [s \in Slots |-> IF s = 1 THEN Entry(".", "directory", own, 0)
                   ELSE IF s = 2 THEN Entry("..", "directory", Root, 0) ELSE None]

Dots(own, parent) ==
  [s \in Slots |-> IF s = 1 THEN Entry(".", "directory", own, 0)
                   ELSE IF s = 2 THEN Entry("..", "directory", parent, 0) ELSE None]

(* Any error makes all the calls return it, and the buffer is dropped.     *)
Fail == state' = "failed" /\ stack' = << >>

(* The source directory: no entry, and its .. is itself.                   *)
EnterTop ==
  /\ state = "walk" /\ stack = << >> /\ next = Root
  /\ UNCHANGED <<host, data>>
  /\ IF HasRoom(1)
     THEN /\ Allocate(1) /\ entries' = [entries EXCEPT ![next] = Dots(next, next)]
          /\ stack' = <<Frame(Top, next)>> /\ UNCHANGED state
     ELSE Fail /\ UNCHANGED <<fats, next, entries>>

Walking  == state = "walk" /\ stack # << >>
Current  == Last(stack)
Remember(n) == [stack EXCEPT ![Len(stack)].unread = @ \ {n}]

(* The loop of process_directory, which passes over hidden names and what  *)
(* is neither a directory nor a file.                                      *)
Skip(n) ==
  /\ Walking /\ n \in Current.unread
  /\ n \in Hidden \/ host.kind[n] = "other"
  /\ stack' = Remember(n) /\ UNCHANGED <<host, fats, next, entries, data, state>>

(* process_directory: its cluster, its entry in the parent, its dots.      *)
ProcessDirectory(n) ==
  LET here == Current.cluster
      room == HasRoom(1)
      ok   == room /\ FreeSlots(here) # {}
  IN /\ Walking /\ n \in Current.unread \ Hidden /\ host.kind[n] = "directory"
     /\ UNCHANGED <<host, data>>
     /\ IF room THEN Allocate(1) ELSE UNCHANGED <<fats, next>>
     /\ IF ok
        THEN /\ entries' = [entries EXCEPT
                  ![here][FirstFree(here)] = Entry(n, "directory", next, 0),
                  ![next] = Dots(next, here)]
             /\ stack' = Append(Remember(n), Frame(n, next)) /\ UNCHANGED state
        ELSE Fail /\ UNCHANGED entries

(* process_file: its clusters, its data, its entry.                        *)
ProcessFile(n) ==
  LET here  == Current.cluster
      size  == host.size[n]
      count == Needed(size)
      room  == HasRoom(count)
      ok    == room /\ FreeSlots(here) # {}
  IN /\ Walking /\ n \in Current.unread \ Hidden /\ host.kind[n] = "file"
     /\ UNCHANGED host
     /\ IF room
        THEN /\ Allocate(count)
             /\ data' = [c \in Clusters |->
                  LET i == c - next + 1
                  IN IF i > 0 /\ size > (i - 1) * ClusterSize THEN <<n, i>> ELSE data[c]]
        ELSE UNCHANGED <<fats, next, data>>
     /\ IF ok
        THEN /\ entries' = [entries EXCEPT
                  ![here][FirstFree(here)] = Entry(n, "file", next, size)]
             /\ stack' = Remember(n) /\ UNCHANGED state
        ELSE Fail /\ UNCHANGED entries

(* opendir, stat, fopen, fread or the path's length fails; what of the     *)
(* buffer was changed by then does not matter any more.                    *)
HostFails ==
  /\ state = "walk" /\ (stack # << >> => Current.unread \ Hidden # {}) /\ Fail
  /\ UNCHANGED <<host, fats, next, entries, data>>

(* readdir has given everything.                                           *)
Leave ==
  /\ Walking /\ Current.unread = {}
  /\ stack' = Front(stack)
  /\ state' = IF Len(stack) = 1 THEN "copied" ELSE state
  /\ UNCHANGED <<host, fats, next, entries, data>>

(* create_filesystem_image: the buffer is written out, or that fails.      *)
WriteImage ==
  /\ state = "copied" /\ state' \in {"written", "failed"}
  /\ UNCHANGED <<host, fats, next, entries, data, stack>>

Next ==
  \/ EnterTop \/ HostFails \/ Leave \/ WriteImage
  \/ \E n \in Nodes : Skip(n) \/ ProcessDirectory(n) \/ ProcessFile(n)

Spec == Init /\ [][Next]_vars

----------------------------------------------------------------------------
(* What the driver finds in the image.                                     *)
Listed(d)  == {s \in Slots : entries[d][s] # None}
Named(d)   == {s \in Listed(d) : entries[d][s].name \in Nodes}
Placed     == {p \in Clusters \X Slots : p[2] \in Named(p[1])}
At(p)      == entries[p[1]][p[2]]

(* The i-th cluster of a chain, in copy k of the FAT.                      *)
Chain(k, first, n) ==
  LET cluster[i \in 1 .. n] ==
        IF i = 1 THEN first
        ELSE IF cluster[i - 1] \in Clusters THEN fats[k][cluster[i - 1]] ELSE None
  IN cluster

(* Where a directory of the host lies: that of its entry.                  *)
PlaceOf(d) ==
  IF d = Top THEN Root
  ELSE LET p == CHOOSE q \in Placed : At(q).name = d IN At(p).cluster

(* Neither a node nor a directory it lies in is passed over.               *)
Visible(n) ==
  \E S \in SUBSET Nodes :
    /\ n \in S
    /\ \A m \in S :
         /\ m \notin Hidden /\ host.kind[m] # "other"
         /\ host.parent[m] # Top => host.parent[m] \in S

(* The image that is written is the host's tree, whatever the order of     *)
(* readdir: each directory lists its visible children once, leads to       *)
(* itself and to its parent, and each file can be read whole over the      *)
(* links of either FAT.                                                    *)
ImageIsCopy ==
  state = "written" =>
    /\ \A n \in Nodes : Visible(n) <=> \E p \in Placed : At(p).name = n
    /\ \A p, q \in Placed : At(p).name = At(q).name => p = q
    /\ \A p \in Placed : p[1] = PlaceOf(host.parent[At(p).name])
    /\ \A p \in Placed : At(p).kind = host.kind[At(p).name]
    /\ \A p \in Placed : At(p).kind = "directory" =>
         /\ entries[At(p).cluster][1].cluster = At(p).cluster
         /\ entries[At(p).cluster][2].cluster = p[1]
    /\ \A p \in Placed, k \in {1, 2} : At(p).kind = "file" =>
         LET count == Needed(At(p).size)
             chain == Chain(k, At(p).cluster, count + 1)
         IN /\ At(p).size = host.size[At(p).name] /\ chain[count + 1] = EOC
            /\ \A i \in 1 .. count :
                 /\ chain[i] \in Clusters
                 /\ (i - 1) * ClusterSize < At(p).size => data[chain[i]] = <<At(p).name, i>>

(* While the image is built: what is free is empty, and no two entries     *)
(* and links lead to one cluster, in neither FAT.                          *)
Links(k)     == {c \in Clusters : fats[k][c] \in Clusters} \X {0}
Target(k, r) == IF r[2] = 0 THEN fats[k][r[1]] ELSE At(r).cluster

ClustersApart ==
  \A k \in {1, 2} :
    LET refs == Placed \cup Links(k)
    IN /\ \A r, t \in refs : Target(k, r) = Target(k, t) => r = t
       /\ \A r \in refs : Target(k, r) # Root /\ fats[k][Target(k, r)] # Free
       /\ \A c \in Clusters : fats[k][c] = Free => data[c] = None /\ Listed(c) = {}
       /\ \A c \in Clusters : data[c] = None \/ Listed(c) = {}
=============================================================================
