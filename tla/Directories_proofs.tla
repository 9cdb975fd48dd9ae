------------------------- MODULE Directories_proofs -------------------------
(***************************************************************************)
(* The current directory and the directories on the stack stay directories *)
(* of the disk, for every image, every size of the stack and every         *)
(* sequence of calls; and what the path shows is a walk.                   *)
(***************************************************************************)
EXTENDS DirectoriesWalk, Extremes, SequenceTheorems, TLAPS

(* A directory that has a cluster comes from the image, so that it lies    *)
(* behind its parent.                                                      *)
FromImage ==
  \A p \in Places, s \in Slots :
    Holds(p, s) /\ dir[p][s].kind = "dir" =>
      p # 0 /\ p < dir[p][s].first /\ dir[p][s].first \in Places

(* The entries "." and ".." are left alone or deleted.                     *)
DotsStay ==
  \A p \in Places, s \in Slots :
    Live(p, s) /\ IsDot(p, s) => dir[p][s].kind = "dir"

(* The clusters on the way ascend until there are no more of them.         *)
Ascending ==
  \A i, j \in 1 .. Len(Way) :
    i < j /\ Way[j].cl # 0 => Way[i].cl # 0 /\ Way[i].cl < Way[j].cl

(* Above the 16th, the directory that lists the current one may no longer  *)
(* be on the stack; there is one nevertheless, and no file has taken its   *)
(* cluster.                                                                *)
FileAt(p) == \E q \in Places, t \in Slots :
               Live(q, t) /\ dir[q][t].kind = "file" /\ dir[q][t].first = p
WayListed ==
  \A i \in 1 .. Len(Way) : Way[i].cl \notin {0, Root} =>
    /\ Way[i].name \notin DotNames
    /\ \E p \in Places \cap used :
         p < Way[i].cl /\ ~ FileAt(p) /\ ListedIn(p, Way[i])

DirInv ==
  /\ StackIsPath /\ ClustersApart /\ FromImage /\ DotsStay
  /\ Ascending /\ WayListed /\ Root \in used

-----------------------------------------------------------------------------
LEMMA PlaceFacts ==
  /\ DOMAIN Image \subseteq Clusters /\ Root \in DOMAIN Image
  /\ Root \in Places /\ 0 \in Places /\ 0 \notin Clusters
  /\ \A c \in Clusters : c \in Nat /\ c >= 2
  /\ \A p \in Places : p # 0 => p \in Clusters /\ p \in Nat
  BY SizeAssumption, ImageAssumption DEF Places, Clusters, Root

LEMMA BlankType ==
  ASSUME NEW st \in {"end", "deleted", "live"}
  PROVE  Blank(st) \in Entries
  BY DEF Blank, Entries, Kinds

LEMMA WayAt ==
  ASSUME TypeOK
  PROVE  /\ Way \in Seq(Dirs) /\ Len(Way) = Len(stack) + 1
         /\ Len(stack) \in Nat
         /\ \A i \in 1 .. Len(stack) : Way[i] = stack[i]
         /\ Way[Len(stack) + 1] = cwd
         /\ \A i \in 1 .. Len(Way) : Way[i] \in Dirs /\ Way[i].cl \in Places
<1>1. stack \in Seq(Dirs) /\ cwd \in Dirs
  BY DEF TypeOK
<1>2. Len(stack) \in Nat /\ \A i \in 1 .. Len(stack) : stack[i] \in Dirs
  BY <1>1
<1>3. /\ Way \in Seq(Dirs) /\ Len(Way) = Len(stack) + 1
      /\ \A i \in 1 .. Len(stack) : Way[i] = stack[i]
      /\ Way[Len(stack) + 1] = cwd
  BY <1>1, AppendProperties DEF Way
<1>4. \A i \in 1 .. Len(Way) : Way[i] \in Dirs
  BY <1>1, <1>2, <1>3
<1>5. \A d \in Dirs : d.cl \in Places
  BY DEF Dirs
<1> QED  BY <1>2, <1>3, <1>4, <1>5

LEMMA HoldsFacts ==
  ASSUME TypeOK, DirInv, NEW p \in Places, NEW s \in Slots, Holds(p, s)
  PROVE  /\ dir[p][s] \in Entries /\ dir[p][s].first \in used \ {Root}
         /\ \A q \in Places, t \in Slots :
              Holds(q, t) /\ dir[q][t].first = dir[p][s].first
                => p = q /\ s = t
  BY DEF DirInv, ClustersApart, TypeOK

(* What leads to a directory on the way holds its cluster.                 *)
LEMMA ListedHolds ==
  ASSUME TypeOK, DirInv, NEW i \in 1 .. Len(Way), Way[i].cl \notin {0, Root}
  PROVE  \E p \in Places \cap used, t \in Slots :
           /\ p < Way[i].cl /\ ~ FileAt(p) /\ LeadsTo(dir[p][t], Way[i])
           /\ Holds(p, t) /\ dir[p][t].first = Way[i].cl
           /\ dir[p][t].kind = "dir"
  BY DEF DirInv, WayListed, ListedIn, LeadsTo, Holds, Live, IsDot

(* No directory on the way is named by an entry of the current directory.  *)
LEMMA NotAboveItself ==
  ASSUME TypeOK, DirInv, NEW i \in 1 .. Len(Way), Way[i].cl # 0,
         NEW s \in Slots, Live(cwd.cl, s), ~ IsDot(cwd.cl, s)
  PROVE  dir[cwd.cl][s].first # Way[i].cl
<1>1. cwd.cl \in Places /\ Len(Way) \in 1 .. Len(Way) /\ Way[Len(Way)] = cwd
      /\ Way[i].cl \in Places
  BY WayAt
<1>2. SUFFICES ASSUME dir[cwd.cl][s].first = Way[i].cl PROVE FALSE
  OBVIOUS
<1>3. Holds(cwd.cl, s)
  BY <1>2 DEF Holds
<1>4. Way[i].cl # Root
  BY <1>1, <1>2, <1>3, HoldsFacts
<1>5. PICK p \in Places \cap used, t \in Slots :
        p < Way[i].cl /\ Holds(p, t) /\ dir[p][t].first = Way[i].cl
  BY <1>4, ListedHolds
<1>6. p = cwd.cl
  BY <1>1, <1>2, <1>3, <1>5, HoldsFacts
<1>7. CASE i = Len(Way)
  BY <1>1, <1>5, <1>6, <1>7, PlaceFacts
<1>8. CASE i < Len(Way)
  <2>1. cwd.cl # 0
    BY <1>5, <1>6, PlaceFacts DEF TypeOK
  <2>2. Way[i].cl < cwd.cl
    BY <1>1, <1>8, <2>1 DEF DirInv, Ascending
  <2> QED  BY <1>1, <1>5, <1>6, <2>1, <2>2, PlaceFacts
<1> QED  BY <1>7, <1>8, WayAt

(* The current directory and those on the stack have not become files.     *)
LEMMA WayClean ==
  ASSUME TypeOK, DirInv
  PROVE  WayNotFiles
<1> SUFFICES ASSUME NEW i \in 1 .. Len(Way), Way[i].cl # 0
             PROVE  /\ Way[i].cl \in used
                    /\ \A p \in Places, s \in Slots :
                         Live(p, s) /\ dir[p][s].first = Way[i].cl
                           => dir[p][s].kind = "dir"
  BY DEF WayNotFiles
<1>1. Way[i].cl \in used
  <2>1. CASE Way[i].cl = Root
    BY <2>1 DEF DirInv
  <2>2. CASE Way[i].cl # Root
    BY <2>2, ListedHolds, HoldsFacts
  <2> QED  BY <2>1, <2>2
<1>2. ASSUME NEW p \in Places, NEW s \in Slots, Live(p, s),
             dir[p][s].first = Way[i].cl, ~ IsDot(p, s)
      PROVE  dir[p][s].kind = "dir"
  <2>1. Holds(p, s)
    BY <1>2 DEF Holds
  <2>2. Way[i].cl # Root
    BY <1>2, <2>1, HoldsFacts
  <2>3. PICK q \in Places \cap used, t \in Slots :
          /\ Holds(q, t) /\ dir[q][t].first = Way[i].cl
          /\ dir[q][t].kind = "dir"
    BY <2>2, ListedHolds
  <2> QED  BY <1>2, <2>1, <2>3, HoldsFacts
<1> QED  BY <1>1, <1>2 DEF DirInv, DotsStay

-----------------------------------------------------------------------------
LEMMA ParentFacts ==
  ASSUME NEW p \in DOMAIN Image
  PROVE  Parent(p) \in Clusters
<1>1. p # Root => Parent(p) \in DOMAIN Image
  BY ImageAssumption DEF Parent
<1> QED  BY <1>1, PlaceFacts DEF Parent

LEMMA InitSlots ==
  ASSUME NEW p \in Places, NEW s \in Slots
  PROVE  /\ ImageSlot(p, s) \in Entries
         /\ ImageSlot(p, s).st = "live" =>
              /\ p # 0
              /\ \/ /\ ImageSlot(p, s).name \in DotNames
                    /\ ImageSlot(p, s).kind = "dir"
                 \/ \E i \in DOMAIN Image[p] :
                      /\ s = i + 2
                      /\ Image[p][i].first \in Clusters
                      /\ ImageSlot(p, s).first = Image[p][i].first
                      /\ ImageSlot(p, s).kind = Image[p][i].kind
<1>1. CASE p = 0 \/ s > Len(Image[p]) + 2
  BY <1>1, BlankType DEF ImageSlot, Blank
<1>2. CASE ~ (p = 0 \/ s > Len(Image[p]) + 2)
  <2>1. p \in DOMAIN Image /\ p \in Clusters
    BY <1>2, PlaceFacts DEF Places
  <2>2. CASE s = 1
    BY <1>2, <2>1, <2>2
       DEF ImageSlot, DirEntry, Entries, DiskNames, DotNames, Forms, Kinds
  <2>3. CASE s = 2
    BY <1>2, <2>1, <2>3, ParentFacts
       DEF ImageSlot, DirEntry, Entries, DiskNames, DotNames, Forms, Kinds
  <2>4. CASE s # 1 /\ s # 2
    <3>1. Image[p] \in Seq(ImageEntries)
      BY <2>1, ImageAssumption
    <3>2. s - 2 \in DOMAIN Image[p] /\ s = (s - 2) + 2
      <4>1. Len(Image[p]) \in Nat /\ DOMAIN Image[p] = 1 .. Len(Image[p])
        BY <3>1, LenProperties
      <4> QED  BY <1>2, <2>4, <4>1, SizeAssumption DEF Slots
    <3>3. Image[p][s - 2] \in ImageEntries
      BY <3>1, <3>2, LenProperties, ElementOfSeq
    <3>4. ImageSlot(p, s) =
            [st |-> "live", name |-> Image[p][s - 2].name,
             kind |-> Image[p][s - 2].kind, first |-> Image[p][s - 2].first]
      BY <1>2, <2>4 DEF ImageSlot
    <3> QED  BY <1>2, <3>2, <3>3, <3>4 DEF ImageEntries, Entries
  <2> QED  BY <2>2, <2>3, <2>4
<1> QED  BY <1>1, <1>2

LEMMA DirInit == Init => TypeOK /\ DirInv
<1> SUFFICES ASSUME Init PROVE TypeOK /\ DirInv
  OBVIOUS
<1>1. TypeOK
  <2>1. dir \in [Places -> [Slots -> Entries]]
    BY InitSlots DEF Init
  <2>2. used \subseteq Clusters
    BY PlaceFacts DEF Init
  <2>3. cwd \in Dirs
    BY PlaceFacts DEF Init, Dirs, RootDir
  <2>4. stack \in Seq(Dirs) /\ Len(stack) <= MaxDepth
    BY SizeAssumption, EmptySeq DEF Init
  <2>5. path \in Seq(DiskNames \cup {Slash})
    BY DEF Init
  <2> QED  BY <2>1, <2>2, <2>3, <2>4, <2>5 DEF TypeOK
<1>2. Len(stack) = 0 /\ Len(Way) = 1 /\ Way[1] = RootDir
  BY <1>1, WayAt DEF Init
<1>3. \A p \in Places, s \in Slots : Live(p, s) =>
        /\ p # 0 /\ p \in DOMAIN Image
        /\ \/ IsDot(p, s) /\ dir[p][s].kind = "dir"
           \/ \E i \in DOMAIN Image[p] :
                /\ s = i + 2
                /\ Image[p][i].first \in Clusters
                /\ dir[p][s].first = Image[p][i].first
                /\ dir[p][s].kind = Image[p][i].kind
  BY InitSlots DEF Init, Live, IsDot, Places
<1>4. \A p \in Places, s \in Slots : Holds(p, s) =>
        /\ p # 0 /\ p \in DOMAIN Image
        /\ \E i \in DOMAIN Image[p] :
             /\ s = i + 2 /\ i = s - 2
             /\ Image[p][i].first \in Clusters
             /\ dir[p][s].first = Image[p][i].first
             /\ dir[p][s].kind = Image[p][i].kind
  <2>1. SUFFICES ASSUME NEW p \in Places, NEW s \in Slots, Holds(p, s)
                 PROVE  /\ p # 0 /\ p \in DOMAIN Image
                        /\ \E i \in DOMAIN Image[p] :
                             /\ s = i + 2 /\ i = s - 2
                             /\ Image[p][i].first \in Clusters
                             /\ dir[p][s].first = Image[p][i].first
                             /\ dir[p][s].kind = Image[p][i].kind
    OBVIOUS
  <2>2. PICK i \in DOMAIN Image[p] :
          /\ s = i + 2
          /\ Image[p][i].first \in Clusters
          /\ dir[p][s].first = Image[p][i].first
          /\ dir[p][s].kind = Image[p][i].kind
    BY <1>3, <2>1 DEF Holds
  <2>3. p # 0 /\ p \in DOMAIN Image
    BY <1>3, <2>1 DEF Holds
  <2>4. i \in Nat
    <3>1. Image[p] \in Seq(ImageEntries)
      BY <2>3, ImageAssumption
    <3> QED  BY <2>2, <3>1, LenProperties
  <2> QED  BY <2>2, <2>3, <2>4
<1>5. StackIsPath /\ Ascending /\ WayListed /\ Root \in used
  BY <1>2 DEF StackIsPath, Ascending, WayListed, RootDir, Init
<1>6. ClustersApart
  <2>1. ASSUME NEW p \in Places, NEW s \in Slots, Holds(p, s)
        PROVE  dir[p][s].first \in used \ {Root}
    <3>1. PICK i \in DOMAIN Image[p] :
            /\ p \in DOMAIN Image /\ Image[p][i].first \in Clusters
            /\ dir[p][s].first = Image[p][i].first
      BY <1>4, <2>1
    <3>2. dir[p][s].first \in used
      BY <3>1 DEF Init
    <3>3. dir[p][s].first > p /\ p >= 2 /\ p \in Nat
      BY <3>1, ImageAssumption, PlaceFacts
    <3> QED  BY <3>1, <3>2, <3>3, PlaceFacts DEF Root
  <2>2. ASSUME NEW p \in Places, NEW s \in Slots, Holds(p, s),
               NEW q \in Places, NEW t \in Slots, Holds(q, t),
               dir[q][t].first = dir[p][s].first
        PROVE  p = q /\ s = t
    <3>1. PICK i \in DOMAIN Image[p] :
            /\ p \in DOMAIN Image /\ s = i + 2
            /\ dir[p][s].first = Image[p][i].first
      BY <1>4, <2>2
    <3>2. PICK j \in DOMAIN Image[q] :
            /\ q \in DOMAIN Image /\ t = j + 2
            /\ dir[q][t].first = Image[q][j].first
      BY <1>4, <2>2
    <3> QED  BY <2>2, <3>1, <3>2, ImageAssumption
  <2> QED  BY <2>1, <2>2 DEF ClustersApart
<1>7. FromImage
  BY <1>4, ImageAssumption, PlaceFacts DEF FromImage, Places
<1>8. DotsStay
  <2>1. ASSUME NEW p \in Places, NEW s \in Slots, Live(p, s), IsDot(p, s)
        PROVE  dir[p][s].kind = "dir"
    <3>1. dir[p][s] = ImageSlot(p, s)
      BY DEF Init
    <3>2. ASSUME p \in DOMAIN Image, s # 1, s # 2,
                 ~ (p = 0 \/ s > Len(Image[p]) + 2)
          PROVE  FALSE
      <4>1. Image[p] \in Seq(ImageEntries)
        BY <3>2, ImageAssumption
      <4>2. s - 2 \in DOMAIN Image[p]
        <5>1. Len(Image[p]) \in Nat /\ DOMAIN Image[p] = 1 .. Len(Image[p])
          BY <4>1, LenProperties
        <5> QED  BY <3>2, <5>1, SizeAssumption DEF Slots
      <4>3. dir[p][s].name = Image[p][s - 2].name
        BY <3>1, <3>2 DEF ImageSlot
      <4> QED  BY <2>1, <3>2, <4>2, <4>3, ImageAssumption DEF IsDot
    <3>3. p \in DOMAIN Image
      BY <1>3, <2>1
    <3>4. ~ (p = 0 \/ s > Len(Image[p]) + 2)
      BY <2>1, <3>1 DEF Live, ImageSlot, Blank
    <3> QED  BY <3>1, <3>2, <3>3, <3>4 DEF ImageSlot, DirEntry
  <2> QED  BY <2>1 DEF DotsStay
<1> QED  BY <1>1, <1>5, <1>6, <1>7, <1>8 DEF DirInv

-----------------------------------------------------------------------------
(* Entering a directory, going up and going home.                          *)
LEMMA PathType ==
  ASSUME NEW stk \in Seq(Dirs), NEW cur \in Dirs
  PROVE  PathOf(stk, cur) \in Seq(DiskNames \cup {Slash})
<1> DEFINE D == DiskNames \cup {Slash}
           above == [i \in 1 .. Len(stk) |-> stk[i].name]
           names == NamesOf(stk, cur)
<1>1. Len(stk) \in Nat /\ \A i \in 1 .. Len(stk) : stk[i] \in Dirs
  BY LenProperties, ElementOfSeq
<1>2. (\A d \in Dirs : d.name \in D) /\ cur.name \in D
  BY DEF Dirs
<1>3. above \in Seq(D)
  BY <1>1, <1>2
<1>4. names \in Seq(D)
  BY <1>2, <1>3, AppendProperties DEF NamesOf
<1> HIDE DEF names, D
<1>5. Len(names) \in Nat /\ \A i \in 1 .. Len(names) : names[i] \in D
  BY <1>4, LenProperties, ElementOfSeq
<1>6. Slash \in D
  BY DEF D
<1>7. [i \in 1 .. 2 * Len(names) |->
         IF i % 2 = 1 THEN Slash ELSE names[i \div 2]] \in Seq(D)
  <2>1. \A i \in 1 .. 2 * Len(names) : i % 2 # 1 => names[i \div 2] \in D
    BY <1>5
  <2>2. 2 * Len(names) \in Nat
    BY <1>5
  <2> QED  BY <1>6, <2>1, <2>2
<1>8. <<Slash>> \in Seq(D)
  BY <1>6
<1> QED  BY <1>7, <1>8 DEF PathOf, names, D

(* What the calls need of the current directory.                           *)
LEMMA CurrentFacts ==
  ASSUME TypeOK, DirInv
  PROVE  /\ cwd.cl \in Places
         /\ cwd.cl # 0 =>
              /\ cwd.cl \in used /\ ~ FileAt(cwd.cl)
              /\ \A s \in Slots : Live(cwd.cl, s) /\ ~ IsDot(cwd.cl, s) =>
                   dir[cwd.cl][s].first # cwd.cl
<1>1. /\ cwd.cl \in Places /\ Len(stack) + 1 \in 1 .. Len(Way)
      /\ Way[Len(stack) + 1] = cwd
  BY WayAt
<1>2. WayNotFiles
  BY WayClean
<1>3. cwd.cl # 0 => cwd.cl \in used /\ ~ FileAt(cwd.cl)
  BY <1>1, <1>2 DEF WayNotFiles, FileAt, Live
<1>4. cwd.cl # 0 => \A s \in Slots : Live(cwd.cl, s) /\ ~ IsDot(cwd.cl, s) =>
        dir[cwd.cl][s].first # cwd.cl
  BY <1>1, NotAboveItself
<1> QED  BY <1>1, <1>3, <1>4

LEMMA AppendAt ==
  ASSUME NEW stk \in Seq(Dirs), NEW cur \in Dirs, NEW w, w = Append(stk, cur)
  PROVE  /\ Len(stk) \in Nat /\ Len(w) = Len(stk) + 1
         /\ \A i \in 1 .. Len(stk) : w[i] = stk[i]
         /\ w[Len(stk) + 1] = cur
  BY LenProperties, AppendProperties

(* The directories above the current one are kept by going up.             *)
LEMMA ShorterWay ==
  ASSUME TypeOK, DirInv, UNCHANGED <<dir, used>>,
         stack' \in Seq(Dirs), cwd' \in Dirs,
         Len(stack') <= Len(stack),
         \A i \in 1 .. Len(stack') + 1 : Way'[i] = Way[i]
  PROVE  DirInv'
<1>1. /\ Len(Way) = Len(stack) + 1 /\ Len(stack) \in Nat
      /\ Len(Way') = Len(stack') + 1 /\ Len(stack') \in Nat
  <2>1. Len(stack') \in Nat /\ Len(Append(stack', cwd')) = Len(stack') + 1
    BY AppendAt
  <2> QED  BY <2>1, WayAt DEF Way
<1>2. StackIsPath'
  BY <1>1 DEF DirInv, StackIsPath, ListedIn, LeadsTo
<1>3. Ascending'
  BY <1>1 DEF DirInv, Ascending
<1>4. WayListed'
  BY <1>1 DEF DirInv, WayListed, ListedIn, LeadsTo, FileAt, Live
<1>5. ClustersApart' /\ FromImage' /\ DotsStay' /\ Root \in used'
  BY DEF DirInv, ClustersApart, FromImage, DotsStay, Holds, Live, IsDot
<1> QED  BY <1>2, <1>3, <1>4, <1>5 DEF DirInv

LEMMA UpInv ==
  ASSUME TypeOK, DirInv, GoUp
  PROVE  TypeOK' /\ DirInv'
<1>1. stack \in Seq(Dirs) /\ stack # << >> /\ Len(stack) \in Nat \ {0}
  BY EmptySeq, LenProperties DEF GoUp, TypeOK
<1>2. cwd' = stack[Len(stack)] /\ stack' = SubSeq(stack, 1, Len(stack) - 1)
      /\ path' = PathOf(stack', cwd') /\ UNCHANGED <<dir, used>>
  BY DEF GoUp, GoTo, Last, Front
<1>3. /\ stack' \in Seq(Dirs) /\ Len(stack') = Len(stack) - 1
      /\ \A i \in 1 .. Len(stack') : stack'[i] = stack[i]
      /\ cwd' \in Dirs
  <2>1. \A i \in 1 .. Len(stack) : stack[i] \in Dirs
    BY <1>1, ElementOfSeq
  <2>2. /\ SubSeq(stack, 1, Len(stack) - 1) \in Seq(Dirs)
        /\ Len(SubSeq(stack, 1, Len(stack) - 1)) = Len(stack) - 1
        /\ \A i \in 1 .. Len(stack) - 1 :
             SubSeq(stack, 1, Len(stack) - 1)[i] = stack[i]
    <3> DEFINE n == Len(stack) - 1
    <3>1. n \in Nat /\ n <= Len(stack) /\ n - 1 + 1 = n /\ 1 <= n + 1
      BY <1>1
    <3>2. \A i \in 1 .. n : i \in 1 .. Len(stack) /\ 1 + i - 1 = i
      BY <1>1
    <3>3. SubSeq(stack, 1, n) = [i \in 1 .. n |-> stack[i]]
      BY <1>1, <3>1, <3>2
    <3> HIDE DEF n
    <3>4. [i \in 1 .. n |-> stack[i]] \in Seq(Dirs)
      BY <2>1, <3>1, <3>2
    <3>5. Len([i \in 1 .. n |-> stack[i]]) = n
      BY <3>1
    <3> QED  BY <3>3, <3>4, <3>5 DEF n
  <2> QED  BY <1>1, <1>2, <2>1, <2>2
<1>4. TypeOK'
  <2>1. path' \in Seq(DiskNames \cup {Slash})
    BY <1>2, <1>3, PathType
  <2>2. Len(stack') <= MaxDepth
    BY <1>1, <1>3, SizeAssumption DEF TypeOK
  <2> QED  BY <1>2, <1>3, <2>1, <2>2 DEF TypeOK
<1>5. \A i \in 1 .. Len(stack') + 1 : Way'[i] = Way[i]
  <2>1. Way' = Append(stack', cwd')
    BY DEF Way
  <2>2. /\ \A i \in 1 .. Len(stack') : Way'[i] = stack'[i]
        /\ Way'[Len(stack') + 1] = cwd'
    BY <1>3, <2>1, AppendAt
  <2> QED  BY <1>1, <1>2, <1>3, <2>2, WayAt
<1> QED  BY <1>1, <1>2, <1>3, <1>4, <1>5, ShorterWay

LEMMA HomeInv ==
  ASSUME TypeOK, DirInv, GoHome
  PROVE  TypeOK' /\ DirInv'
<1>1. cwd' = RootDir /\ stack' = << >> /\ path' = PathOf(stack', cwd')
      /\ UNCHANGED <<dir, used>>
  BY DEF GoHome, GoTo
<1>2. cwd' \in Dirs /\ stack' \in Seq(Dirs) /\ Len(stack') = 0
  BY <1>1, PlaceFacts, EmptySeq DEF RootDir, Dirs
<1>3. TypeOK'
  <2>1. path' \in Seq(DiskNames \cup {Slash})
    BY <1>1, <1>2, PathType
  <2> QED  BY <1>1, <1>2, <2>1, SizeAssumption DEF TypeOK
<1>4. \A i \in 1 .. Len(stack') + 1 : Way'[i] = Way[i]
  <2>1. Way' = Append(stack', cwd')
    BY DEF Way
  <2>2. Way'[Len(stack') + 1] = cwd'
    BY <1>2, <2>1, AppendAt
  <2> QED  BY <1>1, <1>2, <2>2 DEF DirInv, StackIsPath
<1> QED  BY <1>1, <1>2, <1>3, <1>4, WayAt, ShorterWay

LEMMA EnterInv ==
  ASSUME TypeOK, DirInv, NoDots, NEW n \in Names, ChangeDirectory(n)
  PROVE  TypeOK' /\ DirInv'
<1>1. PICK s \in Slots :
        /\ s \in Subdirectories(n)
        /\ cwd' = [cl |-> dir[cwd.cl][s].first, name |-> dir[cwd.cl][s].name]
        /\ stack' = IF Len(stack) < MaxDepth THEN Append(stack, cwd) ELSE stack
        /\ path' = PathOf(stack', cwd')
  BY DEF ChangeDirectory, IsFirst, GoTo, Push
<1>2. /\ Live(cwd.cl, s) /\ dir[cwd.cl][s].kind = "dir"
      /\ ~ IsDot(cwd.cl, s) /\ cwd'.name \notin DotNames
      /\ dir[cwd.cl][s].name = cwd'.name /\ dir[cwd.cl][s].first = cwd'.cl
      /\ cwd.cl \in Places /\ UNCHANGED <<dir, used>>
      /\ dir[cwd.cl][s] \in Entries
  BY <1>1
     DEF Subdirectories, ChangeDirectory, TypeOK, Dirs, NoDots, IsDot, DotNames
<1>3. /\ cwd'.cl \in Places
      /\ cwd'.cl # 0 => cwd.cl # 0 /\ cwd.cl \in Nat /\ cwd'.cl \in Nat
                           /\ cwd.cl < cwd'.cl
  <2>1. cwd'.cl # 0 => Holds(cwd.cl, s)
    BY <1>2 DEF Holds
  <2>2. cwd'.cl # 0 => cwd.cl # 0 /\ cwd.cl < cwd'.cl
    BY <1>2, <2>1 DEF DirInv, FromImage
  <2>3. cwd'.cl # 0 => cwd'.cl \in Places
    BY <1>2, <2>1 DEF DirInv, FromImage
  <2> QED  BY <1>2, <2>1, <2>2, <2>3, PlaceFacts
<1>4. cwd' \in Dirs
  <2>1. cwd'.name \in DiskNames
    BY <1>1 DEF Subdirectories, DiskNames, Forms
  <2> QED  BY <1>1, <1>3, <2>1 DEF Dirs
<1>5. /\ stack \in Seq(Dirs) /\ cwd \in Dirs /\ Len(stack) \in Nat
      /\ Len(stack) <= MaxDepth
  BY LenProperties DEF TypeOK
<1>6. /\ Len(Way) = Len(stack) + 1
      /\ \A i \in 1 .. Len(stack) : Way[i] = stack[i]
      /\ Way[Len(stack) + 1] = cwd
      /\ \A i \in 1 .. Len(Way) : Way[i].cl \in Places
  BY WayAt
<1>7. /\ stack' \in Seq(Dirs) /\ Len(stack') \in Nat
      /\ Len(stack') = IF Len(stack) < MaxDepth THEN Len(stack) + 1
                                                  ELSE Len(stack)
      /\ \A i \in 1 .. Len(stack') : stack'[i] = Way[i]
  <2>1. CASE Len(stack) < MaxDepth
    BY <1>1, <1>5, <1>6, <2>1, AppendProperties
  <2>2. CASE ~ (Len(stack) < MaxDepth)
    BY <1>1, <1>5, <1>6, <2>2
  <2> QED  BY <2>1, <2>2
<1>8. /\ Len(Way') = Len(stack') + 1
      /\ \A i \in 1 .. Len(stack') : Way'[i] = Way[i]
      /\ Way'[Len(stack') + 1] = cwd'
  <2>1. Way' = Append(stack', cwd')
    BY DEF Way
  <2> QED  BY <1>4, <1>7, <2>1, AppendAt
<1>9. Len(stack') <= Len(stack) + 1 /\ Len(stack') <= MaxDepth
      /\ (Len(stack') = Len(stack) \/ Len(stack') = Len(stack) + 1)
      /\ (Len(stack') = Len(stack) => Len(stack) = MaxDepth)
  BY <1>5, <1>7, SizeAssumption
<1>10. TypeOK'
  <2>1. path' \in Seq(DiskNames \cup {Slash})
    BY <1>1, <1>4, <1>7, PathType
  <2> QED  BY <1>2, <1>4, <1>7, <1>9, <2>1 DEF TypeOK
<1>11. \E t \in Slots : LeadsTo(dir'[cwd.cl][t], cwd')
  BY <1>2 DEF LeadsTo, Live
<1>12. Ascending'
  <2> SUFFICES ASSUME NEW i \in 1 .. Len(Way'), NEW j \in 1 .. Len(Way'),
                      i < j, Way'[j].cl # 0
               PROVE  Way'[i].cl # 0 /\ Way'[i].cl < Way'[j].cl
    BY DEF Ascending
  <2>1. i \in 1 .. Len(stack') /\ i \in 1 .. Len(Way) /\ Way'[i] = Way[i]
    BY <1>5, <1>6, <1>7, <1>8, <1>9
  <2>2. CASE j \in 1 .. Len(stack')
    <3>1. j \in 1 .. Len(Way) /\ Way'[j] = Way[j]
      BY <1>5, <1>6, <1>7, <1>8, <1>9, <2>2
    <3> QED  BY <2>1, <3>1 DEF DirInv, Ascending
  <2>3. CASE j = Len(stack') + 1
    <3>1. Way'[j] = cwd' /\ cwd'.cl # 0
      BY <1>8, <2>3
    <3>2. CASE i = Len(stack) + 1
      BY <1>3, <1>6, <2>1, <3>1, <3>2
    <3>3. CASE i < Len(stack) + 1
      <4>1. Way[i].cl # 0 /\ Way[i].cl < cwd.cl
        <5>1. Len(stack) + 1 \in 1 .. Len(Way)
          BY <1>5, <1>6
        <5> QED  BY <1>3, <1>6, <2>1, <3>1, <3>3, <5>1 DEF DirInv, Ascending
      <4>2. Way[i].cl \in Nat
        BY <1>6, <2>1, <4>1, PlaceFacts
      <4> QED  BY <1>3, <2>1, <3>1, <4>1, <4>2
    <3> QED  BY <1>5, <1>6, <2>1, <3>2, <3>3
  <2> QED  BY <1>7, <1>8, <2>2, <2>3
<1>13. StackIsPath'
  <2>1. Way'[1] = RootDir
    <3>1. 1 \in 1 .. Len(stack')
      BY <1>5, <1>7, SizeAssumption
    <3> QED  BY <1>8, <3>1 DEF DirInv, StackIsPath
  <2>2. ASSUME NEW i \in 1 .. Len(stack'), Way'[i].cl # 0, i # MaxDepth
        PROVE  \E t \in Slots : LeadsTo(dir'[Way'[i].cl][t], Way'[i + 1])
    <3>1. Way'[i] = Way[i]
      BY <1>8
    <3>2. CASE i \in 1 .. Len(stack)
      <4>1. i + 1 \in 1 .. Len(stack')
        <5>1. CASE Len(stack) < MaxDepth
          BY <1>5, <1>7, <3>2, <5>1
        <5>2. CASE Len(stack) = MaxDepth /\ i # Len(stack)
          BY <1>5, <1>7, <3>2, <5>2
        <5> QED  BY <1>5, <2>2, <5>1, <5>2, SizeAssumption
      <4>2. Way'[i + 1] = Way[i + 1]
        BY <1>8, <4>1
      <4>3. ListedIn(Way[i].cl, Way[i + 1])
        BY <2>2, <3>1, <3>2 DEF DirInv, StackIsPath
      <4> QED  BY <1>2, <3>1, <4>2, <4>3 DEF ListedIn, LeadsTo
    <3>3. CASE i = Len(stack) + 1
      <4>1. Len(stack') = i
        BY <1>5, <1>9, <3>3
      <4> QED  BY <1>6, <1>8, <1>11, <3>1, <3>3, <4>1
    <3> QED  BY <1>5, <1>9, <3>2, <3>3
  <2> QED  BY <1>8, <2>1, <2>2 DEF StackIsPath, ListedIn
<1>14. WayListed'
  <2> SUFFICES ASSUME NEW i \in 1 .. Len(Way'), Way'[i].cl \notin {0, Root}
               PROVE  /\ Way'[i].name \notin DotNames
                      /\ \E p \in Places \cap used :
                           /\ p < Way'[i].cl /\ ~ FileAt(p)
                           /\ \E t \in Slots : LeadsTo(dir[p][t], Way'[i])
    BY <1>2 DEF WayListed, ListedIn, FileAt, Live, LeadsTo
  <2>1. CASE i \in 1 .. Len(stack')
    <3>1. i \in 1 .. Len(Way) /\ Way'[i] = Way[i]
      BY <1>5, <1>6, <1>8, <1>9, <2>1
    <3> QED  BY <3>1 DEF DirInv, WayListed, ListedIn
  <2>2. CASE i = Len(stack') + 1
    <3>1. Way'[i] = cwd' /\ cwd'.cl # 0
      BY <1>8, <2>2
    <3>2. cwd.cl \in Places \cap used /\ ~ FileAt(cwd.cl)
      BY <1>3, <3>1, CurrentFacts
    <3>3. LeadsTo(dir[cwd.cl][s], cwd')
      BY <1>2 DEF LeadsTo, Live
    <3> QED  BY <1>2, <1>3, <3>1, <3>2, <3>3
  <2> QED  BY <1>7, <1>8, <2>1, <2>2
<1>15. ClustersApart' /\ FromImage' /\ DotsStay' /\ Root \in used'
  BY <1>2 DEF DirInv, ClustersApart, FromImage, DotsStay, Holds, Live, IsDot
<1> QED  BY <1>10, <1>12, <1>13, <1>14, <1>15 DEF DirInv

-----------------------------------------------------------------------------
(* The calls that change entries leave the way alone: of the directories   *)
(* on it only the current one changes, and a directory that is overwritten *)
(* is none that lists one on the way.                                      *)
Spared(p) ==
  /\ p \in Places \cap used
  /\ \A s \in Slots : Live(cwd.cl, s) /\ ~ IsDot(cwd.cl, s) =>
       dir[cwd.cl][s].first # p

LEMMA WayKept ==
  ASSUME TypeOK, DirInv, UNCHANGED <<cwd, stack>>,
         \A p \in Places : Spared(p) =>
           /\ p # cwd.cl => dir'[p] = dir[p]
           /\ p \in used'
           /\ FileAt(p)' => FileAt(p)
  PROVE  StackIsPath' /\ Ascending' /\ WayListed'
<1>1. Way' = Way
  BY DEF Way
<1>2. /\ Len(Way) = Len(stack) + 1 /\ Len(stack) \in Nat
      /\ Way[Len(stack) + 1] = cwd /\ cwd.cl \in Places
      /\ \A i \in 1 .. Len(Way) : Way[i].cl \in Places
  BY WayAt
<1>3. Ascending'
  BY <1>1 DEF DirInv, Ascending
<1>4. ASSUME NEW i \in 1 .. Len(stack), Way[i].cl # 0
      PROVE  dir'[Way[i].cl] = dir[Way[i].cl]
  <2>1. i \in 1 .. Len(Way) /\ Len(stack) + 1 \in 1 .. Len(Way)
        /\ i < Len(stack) + 1
    BY <1>2
  <2>2. Way[i].cl # cwd.cl
    <3>1. cwd.cl # 0 => Way[i].cl < cwd.cl
      BY <1>2, <2>1 DEF DirInv, Ascending
    <3>2. Way[i].cl \in Nat
      BY <1>2, <1>4, <2>1, PlaceFacts
    <3> QED  BY <1>4, <3>1, <3>2
  <2>3. \A s \in Slots : Live(cwd.cl, s) /\ ~ IsDot(cwd.cl, s) =>
          dir[cwd.cl][s].first # Way[i].cl
    BY <1>4, <2>1, NotAboveItself
  <2>4. Way[i].cl \in used
    BY <1>4, <2>1, WayClean DEF WayNotFiles
  <2> QED  BY <1>2, <2>1, <2>2, <2>3, <2>4 DEF Spared
<1>5. StackIsPath'
  BY <1>1, <1>4 DEF DirInv, StackIsPath, ListedIn, LeadsTo
<1>6. WayListed'
  <2> SUFFICES ASSUME NEW i \in 1 .. Len(Way), Way[i].cl \notin {0, Root}
               PROVE  /\ Way[i].name \notin DotNames
                      /\ \E p \in Places \cap used' :
                           /\ p < Way[i].cl /\ ~ FileAt(p)'
                           /\ \E t \in Slots : LeadsTo(dir'[p][t], Way[i])
    BY <1>1 DEF WayListed, ListedIn, LeadsTo
  <2>1. PICK p \in Places \cap used, t \in Slots :
          /\ p < Way[i].cl /\ ~ FileAt(p) /\ LeadsTo(dir[p][t], Way[i])
          /\ Holds(p, t) /\ dir[p][t].first = Way[i].cl
    BY ListedHolds
  <2>2. p # cwd.cl
    BY <2>1, NotAboveItself DEF Holds
  <2>3. ASSUME NEW s \in Slots, Live(cwd.cl, s), ~ IsDot(cwd.cl, s),
               dir[cwd.cl][s].first = p
        PROVE  FALSE
    <3>1. p # 0
      BY PlaceFacts DEF TypeOK
    <3>2. Holds(cwd.cl, s) /\ dir[cwd.cl][s] \in Entries
      BY <1>2, <2>3, <3>1, HoldsFacts DEF Holds
    <3>3. dir[cwd.cl][s].kind = "dir"
      BY <1>2, <2>1, <2>3, <3>2 DEF FileAt, Entries, Kinds
    <3>4. cwd.cl # 0 /\ cwd.cl < p
      BY <1>2, <2>3, <3>2, <3>3 DEF DirInv, FromImage
    <3>5. Way[i].cl = cwd.cl \/ Way[i].cl < cwd.cl
      BY <1>2, <3>4 DEF DirInv, Ascending
    <3>6. p \in Nat /\ cwd.cl \in Nat /\ Way[i].cl \in Nat
      BY <1>2, <3>1, <3>4, PlaceFacts
    <3> QED  BY <2>1, <3>4, <3>5, <3>6
  <2>4. dir'[p] = dir[p] /\ p \in used' /\ ~ FileAt(p)'
    BY <2>1, <2>2, <2>3 DEF Spared
  <2> QED  BY <2>1, <2>4 DEF DirInv, WayListed
<1> QED  BY <1>3, <1>5, <1>6

(* One entry of the current directory is replaced by one that has no       *)
(* cluster: by a new one or by a deleted one.                              *)
LEMMA OneEntryInv ==
  ASSUME TypeOK, DirInv, UNCHANGED <<used, cwd, stack, path>>,
         NEW s \in Slots, NEW e \in Entries, e.first = 0,
         e.name \notin DotNames,
         dir' = [dir EXCEPT ![cwd.cl] = [@ EXCEPT ![s] = e]]
  PROVE  TypeOK' /\ DirInv'
<1>1. cwd.cl \in Places /\ dir \in [Places -> [Slots -> Entries]]
  BY CurrentFacts DEF TypeOK
<1>2. dir' \in [Places -> [Slots -> Entries]]
  BY <1>1
<1>3. TypeOK'
  BY <1>2 DEF TypeOK
<1>4. \A p \in Places : p # cwd.cl => dir'[p] = dir[p]
  BY <1>1
<1>5. \A p \in Places, t \in Slots :
        dir'[p][t].first # 0 \/ dir'[p][t].name \in DotNames
          => dir'[p][t] = dir[p][t]
  BY <1>1
<1>6. StackIsPath' /\ Ascending' /\ WayListed'
  <2>1. \A p \in Places : Spared(p) => p # 0
    BY PlaceFacts DEF Spared, TypeOK
  <2>2. \A p \in Places : p # 0 /\ FileAt(p)' => FileAt(p)
    BY <1>5 DEF FileAt, Live
  <2> QED  BY <1>4, <2>1, <2>2, WayKept DEF Spared
<1>7. ClustersApart' /\ FromImage' /\ DotsStay'
  BY <1>5 DEF DirInv, ClustersApart, FromImage, DotsStay, Holds, Live, IsDot
<1> QED  BY <1>3, <1>6, <1>7 DEF DirInv

LEMMA CreateInv ==
  ASSUME TypeOK, DirInv, NoDots, NEW dn \in TypedNames, NEW kind \in Kinds,
         CreateEntry(dn, kind)
  PROVE  TypeOK' /\ DirInv'
<1> DEFINE e == [st |-> "live", name |-> dn, kind |-> kind, first |-> 0]
<1>1. e \in Entries /\ e.first = 0 /\ e.name \notin DotNames
  BY SizeAssumption DEF Entries, NoDots
<1>2. PICK s \in Slots : dir' = [dir EXCEPT ![cwd.cl] = [@ EXCEPT ![s] = e]]
  BY DEF CreateEntry, PutEntry
<1>3. UNCHANGED <<used, cwd, stack, path>>
  BY DEF CreateEntry
<1> QED  BY <1>1, <1>2, <1>3, OneEntryInv

LEMMA DeleteInv ==
  ASSUME TypeOK, DirInv, NEW dn \in TypedNames, DeleteEntry(dn)
  PROVE  TypeOK' /\ DirInv'
<1>1. /\ Blank("deleted") \in Entries /\ Blank("deleted").first = 0
      /\ Blank("deleted").name \notin DotNames
  BY BlankType, SizeAssumption DEF Blank, DotNames, DiskNames
<1>2. PICK s \in Slots :
        dir' = [dir EXCEPT ![cwd.cl] = [@ EXCEPT ![s] = Blank("deleted")]]
  BY DEF DeleteEntry
<1>3. UNCHANGED <<used, cwd, stack, path>>
  BY DEF DeleteEntry
<1> QED  BY <1>1, <1>2, <1>3, OneEntryInv

(* What fat32_write_file leaves: the entry written, which the data or a    *)
(* FAT sector may take away again, and of the others those not overwritten.*)
LEMMA ReplaceFacts ==
  ASSUME TypeOK, DirInv, NEW n \in Names, NEW s \in Slots,
         NEW old \in {0} \cup Clusters, NEW new \in Clusters,
         Replace(s, n, old, new)
  PROVE  /\ dir' \in [Places -> [Slots -> Entries]]
         /\ \A p \in Places \ {0, cwd.cl, new} : dir'[p] = dir[p]
         /\ \A p \in Places, t \in Slots :
              \/ dir'[p][t].first = 0 /\ dir'[p][t].name \notin DotNames
              \/ /\ p = cwd.cl /\ t = s
                 /\ dir'[p][t].first = new /\ dir'[p][t].kind = "file"
                 /\ dir'[p][t].name = <<n, "fat">>
              \/ ~ (p = cwd.cl /\ t = s) /\ dir'[p][t] = dir[p][t]
<1> DEFINE e == [st |-> "live", name |-> <<n, "fat">>, kind |-> "file",
                 first |-> new]
           put == [dir EXCEPT ![cwd.cl] = [@ EXCEPT ![s] = e]]
           shadowed == new \in Shadow \/ (old \in Shadow /\ cwd.cl # 0)
           None0(x) == x.first = 0 /\ x.name \notin DotNames
<1>1. PICK zero \in IF shadowed THEN JunkOrEnd ELSE {put[0]},
           empty \in BOOLEAN :
        dir' = [p \in Places |->
                  IF p = 0 THEN zero
                  ELSE IF p = new /\ ~ empty THEN Wiped
                  ELSE put[p]]
  BY DEF Replace
<1>2. /\ e \in Entries /\ e.first = new /\ e.kind = "file"
      /\ e.name = <<n, "fat">>
  BY DEF Entries, Kinds, DiskNames, Forms
<1>3. cwd.cl \in Places /\ dir \in [Places -> [Slots -> Entries]]
  BY CurrentFacts DEF TypeOK
<1> HIDE DEF e
<1>4. put \in [Places -> [Slots -> Entries]]
  BY <1>2, <1>3
<1>5. /\ put[cwd.cl][s] = e
      /\ \A p \in Places : p # cwd.cl => put[p] = dir[p]
      /\ \A t \in Slots : t # s => put[cwd.cl][t] = dir[cwd.cl][t]
  BY <1>3
<1>6. /\ Blank("end") \in Entries /\ Junk \in Entries
      /\ None0(Blank("end")) /\ None0(Junk)
  BY BlankType, SizeAssumption DEF Junk, Blank, DotNames, DiskNames
<1> HIDE DEF None0
<1>7. /\ Wiped \in [Slots -> Entries]
      /\ \A t \in Slots : None0(Wiped[t])
  BY <1>6 DEF Wiped
<1>8. ASSUME NEW f \in JunkOrEnd
      PROVE  f \in [Slots -> Entries] /\ \A t \in Slots : None0(f[t])
  BY <1>6 DEF JunkOrEnd
<1> HIDE DEF put, shadowed
<1>9. /\ zero \in [Slots -> Entries]
      /\ zero = put[0] \/ \A t \in Slots : None0(zero[t])
  BY <1>1, <1>4, <1>8, PlaceFacts
<1>10. dir' \in [Places -> [Slots -> Entries]]
  BY <1>1, <1>4, <1>7, <1>9, PlaceFacts
<1>11. \A p \in Places \ {0, cwd.cl, new} : dir'[p] = dir[p]
  BY <1>1, <1>5
<1>12. \A p \in Places, t \in Slots :
         None0(dir'[p][t]) \/ dir'[p][t] = put[p][t]
  BY <1>1, <1>7, <1>9
<1>13. ASSUME NEW p \in Places, NEW t \in Slots
       PROVE  \/ None0(dir'[p][t])
              \/ p = cwd.cl /\ t = s /\ dir'[p][t] = e
              \/ ~ (p = cwd.cl /\ t = s) /\ dir'[p][t] = dir[p][t]
  <2>1. CASE p = cwd.cl /\ t = s
    BY <1>5, <1>12, <2>1
  <2>2. CASE ~ (p = cwd.cl /\ t = s)
    BY <1>5, <1>12, <2>2
  <2> QED  BY <2>1, <2>2
<1> QED  BY <1>2, <1>10, <1>11, <1>13 DEF None0

LEMMA WriteInv ==
  ASSUME TypeOK, DirInv, NoDots, NEW n \in Names, WriteFile(n)
  PROVE  TypeOK' /\ DirInv'
<1>1. PICK s \in Slots, old \in {0} \cup Clusters, new \in Clusters :
        /\ s \in Named(cwd.cl, <<n, "fat">>) \cup FreeSlots(cwd.cl)
        /\ \/ Live(cwd.cl, s) /\ old # 0 /\ old = dir[cwd.cl][s].first
           \/ ~ Live(cwd.cl, s) /\ old = 0
        /\ FirstFree(new, used \ {old})
        /\ Replace(s, n, old, new)
        /\ used' = (used \ {old}) \cup {new}
  BY DEF WriteFile, IsFirst
<1>2. UNCHANGED <<cwd, stack, path>>
  BY DEF WriteFile
<1>3. <<n, "fat">> \notin DotNames
  BY DEF NoDots, DotNames
<1>4. /\ cwd.cl \in Places
      /\ old # 0 => Holds(cwd.cl, s) /\ old = dir[cwd.cl][s].first
  BY <1>1, <1>3, CurrentFacts DEF Named, FreeSlots, SlotsOf, Holds, IsDot
<1>5. /\ dir' \in [Places -> [Slots -> Entries]]
      /\ \A p \in Places \ {0, cwd.cl, new} : dir'[p] = dir[p]
      /\ \A p \in Places, t \in Slots :
           \/ dir'[p][t].first = 0 /\ dir'[p][t].name \notin DotNames
           \/ /\ p = cwd.cl /\ t = s
              /\ dir'[p][t].first = new /\ dir'[p][t].kind = "file"
              /\ dir'[p][t].name = <<n, "fat">>
           \/ ~ (p = cwd.cl /\ t = s) /\ dir'[p][t] = dir[p][t]
  BY <1>1, ReplaceFacts
<1>6. /\ new \notin used \/ new = old
      /\ new # 0 /\ 0 \notin used /\ old # Root
      /\ old # 0 => /\ old \in used
                    /\ \A p \in Places, t \in Slots :
                         Holds(p, t) /\ dir[p][t].first = old
                           => p = cwd.cl /\ t = s
  <2>1. new \notin used \/ new = old
    BY <1>1 DEF FirstFree
  <2>2. 0 \notin used /\ new # 0
    BY PlaceFacts DEF TypeOK
  <2> QED  BY <1>4, <2>1, <2>2, HoldsFacts DEF Root
<1>7. TypeOK'
  BY <1>1, <1>2, <1>5 DEF TypeOK
<1>8. StackIsPath' /\ Ascending' /\ WayListed'
  <2> SUFFICES ASSUME NEW p \in Places, Spared(p)
               PROVE  /\ p # cwd.cl => dir'[p] = dir[p]
                      /\ p \in used'
                      /\ FileAt(p)' => FileAt(p)
    BY <1>2, WayKept
  <2>1. p \in used /\ p # 0 /\ p # old
    BY <1>4, <1>6 DEF Spared, Holds
  <2>2. p # new
    BY <1>6, <2>1
  <2>3. FileAt(p)' => FileAt(p)
    BY <1>5, <2>1, <2>2 DEF FileAt, Live
  <2> QED  BY <1>1, <1>5, <2>1, <2>2, <2>3
<1>9. Root \in used'
  BY <1>1, <1>6 DEF DirInv
<1>10. ClustersApart'
  <2>1. ASSUME NEW p \in Places, NEW t \in Slots, Holds(p, t)'
        PROVE  \/ p = cwd.cl /\ t = s /\ dir'[p][t].first = new
               \/ /\ ~ (p = cwd.cl /\ t = s)
                  /\ dir'[p][t] = dir[p][t] /\ Holds(p, t)
                  /\ dir[p][t].first \in used \ {Root, old, new}
    <3>1. CASE p = cwd.cl /\ t = s
      BY <1>5, <2>1, <3>1 DEF Holds
    <3>2. CASE ~ (p = cwd.cl /\ t = s)
      <4>1. dir'[p][t] = dir[p][t] /\ Holds(p, t)
        BY <1>5, <2>1, <3>2 DEF Holds, Live, IsDot
      <4>2. dir[p][t].first \in used \ {Root}
        BY <4>1, HoldsFacts
      <4> QED  BY <1>6, <3>2, <4>1, <4>2
    <3> QED  BY <3>1, <3>2
  <2>2. new # Root
    BY <1>6 DEF DirInv
  <2>3. \A p \in Places, t \in Slots :
          Holds(p, t)' => dir'[p][t].first \in used' \ {Root}
    BY <1>1, <2>1, <2>2
  <2>4. \A p \in Places, t \in Slots, q \in Places, u \in Slots :
          Holds(p, t)' /\ Holds(q, u)' /\ dir'[q][u].first = dir'[p][t].first
            => p = q /\ t = u
    BY <2>1 DEF DirInv, ClustersApart
  <2> QED  BY <2>3, <2>4 DEF ClustersApart
<1>11. FromImage'
  <2> SUFFICES ASSUME NEW p \in Places, NEW t \in Slots, Holds(p, t)',
                      dir'[p][t].kind = "dir"
               PROVE  /\ p # 0 /\ p < dir'[p][t].first
                      /\ dir'[p][t].first \in Places
    BY DEF FromImage
  <2>1. dir'[p][t] = dir[p][t] /\ Holds(p, t)
    BY <1>5 DEF Holds, Live, IsDot, Kinds
  <2> QED  BY <2>1 DEF DirInv, FromImage
<1>12. DotsStay'
  <2> SUFFICES ASSUME NEW p \in Places, NEW t \in Slots,
                      Live(p, t)', IsDot(p, t)'
               PROVE  dir'[p][t].kind = "dir"
    BY DEF DotsStay
  <2>1. dir'[p][t].name \in DotNames
    BY DEF IsDot
  <2>2. dir'[p][t] = dir[p][t]
    <3>1. dir'[p][t].name # <<n, "fat">>
      BY <1>3, <2>1
    <3> QED  BY <1>5, <2>1, <3>1
  <2> QED  BY <2>1, <2>2 DEF DirInv, DotsStay, Live, IsDot
<1> QED  BY <1>7, <1>8, <1>9, <1>10, <1>11, <1>12 DEF DirInv

-----------------------------------------------------------------------------
LEMMA DirStep ==
  ASSUME NoDots, TypeOK, DirInv, [Next]_vars
  PROVE  TypeOK' /\ DirInv'
<1>1. CASE \E n \in Names : ChangeDirectory(n)
  BY <1>1, EnterInv
<1>2. CASE GoUp
  BY <1>2, UpInv
<1>3. CASE GoHome
  BY <1>3, HomeInv
<1>4. CASE \E dn \in TypedNames, kind \in Kinds : CreateEntry(dn, kind)
  BY <1>4, CreateInv
<1>5. CASE \E dn \in TypedNames : DeleteEntry(dn)
  BY <1>5, DeleteInv
<1>6. CASE \E n \in Names : WriteFile(n)
  BY <1>6, WriteInv
<1>7. CASE UNCHANGED vars
  <2>1. Way' = Way
    BY <1>7 DEF vars, Way
  <2>2. TypeOK'
    BY <1>7 DEF vars, TypeOK
  <2>3. StackIsPath' /\ Ascending'
    BY <1>7, <2>1 DEF vars, DirInv, StackIsPath, Ascending, ListedIn, LeadsTo
  <2>4. WayListed'
    BY <1>7, <2>1
       DEF vars, DirInv, WayListed, ListedIn, LeadsTo, FileAt, Live
  <2>5. ClustersApart' /\ FromImage' /\ DotsStay' /\ Root \in used'
    BY <1>7 DEF vars, DirInv, ClustersApart, FromImage, DotsStay, Holds, Live,
       IsDot
  <2> QED  BY <2>2, <2>3, <2>4, <2>5 DEF DirInv
<1> QED  BY <1>1, <1>2, <1>3, <1>4, <1>5, <1>6, <1>7 DEF Next

LEMMA DirAlways ==
  ASSUME NoDots
  PROVE  Spec => [](TypeOK /\ DirInv)
<1>1. Init => TypeOK /\ DirInv
  BY DirInit
<1>2. TypeOK /\ DirInv /\ [Next]_vars => (TypeOK /\ DirInv)'
  BY DirStep
<1> QED  BY <1>1, <1>2, PTL DEF Spec

(* The types, and the bound of the stack of directories.                   *)
THEOREM DirTypeCorrect ==
  ASSUME NoDots
  PROVE  Spec => []TypeOK
<1>1. Spec => [](TypeOK /\ DirInv)
  BY DirAlways
<1> QED  BY <1>1, PTL

(* ".." always leads to the directory that lists the current one, until 16 *)
(* directories are on the stack (fat32_change_directory).                  *)
THEOREM WayHolds ==
  ASSUME NoDots
  PROVE  Spec => []StackIsPath
<1>1. Spec => [](TypeOK /\ DirInv)
  BY DirAlways
<1>2. DirInv => StackIsPath
  BY DEF DirInv
<1> QED  BY <1>1, <1>2, PTL

(* No cluster is written for two entries (fat32_write_file).               *)
THEOREM EntriesShareNothing ==
  ASSUME NoDots
  PROVE  Spec => []ClustersApart
<1>1. Spec => [](TypeOK /\ DirInv)
  BY DirAlways
<1>2. DirInv => ClustersApart
  BY DEF DirInv
<1> QED  BY <1>1, <1>2, PTL

(* No call takes the cluster of a directory that is in use: not of the     *)
(* current one, nor of one ".." may lead to (fat32_write_file).            *)
THEOREM WayStaysDirectories ==
  ASSUME NoDots
  PROVE  Spec => []WayNotFiles
<1>1. Spec => [](TypeOK /\ DirInv)
  BY DirAlways
<1>2. TypeOK /\ DirInv => WayNotFiles
  BY WayClean
<1> QED  BY <1>1, <1>2, PTL

(* The calls change the entries of the current directory, and of one that  *)
(* a file overwrites, only.                                                *)
THEOREM OnlyHere ==
  ASSUME NoDots
  PROVE  Spec => EntriesChangeHere
<1> DEFINE A == \A p \in Places \cap used : dir'[p] # dir[p] =>
                  p = cwd.cl \/ \E s \in Slots : dir[cwd.cl][s].first = p
<1>1. TypeOK /\ DirInv /\ [Next]_vars => [A]_vars
  <2> SUFFICES ASSUME TypeOK, DirInv, Next PROVE A
    OBVIOUS
  <2>1. CASE UNCHANGED dir
    BY <2>1
  <2>2. ASSUME NEW s \in Slots, NEW e,
               dir' = [dir EXCEPT ![cwd.cl] = [@ EXCEPT ![s] = e]]
        PROVE  A
    BY <2>2 DEF TypeOK
  <2>3. ASSUME NEW n \in Names, WriteFile(n)
        PROVE  A
    <3>1. PICK s \in Slots, old \in {0} \cup Clusters, new \in Clusters :
            /\ \/ Live(cwd.cl, s) /\ old # 0 /\ old = dir[cwd.cl][s].first
               \/ ~ Live(cwd.cl, s) /\ old = 0
            /\ FirstFree(new, used \ {old})
            /\ Replace(s, n, old, new)
      BY <2>3 DEF WriteFile
    <3>2. \A p \in Places \ {0, cwd.cl, new} : dir'[p] = dir[p]
      BY <3>1, ReplaceFacts
    <3>3. 0 \notin used /\ (new \notin used \/ new = old)
      BY <3>1, PlaceFacts DEF TypeOK, FirstFree
    <3> QED  BY <3>1, <3>2, <3>3, PlaceFacts
  <2> QED
    BY <2>1, <2>2, <2>3
       DEF Next, ChangeDirectory, GoUp, GoHome, CreateEntry, PutEntry,
           DeleteEntry
<1>2. Spec => [](TypeOK /\ DirInv)
  BY DirAlways
<1> QED  BY <1>1, <1>2, PTL DEF Spec, EntriesChangeHere

-----------------------------------------------------------------------------
(* The path without its slashes is what the way shows.  Below the root the *)
(* root's own name is a slash, so that two of them come first.             *)
LEMMA ChosenFold ==
  ASSUME NEW p \in Seq(DiskNames \cup {Slash})
  PROVE  \E F : /\ F[{}] = << >> /\ F[1 .. Len(p)] = FoldLeft(Unslashed, << >>, p)
                /\ \A k \in 0 .. Len(p) - 1 :
                     F[1 .. k + 1] = Unslashed(F[1 .. k], p[k + 1])
<1> DEFINE V == Seq(DiskNames)
           E == DiskNames \cup {Slash}
           n == Len(p)
           step == [x \in V \X E |-> Unslashed(x[1], x[2])]
           Folds(F) == F = [s \in SUBSET (1 .. n) |->
                              IF s = {} THEN << >>
                              ELSE Unslashed(F[s \ {Max(s)}], p[Max(s)])]
<1>1. n \in Nat /\ DOMAIN p = 1 .. n /\ p \in [1 .. n -> E]
  BY LenProperties
<1>2. << >> \in V
  OBVIOUS
<1>3. \A v \in V, e \in E : Unslashed(v, e) \in V
  BY AppendProperties DEF Unslashed
<1>4. step \in [V \X E -> V]
  BY <1>3
<1>5. PICK g \in [SUBSET (1 .. n) -> V] :
        \A s \in SUBSET (1 .. n) :
          g[s] = IF s = {} THEN << >> ELSE step[<<g[s \ {Max(s)}], p[Max(s)]>>]
  <2>1. PICK U, D, b, op, k, q :
          U = V /\ D = E /\ b = << >> /\ op = step /\ k = n /\ q = p
    OBVIOUS
  <2>2. b \in U /\ op \in [U \X D -> U] /\ k \in Nat /\ q \in [1 .. k -> D]
    BY <1>1, <1>2, <1>4, <2>1
  <2>3. PICK g : FoldsTo(g, U, b, op, k, q)
    BY <2>2, FoldExists
  <2>4. g \in [SUBSET (1 .. n) -> V] /\ FoldsTo(g, V, << >>, step, n, p)
    BY <2>1, <2>3 DEF FoldsTo
  <2> HIDE DEF V, n, step
  <2> QED  BY <2>4 DEF FoldsTo
<1>6. Folds(g)
  <2>1. ASSUME NEW s \in SUBSET (1 .. n), s # {}
        PROVE  g[s] = Unslashed(g[s \ {Max(s)}], p[Max(s)])
    <3>1. PICK j \in Nat : j = n
      BY <1>1
    <3>2. s \in SUBSET (0 .. j)
      BY <3>1, <1>1
    <3>3. Max(s) \in s
      BY <2>1, <3>2, MaxIsGreatest
    <3>4. Max(s) \in 1 .. n /\ p[Max(s)] \in E /\ g[s \ {Max(s)}] \in V
      BY <1>1, <1>5, <3>3
    <3> HIDE DEF V, E
    <3> QED  BY <1>5, <2>1, <3>4
  <2> HIDE DEF V, n, step
  <2> QED  BY <1>5, <2>1
<1>7. FoldLeft(Unslashed, << >>, p) = LET F == CHOOSE F : Folds(F) IN F[1 .. n]
  BY <1>1 DEF FoldLeft, MapThenFoldSet
<1> DEFINE F == CHOOSE F : Folds(F)
<1>8. Folds(F)
  <2> HIDE DEF Folds
  <2> QED  BY <1>6
<1> HIDE DEF F
<1>9. F[{}] = << >> /\ F[1 .. n] = FoldLeft(Unslashed, << >>, p)
  <2>1. F[{}] = << >>
    BY <1>8
  <2> QED  BY <1>7, <2>1 DEF F
<1>10. ASSUME NEW k \in 0 .. n - 1
       PROVE  F[1 .. k + 1] = Unslashed(F[1 .. k], p[k + 1])
  <2>1. k \in Nat /\ 1 .. k + 1 \in SUBSET (1 .. k + 1) /\ k + 1 \in 1 .. k + 1
    BY <1>1
  <2>2. Max(1 .. k + 1) = k + 1
    BY <2>1, MaxUpTo
  <2>3. (1 .. k + 1) \ {k + 1} = 1 .. k /\ 1 .. k + 1 # {}
    BY <2>1
  <2>4. 1 .. k + 1 \in SUBSET (1 .. n)
    <3>1. k + 1 <= n /\ n \in Nat
      BY <1>1
    <3>2. \A i \in 1 .. k + 1 : i \in 1 .. n
      BY <2>1, <3>1
    <3> QED  BY <3>2
  <2> HIDE DEF n
  <2> QED  BY <1>8, <2>2, <2>3, <2>4
<1> QED  BY <1>9, <1>10

LEMMA ShownNames ==
  ASSUME NEW m \in Nat, NEW names \in [1 .. m + 1 -> DiskNames \cup {Slash}],
         names[1] = Slash, \A i \in 2 .. m + 1 : names[i] \in DiskNames,
         NEW p \in Seq(DiskNames \cup {Slash}), Len(p) = 2 * (m + 1),
         \A i \in 1 .. Len(p) : p[i] = IF i % 2 = 1 THEN Slash ELSE names[i \div 2]
  PROVE  FoldLeft(Unslashed, << >>, p) = [i \in 1 .. m |-> names[i + 1]]
<1>1. PICK F : /\ F[{}] = << >> /\ F[1 .. Len(p)] = FoldLeft(Unslashed, << >>, p)
               /\ \A k \in 0 .. Len(p) - 1 :
                    F[1 .. k + 1] = Unslashed(F[1 .. k], p[k + 1])
  BY ChosenFold
<1> DEFINE f(k) == F[1 .. k]
           Part(j) == [i \in 1 .. j |-> names[i + 1]]
           Bad == {j \in Nat : j <= m /\ f(2 * (j + 1)) # Part(j)}
<1>2. ASSUME NEW j \in 0 .. m
      PROVE  /\ f(2 * j + 1) = f(2 * j)
             /\ f(2 * (j + 1)) = Unslashed(f(2 * j), names[j + 1])
  <2>1. 2 * j \in 0 .. Len(p) - 1 /\ 2 * j + 1 \in 0 .. Len(p) - 1
    OBVIOUS
  <2>2. (2 * j + 1) % 2 = 1 /\ (2 * j + 2) % 2 # 1 /\ (2 * j + 2) \div 2 = j + 1
    OBVIOUS
  <2>3. p[2 * j + 1] = Slash /\ p[2 * j + 2] = names[j + 1]
    BY <2>1, <2>2
  <2>4. f(2 * j + 1) = f(2 * j)
    BY <1>1, <2>1, <2>3 DEF Unslashed
  <2>5. (2 * j + 1) + 1 = 2 * j + 2 /\ 2 * (j + 1) = 2 * j + 2
    OBVIOUS
  <2>6. f((2 * j + 1) + 1) = Unslashed(f(2 * j + 1), p[(2 * j + 1) + 1])
    BY <1>1, <2>1
  <2> HIDE DEF f
  <2> QED  BY <2>3, <2>4, <2>5, <2>6
<1>3. f(2 * (0 + 1)) = Part(0)
  <2>1. f(0) = << >>
    <3>1. 1 .. 0 = {}
      OBVIOUS
    <3> QED  BY <1>1, <3>1
  <2>2. f(2 * (0 + 1)) = Unslashed(f(2 * 0), names[0 + 1])
    <3>1. 0 \in 0 .. m
      OBVIOUS
    <3> HIDE DEF f
    <3> QED  BY <1>2, <3>1
  <2>3. 2 * 0 = 0 /\ 0 + 1 = 1
    OBVIOUS
  <2>4. Part(0) = << >>
    OBVIOUS
  <2> HIDE DEF f, Part
  <2> QED  BY <2>1, <2>2, <2>3, <2>4 DEF Unslashed
<1>4. ASSUME NEW j \in 0 .. m - 1, f(2 * (j + 1)) = Part(j)
      PROVE  f(2 * ((j + 1) + 1)) = Part(j + 1)
  <2>1. j + 1 \in 0 .. m /\ (j + 1) + 1 \in 2 .. m + 1 /\ names[(j + 1) + 1] # Slash
    BY SizeAssumption
  <2>2. f(2 * ((j + 1) + 1)) = Unslashed(f(2 * (j + 1)), names[(j + 1) + 1])
    BY <1>2, <2>1
  <2>3. f(2 * ((j + 1) + 1)) = Append(Part(j), names[(j + 1) + 1])
    BY <1>4, <2>1, <2>2 DEF Unslashed
  <2>4. Append(Part(j), names[(j + 1) + 1]) = Part(j + 1)
    <3>1. Part(j) \in Seq(DiskNames \cup {Slash}) /\ Len(Part(j)) = j
      OBVIOUS
    <3> QED  BY <3>1
  <2> QED  BY <2>3, <2>4
<1> HIDE DEF f, Part
<1>5. ASSUME Bad # {} PROVE FALSE
  <2>1. PICK j \in Bad : \A k \in Bad : j <= k
    BY <1>5, LeastNat
  <2>2. j # 0 /\ j \in Nat /\ j <= m /\ f(2 * (j + 1)) # Part(j)
    BY <1>3, <2>1
  <2>3. j - 1 \in 0 .. m - 1 /\ j - 1 \notin Bad /\ j - 1 \in Nat /\ j - 1 <= m
    BY <2>1, <2>2
  <2>4. f(2 * ((j - 1) + 1)) = Part(j - 1)
    BY <2>3
  <2>5. f(2 * (((j - 1) + 1) + 1)) = Part((j - 1) + 1)
    BY <1>4, <2>3, <2>4
  <2>6. (j - 1) + 1 = j
    BY <2>2
  <2> QED  BY <2>2, <2>5, <2>6
<1>6. f(2 * (m + 1)) = Part(m)
  <2>1. m \notin Bad
    BY <1>5
  <2> QED  BY <2>1
<1> QED  BY <1>1, <1>6 DEF f, Part

LEMMA PathShown ==
  ASSUME NEW stk \in Seq(Dirs), NEW cur \in Dirs, NEW w, w = Append(stk, cur),
         w[1] = RootDir, \A i \in 2 .. Len(w) : w[i].name \in DiskNames
  PROVE  FoldLeft(Unslashed, << >>, PathOf(stk, cur)) = W!NamesOn(w)
<1> DEFINE m == Len(stk)
           above == [i \in 1 .. m |-> stk[i].name]
           p == PathOf(stk, cur)
<1>1. /\ m \in Nat /\ Len(w) = m + 1 /\ w[m + 1] = cur
      /\ \A i \in 1 .. m : w[i] = stk[i]
  BY AppendAt
<1>2. p \in Seq(DiskNames \cup {Slash})
  BY PathType
<1>3. CASE m = 0
  <2>1. cur = RootDir /\ above = << >>
    BY <1>1, <1>3
  <2>2. p = <<Slash>>
    BY <2>1 DEF PathOf, NamesOf, RootDir
  <2> HIDE DEF p
  <2>3. PICK F : /\ F[{}] = << >> /\ F[1 .. Len(p)] = FoldLeft(Unslashed, << >>, p)
                 /\ \A k \in 0 .. Len(p) - 1 :
                      F[1 .. k + 1] = Unslashed(F[1 .. k], p[k + 1])
    BY <1>2, ChosenFold
  <2>4. Len(p) = 1 /\ p[1] = Slash /\ 1 .. 0 = {} /\ 0 \in 0 .. Len(p) - 1 /\ 0 + 1 = 1
    BY <2>2
  <2>5. F[1 .. 1] = Unslashed(F[1 .. 0], p[1])
    BY <2>3, <2>4
  <2>6. FoldLeft(Unslashed, << >>, p) = << >>
    BY <2>3, <2>4, <2>5 DEF Unslashed
  <2>7. W!NamesOn(w) = << >>
    BY <1>1, <1>3 DEF W!NamesOn
  <2> QED  BY <2>6, <2>7 DEF p
<1>4. CASE m # 0
  <2> DEFINE names == [i \in 1 .. m + 1 |-> w[i].name]
  <2>1. NamesOf(stk, cur) = names
    <3>1. m + 1 \in 2 .. Len(w)
      BY <1>1, <1>4
    <3>2. cur.name # Slash
      BY <1>1, <3>1, SizeAssumption
    <3>3. above \in Seq(DiskNames \cup {Slash}) /\ Len(above) = m
      <4>1. \A d \in Dirs : d.name \in DiskNames \cup {Slash}
        BY DEF Dirs
      <4>2. \A i \in 1 .. m : stk[i] \in Dirs
        BY <1>1, ElementOfSeq
      <4> QED  BY <1>1, <4>1, <4>2
    <3>4. NamesOf(stk, cur) = Append(above, cur.name)
      BY <3>2 DEF NamesOf
    <3>5. Append(above, cur.name) =
            [i \in 1 .. m + 1 |-> IF i = m + 1 THEN cur.name ELSE above[i]]
      BY <1>1, <3>3
    <3>6. \A i \in 1 .. m + 1 : (IF i = m + 1 THEN cur.name ELSE above[i]) = w[i].name
      BY <1>1
    <3> HIDE DEF above, m
    <3> QED  BY <3>4, <3>5, <3>6
  <2>2. /\ names \in [1 .. m + 1 -> DiskNames \cup {Slash}] /\ names[1] = Slash
        /\ \A i \in 2 .. m + 1 : names[i] \in DiskNames
    <3>1. names[1] = Slash
      BY <1>1 DEF RootDir
    <3>2. \A i \in 2 .. m + 1 : names[i] \in DiskNames
      BY <1>1
    <3>3. \A i \in 1 .. m + 1 : i = 1 \/ i \in 2 .. m + 1
      BY <1>1
    <3> QED  BY <3>1, <3>2, <3>3
  <2>3. names # << >> /\ Len(names) = m + 1
    BY <1>1
  <2> HIDE DEF names
  <2>4. p = [i \in 1 .. 2 * (m + 1) |-> IF i % 2 = 1 THEN Slash ELSE names[i \div 2]]
    BY <2>1, <2>3 DEF PathOf
  <2>5. /\ Len(p) = 2 * (m + 1)
        /\ \A i \in 1 .. Len(p) : p[i] = IF i % 2 = 1 THEN Slash ELSE names[i \div 2]
    BY <1>1, <2>4
  <2> HIDE DEF p
  <2>6. FoldLeft(Unslashed, << >>, p) = [i \in 1 .. m |-> names[i + 1]]
    <3> HIDE DEF m
    <3> QED  BY <1>1, <1>2, <2>2, <2>5, ShownNames
  <2>7. W!NamesOn(w) = [i \in 1 .. m |-> names[i + 1]]
    BY <1>1 DEF W!NamesOn, names
  <2> QED  BY <2>6, <2>7 DEF p
<1> QED  BY <1>3, <1>4

(* The way begins with the root, leads through directories that have names *)
(* and is what the path says.                                              *)
WayNamed == \A i \in 2 .. Len(Way) : Way[i].name \in DiskNames
PathIsWay == path = PathOf(stack, cwd)

LEMMA Shown ==
  ASSUME TypeOK, DirInv, WayNamed, PathIsWay
  PROVE  FoldLeft(Unslashed, << >>, path) = W!NamesOn(Way)
<1>1. stack \in Seq(Dirs) /\ cwd \in Dirs
  BY DEF TypeOK
<1>2. Way = Append(stack, cwd) /\ Way[1] = RootDir
  BY DEF Way, DirInv, StackIsPath
<1>3. \A i \in 2 .. Len(Way) : Way[i].name \in DiskNames
  BY DEF WayNamed
<1>4. FoldLeft(Unslashed, << >>, PathOf(stack, cwd)) = W!NamesOn(Way)
  BY <1>1, <1>2, <1>3, PathShown
<1> QED  BY <1>4 DEF PathIsWay

LEMMA FrontIs ==
  ASSUME NEW s \in Seq(Dirs), Len(s) # 0
  PROVE  /\ Front(s) \in Seq(Dirs) /\ Len(Front(s)) = Len(s) - 1
         /\ \A i \in 1 .. Len(s) - 1 : Front(s)[i] = s[i]
<1> DEFINE n == Len(s) - 1
<1>1. n \in Nat /\ n <= Len(s) /\ n - 1 + 1 = n /\ 1 <= n + 1 /\ Len(s) \in Nat
  BY LenProperties
<1>2. \A i \in 1 .. n : i \in 1 .. Len(s) /\ 1 + i - 1 = i /\ s[i] \in Dirs
  BY <1>1, ElementOfSeq
<1>3. SubSeq(s, 1, n) = [i \in 1 .. n |-> s[i]]
  BY <1>1, <1>2
<1> HIDE DEF n
<1>4. [i \in 1 .. n |-> s[i]] \in Seq(Dirs)
  BY <1>1, <1>2
<1>5. Len([i \in 1 .. n |-> s[i]]) = n
  BY <1>1
<1> QED  BY <1>3, <1>4, <1>5 DEF Front, n

LEMMA FrontAppend ==
  ASSUME NEW s \in Seq(Dirs), NEW d \in Dirs, NEW w, w = Append(s, d)
  PROVE  Front(w) = s
<1>1. /\ w \in Seq(Dirs) /\ Len(w) = Len(s) + 1 /\ Len(s) \in Nat
      /\ \A i \in 1 .. Len(s) : w[i] = s[i]
  BY AppendAt, AppendProperties
<1>2. Len(w) # 0 /\ Len(w) - 1 = Len(s)
  BY <1>1
<1>3. /\ Front(w) \in Seq(Dirs) /\ Len(Front(w)) = Len(s)
      /\ \A i \in 1 .. Len(s) : Front(w)[i] = s[i]
  BY <1>1, <1>2, FrontIs
<1> QED  BY <1>3, SeqEqual

LEMMA Entered ==
  ASSUME NEW n \in Names, ChangeDirectory(n)
  PROVE  /\ stack' = IF Len(stack) < MaxDepth THEN Append(stack, cwd) ELSE stack
         /\ path' = PathOf(stack', cwd') /\ cwd'.name \in DiskNames
<1>1. PICK s \in Slots :
        /\ s \in Subdirectories(n)
        /\ cwd' = [cl |-> dir[cwd.cl][s].first, name |-> dir[cwd.cl][s].name]
        /\ stack' = IF Len(stack) < MaxDepth THEN Append(stack, cwd) ELSE stack
        /\ path' = PathOf(stack', cwd')
  BY DEF ChangeDirectory, IsFirst, GoTo, Push
<1> QED  BY <1>1 DEF Subdirectories, DiskNames, Forms

LEMMA WalkStep ==
  ASSUME NoDots, TypeOK, DirInv, TypeOK', DirInv', WayNamed, PathIsWay,
         [Next]_vars
  PROVE  /\ WayNamed' /\ PathIsWay'
         /\ UNCHANGED <<stack, cwd, path>> \/ W!Down \/ W!Past \/ W!Up \/ W!Back
<1>1. /\ stack \in Seq(Dirs) /\ cwd \in Dirs /\ Len(stack) \in Nat
      /\ stack' \in Seq(Dirs) /\ cwd' \in Dirs /\ Len(stack') \in Nat
  BY LenProperties DEF TypeOK
<1>2. /\ Way \in Seq(Dirs) /\ Len(Way) = Len(stack) + 1 /\ Way[Len(stack) + 1] = cwd
      /\ \A i \in 1 .. Len(stack) : Way[i] = stack[i]
  BY WayAt
<1>3. /\ Way' = Append(stack', cwd') /\ Way' \in Seq(Dirs)
      /\ Len(Way') = Len(stack') + 1 /\ Way'[Len(stack') + 1] = cwd'
      /\ \A i \in 1 .. Len(stack') : Way'[i] = stack'[i]
  BY <1>1, AppendProperties DEF Way
<1>4. CASE UNCHANGED <<stack, cwd, path>>
  <2>1. Way' = Way
    BY <1>4 DEF Way
  <2> QED  BY <1>4, <2>1 DEF WayNamed, PathIsWay
<1>5. ASSUME NEW n \in Names, ChangeDirectory(n), Len(stack) < MaxDepth
      PROVE  WayNamed' /\ PathIsWay' /\ W!Down
  <2>1. /\ stack' = Append(stack, cwd) /\ path' = PathOf(stack', cwd')
        /\ cwd'.name \in DiskNames
    BY <1>5, Entered
  <2>2. stack' = Way /\ Way' = Append(Way, cwd')
    BY <1>3, <2>1 DEF Way
  <2>3. /\ Len(Way') = Len(Way) + 1 /\ Way'[Len(Way) + 1] = cwd'
        /\ \A i \in 1 .. Len(Way) : Way'[i] = Way[i]
    BY <1>2, <1>3, <2>2
  <2>4. WayNamed'
    BY <1>2, <2>1, <2>3 DEF WayNamed
  <2>5. Front(Way') = Way /\ Last(Way') = cwd'
    <3>1. Last(Way') = cwd'
      BY <1>2, <2>3 DEF Last
    <3>2. Front(Way') = Way
      BY <1>1, <1>2, <2>2, FrontAppend
    <3> QED  BY <3>1, <3>2
  <2>6. cwd'.cl \in Places
    BY <1>1 DEF Dirs
  <2>7. Len(Way) < MaxDepth + 1
    BY <1>1, <1>2, <1>5, SizeAssumption
  <2> QED  BY <2>1, <2>3, <2>4, <2>5, <2>6, <2>7
           DEF PathIsWay, W!Down, W!Arrive, W!Front, W!Last, Front, Last
<1>6. ASSUME NEW n \in Names, ChangeDirectory(n), ~ (Len(stack) < MaxDepth)
      PROVE  WayNamed' /\ PathIsWay' /\ W!Past
  <2>1. /\ stack' = stack /\ path' = PathOf(stack', cwd') /\ cwd'.name \in DiskNames
    BY <1>6, Entered
  <2>2. WayNamed'
    BY <1>2, <1>3, <2>1 DEF WayNamed
  <2>3. Front(Way') = stack /\ Front(Way) = stack
    BY <1>1, <2>1, FrontAppend DEF Way
  <2>4. Last(Way') = cwd' /\ cwd'.cl \in Places
    BY <1>1, <1>3 DEF Last, Dirs
  <2>5. Len(Way) = MaxDepth + 1 /\ Len(Way') = MaxDepth + 1
    <3>1. Len(stack) <= MaxDepth
      BY DEF TypeOK
    <3> QED  BY <1>1, <1>2, <1>3, <1>6, <2>1, <3>1, SizeAssumption
  <2> QED  BY <2>1, <2>2, <2>3, <2>4, <2>5
           DEF PathIsWay, W!Past, W!Arrive, W!Front, W!Last, Front, Last
<1>7. CASE GoUp
  <2>1. /\ stack # << >> /\ cwd' = stack[Len(stack)]
        /\ stack' = SubSeq(stack, 1, Len(stack) - 1) /\ path' = PathOf(stack', cwd')
    BY <1>7 DEF GoUp, GoTo, Last, Front
  <2>2. Len(stack) \in Nat \ {0}
    BY <1>1, <2>1, EmptySeq, LenProperties
  <2>3. Way' = stack
    <3>1. /\ Len(stack') = Len(stack) - 1
          /\ \A i \in 1 .. Len(stack) - 1 : stack'[i] = stack[i]
      BY <1>1, <2>1, <2>2, FrontIs DEF Front
    <3>2. Len(Way') = Len(stack) /\ \A i \in 1 .. Len(stack) : Way'[i] = stack[i]
      BY <1>3, <2>1, <2>2, <3>1
    <3> QED  BY <1>1, <1>3, <3>2, SeqEqual
  <2>4. Front(Way) = stack
    BY <1>1, FrontAppend DEF Way
  <2>5. Len(Way) > 1
    BY <1>2, <2>2
  <2>6. WayNamed'
    BY <1>2, <2>2, <2>3 DEF WayNamed
  <2>7. W!Up
    BY <2>3, <2>4, <2>5 DEF W!Up, W!Front, Front
  <2> QED  BY <2>1, <2>6, <2>7 DEF PathIsWay
<1>8. CASE GoHome
  <2>1. cwd' = RootDir /\ stack' = << >> /\ path' = PathOf(stack', cwd')
    BY <1>8 DEF GoHome, GoTo
  <2>2. Way' = <<RootDir>> /\ Len(Way') = 1
    BY <1>3, <2>1
  <2> QED  BY <2>1, <2>2 DEF WayNamed, PathIsWay, W!Back
<1>9. CASE ~ UNCHANGED vars
  BY <1>4, <1>5, <1>6, <1>7, <1>8, <1>9
     DEF Next, vars, CreateEntry, DeleteEntry, WriteFile
<1> QED  BY <1>4, <1>9 DEF vars

(* The path in the prompt is the way from the root, cd .. undoes cd and    *)
(* cd / leads home (fat32_change_directory, update_path), whatever becomes *)
(* of the entries in between.  When parent_directories is full, a cd        *)
(* forgets the directory it leaves, and nothing else.                      *)
THEOREM MovesAreAWalk ==
  ASSUME NoDots
  PROVE  Spec => ImplementsWalk
<1> DEFINE shown == FoldLeft(Unslashed, << >>, path)
           Safe == TypeOK /\ DirInv
           OnPath == WayNamed /\ PathIsWay
<1>1. Init => OnPath
  <2> SUFFICES ASSUME Init PROVE OnPath
    OBVIOUS
  <2>1. stack = << >> /\ cwd = RootDir /\ path = <<Slash>>
    BY DEF Init
  <2>2. Len(Way) = 1 /\ NamesOf(stack, cwd) = << >>
    BY <2>1 DEF Way, NamesOf, RootDir
  <2> QED  BY <2>1, <2>2 DEF WayNamed, PathIsWay, PathOf
<1>2. Safe /\ Safe' /\ OnPath /\ [Next]_vars => OnPath'
  BY WalkStep
<1>3. Safe /\ Safe' /\ OnPath /\ OnPath' /\ [Next]_vars
        => [W!Next]_<<Way, shown>>
  <2> SUFFICES ASSUME Safe, Safe', OnPath, OnPath', [Next]_vars
               PROVE  [W!Next]_<<Way, shown>>
    OBVIOUS
  <2>1. UNCHANGED <<stack, cwd, path>> \/ W!Down \/ W!Past \/ W!Up \/ W!Back
    BY WalkStep
  <2>2. shown' = W!NamesOn(Way')
    <3> PICK stk \in Seq(Dirs), cur \in Dirs : stk = stack' /\ cur = cwd'
      BY DEF TypeOK
    <3>1. PICK p, w : stk = stack' /\ cur = cwd' /\ p = path' /\ w = Way'
      OBVIOUS
    <3>2. w = Append(stk, cur) /\ p = PathOf(stk, cur) /\ w[1] = RootDir
          /\ \A i \in 2 .. Len(w) : w[i].name \in DiskNames
      BY <3>1 DEF Way, DirInv, StackIsPath, WayNamed, PathIsWay
    <3>3. FoldLeft(Unslashed, << >>, PathOf(stk, cur)) = W!NamesOn(w)
      BY <3>2, PathShown
    <3> QED  BY <3>1, <3>2, <3>3
  <2>3. CASE UNCHANGED <<stack, cwd, path>>
    <3>1. Way' = Way /\ shown' = shown
      BY <2>3 DEF Way
    <3> QED  BY <3>1
  <2>4. CASE W!Down \/ W!Past \/ W!Up \/ W!Back
    BY <2>2, <2>4 DEF W!Next
  <2> QED  BY <2>1, <2>3, <2>4
<1>4. Init => W!Init
  <2> SUFFICES ASSUME Init PROVE W!Init
    OBVIOUS
  <2>1. stack = << >> /\ cwd = RootDir /\ path = PathOf(stack, cwd)
        /\ Way = <<RootDir>> /\ RootDir \in Dirs /\ << >> \in Seq(Dirs)
    BY PlaceFacts DEF Init, Way, NamesOf, PathOf, RootDir, Dirs
  <2> PICK stk \in Seq(Dirs), cur \in Dirs : stk = stack /\ cur = cwd
    BY <2>1
  <2>2. PICK p, w : stk = stack /\ cur = cwd /\ p = path /\ w = Way
    OBVIOUS
  <2>3. w = Append(stk, cur) /\ w[1] = RootDir /\ Len(w) = 1 /\ p = PathOf(stk, cur)
    BY <2>1, <2>2 DEF Way
  <2>4. FoldLeft(Unslashed, << >>, PathOf(stk, cur)) = W!NamesOn(w)
    <3>1. \A i \in 2 .. Len(w) : w[i].name \in DiskNames
      BY <2>3
    <3> QED  BY <2>3, <3>1, PathShown
  <2>5. W!NamesOn(w) = << >>
    BY <2>3 DEF W!NamesOn
  <2> QED  BY <2>1, <2>2, <2>3, <2>4, <2>5 DEF W!Init
<1>5. Spec => []Safe
  BY DirAlways
<1> HIDE DEF shown, Safe, OnPath
<1> QED  BY <1>1, <1>2, <1>3, <1>4, <1>5, PTL DEF Spec, ImplementsWalk, W!Spec, shown
=============================================================================
