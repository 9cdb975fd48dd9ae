--------------------------- MODULE Console_proofs ---------------------------
(***************************************************************************)
(* What is read is what was typed, no shift outlives its key, and the      *)
(* screen shows the line, for every keyboard, screen and length of the     *)
(* controller's queue.                                                     *)
(***************************************************************************)
EXTENDS Console, Extremes, SequenceTheorems

Flags   == [shift : BOOLEAN, caps : BOOLEAN, extended : BOOLEAN]
Results == [flags : Flags, chars : Seq(Chars)]

Read(f, cs) == FoldLeft(ReadOne, [flags |-> f, chars |-> << >>], cs)

-----------------------------------------------------------------------------
(* What is read of a sequence of codes, code by code.                      *)
LEMMA CodeFacts ==
  /\ Prefix \in ScanCodes
  /\ \A k \in Keys, up \in BOOLEAN :
       [key |-> k, up |-> up] \in ScanCodes /\ [key |-> k, up |-> up] # Prefix
  /\ \A code \in ScanCodes : code # Prefix =>
       code.key \in Keys /\ code.up \in BOOLEAN /\ code = [key |-> code.key, up |-> code.up]
  BY KeyAssumption DEF ScanCodes, Prefix

LEMMA MeaningType ==
  ASSUME NEW k \in CharKeys, NEW shift, NEW caps
  PROVE  Meaning(k, shift, caps) \in Chars
  BY DEF Meaning, Chars

LEMMA DecodeType ==
  ASSUME NEW f \in Flags, NEW code \in ScanCodes
  PROVE  /\ Decode(f, code).flags \in Flags
         /\ Decode(f, code).char \in Chars \cup {NoChar}
<1>1. CASE code = Prefix
  <2>1. Decode(f, code) = [flags |-> [f EXCEPT !.extended = TRUE], char |-> NoChar]
    BY <1>1 DEF Decode
  <2>2. [f EXCEPT !.extended = TRUE] \in Flags
    BY DEF Flags
  <2> QED  BY <2>1, <2>2
<1>2. CASE code # Prefix /\ f.extended
  <2>1. Decode(f, code) = ReadPrefixed(f, code)
    BY <1>2 DEF Decode
  <2>2. [f EXCEPT !.extended = FALSE] \in Flags
    BY DEF Flags
  <2>3. \A k \in DOMAIN Arrows : Arrows[k] \in Chars
    BY DEF Chars
  <2> QED  BY <2>1, <2>2, <2>3 DEF ReadPrefixed
<1>3. CASE code # Prefix /\ ~ f.extended
  <2>1. Decode(f, code) = HandleScancode(f, code)
    BY <1>3 DEF Decode
  <2>2. code.up \in BOOLEAN /\ f \in [shift : BOOLEAN, caps : BOOLEAN, extended : BOOLEAN]
    BY <1>3, CodeFacts DEF Flags
  <2>3. [f EXCEPT !.shift = IF code.key \in ShiftKeys THEN ~code.up ELSE @,
                  !.caps = IF code.key = CapsKey /\ ~code.up THEN ~@ ELSE @] \in Flags
    BY <2>2 DEF Flags
  <2> QED  BY <2>1, <2>3, MeaningType DEF HandleScancode
<1> QED  BY <1>1, <1>2, <1>3

LEMMA ReadOneType ==
  ASSUME NEW r \in Results, NEW code \in ScanCodes
  PROVE  ReadOne(r, code) \in Results
<1>1. r.flags \in Flags /\ r.chars \in Seq(Chars)
  BY DEF Results
<1>2. /\ Decode(r.flags, code).flags \in Flags
      /\ Decode(r.flags, code).char \in Chars \cup {NoChar}
  BY <1>1, DecodeType
<1> QED  BY <1>1, <1>2, AppendProperties DEF ReadOne, Results

(* The fold takes the codes from the first to the last.                    *)
LEMMA ReadSteps ==
  ASSUME NEW f \in Flags, NEW cs \in Seq(ScanCodes)
  PROVE  \E r \in [0 .. Len(cs) -> Results] :
           /\ r[0] = [flags |-> f, chars |-> << >>] /\ r[Len(cs)] = Read(f, cs)
           /\ \A k \in 0 .. Len(cs) - 1 : r[k + 1] = ReadOne(r[k], cs[k + 1])
<1> DEFINE V == Results
           E == ScanCodes
           n == Len(cs)
           base == [flags |-> f, chars |-> << >>]
           step == [x \in V \X E |-> ReadOne(x[1], x[2])]
           Folds(F) == F = [s \in SUBSET (1 .. n) |->
                              IF s = {} THEN base
                              ELSE ReadOne(F[s \ {Max(s)}], cs[Max(s)])]
<1>1. n \in Nat /\ DOMAIN cs = 1 .. n /\ cs \in [1 .. n -> E]
  BY LenProperties
<1>2. base \in V
  BY DEF Results
<1>3. \A v \in V, e \in E : ReadOne(v, e) \in V
  BY ReadOneType
<1>4. step \in [V \X E -> V]
  BY <1>3
<1>5. PICK g : FoldsTo(g, V, base, step, n, cs)
  <2> HIDE DEF V, E, n, base, step
  <2> QED  BY <1>1, <1>2, <1>4, FoldExists
<1>6. Folds(g)
  <2>1. ASSUME NEW s \in SUBSET (1 .. n), s # {}
        PROVE  step[<<g[s \ {Max(s)}], cs[Max(s)]>>] =
                  ReadOne(g[s \ {Max(s)}], cs[Max(s)])
    <3>1. PICK j \in Nat : j = n
      BY <1>1
    <3>2. s \in SUBSET (0 .. j)
      BY <3>1, <1>1
    <3>3. Max(s) \in s
      BY <2>1, <3>2, MaxIsGreatest
    <3>4. Max(s) \in 1 .. n /\ cs[Max(s)] \in E /\ g[s \ {Max(s)}] \in V
      BY <1>1, <1>5, <3>3 DEF FoldsTo
    <3> HIDE DEF V, E, base
    <3> QED  BY <3>4
  <2>2. g = [s \in SUBSET (1 .. n) |-> IF s = {} THEN base
                ELSE step[<<g[s \ {Max(s)}], cs[Max(s)]>>]]
    <3> HIDE DEF V, E, n, base, step
    <3> QED  BY <1>5 DEF FoldsTo
  <2> HIDE DEF V, E, n, base, step
  <2> QED  BY <2>1, <2>2
<1>7. Read(f, cs) = LET F == CHOOSE F : Folds(F) IN F[1 .. n]
  BY <1>1 DEF Read, FoldLeft, MapThenFoldSet
<1> DEFINE F == CHOOSE F : Folds(F)
<1>8. Folds(F)
  <2> HIDE DEF Folds
  <2> QED  BY <1>6
<1>9. F[1 .. n] = Read(f, cs)
  BY <1>7
<1> HIDE DEF F
<1> DEFINE r == [k \in 0 .. n |-> F[1 .. k]]
<1>10. r[0] = base
  <2>1. 1 .. 0 = {} /\ 0 \in 0 .. n
    BY <1>1
  <2> HIDE DEF base, n
  <2> QED  BY <1>8, <2>1
<1>11. ASSUME NEW k \in 0 .. n - 1
       PROVE  r[k + 1] = ReadOne(r[k], cs[k + 1])
  <2>1. k \in Nat /\ k + 1 \in 1 .. k + 1 /\ k \in 0 .. n /\ k + 1 \in 0 .. n
    BY <1>1
  <2>2. Max(1 .. k + 1) = k + 1
    BY <2>1, UpTo
  <2>3. (1 .. k + 1) \ {k + 1} = 1 .. k /\ 1 .. k + 1 # {}
    BY <2>1, UpTo
  <2>4. 1 .. k + 1 \in SUBSET (1 .. n)
    <3>1. \A i \in 1 .. k + 1 : i \in 1 .. n
      BY <1>1, <2>1
    <3> QED  BY <3>1
  <2> HIDE DEF n, base
  <2> QED  BY <1>8, <2>1, <2>2, <2>3, <2>4
<1>12. r[n] = Read(f, cs)
  BY <1>1, <1>9
<1> HIDE DEF r
<1>13. \A k \in 0 .. n : r[k] \in V
  <2> DEFINE S == {k \in 0 .. n : r[k] \in V}
  <2>1. 0 \in S
    BY <1>1, <1>2, <1>10
  <2>2. ASSUME NEW k \in 0 .. n - 1, k \in S PROVE k + 1 \in S
    <3>1. k + 1 \in 1 .. n /\ k + 1 \in 0 .. n
      BY <1>1
    <3>2. cs[k + 1] \in E
      BY <1>1, <3>1
    <3> QED  BY <1>3, <1>11, <2>2, <3>1, <3>2
  <2> HIDE DEF S
  <2>3. \A k \in 0 .. n : k \in S
    BY <1>1, <2>1, <2>2, CountUp
  <2> QED  BY <2>3 DEF S
<1>14. r \in [0 .. n -> V]
  BY <1>13 DEF r
<1> QED  BY <1>10, <1>11, <1>12, <1>14

LEMMA ReadType ==
  ASSUME NEW f \in Flags, NEW cs \in Seq(ScanCodes)
  PROVE  Read(f, cs) \in Results
<1>1. PICK r \in [0 .. Len(cs) -> Results] : r[Len(cs)] = Read(f, cs)
  BY ReadSteps
<1>2. Len(cs) \in Nat
  BY LenProperties
<1> QED  BY <1>1, <1>2

LEMMA ReadNone ==
  ASSUME NEW f \in Flags
  PROVE  Read(f, << >>) = [flags |-> f, chars |-> << >>]
<1>1. << >> \in Seq(ScanCodes) /\ Len(<< >>) = 0
  OBVIOUS
<1>2. PICK r \in [0 .. 0 -> Results] :
        r[0] = [flags |-> f, chars |-> << >>] /\ r[0] = Read(f, << >>)
  BY <1>1, ReadSteps
<1> QED  BY <1>2

(* One code more.                                                          *)
LEMMA ReadMore ==
  ASSUME NEW f \in Flags, NEW cs \in Seq(ScanCodes), NEW c \in ScanCodes
  PROVE  Read(f, Append(cs, c)) = ReadOne(Read(f, cs), c)
<1> DEFINE n == Len(cs)
           ds == Append(cs, c)
<1>1. /\ n \in Nat /\ ds \in Seq(ScanCodes) /\ Len(ds) = n + 1 /\ ds[n + 1] = c
      /\ \A i \in 1 .. n : ds[i] = cs[i]
  BY LenProperties, AppendProperties
<1> HIDE DEF ds, n
<1>2. PICK r \in [0 .. n -> Results] :
        /\ r[0] = [flags |-> f, chars |-> << >>] /\ r[n] = Read(f, cs)
        /\ \A k \in 0 .. n - 1 : r[k + 1] = ReadOne(r[k], cs[k + 1])
  BY ReadSteps DEF n
<1>3. PICK q \in [0 .. n + 1 -> Results] :
        /\ q[0] = [flags |-> f, chars |-> << >>] /\ q[n + 1] = Read(f, ds)
        /\ \A k \in 0 .. (n + 1) - 1 : q[k + 1] = ReadOne(q[k], ds[k + 1])
  BY <1>1, ReadSteps
<1> DEFINE S == {k \in 0 .. n : q[k] = r[k]}
<1>4. 0 \in S
  BY <1>1, <1>2, <1>3
<1>5. ASSUME NEW k \in 0 .. n - 1, k \in S PROVE k + 1 \in S
  <2>1. k + 1 \in 1 .. n /\ k \in 0 .. (n + 1) - 1 /\ k + 1 \in 0 .. n
    BY <1>1
  <2> QED  BY <1>1, <1>2, <1>3, <1>5, <2>1
<1>6. \A k \in 0 .. n : k \in S
  <2> HIDE DEF S
  <2> QED  BY <1>1, <1>4, <1>5, CountUp
<1>7. q[n] = r[n] /\ n \in 0 .. (n + 1) - 1
  BY <1>1, <1>6
<1> QED  BY <1>1, <1>2, <1>3, <1>7 DEF ds

(* The first code is taken: what is read of the others comes behind what   *)
(* it is read as.                                                          *)
First(f, c) ==
  IF Decode(f, c).char = NoChar THEN << >> ELSE <<Decode(f, c).char>>

AppendsBehind(s, t, e) == Append(s \o t, e) = s \o Append(t, e)

LEMMA ConcatAppend ==
  ASSUME NEW T, NEW s \in Seq(T), NEW t \in Seq(T), NEW e \in T
  PROVE  AppendsBehind(s, t, e)
<1>1. /\ s \o t \in Seq(T) /\ Append(t, e) \in Seq(T) /\ Append(s \o t, e) \in Seq(T)
      /\ s \o Append(t, e) \in Seq(T) /\ Len(s) \in Nat /\ Len(t) \in Nat
      /\ Len(Append(s \o t, e)) = Len(s) + Len(t) + 1
      /\ Len(s \o Append(t, e)) = Len(s) + Len(t) + 1
  BY AppendProperties, LenProperties
<1>2. \A i \in 1 .. Len(s) + Len(t) + 1 : Append(s \o t, e)[i] = (s \o Append(t, e))[i]
  <2> TAKE i \in 1 .. Len(s) + Len(t) + 1
  <2>1. CASE i <= Len(s)
    BY <1>1, <2>1
  <2>2. CASE i > Len(s) /\ i <= Len(s) + Len(t)
    BY <1>1, <2>2
  <2>3. CASE i = Len(s) + Len(t) + 1
    BY <1>1, <2>3
  <2> QED  BY <1>1, <2>1, <2>2, <2>3
<1> QED  BY <1>1, <1>2, SeqEqual DEF AppendsBehind

LEMMA ReadRest ==
  ASSUME NEW f \in Flags, NEW cs \in Seq(ScanCodes), cs # << >>
  PROVE  /\ Read(f, cs).flags = Read(Decode(f, Head(cs)).flags, Tail(cs)).flags
         /\ Read(f, cs).chars
              = First(f, Head(cs)) \o Read(Decode(f, Head(cs)).flags, Tail(cs)).chars
<1> DEFINE n == Len(cs) - 1
           ds == Tail(cs)
           c == Head(cs)
           g == Decode(f, c).flags
           first == First(f, c)
<1>1. /\ n \in Nat /\ Len(cs) = n + 1 /\ ds \in Seq(ScanCodes) /\ Len(ds) = n
      /\ c = cs[1] /\ c \in ScanCodes /\ \A i \in 1 .. n : ds[i] = cs[i + 1]
  BY EmptySeq, LenProperties, ElementOfSeq, HeadTailProperties
<1>2. g \in Flags /\ first \in Seq(Chars) /\ Decode(f, c).char \in Chars \cup {NoChar}
  BY <1>1, DecodeType DEF First
<1> HIDE DEF ds, n, c, g
<1>3. PICK r \in [0 .. n + 1 -> Results] :
        /\ r[0] = [flags |-> f, chars |-> << >>] /\ r[n + 1] = Read(f, cs)
        /\ \A k \in 0 .. (n + 1) - 1 : r[k + 1] = ReadOne(r[k], cs[k + 1])
  <2>1. PICK r \in [0 .. Len(cs) -> Results] :
          /\ r[0] = [flags |-> f, chars |-> << >>] /\ r[Len(cs)] = Read(f, cs)
          /\ \A k \in 0 .. Len(cs) - 1 : r[k + 1] = ReadOne(r[k], cs[k + 1])
    BY ReadSteps
  <2> QED  BY <1>1, <2>1
<1>4. PICK q \in [0 .. n -> Results] :
        /\ q[0] = [flags |-> g, chars |-> << >>] /\ q[n] = Read(g, ds)
        /\ \A k \in 0 .. n - 1 : q[k + 1] = ReadOne(q[k], ds[k + 1])
  BY <1>1, <1>2, ReadSteps
<1> DEFINE Behind(k) == r[k + 1] = [flags |-> q[k].flags, chars |-> first \o q[k].chars]
           S == {k \in 0 .. n : Behind(k)}
<1>5. Behind(0)
  <2>1. 0 \in 0 .. (n + 1) - 1 /\ 0 + 1 = 1
    BY <1>1
  <2>2. r[1] = ReadOne(r[0], c)
    BY <1>1, <1>3, <2>1
  <2>3. r[1] = [flags |-> g, chars |-> first]
    BY <1>2, <1>3, <2>2 DEF ReadOne, First, g
  <2>4. first \o << >> = first
    BY <1>2
  <2> QED  BY <1>4, <2>1, <2>3, <2>4
<1>6. ASSUME NEW k \in 0 .. n - 1, Behind(k) PROVE Behind(k + 1)
  <2>1. /\ k + 1 \in 0 .. (n + 1) - 1 /\ k + 1 \in 1 .. n /\ k + 1 \in 0 .. n
        /\ k \in 0 .. n
    BY <1>1
  <2>2. /\ r[(k + 1) + 1] = ReadOne(r[k + 1], ds[k + 1])
        /\ q[k + 1] = ReadOne(q[k], ds[k + 1])
    BY <1>1, <1>3, <1>4, <2>1
  <2>3. PICK x, y, z : x = r[k + 1] /\ y = q[k] /\ z = ds[k + 1]
    OBVIOUS
  <2>4. y \in Results /\ z \in ScanCodes
    BY <1>1, <2>1, <2>3, ElementOfSeq
  <2>5. y.flags \in Flags /\ y.chars \in Seq(Chars)
    BY <2>4 DEF Results
  <2>6. x = [flags |-> y.flags, chars |-> first \o y.chars]
    BY <1>6, <2>3
  <2>7. Decode(y.flags, z).char \in Chars \cup {NoChar}
    BY <2>4, <2>5, DecodeType
  <2> HIDE DEF first
  <2>8. Decode(y.flags, z).char # NoChar =>
          Append(first \o y.chars, Decode(y.flags, z).char)
            = first \o Append(y.chars, Decode(y.flags, z).char)
    <3>1. PICK d : d = Decode(y.flags, z).char
      OBVIOUS
    <3>2. ASSUME d # NoChar
          PROVE  Append(first \o y.chars, d) = first \o Append(y.chars, d)
      <4>1. d \in Chars
        BY <2>7, <3>1, <3>2
      <4>2. first \in Seq(Chars) /\ y.chars \in Seq(Chars)
        BY <1>2, <2>5
      <4>3. AppendsBehind(first, y.chars, d)
        BY <4>1, <4>2, ConcatAppend
      <4> QED  BY <4>3 DEF AppendsBehind
    <3> QED  BY <3>1, <3>2
  <2>9. ReadOne(x, z) =
          [flags |-> ReadOne(y, z).flags, chars |-> first \o ReadOne(y, z).chars]
    BY <2>6, <2>8 DEF ReadOne
  <2> QED  BY <2>2, <2>3, <2>9
<1> HIDE DEF Behind
<1>7. \A k \in 0 .. n : k \in S
  <2>1. 0 \in S /\ \A k \in 0 .. n - 1 : k \in S => k + 1 \in S
    BY <1>1, <1>5, <1>6
  <2> HIDE DEF S
  <2> QED  BY <1>1, <2>1, CountUp
<1>8. Behind(n)
  BY <1>1, <1>7
<1>9. /\ r[n + 1].flags = q[n].flags
      /\ r[n + 1].chars = first \o q[n].chars
  BY <1>8 DEF Behind
<1>10. first = First(f, c)
  OBVIOUS
<1> HIDE DEF first
<1>11. /\ Read(f, cs).flags = Read(g, ds).flags
       /\ Read(f, cs).chars = First(f, c) \o Read(g, ds).chars
  BY <1>3, <1>4, <1>9, <1>10
<1> QED  BY <1>11 DEF g, ds, c

-----------------------------------------------------------------------------
(* What the codes of one key add to what is read, behind codes that end    *)
(* with no prefix.                                                         *)
WithPlain(r, key, up) ==
  [flags |-> HandleScancode(r.flags, [key |-> key, up |-> up]).flags,
   chars |-> IF key \in CharKeys /\ ~ up
             THEN Append(r.chars, Meaning(key, r.flags.shift, r.flags.caps))
             ELSE r.chars]
WithPrefixed(r, key, up) ==
  [flags |-> r.flags,
   chars |-> IF key \in DOMAIN Arrows /\ ~ up
             THEN Append(r.chars, Arrows[key]) ELSE r.chars]
NoPrefix(r) == ~ r.flags.extended

LEMMA ReadPlainKey ==
  ASSUME NEW f \in Flags, NEW cs \in Seq(ScanCodes), NEW r, r = Read(f, cs),
         NoPrefix(r), NEW key \in Keys, key \notin PrefixedKeys, NEW up \in BOOLEAN
  PROVE  Read(f, cs \o CodesOf(key, up)) = WithPlain(r, key, up)
<1> DEFINE code == [key |-> key, up |-> up]
<1>1. code \in ScanCodes /\ code # Prefix /\ code.key = key /\ code.up = up
  BY CodeFacts
<1>2. CodesOf(key, up) = <<code>> /\ cs \o <<code>> = Append(cs, code)
  BY <1>1 DEF CodesOf
<1>3. Read(f, Append(cs, code)) = ReadOne(r, code)
  BY <1>1, ReadMore
<1>4. Decode(r.flags, code) = HandleScancode(r.flags, code)
  <2> HIDE DEF code
  <2> QED  BY <1>1 DEF Decode, NoPrefix
<1>5. HandleScancode(r.flags, code).char =
        IF key \in CharKeys /\ ~ up THEN Meaning(key, r.flags.shift, r.flags.caps)
        ELSE NoChar
  BY <1>1 DEF HandleScancode
<1>6. key \in CharKeys => Meaning(key, r.flags.shift, r.flags.caps) # NoChar
  BY MeaningType, KeyAssumption
<1> HIDE DEF code
<1>7. ReadOne(r, code) =
        [flags |-> HandleScancode(r.flags, code).flags,
         chars |-> IF key \in CharKeys /\ ~ up
                   THEN Append(r.chars, Meaning(key, r.flags.shift, r.flags.caps))
                   ELSE r.chars]
  BY <1>4, <1>5, <1>6 DEF ReadOne
<1> QED  BY <1>2, <1>3, <1>7 DEF WithPlain, code

LEMMA ReadPrefixedKey ==
  ASSUME NEW f \in Flags, NEW cs \in Seq(ScanCodes), NEW r, r = Read(f, cs),
         NoPrefix(r), NEW key \in PrefixedKeys, NEW up \in BOOLEAN
  PROVE  Read(f, cs \o CodesOf(key, up)) = WithPrefixed(r, key, up)
<1> DEFINE code == [key |-> key, up |-> up]
           marked == [r.flags EXCEPT !.extended = TRUE]
<1>1. /\ code \in ScanCodes /\ code # Prefix /\ code.key = key /\ code.up = up
      /\ Prefix \in ScanCodes
  BY CodeFacts DEF Keys
<1>2. CodesOf(key, up) = <<Prefix, code>>
  BY DEF CodesOf
<1> HIDE DEF code
<1>3. cs \o <<Prefix, code>> = Append(Append(cs, Prefix), code)
  <2>1. <<Prefix>> \in Seq(ScanCodes) /\ <<Prefix, code>> = Append(<<Prefix>>, code)
        /\ cs \o <<Prefix>> = Append(cs, Prefix)
    BY <1>1
  <2> QED  BY <1>1, <2>1, ConcatAppend DEF AppendsBehind
<1>4. r \in Results /\ r.flags \in Flags
  BY ReadType DEF Results
<1>5. Read(f, Append(cs, Prefix)) = ReadOne(r, Prefix)
  BY <1>1, ReadMore
<1>6. ReadOne(r, Prefix) = [flags |-> marked, chars |-> r.chars]
  BY DEF ReadOne, Decode
<1>7. Append(cs, Prefix) \in Seq(ScanCodes)
  BY <1>1, AppendProperties
<1>8. Read(f, Append(Append(cs, Prefix), code)) =
        ReadOne([flags |-> marked, chars |-> r.chars], code)
  BY <1>1, <1>5, <1>6, <1>7, ReadMore
<1>9. marked.extended /\ [marked EXCEPT !.extended = FALSE] = r.flags
  BY <1>4 DEF Flags, NoPrefix
<1> HIDE DEF marked
<1>10. Decode(marked, code) = [flags |-> r.flags,
         char |-> IF key \in DOMAIN Arrows /\ ~ up THEN Arrows[key] ELSE NoChar]
  BY <1>1, <1>9 DEF Decode, ReadPrefixed
<1>11. key \in DOMAIN Arrows => Arrows[key] # NoChar
  BY KeyAssumption DEF Chars
<1>12. ReadOne([flags |-> marked, chars |-> r.chars], code) =
         [flags |-> r.flags,
          chars |-> IF key \in DOMAIN Arrows /\ ~ up
                    THEN Append(r.chars, Arrows[key]) ELSE r.chars]
  <2>1. /\ Decode(marked, code).flags = r.flags
        /\ Decode(marked, code).char =
             IF key \in DOMAIN Arrows /\ ~ up THEN Arrows[key] ELSE NoChar
    BY <1>10
  <2>2. CASE key \in DOMAIN Arrows /\ ~ up
    BY <1>11, <2>1, <2>2 DEF ReadOne
  <2>3. CASE ~ (key \in DOMAIN Arrows /\ ~ up)
    BY <2>1, <2>3 DEF ReadOne
  <2> QED  BY <2>2, <2>3
<1> QED  BY <1>2, <1>3, <1>8, <1>12 DEF WithPrefixed

LEMMA PlainFlags ==
  ASSUME NEW r \in Results, NEW f, f = r.flags, NEW key, NEW up \in BOOLEAN, NEW h,
         h = WithPlain(r, key, up).flags
  PROVE  /\ h.extended = f.extended
         /\ key \in ShiftKeys => h.shift = ~ up
         /\ key \notin ShiftKeys => h.shift = f.shift
         /\ key = CapsKey /\ ~ up => h.caps = ~ f.caps
         /\ ~ (key = CapsKey /\ ~ up) => h.caps = f.caps
<1>1. h = [f EXCEPT !.shift = IF key \in ShiftKeys THEN ~up ELSE @,
                    !.caps = IF key = CapsKey /\ ~up THEN ~@ ELSE @] /\ f \in Flags
  BY DEF HandleScancode, WithPlain, Results
<1>2. h = [shift |-> IF key \in ShiftKeys THEN ~up ELSE f.shift,
           caps |-> IF key = CapsKey /\ ~up THEN ~f.caps ELSE f.caps,
           extended |-> f.extended]
  BY <1>1 DEF Flags
<1>3. h.extended = f.extended
  BY <1>2
<1>4. h.shift = IF key \in ShiftKeys THEN ~up ELSE f.shift
  BY <1>2
<1>5. h.caps = IF key = CapsKey /\ ~up THEN ~f.caps ELSE f.caps
  BY <1>2
<1> QED  BY <1>3, <1>4, <1>5

(* Flags that are cleared when a program ends are set by no code that was  *)
(* read with them set.                                                     *)
Cleared(f) == [f EXCEPT !.shift = FALSE, !.caps = FALSE]
NoMore(f, g) == f.extended = g.extended /\ (f.shift => g.shift)

LEMMA DecodeNoMore ==
  ASSUME NEW f \in Flags, NEW g \in Flags, NoMore(f, g), NEW code \in ScanCodes
  PROVE  NoMore(Decode(f, code).flags, Decode(g, code).flags)
<1>1. CASE code = Prefix
  BY <1>1 DEF Decode, NoMore, Flags
<1>2. CASE code # Prefix /\ f.extended
  BY <1>2 DEF Decode, NoMore, Flags, ReadPrefixed
<1>3. CASE code # Prefix /\ ~ f.extended
  BY <1>3 DEF Decode, NoMore, Flags, HandleScancode
<1> QED  BY <1>1, <1>2, <1>3

LEMMA ReadCleared ==
  ASSUME NEW f \in Flags, NEW cs \in Seq(ScanCodes)
  PROVE  Cleared(f) \in Flags /\ NoMore(Read(Cleared(f), cs).flags, Read(f, cs).flags)
<1> DEFINE n == Len(cs)
           g == Cleared(f)
<1>1. n \in Nat /\ \A i \in 1 .. n : cs[i] \in ScanCodes
  BY LenProperties, ElementOfSeq
<1>2. g \in Flags /\ NoMore(g, f)
  BY DEF Cleared, Flags, NoMore
<1> HIDE DEF g
<1>3. PICK r \in [0 .. n -> Results] :
        /\ r[0] = [flags |-> f, chars |-> << >>] /\ r[n] = Read(f, cs)
        /\ \A k \in 0 .. n - 1 : r[k + 1] = ReadOne(r[k], cs[k + 1])
  BY ReadSteps
<1>4. PICK q \in [0 .. n -> Results] :
        /\ q[0] = [flags |-> g, chars |-> << >>] /\ q[n] = Read(g, cs)
        /\ \A k \in 0 .. n - 1 : q[k + 1] = ReadOne(q[k], cs[k + 1])
  BY <1>2, ReadSteps
<1> HIDE DEF n
<1> DEFINE S == {k \in 0 .. n : NoMore(q[k].flags, r[k].flags)}
<1>5. 0 \in S
  BY <1>1, <1>2, <1>3, <1>4
<1>6. ASSUME NEW k \in 0 .. n - 1, k \in S PROVE k + 1 \in S
  <2>1. k + 1 \in 1 .. n /\ k + 1 \in 0 .. n /\ k \in 0 .. n
    BY <1>1
  <2>2. PICK x, y, z : x = q[k] /\ y = r[k] /\ z = cs[k + 1]
    OBVIOUS
  <2>3. x.flags \in Flags /\ y.flags \in Flags /\ z \in ScanCodes
    BY <1>1, <2>1, <2>2 DEF Results
  <2>4. NoMore(Decode(x.flags, z).flags, Decode(y.flags, z).flags)
    BY <1>6, <2>2, <2>3, DecodeNoMore
  <2>5. /\ q[k + 1].flags = Decode(x.flags, z).flags
        /\ r[k + 1].flags = Decode(y.flags, z).flags
    <3>1. q[k + 1] = ReadOne(x, z) /\ r[k + 1] = ReadOne(y, z)
      BY <1>3, <1>4, <2>2
    <3> QED  BY <3>1 DEF ReadOne
  <2> QED  BY <2>1, <2>4, <2>5
<1>7. n \in S
  <2> HIDE DEF S
  <2>1. \A k \in 0 .. n : k \in S
    BY <1>1, <1>5, <1>6, CountUp
  <2> QED  BY <1>1, <2>1
<1> QED  BY <1>2, <1>3, <1>4, <1>7 DEF g

-----------------------------------------------------------------------------
(* While no code was lost, the codes that wait end with no prefix, and a   *)
(* shift they leave set is a key's.  While the driver can follow, they are *)
(* read as what was typed, and flags and keys agree.                       *)
Follows(r, down, caps, text, ok, gone) ==
  /\ ~ gone => /\ ~ r.flags.extended
               /\ r.flags.shift => down \cap ShiftKeys # {}
  /\ ok => /\ ~ gone /\ r.chars = text /\ r.flags.caps = caps
           /\ down \cap ShiftKeys # {} => r.flags.shift
           /\ \A j, k \in down \cap ShiftKeys : j = k

KeysOK ==
  /\ codes \in Seq(ScanCodes) /\ flags \in Flags /\ held \subseteq HoldKeys
  /\ typed \in Seq(Chars) /\ locked \in BOOLEAN
  /\ clean \in BOOLEAN /\ lost \in BOOLEAN
Followed == Follows(Read(flags, codes), held, locked, typed, clean, lost)

LEMMA SentAll ==
  ASSUME NEW all \in Seq(ScanCodes), NEW k,
         k = (IF Len(all) > FifoSize THEN FifoSize ELSE Len(all))
  PROVE  /\ SubSeq(all, 1, k) \in Seq(ScanCodes)
         /\ (~ (Len(all) > FifoSize) => SubSeq(all, 1, k) = all)
<1>1. Len(all) \in Nat /\ k \in Nat /\ k <= Len(all) /\ k - 1 + 1 = k
  BY LenProperties, KeyAssumption
<1>2. \A i \in 1 .. k : i \in 1 .. Len(all) /\ 1 + i - 1 = i /\ all[i] \in ScanCodes
  BY <1>1, ElementOfSeq
<1>3. SubSeq(all, 1, k) = [i \in 1 .. k |-> all[i]]
  BY <1>1, <1>2
<1>4. [i \in 1 .. k |-> all[i]] \in Seq(ScanCodes) /\ Len([i \in 1 .. k |-> all[i]]) = k
  BY <1>1, <1>2
<1>5. k = Len(all) => [i \in 1 .. k |-> all[i]] = all
  <2>1. all = [i \in 1 .. Len(all) |-> all[i]]
    OBVIOUS
  <2> QED  BY <2>1
<1> QED  BY <1>1, <1>3, <1>4, <1>5

LEMMA CodesType ==
  ASSUME NEW key \in Keys, NEW up \in BOOLEAN
  PROVE  CodesOf(key, up) \in Seq(ScanCodes)
  BY CodeFacts DEF CodesOf

(* What a key does to the codes, when none is lost.                        *)
LEMMA Sent ==
  ASSUME KeysOK, NEW key \in Keys, NEW up \in BOOLEAN, Send(CodesOf(key, up))
  PROVE  /\ codes' \in Seq(ScanCodes) /\ lost' \in BOOLEAN
         /\ ~ lost' => ~ lost /\ codes' = codes \o CodesOf(key, up)
<1>1. PICK all, k : /\ all = codes \o CodesOf(key, up)
                    /\ k = IF Len(all) > FifoSize THEN FifoSize ELSE Len(all)
  OBVIOUS
<1>2. all \in Seq(ScanCodes)
  BY <1>1, CodesType DEF KeysOK
<1>3. codes' = SubSeq(all, 1, k) /\ lost' = (lost \/ Len(all) > FifoSize)
  BY <1>1 DEF Send
<1> QED  BY <1>1, <1>2, <1>3, SentAll DEF KeysOK

LEMMA KeyKinds ==
  /\ \A k \in CharKeys : k \notin PrefixedKeys /\ k \notin HoldKeys
  /\ \A k \in PrefixedKeys : k \notin CharKeys /\ k \notin HoldKeys
  /\ \A k \in HoldKeys : k \notin CharKeys /\ k \notin PrefixedKeys
  /\ \A k \in ShiftKeys : k # CapsKey /\ k \in HoldKeys
  /\ CapsKey \in HoldKeys /\ CapsKey \notin ShiftKeys
  BY KeyAssumption DEF HoldKeys

LEMMA PressFollowed ==
  ASSUME KeysOK, Followed, NEW key \in Keys, Press(key)
  PROVE  KeysOK' /\ Followed'
<1>1. /\ codes' \in Seq(ScanCodes) /\ lost' \in BOOLEAN
      /\ ~ lost' => ~ lost /\ codes' = codes \o CodesOf(key, FALSE)
  BY Sent DEF Press
<1>2. /\ held' = held \cup ({key} \cap HoldKeys) /\ flags' = flags
      /\ locked' = IF key = CapsKey /\ key \notin held THEN ~locked ELSE locked
      /\ clean' = ( /\ clean /\ ~lost'
                    /\ ~(key \in ShiftKeys /\ (held \ {key}) \cap ShiftKeys # {})
                    /\ ~(key = CapsKey /\ key \in held) )
      /\ typed' = IF clean' THEN typed \o Meant(key) ELSE << >>
  BY DEF Press, Note
<1>3. Meant(key) \in Seq(Chars)
  <2>1. key \in CharKeys => Meaning(key, held \cap ShiftKeys # {}, locked) \in Chars
    BY MeaningType
  <2>2. key \in DOMAIN Arrows => Arrows[key] \in Chars
    BY DEF Chars
  <2> QED  BY <2>1, <2>2 DEF Meant
<1>4. KeysOK'
  <2>1. typed' \in Seq(Chars)
    BY <1>2, <1>3 DEF KeysOK
  <2>2. clean' \in BOOLEAN /\ locked' \in BOOLEAN /\ held' \subseteq HoldKeys
    BY <1>1, <1>2 DEF KeysOK
  <2> QED  BY <1>1, <1>2, <2>1, <2>2 DEF KeysOK
<1>4a. PICK f \in Flags, cs \in Seq(ScanCodes), up \in BOOLEAN :
        up = FALSE /\ f = flags /\ cs = codes
  BY DEF KeysOK
<1>5. PICK r, q :
        /\ up = FALSE /\ f = flags /\ cs = codes /\ r = Read(f, cs)
        /\ r = Read(flags, codes) /\ q = Read(flags', codes')
  BY <1>4a
<1>6. r \in Results /\ r.flags \in Flags /\ r.chars \in Seq(Chars)
  BY <1>5, ReadType DEF KeysOK, Results
<1>7. CASE lost'
  BY <1>2, <1>4, <1>7 DEF Followed, Follows
<1>8. CASE ~ lost' /\ key \in PrefixedKeys
  <2>1. /\ ~ r.flags.extended
        /\ r.flags.shift => held \cap ShiftKeys # {}
    BY <1>1, <1>5, <1>8 DEF Followed, Follows
  <2>2. q = WithPrefixed(r, key, up)
    <3>1. q = Read(f, cs \o CodesOf(key, up))
      BY <1>1, <1>2, <1>5, <1>8
    <3>2. NoPrefix(r)
      BY <2>1 DEF NoPrefix
    <3> QED  BY <1>5, <1>8, <3>1, <3>2, ReadPrefixedKey
  <2>3. held' = held /\ locked' = locked /\ clean' = clean
    BY <1>2, <1>8, KeyKinds DEF KeysOK
  <2>4. clean => q.chars = typed'
    <3>1. ASSUME clean PROVE q.chars = typed'
      <4>1. r.chars = typed /\ typed' = typed \o Meant(key)
        BY <1>2, <1>5, <2>3, <3>1 DEF Followed, Follows
      <4>2. CASE key \in DOMAIN Arrows
        <5>1. Meant(key) = <<Arrows[key]>>
          BY <1>8, <4>2, KeyKinds DEF Meant
        <5>2. Arrows[key] \in Chars
          BY <4>2 DEF Chars
        <5> QED  BY <1>5, <1>6, <2>2, <4>1, <4>2, <5>1, <5>2 DEF WithPrefixed
      <4>3. CASE key \notin DOMAIN Arrows
        <5>1. Meant(key) = << >>
          BY <1>8, <4>3, KeyKinds DEF Meant
        <5> QED  BY <1>5, <1>6, <2>2, <4>1, <4>3, <5>1 DEF WithPrefixed
      <4> QED  BY <4>2, <4>3
    <3> QED  BY <3>1
  <2>5. q.flags = r.flags
    BY <1>5, <2>2 DEF WithPrefixed
  <2> QED  BY <1>1, <1>2, <1>4, <1>5, <1>8, <2>3, <2>4, <2>5 DEF Followed, Follows
<1>9. CASE ~ lost' /\ key \notin PrefixedKeys
  <2>1. ~ r.flags.extended
    BY <1>1, <1>5, <1>9 DEF Followed, Follows
  <2>2. q = WithPlain(r, key, up)
    <3>1. q = Read(f, cs \o CodesOf(key, up))
      BY <1>1, <1>2, <1>5, <1>9
    <3>2. NoPrefix(r)
      BY <2>1 DEF NoPrefix
    <3> QED  BY <1>5, <1>9, <3>1, <3>2, ReadPlainKey
  <2>3. q.chars = IF key \in CharKeys
                  THEN Append(r.chars, Meaning(key, r.flags.shift, r.flags.caps))
                  ELSE r.chars
    BY <1>5, <2>2 DEF WithPlain
  <2>4. /\ ~ q.flags.extended
        /\ key \in ShiftKeys => q.flags.shift
        /\ key \notin ShiftKeys => q.flags.shift = r.flags.shift
        /\ key = CapsKey => q.flags.caps = ~ r.flags.caps
        /\ key # CapsKey => q.flags.caps = r.flags.caps
    <3>1. PICK g, h : g = r.flags /\ h = q.flags
      OBVIOUS
    <3>2. /\ h.extended = g.extended
          /\ key \in ShiftKeys => h.shift = ~ up
          /\ key \notin ShiftKeys => h.shift = g.shift
          /\ key = CapsKey /\ ~ up => h.caps = ~ g.caps
          /\ ~ (key = CapsKey /\ ~ up) => h.caps = g.caps
      BY <1>6, <2>2, <3>1, PlainFlags
    <3> QED  BY <1>5, <2>1, <3>1, <3>2
  <2>5. q.flags.shift => held' \cap ShiftKeys # {}
    BY <1>1, <1>2, <1>5, <1>9, <2>4, KeyKinds DEF Followed, Follows
  <2>6. ASSUME clean'
        PROVE  /\ q.chars = typed' /\ q.flags.caps = locked'
               /\ held' \cap ShiftKeys # {} => q.flags.shift
               /\ \A j, k \in held' \cap ShiftKeys : j = k
    <3>1. /\ clean /\ r.chars = typed /\ r.flags.caps = locked
          /\ held \cap ShiftKeys # {} => r.flags.shift
          /\ r.flags.shift => held \cap ShiftKeys # {}
          /\ \A j, k \in held \cap ShiftKeys : j = k
          /\ typed' = typed \o Meant(key)
      BY <1>1, <1>2, <1>5, <1>9, <2>6 DEF Followed, Follows
    <3>2. q.flags.caps = locked'
      BY <1>2, <2>4, <2>6, <3>1
    <3>3. held' \cap ShiftKeys # {} => q.flags.shift
      BY <1>2, <2>4, <3>1
    <3>4. \A j, k \in held' \cap ShiftKeys : j = k
      BY <1>2, <2>6, <3>1
    <3>5. CASE key \in CharKeys
      <4>1. Meant(key) = <<Meaning(key, held \cap ShiftKeys # {}, locked)>>
        BY <3>5, KeyKinds DEF Meant, PrefixedKeys
      <4>2. r.flags.shift \in BOOLEAN
        BY <1>6 DEF Flags
      <4>3. (held \cap ShiftKeys # {}) = r.flags.shift
        BY <3>1, <4>2, Zenon
      <4>4. Meaning(key, r.flags.shift, r.flags.caps)
              = Meaning(key, held \cap ShiftKeys # {}, locked)
        BY <3>1, <4>3
      <4>5. PICK m \in Chars : m = Meaning(key, r.flags.shift, r.flags.caps)
        BY <3>5, MeaningType
      <4>6. q.chars = Append(typed, m) /\ typed' = typed \o <<m>> /\ typed \in Seq(Chars)
        BY <2>3, <3>1, <3>5, <4>1, <4>4, <4>5 DEF KeysOK
      <4>7. Append(typed, m) = typed \o <<m>>
        BY <4>6
      <4> QED  BY <3>2, <3>3, <3>4, <4>6, <4>7
    <3>6. CASE key \notin CharKeys
      <4>1. Meant(key) = << >>
        BY <1>9, <3>6 DEF Meant, PrefixedKeys
      <4>2. q.chars = typed'
        BY <1>6, <2>3, <3>1, <3>6, <4>1
      <4> QED  BY <3>2, <3>3, <3>4, <4>2
    <3> QED  BY <3>5, <3>6
  <2> QED  BY <1>2, <1>4, <1>5, <1>9, <2>4, <2>5, <2>6 DEF Followed, Follows
<1> QED  BY <1>4, <1>7, <1>8, <1>9

LEMMA ReleaseFollowed ==
  ASSUME KeysOK, Followed, NEW key \in Keys, Release(key)
  PROVE  KeysOK' /\ Followed'
<1>1. /\ codes' \in Seq(ScanCodes) /\ lost' \in BOOLEAN
      /\ ~ lost' => ~ lost /\ codes' = codes \o CodesOf(key, TRUE)
  BY Sent DEF Release
<1>2. /\ held' = held \ {key} /\ flags' = flags /\ locked' = locked
      /\ key \in HoldKeys => key \in held
      /\ clean' \in BOOLEAN /\ (clean' => clean /\ ~ lost')
      /\ typed' = IF clean' THEN typed \o << >> ELSE << >>
  BY DEF Release, Note
<1>3. clean' => typed' = typed
  BY <1>2 DEF KeysOK
<1>4. KeysOK'
  <2>1. typed' \in Seq(Chars)
    BY <1>2, <1>3 DEF KeysOK
  <2> QED  BY <1>1, <1>2, <2>1 DEF KeysOK
<1>4a. PICK f \in Flags, cs \in Seq(ScanCodes), up \in BOOLEAN :
        up = TRUE /\ f = flags /\ cs = codes
  BY DEF KeysOK
<1>5. PICK r, q :
        /\ up = TRUE /\ f = flags /\ cs = codes /\ r = Read(f, cs)
        /\ r = Read(flags, codes) /\ q = Read(flags', codes')
  BY <1>4a
<1>6. r \in Results /\ r.flags \in Flags /\ r.chars \in Seq(Chars)
  BY <1>5, ReadType DEF KeysOK, Results
<1>7. CASE lost'
  BY <1>2, <1>4, <1>7 DEF Followed, Follows
<1>8. CASE ~ lost' /\ key \in PrefixedKeys
  <2>1. ~ r.flags.extended
    BY <1>1, <1>5, <1>8 DEF Followed, Follows
  <2>2. q = WithPrefixed(r, key, up)
    <3>1. q = Read(f, cs \o CodesOf(key, up))
      BY <1>1, <1>2, <1>5, <1>8
    <3>2. NoPrefix(r)
      BY <2>1 DEF NoPrefix
    <3> QED  BY <1>5, <1>8, <3>1, <3>2, ReadPrefixedKey
  <2>3. held' = held
    BY <1>2, <1>8, KeyKinds DEF KeysOK
  <2>4. q.flags = r.flags /\ q.chars = r.chars
    BY <1>5, <2>2 DEF WithPrefixed
  <2> QED  BY <1>1, <1>2, <1>3, <1>4, <1>5, <1>8, <2>3, <2>4 DEF Followed, Follows
<1>9. CASE ~ lost' /\ key \notin PrefixedKeys
  <2>1. ~ r.flags.extended
    BY <1>1, <1>5, <1>9 DEF Followed, Follows
  <2>2. q = WithPlain(r, key, up)
    <3>1. q = Read(f, cs \o CodesOf(key, up))
      BY <1>1, <1>2, <1>5, <1>9
    <3>2. NoPrefix(r)
      BY <2>1 DEF NoPrefix
    <3> QED  BY <1>5, <1>9, <3>1, <3>2, ReadPlainKey
  <2>3. q.chars = r.chars
    BY <1>5, <2>2 DEF WithPlain
  <2>4. /\ ~ q.flags.extended /\ q.flags.caps = r.flags.caps
        /\ key \in ShiftKeys => ~ q.flags.shift
        /\ key \notin ShiftKeys => q.flags.shift = r.flags.shift
        /\ q.chars = r.chars
    <3>1. PICK g, h : g = r.flags /\ h = q.flags
      OBVIOUS
    <3>2. /\ h.extended = g.extended
          /\ key \in ShiftKeys => h.shift = ~ up
          /\ key \notin ShiftKeys => h.shift = g.shift
          /\ ~ (key = CapsKey /\ ~ up) => h.caps = g.caps
      BY <1>6, <2>2, <3>1, PlainFlags
    <3> QED  BY <1>5, <2>1, <2>3, <3>1, <3>2
  <2>5. q.flags.shift => held' \cap ShiftKeys # {}
    BY <1>1, <1>2, <1>5, <1>9, <2>4 DEF Followed, Follows
  <2>6. ASSUME clean'
        PROVE  /\ q.chars = typed' /\ q.flags.caps = locked'
               /\ held' \cap ShiftKeys # {} => q.flags.shift
               /\ \A j, k \in held' \cap ShiftKeys : j = k
    <3>1. /\ clean /\ r.chars = typed /\ r.flags.caps = locked
          /\ held \cap ShiftKeys # {} => r.flags.shift
          /\ \A j, k \in held \cap ShiftKeys : j = k
      BY <1>2, <1>5, <2>6 DEF Followed, Follows
    <3>2. held' \cap ShiftKeys # {} => q.flags.shift
      BY <1>2, <2>4, <3>1, KeyKinds
    <3> QED  BY <1>2, <1>3, <2>4, <2>6, <3>1, <3>2
  <2> QED  BY <1>2, <1>4, <1>5, <1>9, <2>4, <2>5, <2>6 DEF Followed, Follows
<1> QED  BY <1>4, <1>7, <1>8, <1>9

LEMMA TakeFollowed ==
  ASSUME KeysOK, Followed, ReadKey
  PROVE  KeysOK' /\ Followed'
<1>1. /\ codes # << >> /\ codes' = Tail(codes)
      /\ UNCHANGED <<held, locked, clean, lost>>
      /\ typed' = IF clean /\ Decode(flags, Head(codes)).char # NoChar
                    THEN SubSeq(typed, 2, Len(typed)) ELSE typed
      /\ flags' = Decode(flags, Head(codes)).flags
  BY DEF ReadKey, TakeCode
<1>2. /\ Head(codes) \in ScanCodes /\ Tail(codes) \in Seq(ScanCodes)
  BY <1>1, HeadTailProperties DEF KeysOK
<1>3. flags' \in Flags /\ Decode(flags, Head(codes)).char \in Chars \cup {NoChar}
  BY <1>1, <1>2, DecodeType DEF KeysOK
<1>4. PICK r, q, c : /\ r = Read(flags, codes) /\ q = Read(flags', codes')
                     /\ c = Decode(flags, Head(codes)).char
  OBVIOUS
<1>5. r.flags = q.flags /\ r.chars = (IF c = NoChar THEN << >> ELSE <<c>>) \o q.chars
  BY <1>1, <1>4, ReadRest DEF KeysOK, First
<1>6. q.chars \in Seq(Chars) /\ c \in Chars \cup {NoChar} /\ typed \in Seq(Chars)
  <2>1. q \in Results
    BY <1>1, <1>2, <1>3, <1>4, ReadType
  <2> QED  BY <1>3, <1>4, <2>1 DEF Results, KeysOK
<1>7. ASSUME clean PROVE typed' = q.chars
  <2>1. r.chars = typed
    BY <1>4, <1>7 DEF Followed, Follows
  <2>2. CASE c = NoChar
    <3>1. typed' = typed /\ r.chars = << >> \o q.chars
      BY <1>1, <1>4, <1>5, <2>2
    <3> QED  BY <1>6, <2>1, <3>1
  <2>3. CASE c # NoChar
    <3>1. /\ typed = <<c>> \o q.chars /\ c \in Chars
          /\ typed' = SubSeq(typed, 2, Len(typed))
      BY <1>1, <1>4, <1>5, <1>6, <1>7, <2>1, <2>3
    <3>2. PICK t \in Seq(Chars) : t = q.chars
      BY <1>6
    <3>3. /\ Len(typed) = Len(t) + 1 /\ Len(t) \in Nat
          /\ \A i \in 1 .. Len(t) : typed[i + 1] = t[i]
      BY <3>1, <3>2
    <3>4. SubSeq(typed, 2, Len(typed)) = [i \in 1 .. Len(t) |-> typed[2 + i - 1]]
      BY <3>3
    <3>5. \A i \in 1 .. Len(t) : typed[2 + i - 1] = t[i]
      BY <3>3
    <3>6. t = [i \in 1 .. Len(t) |-> t[i]]
      OBVIOUS
    <3> QED  BY <3>1, <3>2, <3>4, <3>5, <3>6
  <2> QED  BY <2>2, <2>3
<1>8. typed' \in Seq(Chars)
  <2>1. CASE clean
    BY <1>6, <1>7, <2>1
  <2>2. CASE ~ clean
    BY <1>1, <1>6, <2>2
  <2> QED  BY <2>1, <2>2
<1>9. KeysOK'
  BY <1>1, <1>2, <1>3, <1>8 DEF KeysOK
<1> QED  BY <1>1, <1>4, <1>5, <1>7, <1>9 DEF Followed, Follows

LEMMA EndFollowed ==
  ASSUME KeysOK, Followed, ProgramEnds
  PROVE  KeysOK' /\ Followed'
<1>1. /\ flags' = Cleared(flags) /\ UNCHANGED <<codes, held, locked, lost>>
      /\ clean' = (clean /\ ~flags.shift /\ ~flags.caps)
      /\ typed' = IF clean' THEN typed ELSE << >>
  BY DEF ProgramEnds, Cleared
<1>2. /\ flags' \in Flags
      /\ NoMore(Read(flags', codes').flags, Read(flags, codes).flags)
  BY <1>1, ReadCleared DEF KeysOK
<1>3. KeysOK'
  BY <1>1, <1>2 DEF KeysOK
<1>4. clean' => flags' = flags
  <2>1. ~ flags.shift /\ ~ flags.caps => Cleared(flags) = flags
    BY DEF KeysOK, Flags, Cleared
  <2> QED  BY <1>1, <2>1
<1>5. CASE clean'
  <2>1. Read(flags', codes') = Read(flags, codes)
    BY <1>1, <1>4, <1>5
  <2> QED  BY <1>1, <1>3, <1>5, <2>1 DEF Followed, Follows
<1>6. CASE ~ clean'
  BY <1>1, <1>2, <1>3, <1>6 DEF Followed, Follows, NoMore
<1> QED  BY <1>5, <1>6

LEMMA KeysAlways == Spec => [](KeysOK /\ Followed)
<1>1. Init => KeysOK /\ Followed
  <2> SUFFICES ASSUME Init PROVE KeysOK /\ Followed
    OBVIOUS
  <2>1. KeysOK
    <3>1. codes \in Seq(ScanCodes) /\ typed \in Seq(Chars)
      BY DEF Init, KeyboardInit
    <3>2. flags \in Flags
      BY DEF Init, KeyboardInit, Flags, NoFlags
    <3> QED  BY <3>1, <3>2 DEF Init, KeyboardInit, KeysOK
  <2>2. flags = NoFlags /\ codes = << >> /\ NoFlags \in Flags
    BY DEF Init, KeyboardInit, Flags, NoFlags
  <2>3. Read(flags, codes) = [flags |-> NoFlags, chars |-> << >>]
    BY <2>2, ReadNone
  <2>4. PICK r : r = Read(flags, codes)
    OBVIOUS
  <2>5. r.chars = << >> /\ ~ r.flags.shift /\ ~ r.flags.extended /\ r.flags.caps = FALSE
    BY <2>3, <2>4 DEF NoFlags
  <2>6. held = {} /\ locked = FALSE /\ clean = TRUE /\ lost = FALSE /\ typed = << >>
    BY DEF Init, KeyboardInit
  <2> QED  BY <2>1, <2>4, <2>5, <2>6 DEF Followed, Follows
<1>2. KeysOK /\ Followed /\ [Next]_vars => (KeysOK /\ Followed)'
  <2> SUFFICES ASSUME KeysOK, Followed, [Next]_vars PROVE KeysOK' /\ Followed'
    OBVIOUS
  <2>1. CASE UNCHANGED vars
    BY <2>1 DEF vars, kbVars, KeysOK, Followed
  <2> QED  BY <2>1, PressFollowed, ReleaseFollowed, TakeFollowed, EndFollowed DEF Next
<1> QED  BY <1>1, <1>2, PTL DEF Spec

(* What keyboard_read gives is what was typed, in its case, until the user *)
(* does what the driver cannot follow (keyboard.c).                        *)
THEOREM KeysAreRead == Spec => []TypedIsRead
<1>1. KeysOK /\ Followed => TypedIsRead
  BY DEF Followed, Follows, TypedIsRead, Waiting, Read
<1> QED  BY <1>1, KeysAlways, PTL

(* shift_pressed does not stay behind when the shift key is up again, as   *)
(* long as the controller has lost no code (handle_scancode).              *)
THEOREM NoShiftStays == Spec => []ShiftReleased
<1>1. KeysOK /\ Followed => ShiftReleased
  BY DEF Followed, Follows, ShiftReleased, Waiting, Read
<1> QED  BY <1>1, KeysAlways, PTL

-----------------------------------------------------------------------------
(* The screen.                                                             *)
Glyphs  == Chars \cup {Blank, Prompt} \cup UNION {Range(out) : out \in Outputs}
Screens == [cells : [Screen!Cells -> Glyphs], pos : Screen!Cells]

LEMMA ScreenSize ==
  \E total \in Nat, top \in Nat :
    /\ Screen!Cells = 0 .. total - 1 /\ top = (Height - 1) * Width
    /\ total = top + Width /\ top > 0 /\ LineSize - 1 <= top
    /\ Width \in Nat /\ Width > 0 /\ LineSize \in Nat /\ LineSize > 0
<1>1. /\ Width \in Nat /\ Width > 0 /\ Height - 1 \in Nat /\ Height - 1 > 0
      /\ LineSize \in Nat /\ LineSize > 0 /\ Height \in Nat
  BY LineAssumption
<1>2. PICK h \in Nat : h = Height - 1 /\ h > 0 /\ Height = h + 1
  BY <1>1
<1>3. h * Width \in Nat /\ h * Width > 0 /\ Width * h = h * Width
  BY <1>1, <1>2
<1>4. Width * Height = h * Width + Width
  BY <1>1, <1>2, <1>3
<1>5. LineSize - 1 <= h * Width
  <2>1. LineSize <= Width * (Height - 1) + 1
    BY LineAssumption
  <2>2. LineSize <= Width * h + 1
    BY <1>2, <2>1
  <2> QED  BY <1>1, <1>3, <2>2
<1>6. PICK total \in Nat, top \in Nat : total = h * Width + Width /\ top = h * Width
  BY <1>1, <1>3
<1>7. Screen!Cells = 0 .. total - 1
  BY <1>4, <1>6 DEF Screen!Cells
<1> QED  BY <1>1, <1>2, <1>3, <1>5, <1>6, <1>7

LEMMA ScrollType ==
  ASSUME NEW cells \in [Screen!Cells -> Glyphs], NEW pos
  PROVE  Screen!Scroll([cells |-> cells, pos |-> pos]) \in Screens
<1>1. PICK total \in Nat, top \in Nat :
        /\ Screen!Cells = 0 .. total - 1 /\ top = (Height - 1) * Width
        /\ total = top + Width /\ Width \in Nat /\ Width > 0
  BY ScreenSize
<1>2. (Height - 1) * Width \in Screen!Cells /\ Blank \in Glyphs
  BY <1>1 DEF Glyphs
<1>3. \A p \in Screen!Cells :
        (IF p + Width \in Screen!Cells THEN cells[p + Width] ELSE Blank) \in Glyphs
  BY <1>2
<1> QED  BY <1>2, <1>3 DEF Screen!Scroll, Screens

LEMMA PutType ==
  ASSUME NEW s \in Screens, NEW c \in Glyphs
  PROVE  Screen!PutChar(s, c) \in Screens
<1>1. s.cells \in [Screen!Cells -> Glyphs] /\ s.pos \in Screen!Cells /\ Blank \in Glyphs
      /\ s = [cells |-> s.cells, pos |-> s.pos]
  BY DEF Screens, Glyphs
<1>2. PICK cells, pos : /\ cells \in [Screen!Cells -> Glyphs]
                        /\ Screen!Put(s, c) = [cells |-> cells, pos |-> pos]
  <2>1. CASE c = Newline
    <3>1. Screen!Put(s, c) = [cells |-> s.cells, pos |-> (s.pos \div Width + 1) * Width]
      BY <1>1, <2>1, LineAssumption DEF Screen!Put, Screen!MoveTo
    <3> QED  BY <1>1, <3>1
  <2>2. CASE c = Backspace /\ s.pos = 0
    <3>1. Screen!Put(s, c) = s
      BY <2>2, LineAssumption DEF Screen!Put
    <3> QED  BY <1>1, <3>1
  <2>3. CASE c = Backspace /\ s.pos # 0
    <3>1. Screen!Put(s, c) =
            [cells |-> [s.cells EXCEPT ![s.pos - 1] = Blank], pos |-> s.pos - 1]
      BY <2>3, LineAssumption DEF Screen!Put
    <3>2. [s.cells EXCEPT ![s.pos - 1] = Blank] \in [Screen!Cells -> Glyphs]
      BY <1>1
    <3> QED  BY <3>1, <3>2
  <2>4. CASE c \notin {Newline, Backspace}
    <3>1. Screen!Put(s, c) = [cells |-> [s.cells EXCEPT ![s.pos] = c], pos |-> s.pos + 1]
      BY <2>4 DEF Screen!Put
    <3>2. [s.cells EXCEPT ![s.pos] = c] \in [Screen!Cells -> Glyphs]
      BY <1>1
    <3> QED  BY <3>1, <3>2
  <2> QED  BY <2>1, <2>2, <2>3, <2>4
<1>3. CASE pos \in Screen!Cells
  BY <1>2, <1>3 DEF Screen!PutChar, Screens
<1>4. CASE pos \notin Screen!Cells
  BY <1>2, <1>4, ScrollType DEF Screen!PutChar
<1> QED  BY <1>3, <1>4

(* A string is printed character by character.                             *)
LEMMA WriteType ==
  ASSUME NEW s0 \in Screens, NEW str \in Seq(Glyphs)
  PROVE  /\ Screen!WriteStr(s0, str) \in Screens
         /\ Len(str) = 1 => Screen!WriteStr(s0, str) = Screen!PutChar(s0, str[1])
<1> DEFINE n == Len(str)
           step == [x \in Screens \X Glyphs |-> Screen!PutChar(x[1], x[2])]
           Folds(F) == F = [s \in SUBSET (1 .. n) |->
                              IF s = {} THEN s0
                              ELSE Screen!PutChar(F[s \ {Max(s)}], str[Max(s)])]
<1>1. n \in Nat /\ DOMAIN str = 1 .. n /\ str \in [1 .. n -> Glyphs]
  BY LenProperties
<1>2. step \in [Screens \X Glyphs -> Screens]
  BY PutType
<1>3. PICK g : FoldsTo(g, Screens, s0, step, n, str)
  <2> HIDE DEF n, step
  <2> QED  BY <1>1, <1>2, FoldExists
<1>4. Folds(g)
  <2>1. ASSUME NEW s \in SUBSET (1 .. n), s # {}
        PROVE  step[<<g[s \ {Max(s)}], str[Max(s)]>>] =
                  Screen!PutChar(g[s \ {Max(s)}], str[Max(s)])
    <3>1. PICK j \in Nat : j = n
      BY <1>1
    <3>2. s \in SUBSET (0 .. j)
      BY <3>1, <1>1
    <3>3. Max(s) \in s
      BY <2>1, <3>2, MaxIsGreatest
    <3>4. Max(s) \in 1 .. n /\ str[Max(s)] \in Glyphs /\ g[s \ {Max(s)}] \in Screens
      BY <1>1, <1>3, <3>3 DEF FoldsTo
    <3> QED  BY <3>4
  <2>2. g = [s \in SUBSET (1 .. n) |-> IF s = {} THEN s0
                ELSE step[<<g[s \ {Max(s)}], str[Max(s)]>>]]
    <3> HIDE DEF n, step
    <3> QED  BY <1>3 DEF FoldsTo
  <2> HIDE DEF n, step
  <2> QED  BY <2>1, <2>2
<1>5. Screen!WriteStr(s0, str) = LET F == CHOOSE F : Folds(F) IN F[1 .. n]
  BY <1>1 DEF Screen!WriteStr, Screen!FoldLeft, Screen!MapThenFoldSet, Screen!Max, Max
<1> DEFINE F == CHOOSE F : Folds(F)
<1>6. Folds(F)
  <2> HIDE DEF Folds
  <2> QED  BY <1>4
<1>7. F[1 .. n] = Screen!WriteStr(s0, str)
  BY <1>5
<1> HIDE DEF F
<1> DEFINE S == {k \in 0 .. n : F[1 .. k] \in Screens}
<1>8. F[1 .. 0] = s0 /\ 0 \in S
  <2>1. 1 .. 0 = {} /\ 0 \in 0 .. n
    BY <1>1
  <2> HIDE DEF n
  <2> QED  BY <1>6, <2>1
<1>9. ASSUME NEW k \in 0 .. n - 1
      PROVE  F[1 .. k + 1] = Screen!PutChar(F[1 .. k], str[k + 1])
  <2>1. k \in Nat /\ k + 1 \in 1 .. n
    BY <1>1
  <2>2. Max(1 .. k + 1) = k + 1 /\ (1 .. k + 1) \ {k + 1} = 1 .. k /\ 1 .. k + 1 # {}
    BY <2>1, UpTo
  <2>3. 1 .. k + 1 \in SUBSET (1 .. n)
    <3>1. \A i \in 1 .. k + 1 : i \in 1 .. n
      BY <1>1, <2>1
    <3> QED  BY <3>1
  <2> HIDE DEF n
  <2> QED  BY <1>6, <2>2, <2>3
<1>10. ASSUME NEW k \in 0 .. n - 1, k \in S PROVE k + 1 \in S
  <2>1. k + 1 \in 1 .. n /\ k + 1 \in 0 .. n
    BY <1>1
  <2>2. str[k + 1] \in Glyphs
    BY <1>1, <2>1
  <2>3. Screen!PutChar(F[1 .. k], str[k + 1]) \in Screens
    BY <1>10, <2>2, PutType
  <2> QED  BY <1>9, <2>1, <2>3
<1> HIDE DEF S
<1>11. \A k \in 0 .. n : k \in S
  BY <1>1, <1>8, <1>10, CountUp
<1>12. F[1 .. n] \in Screens
  BY <1>1, <1>11 DEF S
<1>13. n = 1 => F[1 .. n] = Screen!PutChar(s0, str[1])
  <2> SUFFICES ASSUME n = 1 PROVE F[1 .. n] = Screen!PutChar(s0, str[1])
    OBVIOUS
  <2>1. 0 \in 0 .. n - 1 /\ 0 + 1 = 1
    OBVIOUS
  <2>2. F[1 .. 0 + 1] = Screen!PutChar(F[1 .. 0], str[0 + 1])
    BY <1>9, <2>1
  <2> QED  BY <1>8, <2>1, <2>2
<1> QED  BY <1>7, <1>12, <1>13

(* A character that is printed goes under the cursor, and the rows may     *)
(* move up by one: all that is left keeps its distance to the cursor.      *)
LEMMA PutBehind ==
  ASSUME NEW s \in Screens, NEW c \in Glyphs \ {Newline, Backspace},
         NEW t, t = Screen!PutChar(s, c)
  PROVE  \E d \in {0, Width} :
           /\ t.pos = s.pos + 1 - d /\ (d # 0 => t.pos = (Height - 1) * Width)
           /\ \A q \in Screen!Cells : q + d \in Screen!Cells =>
                t.cells[q] = IF q + d = s.pos THEN c ELSE s.cells[q + d]
<1>1. PICK total \in Nat, top \in Nat :
        /\ Screen!Cells = 0 .. total - 1 /\ top = (Height - 1) * Width
        /\ total = top + Width /\ Width \in Nat /\ Width > 0
  BY ScreenSize
<1>2. PICK cells, pos : cells = s.cells /\ pos = s.pos
  OBVIOUS
<1>3. cells \in [Screen!Cells -> Glyphs] /\ pos \in 0 .. total - 1
  BY <1>1, <1>2 DEF Screens
<1>4. PICK put : put = Screen!Put(s, c)
  OBVIOUS
<1>5. put = [cells |-> [cells EXCEPT ![pos] = c], pos |-> pos + 1]
  BY <1>2, <1>4 DEF Screen!Put
<1>6. put.pos = pos + 1 /\ \A q \in Screen!Cells :
        put.cells[q] = IF q = pos THEN c ELSE cells[q]
  BY <1>3, <1>5
<1>7. t = IF put.pos \in Screen!Cells THEN put ELSE Screen!Scroll(put)
  BY <1>4 DEF Screen!PutChar
<1>8. CASE put.pos \in Screen!Cells
  <2>1. t = put
    BY <1>7, <1>8
  <2>2. \A q \in Screen!Cells : q + 0 = q
    BY <1>1
  <2> QED  BY <1>1, <1>2, <1>3, <1>6, <2>1, <2>2
<1>9. CASE put.pos \notin Screen!Cells
  <2>1. t = Screen!Scroll(put)
    BY <1>7, <1>9
  <2>2. t.pos = top /\ \A q \in Screen!Cells : q + Width \in Screen!Cells =>
          t.cells[q] = put.cells[q + Width]
    BY <1>1, <2>1 DEF Screen!Scroll
  <2>3. pos + 1 = total
    BY <1>1, <1>3, <1>6, <1>9
  <2>4. top = pos + 1 - Width
    BY <1>1, <1>3, <2>3
  <2> QED  BY <1>1, <1>2, <1>6, <2>2, <2>4
<1> QED  BY <1>8, <1>9

LEMMA EraseBefore ==
  ASSUME NEW s \in Screens, s.pos > 0
  PROVE  /\ Screen!PutChar(s, Backspace).pos = s.pos - 1
         /\ \A q \in Screen!Cells : q # s.pos - 1 =>
              Screen!PutChar(s, Backspace).cells[q] = s.cells[q]
<1>1. PICK total \in Nat : Screen!Cells = 0 .. total - 1
  BY ScreenSize
<1>2. s.pos \in 0 .. total - 1 /\ s.cells \in [Screen!Cells -> Glyphs]
  BY <1>1 DEF Screens
<1>3. Screen!Put(s, Backspace)
        = [cells |-> [s.cells EXCEPT ![s.pos - 1] = Blank], pos |-> s.pos - 1]
  BY <1>2, LineAssumption DEF Screen!Put
<1>4. s.pos - 1 \in Screen!Cells
  BY <1>1, <1>2
<1>5. Screen!PutChar(s, Backspace)
        = [cells |-> [s.cells EXCEPT ![s.pos - 1] = Blank], pos |-> s.pos - 1]
  BY <1>3, <1>4 DEF Screen!PutChar
<1> QED  BY <1>2, <1>5

LEMMA EraseType ==
  ASSUME NEW s \in Screens, s.pos > 0
  PROVE  Screen!PutChar(s, Backspace) \in Screens
<1>1. PICK total \in Nat : Screen!Cells = 0 .. total - 1
  BY ScreenSize
<1>2. s.pos \in 0 .. total - 1 /\ s.cells \in [Screen!Cells -> Glyphs] /\ Blank \in Glyphs
  BY <1>1 DEF Screens, Glyphs
<1>3. Screen!Put(s, Backspace)
        = [cells |-> [s.cells EXCEPT ![s.pos - 1] = Blank], pos |-> s.pos - 1]
  BY <1>2, LineAssumption DEF Screen!Put
<1>4. s.pos - 1 \in Screen!Cells
  BY <1>1, <1>2
<1>5. Screen!PutChar(s, Backspace)
        = [cells |-> [s.cells EXCEPT ![s.pos - 1] = Blank], pos |-> s.pos - 1]
  BY <1>3, <1>4 DEF Screen!PutChar
<1> QED  BY <1>2, <1>4, <1>5 DEF Screens

LEMMA FrontOfLine ==
  ASSUME NEW s \in Seq(Chars), Len(s) > 0
  PROVE  /\ Front(s) \in Seq(Chars) /\ Len(Front(s)) = Len(s) - 1
         /\ \A i \in 1 .. Len(s) - 1 : Front(s)[i] = s[i]
<1> DEFINE n == Len(s) - 1
<1>1. n \in Nat /\ n <= Len(s) /\ n - 1 + 1 = n /\ 1 <= n + 1 /\ Len(s) \in Nat
  BY LenProperties
<1>2. \A i \in 1 .. n : i \in 1 .. Len(s) /\ 1 + i - 1 = i /\ s[i] \in Chars
  BY <1>1, ElementOfSeq
<1>3. SubSeq(s, 1, n) = [i \in 1 .. n |-> s[i]]
  BY <1>1, <1>2
<1> HIDE DEF n
<1>4. [i \in 1 .. n |-> s[i]] \in Seq(Chars)
  BY <1>1, <1>2
<1>5. Len([i \in 1 .. n |-> s[i]]) = n
  BY <1>1
<1> QED  BY <1>3, <1>4, <1>5 DEF Front, n

(* The line is shorter than the screen, and stands in front of the cursor. *)
Echoed(s, text, front) ==
  /\ s.pos - Len(text) >= 0
  /\ \A i \in 1 .. Len(text) : s.cells[s.pos - Len(text) + i - 1] = text[i]
  /\ s.pos - Len(text) > 0 => s.cells[s.pos - Len(text) - 1] = front
LineOK ==
  /\ screen \in Screens /\ line \in Seq(Chars) /\ Len(line) <= LineSize - 1
  /\ Echoed(screen, line, before)

LEMMA PromptType ==
  Welcome \in Screens /\ CellBefore(Welcome) = Prompt
<1>1. PICK total \in Nat, top \in Nat :
        /\ Screen!Cells = 0 .. total - 1 /\ top = (Height - 1) * Width
        /\ total = top + Width /\ top > 0 /\ Width \in Nat /\ Width > 0
  BY ScreenSize
<1> PICK s \in Screens : s = Screen!Clear /\ s.pos = 0
  <2>1. Screen!Clear \in Screens /\ Screen!Clear.pos = 0
    BY <1>1 DEF Screen!Clear, Screens, Glyphs
  <2> QED  BY <2>1
<1>2. PICK t : /\ s = Screen!Clear /\ t = Screen!PutChar(s, Prompt)
               /\ s.pos = 0
  OBVIOUS
<1>3. <<Prompt>> \in Seq(Glyphs) /\ Len(<<Prompt>>) = 1 /\ <<Prompt>>[1] = Prompt
  BY DEF Glyphs
<1>4. Welcome = t /\ t \in Screens
  <2>1. PICK str : str = <<Prompt>>
    OBVIOUS
  <2>2. /\ Screen!WriteStr(s, str) \in Screens
        /\ Screen!WriteStr(s, str) = Screen!PutChar(s, str[1])
    BY <1>3, <2>1, WriteType
  <2>3. str[1] = Prompt
    BY <1>3, <2>1
  <2> QED  BY <1>2, <2>1, <2>2, <2>3 DEF Welcome
<1>5. Prompt \in Glyphs \ {Newline, Backspace}
  BY LineAssumption DEF Glyphs
<1>6. PICK d \in {0, Width} :
        /\ t.pos = 0 + 1 - d /\ (d # 0 => t.pos = top)
        /\ \A q \in Screen!Cells : q + d \in Screen!Cells =>
             t.cells[q] = IF q + d = 0 THEN Prompt ELSE s.cells[q + d]
  BY <1>1, <1>2, <1>5, PutBehind
<1>7. d = 0 /\ t.pos = 1
  BY <1>1, <1>6
<1>8. t.cells[0] = Prompt
  <2>1. 0 \in Screen!Cells /\ 0 + 0 = 0
    BY <1>1
  <2> QED  BY <1>6, <1>7, <2>1
<1>9. t.pos # 0 /\ t.pos - 1 = 0
  BY <1>7
<1> QED  BY <1>4, <1>8, <1>9 DEF CellBefore

LEMMA EmptyEchoed ==
  ASSUME NEW s \in Screens
  PROVE  Echoed(s, << >>, CellBefore(s))
<1>1. PICK total \in Nat : Screen!Cells = 0 .. total - 1
  BY ScreenSize
<1>2. s.pos \in 0 .. total - 1 /\ Len(<< >>) = 0 /\ s.pos - 0 = s.pos
  BY <1>1 DEF Screens
<1> QED  BY <1>2 DEF Echoed, CellBefore

LEMMA BehindCursor ==
  ASSUME NEW total \in Nat, NEW p \in 0 .. total - 1, NEW L \in Nat, NEW d \in Nat,
         NEW b \in Nat, b = p - L - d, NEW i \in 1 .. L + 1
  PROVE  /\ (b + i - 1) + d = p - L + i - 1 /\ b + i - 1 \in 0 .. total - 1
         /\ p - L + i - 1 \in 0 .. total - 1
  OBVIOUS

LEMMA AddEchoed ==
  ASSUME LineOK, NEW c \in Chars, Add(c)
  PROVE  LineOK'
<1>1. PICK total \in Nat, top \in Nat :
        /\ Screen!Cells = 0 .. total - 1 /\ top = (Height - 1) * Width
        /\ total = top + Width /\ LineSize - 1 <= top
        /\ Width \in Nat /\ Width > 0 /\ LineSize \in Nat
  BY ScreenSize
<1>2. /\ c \in Glyphs \ {Newline, Backspace} /\ Len(line) < LineSize - 1
      /\ line' = Append(line, c) /\ screen' = Screen!PutChar(screen, c)
      /\ before' = before
  BY DEF Add, Glyphs
<1> PICK t : t = screen'
  OBVIOUS
<1>3. PICK s \in Screens, L \in Nat, p \in 0 .. total - 1 :
        /\ s = screen /\ t = screen' /\ L = Len(line) /\ p = s.pos
  <2>1. screen \in Screens /\ screen.pos \in 0 .. total - 1
    BY <1>1 DEF LineOK, Screens
  <2>2. Len(line) \in Nat
    BY LenProperties DEF LineOK
  <2> QED  BY <2>1, <2>2
<1>4. t \in Screens
  BY <1>2, <1>3, PutType
<1>5. PICK d \in {0, Width} :
        /\ t.pos = p + 1 - d /\ (d # 0 => t.pos = top)
        /\ \A q \in Screen!Cells : q + d \in Screen!Cells =>
             t.cells[q] = IF q + d = p THEN c ELSE s.cells[q + d]
  <2>1. t = Screen!PutChar(s, c)
    BY <1>2, <1>3
  <2>2. PICK d \in {0, Width} :
          /\ t.pos = s.pos + 1 - d /\ (d # 0 => t.pos = (Height - 1) * Width)
          /\ \A q \in Screen!Cells : q + d \in Screen!Cells =>
               t.cells[q] = IF q + d = s.pos THEN c ELSE s.cells[q + d]
    BY <1>2, <2>1, PutBehind
  <2> QED  BY <1>1, <1>3, <2>2
<1>6. /\ line' \in Seq(Chars) /\ Len(line') = L + 1 /\ L + 1 <= LineSize - 1
      /\ line'[L + 1] = c /\ \A i \in 1 .. L : line'[i] = line[i]
  BY <1>1, <1>2, <1>3, AppendProperties DEF LineOK
<1>7. /\ p - L >= 0
      /\ \A i \in 1 .. L : s.cells[p - L + i - 1] = line[i]
      /\ p - L > 0 => s.cells[p - L - 1] = before
  BY <1>3 DEF LineOK, Echoed
<1>8. PICK b \in Int : b = t.pos - (L + 1)
  BY <1>1, <1>5
<1>9. b = p - L - d /\ b \in Nat /\ d \in Nat
  <2>1. d \in Nat
    BY <1>1
  <2>2. b = p - L - d
    BY <1>5, <1>8, <2>1
  <2>3. CASE d = 0
    BY <1>7, <2>2, <2>3
  <2>4. CASE d # 0
    BY <1>1, <1>5, <1>6, <1>8, <2>1, <2>2, <2>4
  <2> QED  BY <2>1, <2>2, <2>3, <2>4
<1>10. ASSUME NEW i \in 1 .. L + 1
       PROVE  t.cells[b + i - 1] = line'[i]
  <2>1. (b + i - 1) + d = p - L + i - 1 /\ b + i - 1 \in 0 .. total - 1
        /\ p - L + i - 1 \in 0 .. total - 1
    BY <1>9, BehindCursor
  <2>2. t.cells[b + i - 1] = IF p - L + i - 1 = p THEN c ELSE s.cells[p - L + i - 1]
    BY <1>1, <1>5, <2>1
  <2>3. CASE i = L + 1
    BY <1>6, <2>2, <2>3
  <2>4. CASE i \in 1 .. L
    BY <1>6, <1>7, <2>2, <2>4
  <2> QED  BY <2>3, <2>4
<1>11. ASSUME b > 0 PROVE t.cells[b - 1] = before
  <2>1. /\ (b - 1) + d = p - L - 1 /\ b - 1 \in 0 .. total - 1
        /\ p - L - 1 \in 0 .. total - 1 /\ p - L > 0 /\ p - L - 1 # p
    <3>1. b > 0 /\ b \in Nat /\ d \in Nat /\ p - L = b + d
      BY <1>9, <1>11
    <3>2. total \in Nat /\ L \in Nat /\ p \in 0 .. total - 1
      OBVIOUS
    <3> QED  BY ONLY <3>1, <3>2
  <2>2. t.cells[b - 1] = s.cells[p - L - 1]
    BY <1>1, <1>5, <2>1
  <2> QED  BY <1>7, <2>1, <2>2
<1>12. Echoed(t, line', before)
  BY <1>6, <1>8, <1>9, <1>10, <1>11 DEF Echoed
<1> QED  BY <1>2, <1>3, <1>4, <1>6, <1>12 DEF LineOK

LEMMA EraseEchoed ==
  ASSUME LineOK, NEW c, Erase(c)
  PROVE  LineOK'
<1>1. PICK total \in Nat : Screen!Cells = 0 .. total - 1
  BY ScreenSize
<1>2. /\ c = Backspace /\ line # << >> /\ line' = Front(line)
      /\ screen' = Screen!PutChar(screen, Backspace) /\ before' = before
  BY DEF Erase
<1> PICK t : t = screen'
  OBVIOUS
<1>3. PICK s \in Screens, L \in Nat, p \in 0 .. total - 1 :
        /\ s = screen /\ t = screen' /\ L = Len(line) /\ p = s.pos
  <2>1. screen \in Screens /\ screen.pos \in 0 .. total - 1
    BY <1>1 DEF LineOK, Screens
  <2>2. Len(line) \in Nat
    BY LenProperties DEF LineOK
  <2> QED  BY <2>1, <2>2
<1>4. /\ p - L >= 0 /\ L > 0
      /\ \A i \in 1 .. L : s.cells[p - L + i - 1] = line[i]
      /\ p - L > 0 => s.cells[p - L - 1] = before
  BY <1>2, <1>3, EmptySeq DEF LineOK, Echoed
<1>5. /\ t.pos = p - 1
      /\ \A q \in Screen!Cells : q # p - 1 => t.cells[q] = s.cells[q]
  BY <1>2, <1>3, <1>4, EraseBefore
<1>6. t \in Screens
  <2>1. Backspace \in Glyphs \/ Backspace \notin Glyphs
    OBVIOUS
  <2> QED  BY <1>1, <1>2, <1>3, <1>4, EraseType
<1>7. /\ line' \in Seq(Chars) /\ Len(line') = L - 1
      /\ \A i \in 1 .. L - 1 : line'[i] = line[i]
  BY <1>2, <1>3, <1>4, FrontOfLine DEF LineOK
<1>8. PICK b \in Int : b = t.pos - (L - 1)
  BY <1>1, <1>3, <1>5
<1>9. b = p - L
  BY <1>3, <1>5, <1>8
<1>10. ASSUME NEW i \in 1 .. L - 1
       PROVE  t.cells[b + i - 1] = line'[i]
  <2>0. p - L >= 0 /\ L \in Nat /\ p \in 0 .. total - 1
    BY <1>3, <1>4
  <2>1. b + i - 1 \in 0 .. total - 1 /\ b + i - 1 # p - 1 /\ i \in 1 .. L
    BY ONLY <2>0, <1>9, total \in Nat, i \in 1 .. L - 1
  <2> QED  BY <1>1, <1>4, <1>5, <1>7, <1>9, <2>1
<1>11. ASSUME b > 0 PROVE t.cells[b - 1] = before
  <2>1. b - 1 \in 0 .. total - 1 /\ b - 1 # p - 1
    BY <1>1, <1>3, <1>4, <1>9, <1>11
  <2> QED  BY <1>1, <1>4, <1>5, <1>9, <1>11, <2>1
<1>12. Echoed(t, line', before)
  BY <1>4, <1>7, <1>8, <1>9, <1>10, <1>11 DEF Echoed
<1>13. Len(line') <= LineSize - 1
  BY <1>3, <1>7, LineAssumption DEF LineOK
<1> QED  BY <1>2, <1>3, <1>6, <1>7, <1>12, <1>13 DEF LineOK

LEMMA EnterEchoed ==
  ASSUME LineOK, NEW c \in Chars, Enter(c)
  PROVE  LineOK'
<1>1. /\ c = Newline /\ line' = << >> /\ before' = CellBefore(screen')
      /\ \/ \E out \in Outputs :
              screen' = Screen!WriteStr(Screen!PutChar(screen, Newline), out)
         \/ screen' = Welcome
  BY DEF Enter
<1>2. screen' \in Screens
  <2>1. ASSUME NEW out \in Outputs,
               screen' = Screen!WriteStr(Screen!PutChar(screen, Newline), out)
        PROVE  screen' \in Screens
    <3>1. Newline \in Glyphs
      BY <1>1 DEF Glyphs
    <3>2. Screen!PutChar(screen, Newline) \in Screens
      BY <3>1, PutType DEF LineOK
    <3>3. out \in Seq(Glyphs)
      <4>1. Range(out) \subseteq Glyphs
        BY DEF Glyphs
      <4>2. out \in Seq(Range(out))
        BY LineAssumption
      <4>3. \A i \in 1 .. Len(out) : out[i] \in Glyphs
        BY <4>1, <4>2, ElementOfSeq
      <4> QED  BY <4>2, <4>3
    <3> QED  BY <2>1, <3>2, <3>3, WriteType
  <2> QED  BY <1>1, <2>1, PromptType
<1>3. PICK s \in Screens : s = screen'
  BY <1>2
<1>4. Echoed(s, << >>, CellBefore(s))
  BY EmptyEchoed
<1>5. << >> \in Seq(Chars) /\ Len(<< >>) = 0 /\ 0 <= LineSize - 1
  BY LineAssumption
<1> QED  BY <1>1, <1>2, <1>3, <1>4, <1>5 DEF LineOK

LEMMA EchoAlways == Spec => []LineOK
<1>1. Init => LineOK
  <2> SUFFICES ASSUME Init PROVE LineOK
    OBVIOUS
  <2>1. line = << >> /\ screen = Welcome /\ before = Prompt
    BY DEF Init
  <2>2. CellBefore(Welcome) = Prompt
    BY PromptType
  <2>3. Echoed(Welcome, << >>, Prompt)
    BY <2>2, PromptType, EmptyEchoed
  <2>4. << >> \in Seq(Chars) /\ Len(<< >>) = 0 /\ 0 <= LineSize - 1
    BY LineAssumption
  <2> QED  BY <2>1, <2>3, <2>4, PromptType DEF LineOK
<1>2. KeysOK /\ LineOK /\ [Next]_vars => LineOK'
  <2> SUFFICES ASSUME KeysOK, LineOK, [Next]_vars PROVE LineOK'
    OBVIOUS
  <2>1. CASE UNCHANGED <<line, screen, before>>
    BY <2>1 DEF LineOK
  <2>2. CASE ReadKey
    <3>1. codes # << >>
      BY <2>2 DEF ReadKey, TakeCode
    <3>2. PICK c : c = Decode(flags, Head(codes)).char
      OBVIOUS
    <3>3. c \in Chars \cup {NoChar}
      BY <3>1, <3>2, HeadTailProperties, DecodeType DEF KeysOK
    <3>4. UNCHANGED <<line, screen, before>> \/ (c # NoChar /\ HandleKeypress(c))
      BY <2>2, <3>2 DEF ReadKey
    <3> QED
      BY <2>1, <3>3, <3>4, AddEchoed, EraseEchoed, EnterEchoed
         DEF HandleKeypress, Ignore
  <2> QED  BY <2>1, <2>2 DEF Next, ProgramEnds, vars
<1> QED  BY <1>1, <1>2, KeysAlways, PTL DEF Spec

(* The line that enter will run is what stands behind the prompt           *)
(* (shell_handle_keypress, vga.c).                                         *)
THEOREM LineIsShown == Spec => []EchoIsLine
<1>1. LineOK => EchoIsLine
  <2> SUFFICES ASSUME LineOK PROVE EchoIsLine
    OBVIOUS
  <2>1. DOMAIN line = 1 .. Len(line)
    BY DEF LineOK
  <2> QED  BY <2>1 DEF LineOK, Echoed, EchoIsLine
<1> QED  BY <1>1, EchoAlways, PTL
=============================================================================
