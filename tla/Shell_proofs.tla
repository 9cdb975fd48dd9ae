---------------------------- MODULE Shell_proofs ----------------------------
(***************************************************************************)
(* The shell's names, for every size of a directory and of names, every    *)
(* line that was typed before and every sequence of commands and of a      *)
(* program's calls: of the files written under one name the newest comes   *)
(* first; what was created or written is found under its name; and a       *)
(* delete takes what cat would have shown.                                 *)
(*                                                                         *)
(* The first part is about the conversions of module Names alone: what     *)
(* they make of a name that is spelled as users mean it, and what an       *)
(* entry's name is read as.                                                *)
(***************************************************************************)
EXTENDS Shell, Extremes, SequenceTheorems

----------------------------------------------------------------------------
(* The conversions.                                                        *)

LEMMA NameFacts ==
  /\ BaseSize \in Nat \ {0} /\ ExtSize \in Nat \ {0}
  /\ NameSize = BaseSize + ExtSize /\ NameSize \in Nat \ {0}
  /\ Space \in Chars /\ Dot \in Chars /\ Nul \in Chars
  /\ Dot # Space /\ Dot # Nul /\ Space # Nul
  /\ Upper[Space] = Space
  BY NameAssumption DEF NameSize

LEMMA UpperFacts ==
  ASSUME NEW c \in Chars
  PROVE  /\ Upper[c] \in Chars /\ Upper[Upper[c]] = Upper[c]
         /\ Upper[c] \in {Dot, Space, Nul} => Upper[c] = c
  BY NameAssumption

LEMMA BeforeNone ==
  ASSUME NEW s \in Seq(Chars), NEW c, \A i \in 1 .. Len(s) : s[i] # c
  PROVE  Before(s, c) = s
  BY DEF Before, Contains

LEMMA BeforeFirst ==
  ASSUME NEW s \in Seq(Chars), NEW c, NEW n \in Nat, n < Len(s), s[n + 1] = c,
         \A i \in 1 .. n : s[i] # c
  PROVE  Before(s, c) = SubSeq(s, 1, n)
<1> DEFINE I == {i \in 1 .. Len(s) : s[i] = c}
<1>1. n + 1 \in I /\ I \in SUBSET Nat /\ \A i \in I : i >= n + 1
  BY LenProperties
<1>2. Contains(s, c)
  BY <1>1 DEF Contains
<1>3. Min(I) - 1 = n
  <2> HIDE DEF I
  <2>1. PICK m : m = Min(I)
    OBVIOUS
  <2>2. m \in I /\ m \in Nat /\ m <= n + 1
    BY <1>1, <2>1, MinIsLeast
  <2>3. m >= n + 1
    BY <1>1, <2>2
  <2> QED  BY <2>1, <2>2, <2>3
<1>4. Before(s, c) = SubSeq(s, 1, Min(I) - 1)
  <2> HIDE DEF Min
  <2> QED  BY <1>1, <1>2 DEF Before, SelectInSeq
<1> HIDE DEF I
<1> QED  BY <1>3, <1>4

LEMMA BeforeIs ==
  ASSUME NEW s \in Seq(Chars), NEW c
  PROVE  \E n \in 0 .. Len(s) :
           /\ Before(s, c) = SubSeq(s, 1, n)
           /\ \A i \in 1 .. n : s[i] # c
           /\ n < Len(s) => s[n + 1] = c
<1>1. CASE \A i \in 1 .. Len(s) : s[i] # c
  <2>1. Before(s, c) = SubSeq(s, 1, Len(s)) /\ Len(s) \in Nat
    BY <1>1, BeforeNone, SubSeqFull, LenProperties
  <2> QED  BY <1>1, <2>1
<1>2. CASE \E i \in 1 .. Len(s) : s[i] = c
  <2> DEFINE I == {i \in 1 .. Len(s) : s[i] = c}
  <2>1. PICK m \in I : \A i \in I : m <= i
    <3>1. I \in SUBSET Nat /\ I # {}
      BY <1>2
    <3> HIDE DEF I
    <3> QED  BY <3>1, LeastNat
  <2>2. m \in 1 .. Len(s) /\ s[m] = c /\ Len(s) \in Nat
    BY <2>1, LenProperties
  <2>3. PICK n : n = m - 1
    OBVIOUS
  <2>4. /\ n \in Nat /\ n < Len(s) /\ s[n + 1] = c
        /\ \A i \in 1 .. n : s[i] # c
    BY <2>1, <2>2, <2>3
  <2>5. Before(s, c) = SubSeq(s, 1, n)
    BY <2>4, BeforeFirst
  <2> QED  BY <2>2, <2>4, <2>5
<1> QED  BY <1>1, <1>2

LEMMA AtMostIs ==
  ASSUME NEW s \in Seq(Chars), NEW n \in Nat
  PROVE  /\ AtMost(n, s) \in Seq(Chars)
         /\ Len(AtMost(n, s)) = IF Len(s) > n THEN n ELSE Len(s)
         /\ \A i \in 1 .. Len(AtMost(n, s)) : AtMost(n, s)[i] = s[i]
<1>1. PICK m : m = IF Len(s) > n THEN n ELSE Len(s)
  OBVIOUS
<1>2. m \in Nat /\ m <= Len(s) /\ Len(s) \in Nat
  BY <1>1, LenProperties
<1>3. AtMost(n, s) = SubSeq(s, 1, m)
  BY <1>1 DEF AtMost
<1>4. /\ SubSeq(s, 1, m) \in Seq(Chars) /\ Len(SubSeq(s, 1, m)) = m
      /\ \A i \in 1 .. m : SubSeq(s, 1, m)[i] = s[i]
  BY <1>2
<1> QED  BY <1>1, <1>3, <1>4

LEMMA ConcatIs ==
  ASSUME NEW S, NEW u \in Seq(S), NEW v \in Seq(S)
  PROVE  u \o v = [i \in 1 .. Len(u) + Len(v) |->
                    IF i <= Len(u) THEN u[i] ELSE v[i - Len(u)]]
<1> DEFINE f == [i \in 1 .. Len(u) + Len(v) |->
                    IF i <= Len(u) THEN u[i] ELSE v[i - Len(u)]]
<1>1. Len(u) \in Nat /\ Len(v) \in Nat
  BY LenProperties
<1>2. ASSUME NEW i \in 1 .. Len(u) + Len(v) PROVE f[i] \in S
  <2>1. CASE i <= Len(u)
    BY <1>1, <2>1
  <2>2. CASE ~ (i <= Len(u))
    BY <1>1, <2>2
  <2> QED  BY <2>1, <2>2
<1>3. f \in Seq(S) /\ Len(f) = Len(u) + Len(v)
  <2>1. f \in [1 .. Len(u) + Len(v) -> S]
    BY <1>2
  <2> HIDE DEF f
  <2>2. Len(u) + Len(v) \in Nat
    BY <1>1
  <2> QED  BY <2>1, <2>2
<1>4. /\ u \o v \in Seq(S) /\ Len(u \o v) = Len(u) + Len(v)
      /\ \A i \in 1 .. Len(u) + Len(v) : (u \o v)[i] = f[i]
  BY ConcatProperties
<1> HIDE DEF f
<1>5. u \o v = f
  BY <1>1, <1>3, <1>4, SeqEqual
<1> QED  BY <1>5 DEF f

LEMMA PaddedIs ==
  ASSUME NEW s \in Seq(Chars), NEW n \in Nat
  PROVE  Padded(n, Uppered(AtMost(n, s))) =
           [i \in 1 .. n |-> IF i <= Len(s) THEN Upper[s[i]] ELSE Space]
<1>1. PICK t : t = AtMost(n, s)
  OBVIOUS
<1>2. /\ t \in Seq(Chars) /\ Len(t) = IF Len(s) > n THEN n ELSE Len(s)
      /\ \A i \in 1 .. Len(t) : t[i] = s[i]
  BY <1>1, AtMostIs
<1>3. Len(s) \in Nat /\ Len(t) \in Nat /\ Len(t) <= n
  BY <1>2, LenProperties
<1>4. PICK u : u = [i \in 1 .. Len(t) |-> Upper[t[i]]]
  OBVIOUS
<1>5. Uppered(t) = u
  BY <1>2, <1>4, LenProperties DEF Uppered
<1>6. u \in Seq(Chars) /\ Len(u) = Len(t)
  BY <1>2, <1>3, <1>4, UpperFacts
<1>7. PICK v : v = [i \in 1 .. n - Len(t) |-> Space]
  OBVIOUS
<1>8. v \in Seq(Chars) /\ Len(v) = n - Len(t)
  BY <1>3, <1>7, NameFacts
<1>9. u \o v = [i \in 1 .. n |-> IF i <= Len(s) THEN Upper[s[i]] ELSE Space]
  <2>1. u \o v = [i \in 1 .. Len(t) + (n - Len(t)) |->
                     IF i <= Len(t) THEN u[i] ELSE v[i - Len(t)]]
    <3>1. u \o v = [i \in 1 .. Len(u) + Len(v) |->
                       IF i <= Len(u) THEN u[i] ELSE v[i - Len(u)]]
      BY <1>6, <1>8, ConcatIs
    <3> QED  BY <1>6, <1>8, <3>1
  <2>2. Len(t) + (n - Len(t)) = n
    BY <1>3
  <2>3. ASSUME NEW i \in 1 .. n
        PROVE  (IF i <= Len(t) THEN u[i] ELSE v[i - Len(t)])
                 = IF i <= Len(s) THEN Upper[s[i]] ELSE Space
    <3>1. CASE i <= Len(t)
      BY <1>2, <1>3, <1>4, <3>1
    <3>2. CASE ~ (i <= Len(t))
      <4>1. i - Len(t) \in 1 .. n - Len(t) /\ ~ (i <= Len(s))
        BY <1>2, <1>3, <3>2
      <4> QED  BY <1>7, <3>2, <4>1
    <3> QED  BY <3>1, <3>2
  <2> QED  BY <2>1, <2>2, <2>3
<1> QED  BY <1>1, <1>5, <1>6, <1>7, <1>9 DEF Padded

DiskForm(base, ext) ==
  [i \in 1 .. NameSize |->
     IF i <= BaseSize THEN IF i <= Len(base) THEN Upper[base[i]] ELSE Space
     ELSE IF i - BaseSize <= Len(ext) THEN Upper[ext[i - BaseSize]] ELSE Space]

LEMMA OnDiskIs ==
  ASSUME NEW b \in Seq(Chars), NEW e \in Seq(Chars)
  PROVE  /\ OnDisk(b, e) = DiskForm(b, e)
         /\ OnDisk(b, e) \in Seq(Chars) /\ Len(OnDisk(b, e)) = NameSize
<1>0. Len(b) \in Nat /\ Len(e) \in Nat
  BY LenProperties
<1>1. PICK u : u = [i \in 1 .. BaseSize |-> IF i <= Len(b) THEN Upper[b[i]] ELSE Space]
  OBVIOUS
<1>2. PICK v : v = [i \in 1 .. ExtSize |-> IF i <= Len(e) THEN Upper[e[i]] ELSE Space]
  OBVIOUS
<1>3. OnDisk(b, e) = u \o v
  BY <1>1, <1>2, PaddedIs, NameFacts DEF OnDisk
<1>4. u \in Seq(Chars) /\ Len(u) = BaseSize
  <2>1. ASSUME NEW i \in 1 .. BaseSize PROVE u[i] \in Chars
    <3>1. CASE i <= Len(b)
      <4>1. i \in 1 .. Len(b)
        BY <1>0, <3>1
      <4>2. b[i] \in Chars
        BY <4>1
      <4> QED  BY <1>1, <3>1, <4>2, UpperFacts
    <3>2. CASE ~ (i <= Len(b))
      BY <1>1, <3>2, NameFacts
    <3> QED  BY <3>1, <3>2
  <2>2. u \in [1 .. BaseSize -> Chars] /\ BaseSize \in Nat
    BY <1>1, <2>1, NameFacts
  <2> QED  BY ONLY <2>2
<1>5. v \in Seq(Chars) /\ Len(v) = ExtSize
  <2>1. ASSUME NEW i \in 1 .. ExtSize PROVE v[i] \in Chars
    <3>1. CASE i <= Len(e)
      <4>1. i \in 1 .. Len(e)
        BY <1>0, <3>1
      <4>2. e[i] \in Chars
        BY <4>1
      <4> QED  BY <1>2, <3>1, <4>2, UpperFacts
    <3>2. CASE ~ (i <= Len(e))
      BY <1>2, <3>2, NameFacts
    <3> QED  BY <3>1, <3>2
  <2>2. v \in [1 .. ExtSize -> Chars] /\ ExtSize \in Nat
    BY <1>2, <2>1, NameFacts
  <2> QED  BY ONLY <2>2
<1>6. u \o v = DiskForm(b, e)
  <2>1. u \o v = [i \in 1 .. BaseSize + ExtSize |->
                     IF i <= BaseSize THEN u[i] ELSE v[i - BaseSize]]
    <3>1. u \o v = [i \in 1 .. Len(u) + Len(v) |->
                       IF i <= Len(u) THEN u[i] ELSE v[i - Len(u)]]
      <4>1. u \in Seq(Chars) /\ v \in Seq(Chars)
        BY <1>4, <1>5
      <4> QED  BY ONLY <4>1, ConcatIs
    <3> QED  BY <1>4, <1>5, <3>1
  <2>2. ASSUME NEW i \in 1 .. BaseSize + ExtSize
        PROVE  (IF i <= BaseSize THEN u[i] ELSE v[i - BaseSize]) =
               IF i <= BaseSize THEN IF i <= Len(b) THEN Upper[b[i]] ELSE Space
               ELSE IF i - BaseSize <= Len(e) THEN Upper[e[i - BaseSize]] ELSE Space
    BY <1>0, <1>1, <1>2, NameFacts
  <2> QED  BY <2>1, <2>2 DEF DiskForm, NameSize
<1>7. u \o v \in Seq(Chars) /\ Len(u \o v) = BaseSize + ExtSize
  BY <1>4, <1>5, ConcatProperties
<1> QED  BY <1>3, <1>6, <1>7 DEF NameSize

LEMMA AppendOne ==
  ASSUME NEW s \in Seq(Chars), NEW c \in Chars
  PROVE  /\ s \o <<c>> \in Seq(Chars) /\ Len(s \o <<c>>) = Len(s) + 1
         /\ (s \o <<c>>)[Len(s) + 1] = c
         /\ \A i \in 1 .. Len(s) : (s \o <<c>>)[i] = s[i]
<1>1. <<c>> \in Seq(Chars) /\ Len(<<c>>) = 1 /\ <<c>>[1] = c /\ Len(s) \in Nat
  BY LenProperties
<1> QED  BY <1>1, ConcatProperties

(* Names of letters.                                                       *)
Plain == Chars \ {Dot, Space, Nul}

LEMMA PlainSeq ==
  ASSUME NEW s \in Seq(Plain)
  PROVE  /\ s \in Seq(Chars) /\ Len(s) \in Nat
         /\ \A i \in 1 .. Len(s) : s[i] \in Plain
<1>1. Len(s) \in Nat /\ \A i \in 1 .. Len(s) : s[i] \in Plain
  BY LenProperties, ElementOfSeq
<1> QED  BY <1>1 DEF Plain

LEMMA SpelledIs ==
  ASSUME NEW b \in Seq(Plain), NEW e \in Seq(Plain), e # << >>
  PROVE  LET name == Spelled(b, e)
         IN /\ name \in Seq(Chars) /\ Len(name) = Len(b) + 1 + Len(e)
            /\ \A i \in 1 .. Len(b) : name[i] = b[i]
            /\ name[Len(b) + 1] = Dot
            /\ \A i \in 1 .. Len(e) : name[Len(b) + 1 + i] = e[i]
<1>1. /\ b \in Seq(Chars) /\ e \in Seq(Chars) /\ Len(b) \in Nat /\ Len(e) \in Nat
      /\ <<Dot>> \in Seq(Chars) /\ Len(<<Dot>>) = 1 /\ <<Dot>>[1] = Dot
  BY PlainSeq, NameFacts
<1>2. PICK u : u = b \o <<Dot>>
  OBVIOUS
<1>3. /\ u \in Seq(Chars) /\ Len(u) = Len(b) + 1 /\ u[Len(b) + 1] = Dot
      /\ \A i \in 1 .. Len(b) : u[i] = b[i]
  BY <1>1, <1>2, ConcatProperties
<1>4. PICK name : name = u \o e
  OBVIOUS
<1>5. /\ name \in Seq(Chars) /\ Len(name) = Len(u) + Len(e)
      /\ \A i \in 1 .. Len(name) : name[i] = IF i <= Len(u) THEN u[i] ELSE e[i - Len(u)]
  <2>1. u \o e = [i \in 1 .. Len(u) + Len(e) |->
                     IF i <= Len(u) THEN u[i] ELSE e[i - Len(u)]]
    BY <1>1, <1>3, ConcatIs
  <2>2. u \o e \in Seq(Chars) /\ Len(u \o e) = Len(u) + Len(e)
    BY <1>1, <1>3, ConcatProperties
  <2> QED  BY <1>4, <2>1, <2>2
<1>6. Spelled(b, e) = name
  BY <1>2, <1>4 DEF Spelled
<1>7. /\ \A i \in 1 .. Len(b) : name[i] = b[i]
      /\ name[Len(b) + 1] = Dot
  BY <1>1, <1>3, <1>5
<1>8. ASSUME NEW i \in 1 .. Len(e) PROVE name[Len(b) + 1 + i] = e[i]
  <2>1. PICK j : j = Len(b) + 1 + i
    OBVIOUS
  <2>2. j \in 1 .. Len(name) /\ ~ (j <= Len(u)) /\ j - Len(u) = i
    BY <1>1, <1>3, <1>5, <2>1
  <2> QED  BY <1>5, <2>1, <2>2
<1> QED  BY <1>3, <1>5, <1>6, <1>7, <1>8

(* No character of a name that is spelled ends a string.                   *)
LEMMA SpelledNoNul ==
  ASSUME NEW b \in Seq(Plain), NEW e \in Seq(Plain)
  PROVE  /\ Spelled(b, e) \in Seq(Chars)
         /\ \A i \in 1 .. Len(Spelled(b, e)) : Spelled(b, e)[i] # Nul
<1>1. CASE e = << >>
  BY <1>1, PlainSeq DEF Spelled, Plain
<1>2. CASE e # << >>
  <2>1. PICK name : name = Spelled(b, e)
    OBVIOUS
  <2>2. /\ name \in Seq(Chars) /\ Len(name) = Len(b) + 1 + Len(e)
        /\ \A i \in 1 .. Len(b) : name[i] = b[i]
        /\ name[Len(b) + 1] = Dot
        /\ \A i \in 1 .. Len(e) : name[Len(b) + 1 + i] = e[i]
    BY <1>2, <2>1, SpelledIs
  <2>3. ASSUME NEW i \in 1 .. Len(name) PROVE name[i] # Nul
    <3>0. Len(b) \in Nat /\ Len(e) \in Nat
      BY PlainSeq
    <3>1. CASE i \in 1 .. Len(b)
      BY <2>2, <3>1, PlainSeq DEF Plain
    <3>2. CASE i = Len(b) + 1
      BY <2>2, <3>2, NameFacts
    <3>3. CASE i \in Len(b) + 2 .. Len(name)
      <4>1. PICK j : j = i - (Len(b) + 1)
        OBVIOUS
      <4>2. j \in 1 .. Len(e) /\ Len(b) + 1 + j = i
        BY <2>2, <3>0, <3>3, <4>1
      <4>3. name[i] = e[j]
        BY <2>2, <4>2
      <4> QED  BY <4>2, <4>3, PlainSeq DEF Plain
    <3> QED  BY <2>2, <3>0, <3>1, <3>2, <3>3
  <2> QED  BY <2>1, <2>2, <2>3
<1> QED  BY <1>1, <1>2

(* Where the extension of a name begins.                                   *)
LEMMA SplitAtDot ==
  ASSUME NEW b \in Seq(Plain), NEW e \in Seq(Plain), e # << >>,
         NEW t \in Seq(Chars), NEW x \in Seq(Chars), Len(t) = Len(b) + 1 + Len(x),
         \A i \in 1 .. Len(b) : t[i] = b[i], t[Len(b) + 1] = Dot,
         \A i \in 1 .. Len(x) : t[Len(b) + 1 + i] = x[i]
  PROVE  /\ Before(t, Dot) = b
         /\ From(t, Len(b) + 2) = x
         /\ From(t, Len(b) + 1) # << >> /\ Head(From(t, Len(b) + 1)) = Dot
         /\ Tail(From(t, Len(b) + 1)) = x
<1>1. /\ b \in Seq(Chars) /\ Len(b) \in Nat /\ Len(x) \in Nat /\ Len(t) \in Nat
      /\ \A i \in 1 .. Len(b) : t[i] # Dot
  BY PlainSeq, LenProperties DEF Plain
<1>2. PICK n : n = Len(b)
  OBVIOUS
<1>3. Before(t, Dot) = SubSeq(t, 1, n)
  <2>1. n \in Nat /\ n < Len(t) /\ t[n + 1] = Dot /\ \A i \in 1 .. n : t[i] # Dot
    BY <1>1, <1>2
  <2> QED  BY <2>1, BeforeFirst
<1>4. SubSeq(t, 1, n) = b
  <2>1. /\ SubSeq(t, 1, n) \in Seq(Chars) /\ Len(SubSeq(t, 1, n)) = Len(b)
        /\ \A i \in 1 .. Len(b) : SubSeq(t, 1, n)[i] = b[i]
    <3>1. n \in 0 .. Len(t)
      BY <1>1, <1>2
    <3>2. /\ SubSeq(t, 1, n) \in Seq(Chars) /\ Len(SubSeq(t, 1, n)) = n
          /\ \A i \in 1 .. n : SubSeq(t, 1, n)[i] = t[i]
      BY <3>1
    <3> QED  BY <1>2, <3>2
  <2> QED  BY <1>1, <2>1, SeqEqual
<1>5. From(t, Len(b) + 2) = x
  <2>1. PICK u : u = SubSeq(t, Len(b) + 2, Len(t))
    OBVIOUS
  <2>2. /\ u \in Seq(Chars) /\ Len(u) = Len(x)
        /\ \A i \in 1 .. Len(x) : u[i] = t[Len(b) + 1 + i]
    BY <1>1, <2>1
  <2>3. u = x
    BY <1>1, <2>2, SeqEqual
  <2> QED  BY <2>1, <2>3 DEF From
<1>6. PICK r : r = SubSeq(t, Len(b) + 1, Len(t))
  OBVIOUS
<1>7. /\ r \in Seq(Chars) /\ Len(r) = 1 + Len(x) /\ r[1] = Dot
      /\ \A i \in 1 .. Len(x) : r[1 + i] = x[i]
  <2>1. /\ r \in Seq(Chars) /\ Len(r) = 1 + Len(x)
        /\ \A i \in 1 .. 1 + Len(x) : r[i] = t[Len(b) + i]
    BY <1>1, <1>6
  <2>2. r[1] = Dot
    BY <1>1, <2>1
  <2>3. ASSUME NEW i \in 1 .. Len(x) PROVE r[1 + i] = x[i]
    <3>1. r[1 + i] = t[Len(b) + (1 + i)]
      BY <1>1, <2>1
    <3>2. Len(b) + (1 + i) = Len(b) + 1 + i
      BY <1>1
    <3> QED  BY <3>1, <3>2
  <2> QED  BY <2>1, <2>2, <2>3
<1>8. r # << >> /\ Head(r) = Dot /\ Tail(r) = x
  <2>1. r # << >> /\ Head(r) = r[1]
    BY <1>1, <1>7
  <2>2. /\ Tail(r) \in Seq(Chars) /\ Len(Tail(r)) = Len(x)
        /\ \A i \in 1 .. Len(x) : Tail(r)[i] = r[i + 1]
    BY <1>1, <1>7, <2>1
  <2>3. ASSUME NEW i \in 1 .. Len(x) PROVE Tail(r)[i] = x[i]
    <3>1. i + 1 = 1 + i
      BY <1>1
    <3> QED  BY <1>7, <2>2, <3>1
  <2>4. Tail(r) = x
    BY <2>2, <2>3, SeqEqual
  <2> QED  BY <1>7, <2>1, <2>4
<1> QED  BY <1>3, <1>4, <1>5, <1>6, <1>8 DEF From

LEMMA EmptyFrom ==
  ASSUME NEW s \in Seq(Chars), NEW i \in Nat, i > Len(s)
  PROVE  From(s, i) = << >>
<1>1. Len(s) \in Nat
  BY LenProperties
<1> QED  BY <1>1 DEF From

LEMMA WholeAtMost ==
  ASSUME NEW s \in Seq(Chars), NEW n \in Nat, Len(s) <= n
  PROVE  AtMost(n, s) = s
  BY SubSeqFull, LenProperties DEF AtMost

LEMMA NoDot ==
  ASSUME NEW b \in Seq(Plain)
  PROVE  Before(b, Dot) = b
  BY PlainSeq, BeforeNone DEF Plain

(* The conversions of a name that is spelled with base and extension.      *)
LEMMA ConvertSpelled ==
  ASSUME NEW b \in Seq(Plain), NEW e \in Seq(Plain)
  PROVE  Convert(Spelled(b, e)) = OnDisk(b, e)
<1>1. CASE e = << >>
  <2>1. Spelled(b, e) = b /\ b \in Seq(Chars) /\ Len(b) \in Nat
    BY <1>1, PlainSeq DEF Spelled
  <2>2. From(b, Len(b) + 2) = e
    BY <1>1, <2>1, EmptyFrom
  <2> QED  BY <2>1, <2>2, NoDot DEF Convert
<1>2. CASE e # << >>
  <2>1. PICK t : t = Spelled(b, e)
    OBVIOUS
  <2>2. /\ t \in Seq(Chars) /\ Len(t) = Len(b) + 1 + Len(e)
        /\ \A i \in 1 .. Len(b) : t[i] = b[i]
        /\ t[Len(b) + 1] = Dot
        /\ \A i \in 1 .. Len(e) : t[Len(b) + 1 + i] = e[i]
    BY <1>2, <2>1, SpelledIs
  <2>3. e \in Seq(Chars)
    BY PlainSeq
  <2>4. Before(t, Dot) = b /\ From(t, Len(b) + 2) = e
    BY <1>2, <2>2, <2>3, SplitAtDot
  <2> QED  BY <2>1, <2>4 DEF Convert
<1> QED  BY <1>1, <1>2

(* What Format and Normalised find of base and extension.                  *)
LEMMA TwoParts ==
  ASSUME NEW b \in Seq(Plain), NEW e \in Seq(Plain), Len(b) <= BaseSize,
         NEW t, t = Spelled(b, e)
  PROVE  LET base == AtMost(BaseSize, Before(t, Dot))
             rest == From(t, Len(base) + 1)
         IN /\ base = b
            /\ e = << >> => rest = << >>
            /\ e # << >> => rest # << >> /\ Head(rest) = Dot /\ Tail(rest) = e
<1>1. CASE e = << >>
  <2>1. t = b /\ b \in Seq(Chars) /\ Len(b) \in Nat
    BY <1>1, PlainSeq DEF Spelled
  <2>2. From(b, Len(b) + 1) = << >>
    BY <2>1, EmptyFrom
  <2>3. Before(t, Dot) = b
    BY <2>1, NoDot
  <2>4. AtMost(BaseSize, b) = b
    BY <2>1, WholeAtMost, NameFacts
  <2> QED  BY <1>1, <2>1, <2>2, <2>3, <2>4
<1>2. CASE e # << >>
  <2>1. /\ t \in Seq(Chars) /\ Len(t) = Len(b) + 1 + Len(e)
        /\ \A i \in 1 .. Len(b) : t[i] = b[i]
        /\ t[Len(b) + 1] = Dot
        /\ \A i \in 1 .. Len(e) : t[Len(b) + 1 + i] = e[i]
    BY <1>2, SpelledIs
  <2>2. e \in Seq(Chars) /\ b \in Seq(Chars)
    BY PlainSeq
  <2>3. /\ Before(t, Dot) = b
        /\ From(t, Len(b) + 1) # << >> /\ Head(From(t, Len(b) + 1)) = Dot
        /\ Tail(From(t, Len(b) + 1)) = e
    BY <1>2, <2>1, <2>2, SplitAtDot
  <2>4. AtMost(BaseSize, b) = b
    BY <2>2, WholeAtMost, NameFacts
  <2> QED  BY <1>2, <2>3, <2>4
<1> QED  BY <1>1, <1>2

LEMMA FormatSpelled ==
  ASSUME NEW b \in Seq(Plain), NEW e \in Seq(Plain), Len(b) <= BaseSize
  PROVE  Format(Spelled(b, e)) = OnDisk(b, e)
<1>1. PICK t : t = Spelled(b, e)
  OBVIOUS
<1>2. PICK rest : rest = From(t, Len(b) + 1)
  OBVIOUS
<1>3. /\ AtMost(BaseSize, Before(t, Dot)) = b
      /\ e = << >> => rest = << >>
      /\ e # << >> => rest # << >> /\ Head(rest) = Dot /\ Tail(rest) = e
  BY <1>1, <1>2, TwoParts
<1>4. Format(t) = OnDisk(b, IF rest # << >> /\ Head(rest) = Dot THEN Tail(rest) ELSE << >>)
  BY <1>2, <1>3 DEF Format
<1> QED  BY <1>1, <1>3, <1>4

LEMMA ReadSpelled ==
  ASSUME NEW b \in Seq(Plain), NEW e \in Seq(Plain), Len(b) <= BaseSize,
         NEW name, Before(name, Nul) = Spelled(b, e)
  PROVE  Normalised(name) = OnDisk(b, e)
<1>1. PICK t : t = Spelled(b, e)
  OBVIOUS
<1>2. PICK rest : rest = From(t, Len(b) + 1)
  OBVIOUS
<1>3. /\ AtMost(BaseSize, Before(t, Dot)) = b
      /\ e = << >> => rest = << >>
      /\ e # << >> => rest # << >> /\ Head(rest) = Dot /\ Tail(rest) = e
  BY <1>1, <1>2, TwoParts
<1>4. Normalised(name) =
        OnDisk(b, IF rest # << >> /\ Head(rest) = Dot THEN Tail(rest) ELSE rest)
  BY <1>1, <1>2, <1>3 DEF Normalised
<1> QED  BY <1>3, <1>4

(* An entry's name that is full goes on into the attribute, which does not *)
(* matter if the extension is full as well, or if it reads as a space.     *)
LEMMA ReadFull ==
  ASSUME NEW b \in Seq(Plain), NEW e \in Seq(Plain), e # << >>, Len(b) <= BaseSize,
         NEW attr \in Chars \ {Nul}, Len(e) >= ExtSize \/ attr = Space
  PROVE  Normalised(Spelled(b, e) \o <<attr>>) = OnDisk(b, e)
<1>1. PICK t : t = Spelled(b, e)
  OBVIOUS
<1>2. /\ t \in Seq(Chars) /\ Len(t) = Len(b) + 1 + Len(e)
      /\ \A i \in 1 .. Len(b) : t[i] = b[i]
      /\ t[Len(b) + 1] = Dot
      /\ \A i \in 1 .. Len(e) : t[Len(b) + 1 + i] = e[i]
      /\ \A i \in 1 .. Len(t) : t[i] # Nul
  BY <1>1, SpelledIs, SpelledNoNul
<1>3. /\ b \in Seq(Chars) /\ e \in Seq(Chars) /\ Len(b) \in Nat /\ Len(e) \in Nat
      /\ <<attr>> \in Seq(Chars) /\ Len(<<attr>>) = 1 /\ <<attr>>[1] = attr
  BY PlainSeq
<1>4. PICK u, x : u = t \o <<attr>> /\ x = e \o <<attr>>
  OBVIOUS
<1>5. /\ u \in Seq(Chars) /\ Len(u) = Len(t) + 1 /\ u[Len(t) + 1] = attr
      /\ \A i \in 1 .. Len(t) : u[i] = t[i]
  BY <1>2, <1>3, <1>4, AppendOne
<1>6. /\ x \in Seq(Chars) /\ Len(x) = Len(e) + 1 /\ x[Len(e) + 1] = attr
      /\ \A i \in 1 .. Len(e) : x[i] = e[i]
  BY <1>3, <1>4, AppendOne
<1>7. Before(u, Nul) = u
  <2>1. ASSUME NEW i \in 1 .. Len(u) PROVE u[i] # Nul
    <3>1. CASE i \in 1 .. Len(t)
      BY <1>2, <1>5, <3>1
    <3>2. CASE i = Len(t) + 1
      BY <1>5, <3>2
    <3>3. Len(t) \in Nat
      BY <1>2, <1>3
    <3> QED  BY <1>5, <3>1, <3>2, <3>3
  <2> QED  BY <1>5, <2>1, BeforeNone
<1>8. /\ Len(u) = Len(b) + 1 + Len(x)
      /\ \A i \in 1 .. Len(b) : u[i] = b[i]
      /\ u[Len(b) + 1] = Dot
  BY <1>2, <1>3, <1>5, <1>6
<1>9. ASSUME NEW i \in 1 .. Len(x) PROVE u[Len(b) + 1 + i] = x[i]
  <2>1. PICK j : j = Len(b) + 1 + i
    OBVIOUS
  <2>2. CASE i = Len(e) + 1
    BY <1>2, <1>3, <1>5, <1>6, <2>2
  <2>3. CASE i \in 1 .. Len(e)
    <3>1. j \in 1 .. Len(t)
      BY <1>2, <1>3, <2>1, <2>3
    <3>2. t[j] = e[i]
      BY <1>2, <2>1, <2>3
    <3> QED  BY <1>5, <1>6, <2>1, <2>3, <3>1, <3>2
  <2> QED  BY <1>3, <1>6, <2>2, <2>3
<1>10. /\ Before(u, Dot) = b
       /\ From(u, Len(b) + 1) # << >> /\ Head(From(u, Len(b) + 1)) = Dot
       /\ Tail(From(u, Len(b) + 1)) = x
  BY <1>5, <1>6, <1>8, <1>9, SplitAtDot
<1>11. AtMost(BaseSize, b) = b
  BY <1>3, WholeAtMost, NameFacts
<1>12. Normalised(u) = OnDisk(b, x)
  BY <1>7, <1>10, <1>11 DEF Normalised
<1>13. OnDisk(b, x) = OnDisk(b, e)
  <2>1. ASSUME NEW i \in 1 .. NameSize, ~ (i <= BaseSize)
        PROVE  (IF i - BaseSize <= Len(x) THEN Upper[x[i - BaseSize]] ELSE Space) =
               IF i - BaseSize <= Len(e) THEN Upper[e[i - BaseSize]] ELSE Space
    <3>1. PICK j : j = i - BaseSize
      OBVIOUS
    <3>2. j \in Nat /\ 1 <= j /\ j <= ExtSize
      BY <2>1, <3>1, NameFacts
    <3>3. CASE j <= Len(e)
      BY <1>3, <1>6, <3>1, <3>2, <3>3
    <3>4. CASE j = Len(e) + 1
      <4>1. attr = Space
        BY <1>3, <3>2, <3>4, NameFacts
      <4> QED  BY <1>3, <1>6, <3>1, <3>4, <4>1, NameFacts
    <3>5. CASE j > Len(e) + 1
      BY <1>3, <1>6, <3>1, <3>5, <3>2
    <3> QED  BY <1>3, <3>2, <3>3, <3>4, <3>5
  <2>2. DiskForm(b, x) = DiskForm(b, e)
    BY <2>1 DEF DiskForm
  <2> QED  BY <1>3, <1>6, <2>2, OnDiskIs
<1> QED  BY <1>1, <1>4, <1>12, <1>13

(* A converted name is read as itself.                                     *)
LEMMA ReadWritten ==
  ASSUME NEW b \in Seq(Plain), NEW e \in Seq(Plain)
  PROVE  Normalised(OnDisk(b, e) \o <<Space>>) = OnDisk(b, e)
<1>1. PICK d : d = OnDisk(b, e)
  OBVIOUS
<1>2. PICK u : u = d \o <<Space>>
  OBVIOUS
<1>3. d \in Seq(Chars) /\ Len(d) = NameSize /\ d = DiskForm(b, e)
  BY <1>1, OnDiskIs, PlainSeq
<1>4. ASSUME NEW i \in 1 .. NameSize
      PROVE  d[i] \in Chars \ {Dot, Nul} /\ Upper[d[i]] = d[i]
  <2>1. ASSUME NEW c \in Plain
        PROVE  Upper[c] \in Chars \ {Dot, Nul} /\ Upper[Upper[c]] = Upper[c]
    BY UpperFacts DEF Plain
  <2>2. Len(b) \in Nat /\ Len(e) \in Nat
    BY PlainSeq
  <2>3. d[i] = Space \/ \E c \in Plain : d[i] = Upper[c]
    <3>1. CASE i <= BaseSize /\ i <= Len(b)
      <4>1. i \in 1 .. Len(b)
        BY <2>2, <3>1
      <4>2. b[i] \in Plain /\ d[i] = Upper[b[i]]
        BY <1>3, <3>1, <4>1, PlainSeq DEF DiskForm
      <4> QED  BY <4>2
    <3>2. CASE ~ (i <= BaseSize) /\ i - BaseSize <= Len(e)
      <4>1. i - BaseSize \in 1 .. Len(e)
        BY <2>2, <3>2, NameFacts
      <4>2. e[i - BaseSize] \in Plain /\ d[i] = Upper[e[i - BaseSize]]
        BY <1>3, <3>2, <4>1, PlainSeq DEF DiskForm
      <4> QED  BY <4>2
    <3>3. CASE ~ (i <= BaseSize /\ i <= Len(b)) /\ ~ (~ (i <= BaseSize) /\ i - BaseSize <= Len(e))
      BY <1>3, <3>3 DEF DiskForm
    <3> QED  BY <3>1, <3>2, <3>3
  <2> QED  BY <2>1, <2>3, NameFacts
<1>5. /\ u \in Seq(Chars) /\ Len(u) = NameSize + 1 /\ u[NameSize + 1] = Space
      /\ \A i \in 1 .. NameSize : u[i] = d[i]
  <2>1. d \in Seq(Chars) /\ Len(d) = NameSize
    BY <1>3
  <2>2. Space \in Chars
    BY NameFacts
  <2>3. /\ u \in Seq(Chars) /\ Len(u) = Len(d) + 1 /\ u[Len(d) + 1] = Space
        /\ \A i \in 1 .. Len(d) : u[i] = d[i]
    BY <1>2, <2>1, <2>2, AppendOne
  <2> QED  BY <2>1, <2>3
<1>6. ASSUME NEW i \in 1 .. Len(u) PROVE u[i] # Nul /\ u[i] # Dot
  <2>1. CASE i \in 1 .. NameSize
    BY <1>4, <1>5, <2>1
  <2>2. CASE i = NameSize + 1
    BY <1>5, <2>2, NameFacts
  <2> QED  BY <1>5, <2>1, <2>2, NameFacts
<1>7. Before(u, Nul) = u /\ Before(u, Dot) = u
  BY <1>5, <1>6, BeforeNone
<1>8. PICK base : base = AtMost(BaseSize, u)
  OBVIOUS
<1>9. /\ base \in Seq(Chars) /\ Len(base) = BaseSize
      /\ \A i \in 1 .. BaseSize : base[i] = d[i]
  <2>1. /\ base \in Seq(Chars) /\ Len(base) = BaseSize
        /\ \A i \in 1 .. BaseSize : base[i] = u[i]
    BY <1>5, <1>8, AtMostIs, NameFacts
  <2> QED  BY <1>5, <2>1, NameFacts
<1>10. PICK rest : rest = From(u, BaseSize + 1)
  OBVIOUS
<1>11. /\ rest \in Seq(Chars) /\ Len(rest) = ExtSize + 1
       /\ \A i \in 1 .. ExtSize : rest[i] = d[BaseSize + i]
  <2>1. PICK first, last : first = BaseSize + 1 /\ last = NameSize + 1
    OBVIOUS
  <2>2. /\ first \in 1 .. Len(u) /\ last = Len(u) /\ last - first + 1 = ExtSize + 1
        /\ rest = SubSeq(u, first, last)
    <3>1. Len(u) = last /\ first \in Nat \ {0} /\ last \in Nat
      BY <1>5, <2>1, NameFacts
    <3>2. rest = SubSeq(u, first, last)
      BY <1>10, <2>1, <3>1 DEF From
    <3>3. first <= last /\ last - first + 1 = ExtSize + 1
      BY <2>1, NameFacts
    <3> QED  BY <3>1, <3>2, <3>3
  <2>3. /\ rest \in Seq(Chars) /\ Len(rest) = ExtSize + 1
        /\ \A i \in 1 .. ExtSize + 1 : rest[i] = u[first + i - 1]
    BY <1>5, <2>1, <2>2, SubSeqProperties, NameFacts
  <2>4. ASSUME NEW i \in 1 .. ExtSize PROVE rest[i] = d[BaseSize + i]
    <3>1. first + i - 1 = BaseSize + i /\ BaseSize + i \in 1 .. NameSize
          /\ i \in 1 .. ExtSize + 1
      BY <2>1, NameFacts
    <3> QED  BY <1>5, <2>3, <3>1
  <2> QED  BY <2>3, <2>4
<1>12. rest # << >> /\ Head(rest) # Dot
  <2>1. 1 \in 1 .. ExtSize /\ BaseSize + 1 \in 1 .. NameSize
    BY NameFacts
  <2>2. d[BaseSize + 1] # Dot
    BY <1>4, <2>1
  <2>3. rest[1] = d[BaseSize + 1]
    BY <1>11, <2>1
  <2>4. rest # << >>
    <3>1. Len(rest) # 0
      BY <1>11, NameFacts
    <3> QED  BY <3>1
  <2> QED  BY <1>11, <2>2, <2>3, <2>4
<1>13. Normalised(u) = OnDisk(base, rest)
  BY <1>7, <1>8, <1>9, <1>10, <1>12 DEF Normalised
<1>14. OnDisk(base, rest) = d
  <2>1. OnDisk(base, rest) = DiskForm(base, rest)
    BY <1>9, <1>11, OnDiskIs
  <2>2. ASSUME NEW i \in 1 .. NameSize PROVE DiskForm(base, rest)[i] = d[i]
    <3>1. CASE i <= BaseSize
      BY <1>4, <1>9, <3>1 DEF DiskForm
    <3>2. CASE ~ (i <= BaseSize)
      <4>1. PICK j : j = i - BaseSize
        OBVIOUS
      <4>2. j \in 1 .. ExtSize /\ BaseSize + j = i /\ j <= Len(rest)
        BY <1>11, <3>2, <4>1, NameFacts
      <4>3. DiskForm(base, rest)[i] = Upper[rest[j]]
        BY <3>2, <4>1, <4>2 DEF DiskForm
      <4>4. rest[j] = d[i]
        BY <1>11, <4>2
      <4> QED  BY <1>4, <4>3, <4>4
    <3> QED  BY <3>1, <3>2
  <2>3. /\ DiskForm(base, rest) = [i \in 1 .. NameSize |-> DiskForm(base, rest)[i]]
        /\ d = [i \in 1 .. NameSize |-> d[i]]
    BY <1>3 DEF DiskForm
  <2> QED  BY <2>1, <2>2, <2>3
<1> QED  BY <1>1, <1>2, <1>13, <1>14

LEMMA BeforeType ==
  ASSUME NEW s \in Seq(Chars), NEW c
  PROVE  /\ Before(s, c) \in Seq(Chars)
         /\ Len(Before(s, c)) <= Len(s)
         /\ \A i \in 1 .. Len(Before(s, c)) : Before(s, c)[i] # c
         /\ \A i \in 1 .. Len(Before(s, c)) : Before(s, c)[i] = s[i]
         /\ Contains(s, c) => Len(Before(s, c)) < Len(s)
<1>1. PICK n \in 0 .. Len(s) : /\ Before(s, c) = SubSeq(s, 1, n)
                               /\ \A i \in 1 .. n : s[i] # c
                               /\ n < Len(s) => s[n + 1] = c
  BY BeforeIs
<1>2. /\ SubSeq(s, 1, n) \in Seq(Chars) /\ Len(SubSeq(s, 1, n)) = n
      /\ \A i \in 1 .. n : SubSeq(s, 1, n)[i] = s[i]
  <2>1. Len(s) \in Nat /\ n \in Nat
    BY LenProperties
  <2> QED  BY <2>1
<1>3. Contains(s, c) => n # Len(s)
  BY <1>1 DEF Contains
<1> QED  BY <1>1, <1>2, <1>3, LenProperties

LEMMA FromType ==
  ASSUME NEW s \in Seq(Chars), NEW i \in Nat \ {0}
  PROVE  /\ From(s, i) \in Seq(Chars)
         /\ \A j \in 1 .. Len(From(s, i)) : \E k \in 1 .. Len(s) : From(s, i)[j] = s[k]
<1>1. Len(s) \in Nat
  BY LenProperties
<1>2. CASE i > Len(s)
  <2>1. From(s, i) = << >>
    BY <1>2, EmptyFrom
  <2> QED  BY <2>1
<1>3. CASE i <= Len(s)
  <2>1. PICK u : u = SubSeq(s, i, Len(s))
    OBVIOUS
  <2>2. /\ u \in Seq(Chars) /\ Len(u) = Len(s) - i + 1
        /\ \A j \in 1 .. Len(s) - i + 1 : u[j] = s[i + j - 1]
    BY <1>1, <1>3, <2>1, SubSeqProperties
  <2>3. ASSUME NEW j \in 1 .. Len(u) PROVE \E k \in 1 .. Len(s) : u[j] = s[k]
    <3>1. i + j - 1 \in 1 .. Len(s)
      BY <1>1, <1>3, <2>2
    <3> QED  BY <2>2, <3>1
  <2> QED  BY <2>1, <2>2, <2>3 DEF From
<1> QED  BY <1>1, <1>2, <1>3

LEMMA ConvertType ==
  ASSUME NEW s \in Seq(Chars)
  PROVE  Convert(s) \in Seq(Chars) /\ Len(Convert(s)) = NameSize
<1>1. PICK base : base = Before(s, Dot)
  OBVIOUS
<1>2. base \in Seq(Chars) /\ Len(base) + 2 \in Nat \ {0}
  BY <1>1, BeforeType, LenProperties
<1>3. From(s, Len(base) + 2) \in Seq(Chars)
  BY <1>2, FromType
<1> QED  BY <1>1, <1>2, <1>3, OnDiskIs DEF Convert

LEMMA FormatType ==
  ASSUME NEW s \in Seq(Chars)
  PROVE  Format(s) \in Seq(Chars) /\ Len(Format(s)) = NameSize
<1>1. PICK base : base = AtMost(BaseSize, Before(s, Dot))
  OBVIOUS
<1>2. base \in Seq(Chars) /\ Len(base) + 1 \in Nat \ {0}
  BY <1>1, BeforeType, AtMostIs, NameFacts, LenProperties
<1>3. PICK rest : rest = From(s, Len(base) + 1)
  OBVIOUS
<1>4. rest \in Seq(Chars)
  BY <1>2, <1>3, FromType
<1>5. PICK ext : ext = IF rest # << >> /\ Head(rest) = Dot THEN Tail(rest) ELSE << >>
  OBVIOUS
<1>6. ext \in Seq(Chars)
  BY <1>4, <1>5
<1> QED  BY <1>1, <1>2, <1>3, <1>5, <1>6, OnDiskIs DEF Format

----------------------------------------------------------------------------
(* The entries and the commands.                                           *)

(* The entry bears what was typed, with its zero byte if there is room.    *)
AsTyped(raw, name) ==
  /\ raw \in Seq(Chars) /\ Len(name) <= Len(raw) /\ Len(raw) <= NameSize
  /\ \A i \in 1 .. Len(name) : raw[i] = name[i]
  /\ Len(name) < NameSize => Len(name) < Len(raw) /\ raw[Len(name) + 1] = Nul

(* What the user called an entry is what it bears, as typed or converted.  *)
Truthful(e) ==
  e.given # None =>
    \E b \in Bases, x \in Exts :
      /\ e.given = Spelled(b, x)
      /\ Len(e.given) <= NameSize =>
           \/ AsTyped(e.name, e.given)
           \/ e.kind = "file" /\ e.name = OnDisk(b, x)

EntryOK(e) ==
  /\ e \in Entries /\ Len(e.name) <= NameSize /\ Truthful(e)

NamesInv ==
  /\ line \in [1 .. LineSize -> Chars]
  /\ dir \in [Slots -> Marks \cup Entries]
  /\ \A s \in Slots : Live(s) => EntryOK(dir[s])

LEMMA PartsPlain ==
  ASSUME NEW b \in Bases, NEW e \in Exts
  PROVE  /\ b \in Seq(Plain) /\ e \in Seq(Plain)
         /\ Len(b) \in Nat /\ Len(b) > 0 /\ Len(b) <= BaseSize
         /\ Len(e) \in Nat /\ Len(e) <= ExtSize
<1>1. b \in Seq(Plain) /\ e \in Seq(Plain) /\ Len(b) \in 1 .. BaseSize /\ Len(e) <= ExtSize
  BY ShellAssumption DEF Plain
<1> QED  BY <1>1, LenProperties, NameFacts

(* An entry that bears a name as it was typed is read as its converted     *)
(* form, unless the attribute behind a full name counts.                   *)
LEMMA ReadTyped ==
  ASSUME NEW b \in Bases, NEW e \in Exts, NEW name, name = Spelled(b, e),
         Len(name) <= NameSize, NEW raw, AsTyped(raw, name),
         NEW attr \in Chars \ {Nul}, attr = Space \/ ~ ReadsAttribute(name)
  PROVE  Normalised(raw \o <<attr>>) = OnDisk(b, e)
<1>1. /\ b \in Seq(Plain) /\ e \in Seq(Plain)
      /\ Len(b) \in Nat /\ Len(b) > 0 /\ Len(b) <= BaseSize /\ Len(e) \in Nat
  BY PartsPlain
<1>2. /\ name \in Seq(Chars) /\ Len(name) \in Nat
      /\ \A i \in 1 .. Len(name) : name[i] # Nul
  BY <1>1, SpelledNoNul, LenProperties
<1>3. /\ raw \in Seq(Chars) /\ Len(raw) \in Nat /\ Len(name) <= Len(raw)
      /\ Len(raw) <= NameSize /\ \A i \in 1 .. Len(name) : raw[i] = name[i]
  BY LenProperties DEF AsTyped
<1>4. CASE Len(name) < NameSize
  <2>1. Len(name) < Len(raw) /\ raw[Len(name) + 1] = Nul
    BY <1>4 DEF AsTyped
  <2>2. PICK u, n : u = raw \o <<attr>> /\ n = Len(name)
    OBVIOUS
  <2>3. /\ u \in Seq(Chars) /\ Len(u) = Len(raw) + 1
        /\ \A i \in 1 .. Len(raw) : u[i] = raw[i]
    BY <1>3, <2>2, AppendOne
  <2>4. /\ n \in Nat /\ n < Len(u) /\ u[n + 1] = Nul
        /\ \A i \in 1 .. n : u[i] = name[i] /\ u[i] # Nul
    BY <1>2, <1>3, <2>1, <2>2, <2>3
  <2>5. Before(u, Nul) = SubSeq(u, 1, n)
    BY <2>3, <2>4, BeforeFirst
  <2>6. SubSeq(u, 1, n) = name
    <3>1. n \in 0 .. Len(u)
      BY <2>3, <2>4, LenProperties
    <3>2. /\ SubSeq(u, 1, n) \in Seq(Chars) /\ Len(SubSeq(u, 1, n)) = n
          /\ \A i \in 1 .. n : SubSeq(u, 1, n)[i] = u[i]
      BY <2>3, <3>1
    <3> QED  BY <1>2, <2>2, <2>4, <3>2, SeqEqual
  <2>7. Before(u, Nul) = Spelled(b, e)
    BY <2>5, <2>6
  <2> QED  BY <1>1, <2>2, <2>7, ReadSpelled
<1>5. CASE ~ (Len(name) < NameSize)
  <2>1. Len(name) = NameSize /\ Len(raw) = Len(name)
    BY <1>2, <1>3, <1>5, NameFacts
  <2>2. raw = name
    BY <1>2, <1>3, <2>1, SeqEqual
  <2>3. e # << >>
    <3> SUFFICES ASSUME e = << >> PROVE FALSE
      OBVIOUS
    <3>1. name = b
      BY DEF Spelled
    <3> QED  BY <1>1, <2>1, <3>1, NameFacts
  <2>4. Len(name) = Len(b) + 1 + Len(e)
    BY <1>1, <2>3, SpelledIs
  <2>5. Before(name, Dot) = b
    <3>1. /\ name \in Seq(Chars) /\ e \in Seq(Chars)
          /\ \A i \in 1 .. Len(b) : name[i] = b[i]
          /\ name[Len(b) + 1] = Dot
          /\ \A i \in 1 .. Len(e) : name[Len(b) + 1 + i] = e[i]
      BY <1>1, <1>2, <2>3, SpelledIs, PlainSeq
    <3> QED  BY <1>1, <2>3, <2>4, <3>1, SplitAtDot
  <2>6. Len(e) >= ExtSize \/ attr = Space
    <3> SUFFICES ASSUME ~ ReadsAttribute(name) PROVE Len(e) >= ExtSize
      OBVIOUS
    <3>1. Len(b) # BaseSize
      BY <2>1, <2>5 DEF ReadsAttribute
    <3>2. PICK m, k : m = Len(b) /\ k = Len(e)
      OBVIOUS
    <3>3. /\ m \in Nat /\ k \in Nat /\ m <= BaseSize /\ m # BaseSize
          /\ m + 1 + k = BaseSize + ExtSize /\ BaseSize \in Nat /\ ExtSize \in Nat
      BY <1>1, <2>1, <2>4, <3>1, <3>2, NameFacts
    <3>4. k >= ExtSize
      BY ONLY <3>3
    <3> QED  BY <3>2, <3>4
  <2>7. Normalised(name \o <<attr>>) = OnDisk(b, e)
    BY <1>1, <2>3, <2>6, ReadFull
  <2> QED  BY <2>2, <2>7
<1> QED  BY <1>4, <1>5

LEMMA FoundState == NamesInv => FoundAsNamed
<1> SUFFICES ASSUME NamesInv, NEW s \in Slots, Live(s), dir[s].given # None,
                    Len(dir[s].given) <= NameSize,
                    dir[s].kind = "directory" => ~ ReadsAttribute(dir[s].given)
             PROVE  Read(dir[s]) = Format(dir[s].given)
  BY DEF FoundAsNamed
<1>1. PICK d : d = dir[s]
  OBVIOUS
<1>2. EntryOK(d) /\ d.kind \in {"file", "directory"}
  BY <1>1 DEF NamesInv, EntryOK, Entries
<1>3. PICK b \in Bases, x \in Exts :
        /\ d.given = Spelled(b, x)
        /\ AsTyped(d.name, d.given) \/ (d.kind = "file" /\ d.name = OnDisk(b, x))
  BY <1>1, <1>2 DEF EntryOK, Truthful
<1>4. /\ b \in Seq(Plain) /\ x \in Seq(Plain) /\ Len(b) <= BaseSize
  BY PartsPlain
<1>5. Format(d.given) = OnDisk(b, x)
  BY <1>3, <1>4, FormatSpelled
<1>6. PICK attr : attr = IF d.kind = "file" THEN Space ELSE Letter
  OBVIOUS
<1>7. attr \in Chars \ {Nul} /\ Read(d) = Normalised(d.name \o <<attr>>)
  BY <1>6, NameFacts, ShellAssumption DEF Read
<1>8. CASE AsTyped(d.name, d.given)
  <2>1. attr = Space \/ ~ ReadsAttribute(d.given)
    BY <1>1, <1>2, <1>6
  <2>2. Normalised(d.name \o <<attr>>) = OnDisk(b, x)
    BY <1>1, <1>3, <1>7, <1>8, <2>1, ReadTyped
  <2> QED  BY <1>1, <1>5, <1>7, <2>2
<1>9. CASE d.kind = "file" /\ d.name = OnDisk(b, x)
  BY <1>1, <1>4, <1>5, <1>6, <1>7, <1>9, ReadWritten
<1> QED  BY <1>3, <1>8, <1>9

(* What a command leaves in the line, and what the driver takes from it.   *)
LEMMA TypeLine ==
  ASSUME line \in [1 .. LineSize -> Chars], NEW cmd \in Commands,
         NEW arg \in Seq(Chars), Type(cmd, arg)
  PROVE  line' \in [1 .. LineSize -> Chars]
<1>1. PICK start : start = Offset[cmd]
  OBVIOUS
<1>2. start \in Nat /\ Len(arg) \in Nat /\ LineSize \in Nat /\ Letter \in Chars
  BY <1>1, ShellAssumption, LenProperties
<1>3. line' = [i \in 1 .. LineSize |->
                 IF i < start - 1 THEN Letter
                 ELSE IF i = start - 1 \/ i = start + Len(arg) THEN Nul
                 ELSE IF i < start + Len(arg) THEN arg[i - start + 1]
                 ELSE line[i]]
  BY <1>1 DEF Type
<1>4. ASSUME NEW i \in 1 .. LineSize, start <= i, i < start + Len(arg)
      PROVE  arg[i - start + 1] \in Chars
  <2>1. i - start + 1 \in 1 .. Len(arg)
    BY <1>2, <1>4
  <2> QED  BY <2>1, ElementOfSeq
<1>5. ASSUME NEW i \in 1 .. LineSize
      PROVE  (IF i < start - 1 THEN Letter
              ELSE IF i = start - 1 \/ i = start + Len(arg) THEN Nul
              ELSE IF i < start + Len(arg) THEN arg[i - start + 1]
              ELSE line[i]) \in Chars
  <2>1. CASE start <= i /\ i < start + Len(arg)
    BY <1>2, <1>4, <2>1
  <2>2. CASE ~ (start <= i /\ i < start + Len(arg))
    <3>1. i < start - 1 \/ i = start - 1 \/ ~ (i < start + Len(arg))
      BY <1>2, <2>2
    <3> QED  BY <1>2, <3>1, NameFacts
  <2> QED  BY <2>1, <2>2
<1> QED  BY <1>3, <1>5

LEMMA TypeArgument ==
  ASSUME line \in [1 .. LineSize -> Chars], NEW cmd \in Commands,
         NEW arg \in Arguments, Type(cmd, arg)
  PROVE  LET start == Offset[cmd]
         IN /\ start \in Nat /\ start > 1 /\ start + Len(arg) <= LineSize
            /\ start + NameSize <= LineSize + 1 /\ LineSize \in Nat
            /\ arg \in Seq(Chars) /\ Len(arg) \in Nat
            /\ \A i \in 1 .. Len(arg) : arg[i] # Nul /\ line'[start - 1 + i] = arg[i]
            /\ line'[start + Len(arg)] = Nul
<1>1. PICK start : start = Offset[cmd]
  OBVIOUS
<1>2. /\ start \in Nat /\ start > 1 /\ start + Len(arg) <= LineSize
      /\ start + NameSize <= LineSize + 1 /\ LineSize \in Nat
      /\ arg \in Seq(Chars \ {Nul, Space})
  BY <1>1, ShellAssumption
<1>3. /\ arg \in Seq(Chars) /\ Len(arg) \in Nat
      /\ \A i \in 1 .. Len(arg) : arg[i] # Nul
  BY <1>2, LenProperties, ElementOfSeq
<1>4. line' = [i \in 1 .. LineSize |->
                 IF i < start - 1 THEN Letter
                 ELSE IF i = start - 1 \/ i = start + Len(arg) THEN Nul
                 ELSE IF i < start + Len(arg) THEN arg[i - start + 1]
                 ELSE line[i]]
  BY <1>1 DEF Type
<1>5. ASSUME NEW i \in 1 .. Len(arg) PROVE line'[start - 1 + i] = arg[i]
  <2>1. PICK j : j = start - 1 + i
    OBVIOUS
  <2>2. /\ j \in 1 .. LineSize /\ ~ (j < start - 1) /\ j # start - 1
        /\ j # start + Len(arg) /\ j < start + Len(arg) /\ j - start + 1 = i
    BY <1>2, <1>3, <2>1
  <2> QED  BY <1>4, <2>1, <2>2
<1>6. line'[start + Len(arg)] = Nul
  <2>1. PICK j : j = start + Len(arg)
    OBVIOUS
  <2>2. j \in 1 .. LineSize /\ ~ (j < start - 1)
    BY <1>2, <1>3, <2>1
  <2> QED  BY <1>4, <2>1, <2>2
<1> QED  BY <1>1, <1>2, <1>3, <1>5, <1>6

(* The driver's copy is what was typed, with its zero byte.                *)
LEMMA RawTyped ==
  ASSUME line \in [1 .. LineSize -> Chars], NEW cmd \in Commands,
         NEW arg \in Arguments, Type(cmd, arg)
  PROVE  /\ Raw(cmd) \in Seq(Chars) /\ Len(Raw(cmd)) = NameSize
         /\ Len(arg) <= NameSize => AsTyped(Raw(cmd), arg)
<1>1. PICK start, n, l : start = Offset[cmd] /\ n = Len(arg) /\ l = line'
  OBVIOUS
<1>2. /\ start \in Nat /\ start > 1 /\ start + n <= LineSize
      /\ start + NameSize <= LineSize + 1 /\ LineSize \in Nat
      /\ arg \in Seq(Chars) /\ n \in Nat
      /\ \A i \in 1 .. n : l[start - 1 + i] = arg[i]
      /\ l[start + n] = Nul
  BY <1>1, TypeArgument
<1>3. l \in [1 .. LineSize -> Chars]
  BY <1>1, <1>2, TypeLine
<1>4. l \in Seq(Chars) /\ Len(l) = LineSize
  BY <1>2, <1>3
<1>5. PICK raw : raw = Raw(cmd)
  OBVIOUS
<1>6. /\ raw \in Seq(Chars) /\ Len(raw) = NameSize
      /\ \A i \in 1 .. NameSize : raw[i] = l[start - 1 + i]
  <2>1. PICK last : last = start + NameSize - 1
    OBVIOUS
  <2>2. /\ raw = SubSeq(l, start, last) /\ start \in 1 .. Len(l) /\ last \in start .. Len(l)
        /\ last - start + 1 = NameSize
    <3>1. raw = SubSeq(l, start, last)
      BY <1>1, <1>5, <2>1 DEF Raw
    <3> QED  BY <1>2, <1>4, <2>1, <3>1, NameFacts
  <2>3. /\ raw \in Seq(Chars) /\ Len(raw) = NameSize
        /\ \A i \in 1 .. NameSize : raw[i] = l[start + i - 1]
    BY <1>2, <1>4, <2>2, SubSeqProperties
  <2>4. \A i \in 1 .. NameSize : start + i - 1 = start - 1 + i
    BY <1>2
  <2> QED  BY <2>3, <2>4
<1>7. ASSUME n <= NameSize PROVE AsTyped(raw, arg)
  <2>1. \A i \in 1 .. n : raw[i] = arg[i]
    <3>1. \A i \in 1 .. n : i \in 1 .. NameSize
      BY <1>2, <1>7, NameFacts
    <3> QED  BY <1>2, <1>6, <3>1
  <2>2. ASSUME n < NameSize PROVE raw[n + 1] = Nul
    <3>1. n + 1 \in 1 .. NameSize /\ start - 1 + (n + 1) = start + n
      BY <1>2, <2>2, NameFacts
    <3>2. PICK j : j = n + 1
      OBVIOUS
    <3>3. raw[j] = l[start - 1 + j] /\ start - 1 + j = start + n
      BY <1>6, <3>1, <3>2
    <3> QED  BY <1>2, <3>2, <3>3
  <2> QED  BY <1>1, <1>6, <1>7, <2>1, <2>2, NameFacts DEF AsTyped
<1> QED  BY <1>1, <1>5, <1>6, <1>7

(* The name a delete was given.                                            *)
LEMMA DeleteArgIs ==
  ASSUME line \in [1 .. LineSize -> Chars], NEW arg \in Arguments, Type("delete", arg)
  PROVE  DeleteArg' = arg
<1>0. "delete" \in Commands
  BY ShellAssumption
<1>1. PICK start, n, l : start = Offset["delete"] /\ n = Len(arg) /\ l = line'
  OBVIOUS
<1>2. /\ start \in Nat /\ start > 1 /\ start + n <= LineSize /\ LineSize \in Nat
      /\ arg \in Seq(Chars) /\ n \in Nat
      /\ \A i \in 1 .. n : arg[i] # Nul /\ l[start - 1 + i] = arg[i]
      /\ l[start + n] = Nul
  BY <1>0, <1>1, TypeArgument
<1>3. l \in [1 .. LineSize -> Chars]
  BY <1>0, <1>1, <1>2, TypeLine
<1>4. l \in Seq(Chars) /\ Len(l) = LineSize
  BY <1>2, <1>3
<1>5. PICK v : v = SubSeq(l, start, LineSize)
  OBVIOUS
<1>6. /\ v \in Seq(Chars) /\ Len(v) = LineSize - start + 1
      /\ \A i \in 1 .. Len(v) : v[i] = l[start - 1 + i]
  <2>1. start \in 1 .. Len(l) /\ LineSize \in start .. Len(l)
    BY <1>2, <1>4
  <2>2. /\ v \in Seq(Chars) /\ Len(v) = LineSize - start + 1
        /\ \A i \in 1 .. LineSize - start + 1 : v[i] = l[start + i - 1]
    BY <1>4, <1>5, <2>1, SubSeqProperties
  <2>3. \A i \in 1 .. LineSize - start + 1 : start + i - 1 = start - 1 + i
    BY <1>2
  <2> QED  BY <2>2, <2>3
<1>7. n < Len(v) /\ v[n + 1] = Nul
  <2>1. n + 1 \in 1 .. Len(v) /\ start - 1 + (n + 1) = start + n
    BY <1>2, <1>6
  <2>2. PICK j : j = n + 1
    OBVIOUS
  <2>3. v[j] = l[start - 1 + j] /\ start - 1 + j = start + n
    BY <1>6, <2>1, <2>2
  <2> QED  BY <1>2, <1>6, <2>1, <2>2, <2>3
<1>8. \A i \in 1 .. n : v[i] = arg[i] /\ v[i] # Nul
  <2>1. \A i \in 1 .. n : i \in 1 .. Len(v)
    BY <1>2, <1>6
  <2> QED  BY <1>2, <1>6, <2>1
<1>9. Before(v, Nul) = SubSeq(v, 1, n)
  BY <1>2, <1>6, <1>7, <1>8, BeforeFirst
<1>10. SubSeq(v, 1, n) = arg
  <2>1. n \in 0 .. Len(v)
    BY <1>2, <1>6, <1>7
  <2>2. /\ SubSeq(v, 1, n) \in Seq(Chars) /\ Len(SubSeq(v, 1, n)) = n
        /\ \A i \in 1 .. n : SubSeq(v, 1, n)[i] = v[i]
    BY <1>6, <2>1
  <2> QED  BY <1>1, <1>2, <1>8, <2>2, SeqEqual
<1> QED  BY <1>1, <1>5, <1>9, <1>10 DEF DeleteArg

(* The slots keep their form and their names whatever one is given that    *)
(* has both.                                                               *)
DirOK ==
  /\ dir \in [Slots -> Marks \cup Entries]
  /\ \A s \in Slots : Live(s) => EntryOK(dir[s])

(* Of a step: no entry is deleted.                                         *)
Kept == \A s \in Slots : Live(s) => dir'[s] # Deleted

LEMMA PutKeeps ==
  ASSUME DirOK, NEW p, NEW e, e \in Marks \/ EntryOK(e), dir' = [dir EXCEPT ![p] = e]
  PROVE  DirOK' /\ (EntryOK(e) => Kept)
<1>1. e \in Marks \cup Entries
  BY DEF EntryOK
<1>2. \A s \in Slots : dir'[s] = IF s = p THEN e ELSE dir[s]
  BY DEF DirOK
<1>3. dir' \in [Slots -> Marks \cup Entries]
  BY <1>1 DEF DirOK
<1>4. ASSUME NEW s \in Slots, Live(s)' PROVE EntryOK(dir'[s])
  BY <1>2, <1>4 DEF DirOK, Live
<1>5. ASSUME EntryOK(e) PROVE Kept
  <2>1. e # Deleted
    BY <1>5, ShellAssumption DEF EntryOK, Marks
  <2> QED  BY <1>2, <2>1 DEF Kept, Live, Marks
<1> QED  BY <1>3, <1>4, <1>5 DEF DirOK

LEMMA StayKeeps ==
  ASSUME DirOK, dir' = dir
  PROVE  DirOK' /\ Kept
  BY DEF DirOK, Live, Kept, Marks

(* A new entry bears the typed name, or the converted one.                 *)
LEMMA CalledTruthful ==
  ASSUME NEW arg \in Arguments, NEW raw \in Seq(Chars), Len(raw) <= NameSize,
         Len(arg) <= NameSize => AsTyped(raw, arg),
         NEW kind \in {"file", "directory"}
  PROVE  EntryOK(Entry(raw, kind, None, Called(arg)))
<1>1. PICK e : e = Entry(raw, kind, None, Called(arg))
  OBVIOUS
<1>2. /\ e.name = raw /\ e.kind = kind /\ e.text = None /\ e.given = Called(arg)
      /\ e = [name |-> raw, kind |-> kind, text |-> None, given |-> Called(arg)]
  BY <1>1 DEF Entry
<1>3. arg \in Seq(Chars)
  BY ShellAssumption
<1>4. Called(arg) \in {None} \cup Seq(Chars)
  BY <1>3 DEF Called
<1>5. e \in Entries
  BY <1>2, <1>4 DEF Entries
<1>6. Truthful(e)
  <2> SUFFICES ASSUME Called(arg) # None
               PROVE  \E b \in Bases, x \in Exts :
                        e.given = Spelled(b, x) /\ (Len(e.given) <= NameSize => AsTyped(e.name, e.given))
    BY <1>2 DEF Truthful
  <2>1. WellFormed(arg) /\ Called(arg) = arg
    BY DEF Called
  <2> QED  BY <1>2, <2>1 DEF WellFormed
<1> QED  BY <1>1, <1>2, <1>5, <1>6 DEF EntryOK

LEMMA CreateKeepsNames ==
  ASSUME DirOK, NEW arg \in Arguments, NEW raw \in Seq(Chars), Len(raw) <= NameSize,
         Len(arg) <= NameSize => AsTyped(raw, arg),
         NEW kind \in {"file", "directory"}, CreateEntry(raw, kind, Called(arg))
  PROVE  DirOK' /\ Kept
<1>1. PICK p, e : /\ e = Entry(raw, kind, None, Called(arg))
                  /\ p = FirstOf({s \in Slots : ~Live(s)})
  OBVIOUS
<1>2. dir' = dir \/ dir' = [dir EXCEPT ![p] = e]
  BY <1>1 DEF CreateEntry
<1>3. EntryOK(e)
  BY <1>1, CalledTruthful
<1> QED  BY <1>2, <1>3, PutKeeps, StayKeeps

LEMMA DeleteKeepsNames ==
  ASSUME DirOK, NEW raw, DeleteEntry(raw)
  PROVE  DirOK'
<1>1. PICK p : p = FirstOf({s \in Slots : Live(s) /\ SameBytes(dir[s].name, raw)})
  OBVIOUS
<1>2. dir' = dir \/ dir' = [dir EXCEPT ![p] = Deleted]
  BY <1>1 DEF DeleteEntry
<1> QED  BY <1>2, PutKeeps, StayKeeps DEF Marks

LEMMA WriteKeepsNames ==
  ASSUME DirOK, writes \in Nat, NEW bytes \in Seq(Chars), Len(bytes) <= NameSize, NEW name,
         \/ name = None
         \/ name \in Seq(Chars) /\ \E b \in Bases, x \in Exts :
               /\ name = Spelled(b, x)
               /\ Len(name) <= NameSize => bytes = OnDisk(b, x),
         WriteFile(bytes, name)
  PROVE  DirOK' /\ Kept
<1>1. PICK p, e, w : p = Place(bytes) /\ e = Entry(bytes, "file", w, name) /\ w = writes
  OBVIOUS
<1>2. dir' = dir \/ dir' = [dir EXCEPT ![p] = e]
  BY <1>1 DEF WriteFile
<1>3. /\ e.name = bytes /\ e.kind = "file" /\ e.given = name
      /\ e = [name |-> bytes, kind |-> "file", text |-> w, given |-> name]
  BY <1>1 DEF Entry
<1>4. e \in Entries
  BY <1>1, <1>3 DEF Entries
<1>5. Truthful(e)
  BY <1>3 DEF Truthful
<1>6. EntryOK(e)
  BY <1>3, <1>4, <1>5 DEF EntryOK
<1> QED  BY <1>2, <1>6, PutKeeps, StayKeeps

(* A command that writes under the name that was typed converts the whole  *)
(* name, unless it is longer than an entry's.                              *)
LEMMA WriteTyped ==
  ASSUME NEW arg \in Arguments,
         NEW bytes, bytes = Convert(AtMost(NameSize, arg)),
         NEW name, name = IF Len(arg) <= NameSize THEN Called(arg) ELSE None
  PROVE  /\ bytes \in Seq(Chars) /\ Len(bytes) <= NameSize
         /\ \/ name = None
            \/ name \in Seq(Chars) /\ \E b \in Bases, x \in Exts :
                  /\ name = Spelled(b, x)
                  /\ Len(name) <= NameSize => bytes = OnDisk(b, x)
<1>1. arg \in Seq(Chars)
  BY ShellAssumption
<1>2. bytes \in Seq(Chars) /\ Len(bytes) <= NameSize
  BY <1>1, AtMostIs, ConvertType, NameFacts
<1>3. ASSUME name # None
      PROVE  \E b \in Bases, x \in Exts : name = Spelled(b, x) /\ bytes = OnDisk(b, x)
  <2>1. Len(arg) <= NameSize /\ name = arg /\ WellFormed(arg)
    BY <1>3 DEF Called
  <2>2. PICK b \in Bases, x \in Exts : arg = Spelled(b, x)
    BY <2>1 DEF WellFormed
  <2>3. AtMost(NameSize, arg) = arg
    BY <1>1, <2>1, WholeAtMost, NameFacts
  <2>4. b \in Seq(Plain) /\ x \in Seq(Plain) /\ Len(b) <= BaseSize
    BY PartsPlain
  <2>5. bytes = OnDisk(b, x)
    BY <2>2, <2>3, <2>4, ConvertSpelled
  <2> QED  BY <2>1, <2>2, <2>5
<1>4. name = None \/ name \in Seq(Chars)
  BY <1>1 DEF Called
<1> QED  BY <1>2, <1>3, <1>4

(* fs_open copies the name with its zero byte, if it has room.             *)
LEMMA OpenTyped ==
  ASSUME NEW arg \in Arguments, NEW rest \in Rests,
         NEW raw, raw = AtMost(NameSize, arg \o <<Nul>> \o rest)
  PROVE  /\ raw \in Seq(Chars) /\ Len(raw) <= NameSize
         /\ Len(arg) <= NameSize => AsTyped(raw, arg)
<1>1. arg \in Seq(Chars) /\ rest \in Seq(Chars) /\ Len(arg) \in Nat /\ Len(rest) \in Nat
  <2>1. arg \in Seq(Chars) /\ rest \in Seq(Chars)
    BY ShellAssumption
  <2> QED  BY ONLY <2>1, LenProperties
<1>2. PICK u : u = arg \o <<Nul>>
  OBVIOUS
<1>3. /\ u \in Seq(Chars) /\ Len(u) = Len(arg) + 1 /\ u[Len(arg) + 1] = Nul
      /\ \A i \in 1 .. Len(arg) : u[i] = arg[i]
  BY <1>1, <1>2, AppendOne, NameFacts
<1>4. PICK v : v = u \o rest
  OBVIOUS
<1>5. /\ v \in Seq(Chars) /\ Len(v) = Len(u) + Len(rest)
      /\ \A i \in 1 .. Len(u) : v[i] = u[i]
  <2>1. u \in Seq(Chars) /\ rest \in Seq(Chars)
    BY <1>1, <1>3
  <2> QED  BY ONLY <1>4, <2>1, ConcatProperties, LenProperties
<1>6. /\ raw \in Seq(Chars) /\ Len(raw) = IF Len(v) > NameSize THEN NameSize ELSE Len(v)
      /\ \A i \in 1 .. Len(raw) : raw[i] = v[i]
  BY <1>2, <1>4, <1>5, AtMostIs, NameFacts
<1>7. PICK n, m, k, l : n = Len(arg) /\ m = Len(v) /\ k = NameSize /\ l = Len(raw)
  OBVIOUS
<1>8. /\ n \in Nat /\ m \in Nat /\ k \in Nat /\ l \in Nat /\ n + 1 <= m
      /\ l = IF m > k THEN k ELSE m
  BY <1>1, <1>3, <1>5, <1>6, <1>7, NameFacts, LenProperties
<1>9. ASSUME n <= k PROVE AsTyped(raw, arg)
  <2>1. n <= l /\ l <= k /\ (n < k => n < l)
    BY ONLY <1>8, <1>9
  <2>2. ASSUME NEW i \in 1 .. n PROVE raw[i] = arg[i]
    <3>1. i \in 1 .. l /\ i \in 1 .. Len(u)
      BY <1>3, <1>7, <1>8, <2>1
    <3> QED  BY <1>3, <1>5, <1>6, <1>7, <3>1
  <2>3. ASSUME n < k PROVE raw[n + 1] = Nul
    <3>1. PICK j : j = n + 1
      OBVIOUS
    <3>2. j \in 1 .. l /\ j \in 1 .. Len(u) /\ j = Len(arg) + 1
      BY <1>3, <1>7, <1>8, <2>1, <2>3, <3>1
    <3> QED  BY <1>3, <1>5, <1>6, <1>7, <3>1, <3>2
  <2> QED  BY <1>6, <1>7, <2>1, <2>2, <2>3 DEF AsTyped
<1>10. l <= k
  BY ONLY <1>8
<1> QED  BY <1>6, <1>7, <1>9, <1>10

LEMMA PathIs ==
  PathName \in Seq(Chars) /\ Len(PathName) = NameSize
<1>1. PICK z : z = [i \in 1 .. NameSize |-> Nul]
  OBVIOUS
<1>2. z \in Seq(Chars) /\ Len(z) = NameSize
  BY <1>1, NameFacts
<1>3. Path \in Seq(Chars) /\ Len(Path) \in Nat
  BY ShellAssumption, LenProperties
<1>4. Path \o z \in Seq(Chars) /\ Len(Path \o z) = Len(Path) + NameSize
  BY <1>2, <1>3, ConcatProperties
<1>5. PathName = AtMost(NameSize, Path \o z)
  BY <1>1 DEF PathName
<1>6. /\ AtMost(NameSize, Path \o z) \in Seq(Chars)
      /\ Len(AtMost(NameSize, Path \o z)) =
           IF Len(Path \o z) > NameSize THEN NameSize ELSE Len(Path \o z)
  BY <1>4, AtMostIs, NameFacts
<1> QED  BY <1>3, <1>4, <1>5, <1>6, NameFacts

LEMMA NamesInitial == Init => NamesInv
<1> SUFFICES ASSUME Init PROVE NamesInv
  OBVIOUS
<1>1. line \in [1 .. LineSize -> Chars]
  BY NameFacts DEF Init
<1>2. dir \in [Slots -> Marks \cup Entries] /\ \A s \in Slots : ~ Live(s)
  BY DEF Init, Live, Marks
<1> QED  BY <1>1, <1>2 DEF NamesInv

LEMMA NamesStep == NamesInv /\ writes \in Nat /\ [Next]_vars =>
  NamesInv' /\ (Kept \/ \E arg \in Arguments : Delete(arg))
<1> SUFFICES ASSUME NamesInv, writes \in Nat, [Next]_vars
             PROVE  NamesInv' /\ (Kept \/ \E arg \in Arguments : Delete(arg))
  OBVIOUS
<1>1. DirOK /\ line \in [1 .. LineSize -> Chars]
  BY DEF NamesInv, DirOK
<1>3. SUFFICES /\ DirOK' /\ line' \in [1 .. LineSize -> Chars]
               /\ Kept \/ \E arg \in Arguments : Delete(arg)
  <2>1. DirOK' /\ line' \in [1 .. LineSize -> Chars] => NamesInv'
    BY DEF NamesInv, DirOK
  <2> QED  BY <2>1
<1>4. \A arg \in Arguments : arg \in Seq(Chars)
  BY ShellAssumption
<1>5. {"create", "mkdir", "delete", "writeb", "ed", "cat", "writetest"} \subseteq Commands
  BY ShellAssumption
<1>6. CASE UNCHANGED vars
  BY <1>1, <1>6, StayKeeps DEF vars, program
<1>7. ASSUME NEW arg \in Arguments, Create(arg) PROVE <1>3!1
  <2>1. Type("create", arg)
        /\ CreateEntry(Raw("create"), "file", Called(arg))
    BY <1>7 DEF Create, NoProgram
  <2>2. PICK raw : raw = Raw("create")
    OBVIOUS
  <2>3. /\ raw \in Seq(Chars) /\ Len(raw) <= NameSize
        /\ Len(arg) <= NameSize => AsTyped(raw, arg)
    BY <1>1, <1>5, <2>1, <2>2, RawTyped, NameFacts
  <2>4. DirOK' /\ Kept
    BY <1>1, <2>1, <2>2, <2>3, CreateKeepsNames
  <2> QED  BY <1>1, <1>4, <1>5, <2>1, <2>4, TypeLine
<1>8. ASSUME NEW arg \in Arguments, Mkdir(arg) PROVE <1>3!1
  <2>1. Type("mkdir", arg)
        /\ CreateEntry(Raw("mkdir"), "directory", Called(arg))
    BY <1>8 DEF Mkdir, NoProgram
  <2>2. PICK raw : raw = Raw("mkdir")
    OBVIOUS
  <2>3. /\ raw \in Seq(Chars) /\ Len(raw) <= NameSize
        /\ Len(arg) <= NameSize => AsTyped(raw, arg)
    BY <1>1, <1>5, <2>1, <2>2, RawTyped, NameFacts
  <2>4. DirOK' /\ Kept
    BY <1>1, <2>1, <2>2, <2>3, CreateKeepsNames
  <2> QED  BY <1>1, <1>4, <1>5, <2>1, <2>4, TypeLine
<1>9. ASSUME NEW arg \in Arguments, Delete(arg) PROVE <1>3!1
  <2>1. Type("delete", arg) /\ DeleteEntry(Raw("delete"))
    BY <1>9 DEF Delete, NoProgram
  <2>2. PICK raw : raw = Raw("delete")
    OBVIOUS
  <2>3. DirOK'
    BY <1>1, <2>1, <2>2, DeleteKeepsNames
  <2> QED  BY <1>1, <1>4, <1>5, <1>9, <2>1, <2>3, TypeLine
<1>10. ASSUME NEW arg \in Arguments, WriteBinary(arg) PROVE <1>3!1
  <2>1. PICK bytes, name : /\ bytes = Convert(AtMost(NameSize, arg))
                           /\ name = IF Len(arg) <= NameSize THEN Called(arg) ELSE None
    OBVIOUS
  <2>2. Type("writeb", arg) /\ WriteFile(bytes, name)
    BY <1>10, <2>1 DEF WriteBinary, NoProgram
  <2>3. /\ bytes \in Seq(Chars) /\ Len(bytes) <= NameSize
        /\ \/ name = None
           \/ name \in Seq(Chars) /\ \E b \in Bases, x \in Exts :
                 /\ name = Spelled(b, x)
                 /\ Len(name) <= NameSize => bytes = OnDisk(b, x)
    BY <2>1, WriteTyped
  <2>4. DirOK' /\ Kept
    BY <1>1, <2>2, <2>3, WriteKeepsNames
  <2> QED  BY <1>1, <1>4, <1>5, <2>2, <2>4, TypeLine
<1>11. ASSUME NEW arg \in Arguments, EditAndSave(arg) PROVE <1>3!1
  <2>1. PICK ext \in Exts : WriteFile(OnDisk(AtMost(BaseSize, Format(arg)), ext), None)
    BY <1>11 DEF EditAndSave
  <2>2. PICK bytes, name : bytes = OnDisk(AtMost(BaseSize, Format(arg)), ext) /\ name = None
    OBVIOUS
  <2>3. AtMost(BaseSize, Format(arg)) \in Seq(Chars) /\ ext \in Seq(Chars)
    BY <1>4, FormatType, AtMostIs, NameFacts, PartsPlain, PlainSeq, ShellAssumption
  <2>4. bytes \in Seq(Chars) /\ Len(bytes) <= NameSize
    BY <2>2, <2>3, OnDiskIs, NameFacts
  <2>5. DirOK' /\ Kept
    BY <1>1, <2>1, <2>2, <2>4, WriteKeepsNames
  <2> QED  BY <1>1, <1>4, <1>5, <1>11, <2>5, TypeLine DEF EditAndSave, NoProgram
<1>12. ASSUME NEW arg \in Arguments, OtherCommand(arg) PROVE <1>3!1
  BY <1>1, <1>4, <1>5, <1>12, TypeLine, StayKeeps DEF OtherCommand, NoProgram
<1>13. CASE WriteTest
  <2>1. PICK bytes, name : /\ bytes = Convert(Spelled(TestBase, TestExt))
                           /\ name = Spelled(TestBase, TestExt)
    OBVIOUS
  <2>2. Type("writetest", << >>) /\ WriteFile(bytes, name)
    BY <1>13, <2>1 DEF WriteTest, NoProgram
  <2>3. TestBase \in Bases /\ TestExt \in Exts
    BY ShellAssumption
  <2>4. /\ TestBase \in Seq(Plain) /\ TestExt \in Seq(Plain)
    BY <2>3, PartsPlain
  <2>5. bytes = OnDisk(TestBase, TestExt) /\ name \in Seq(Chars)
    BY <2>1, <2>4, ConvertSpelled, SpelledNoNul
  <2>6. bytes \in Seq(Chars) /\ Len(bytes) <= NameSize
    BY <2>4, <2>5, PlainSeq, OnDiskIs, NameFacts
  <2>7. DirOK' /\ Kept
    BY <1>1, <2>1, <2>2, <2>3, <2>5, <2>6, WriteKeepsNames
  <2>8. << >> \in Seq(Chars)
    OBVIOUS
  <2> QED  BY <1>1, <1>5, <2>2, <2>7, <2>8, TypeLine
<1>14. ASSUME NEW arg \in Arguments, NEW rest \in Rests, NEW mode \in {"read", "write"},
              Open(arg, rest, mode)
       PROVE  <1>3!1
  <2>1. PICK raw : raw = AtMost(NameSize, arg \o <<Nul>> \o rest)
    OBVIOUS
  <2>2. /\ CreateEntry(raw, "file", Called(arg)) \/ dir' = dir
        /\ line' = line
    BY <1>14, <2>1 DEF Open, NoCommand
  <2>3. /\ raw \in Seq(Chars) /\ Len(raw) <= NameSize
        /\ Len(arg) <= NameSize => AsTyped(raw, arg)
    BY <2>1, OpenTyped
  <2>4. DirOK' /\ Kept
    BY <1>1, <2>2, <2>3, CreateKeepsNames, StayKeeps
  <2> QED  BY <1>1, <2>2, <2>4
<1>15. CASE ReadOpened
  BY <1>1, <1>15, StayKeeps DEF ReadOpened, NoCommand
<1>16. CASE WriteOpened
  <2>1. PICK bytes, name : bytes = Convert(Before(PathName, Nul)) /\ name = None
    OBVIOUS
  <2>2. line' = line /\ (dir' = dir \/ WriteFile(bytes, name))
    BY <1>16, <2>1 DEF WriteOpened, NoCommand
  <2>3. bytes \in Seq(Chars) /\ Len(bytes) <= NameSize
    BY <2>1, PathIs, BeforeType, ConvertType, NameFacts
  <2>4. DirOK' /\ Kept
    BY <1>1, <2>1, <2>2, <2>3, StayKeeps, WriteKeepsNames
  <2> QED  BY <1>1, <2>2, <2>4
<1> QED  BY <1>6, <1>7, <1>8, <1>9, <1>10, <1>11, <1>12, <1>13, <1>14, <1>15, <1>16 DEF Next

(* What a delete takes is read as what was typed.                          *)
LEMMA DeleteTakes ==
  ASSUME DirOK, line \in [1 .. LineSize -> Chars], NEW arg \in Arguments, Delete(arg),
         WellFormed(arg), Len(arg) <= NameSize,
         NEW s \in Slots, Live(s), dir'[s] = Deleted,
         dir[s].kind = "directory" => ~ ReadsAttribute(arg)
  PROVE  Read(dir[s]) = Format(arg)
<1>1. PICK raw, named : /\ raw = Raw("delete")
                        /\ named = {r \in Slots : Live(r) /\ SameBytes(dir[r].name, raw)}
  OBVIOUS
<1>2. Type("delete", arg) /\ DeleteEntry(raw) /\ "delete" \in Commands
  BY <1>1, ShellAssumption DEF Delete
<1>3. AsTyped(raw, arg)
  BY <1>1, <1>2, RawTyped
<1>4. dir[s] # Deleted
  BY DEF Live, Marks
<1>5. named # {} /\ dir' = [dir EXCEPT ![FirstOf(named)] = Deleted]
  BY <1>1, <1>2, <1>4 DEF DeleteEntry
<1>6. s = FirstOf(named)
  BY <1>4, <1>5 DEF DirOK
<1>7. s \in named
  <2>1. named \in SUBSET Nat
    BY <1>1, ShellAssumption
  <2> QED  BY <1>5, <1>6, <2>1, MinIsLeast DEF FirstOf
<1>8. dir[s].name = raw
  BY <1>1, <1>7 DEF SameBytes
<1>9. PICK b \in Bases, x \in Exts : arg = Spelled(b, x)
  BY DEF WellFormed
<1>10. b \in Seq(Plain) /\ x \in Seq(Plain) /\ Len(b) <= BaseSize
  BY PartsPlain
<1>11. Format(arg) = OnDisk(b, x)
  BY <1>9, <1>10, FormatSpelled
<1>12. PICK attr, d : d = dir[s] /\ attr = IF d.kind = "file" THEN Space ELSE Letter
  OBVIOUS
<1>13. d.kind \in {"file", "directory"}
  BY <1>12 DEF DirOK, EntryOK, Entries
<1>14. attr \in Chars \ {Nul} /\ (attr = Space \/ ~ ReadsAttribute(arg))
  BY <1>12, <1>13, NameFacts, ShellAssumption
<1>15. Read(d) = Normalised(raw \o <<attr>>)
  BY <1>8, <1>12 DEF Read
<1> QED  BY <1>3, <1>9, <1>11, <1>12, <1>14, <1>15, ReadTyped

----------------------------------------------------------------------------
(* The order of the files of one name.                                     *)

(* Files are counted in the order of their writes.                         *)
Counted ==
  /\ writes \in Nat
  /\ \A s \in Slots :
       Live(s) /\ dir[s].text # None => dir[s].text \in Nat /\ dir[s].text < writes

ShellInv == dir \in [Slots -> Range(dir)] /\ Counted /\ NewestFirst

USE ShellAssumption

(* A slot whose new entry has no text, or is none, disturbs no order.      *)
LEMMA UntextedKeeps ==
  ASSUME ShellInv, writes' = writes, NEW p \in Slots, NEW e,
         e \in Marks \/ e.text = None, dir' = [dir EXCEPT ![p] = e]
  PROVE  ShellInv'
  <1>1. dir' \in [Slots -> Range(dir')]
    BY DEF ShellInv, Range
  <1>2. \A s \in Slots : dir'[s] = IF s = p THEN e ELSE dir[s]
    BY DEF ShellInv
  <1>3. Counted'
    BY <1>2 DEF ShellInv, Counted, Live
  <1>4. NewestFirst'
    BY <1>2 DEF ShellInv, NewestFirst, Live
  <1> QED BY <1>1, <1>3, <1>4 DEF ShellInv

LEMMA SameKeeps ==
  ASSUME ShellInv, UNCHANGED <<dir, writes>>
  PROVE  ShellInv'
  BY DEF ShellInv, Counted, NewestFirst, Live

LEMMA CreateEntryKeeps ==
  ASSUME ShellInv, NEW raw, NEW kind, NEW name, CreateEntry(raw, kind, name),
         UNCHANGED writes
  PROVE  ShellInv'
  <1> DEFINE free == {s \in Slots : ~Live(s)}
             e    == [name |-> raw, kind |-> kind, text |-> None, given |-> name]
  <1>1. CASE free = {}
    BY <1>1, SameKeeps DEF CreateEntry
  <1>2. CASE free # {}
    <2>1. FirstOf(free) \in free
      <3> HIDE DEF free
      <3>1. free \in SUBSET Nat
        BY DEF free
      <3> QED BY <1>2, <3>1, MinIsLeast DEF FirstOf
    <2>2. dir' = [dir EXCEPT ![FirstOf(free)] = e]
      BY <1>2 DEF CreateEntry, Entry
    <2> QED BY <2>1, <2>2, UntextedKeeps
  <1> QED BY <1>1, <1>2

LEMMA DeleteEntryKeeps ==
  ASSUME ShellInv, NEW raw, DeleteEntry(raw), UNCHANGED writes
  PROVE  ShellInv'
  <1> DEFINE named == {s \in Slots : Live(s) /\ SameBytes(dir[s].name, raw)}
  <1>1. CASE named = {}
    BY <1>1, SameKeeps DEF DeleteEntry
  <1>2. CASE named # {}
    <2>1. FirstOf(named) \in named
      <3> HIDE DEF named
      <3>1. named \in SUBSET Nat
        BY DEF named
      <3> QED BY <1>2, <3>1, MinIsLeast DEF FirstOf
    <2>2. dir' = [dir EXCEPT ![FirstOf(named)] = Deleted]
      BY <1>2 DEF DeleteEntry
    <2> QED BY <2>1, <2>2, UntextedKeeps DEF Marks
  <1> QED BY <1>1, <1>2

(* The new file takes the first slot that is free or has its name, so that *)
(* no file of its name lies in front of it.                                *)
LEMMA WriteFileKeeps ==
  ASSUME ShellInv, NEW bytes, NEW name, WriteFile(bytes, name)
  PROVE  ShellInv'
  <1> DEFINE places == {s \in Slots : Live(s) => dir[s].name = bytes}
             e == [name |-> bytes, kind |-> "file", text |-> writes, given |-> name]
  <1>1. writes' = writes + 1 /\ writes \in Nat
    BY DEF WriteFile, ShellInv, Counted
  <1>2. CASE dir' = dir
    <2>1. Counted'
      BY <1>1, <1>2 DEF ShellInv, Counted, Live
    <2> QED BY <1>2, <2>1 DEF ShellInv, NewestFirst, Live
  <1>3. CASE HasPlace(bytes) /\ dir' = [dir EXCEPT ![Place(bytes)] = e]
    <2>1. Place(bytes) \in places /\ \A s \in places : Place(bytes) <= s
      <3>1. places # {} /\ Place(bytes) = FirstOf(places)
        BY <1>3 DEF HasPlace, Place
      <3> HIDE DEF places
      <3>2. places \in SUBSET Nat
        BY DEF places
      <3>3. Min(places) \in places /\ \A s \in places : Min(places) <= s
        BY <3>1, <3>2, MinIsLeast
      <3> QED BY <3>1, <3>3 DEF FirstOf
    <2> DEFINE p == Place(bytes)
    <2>2. p \in Slots /\ \A s \in Slots : s < p => Live(s) /\ dir[s].name # bytes
      <3>1. p \in Slots
        BY <2>1
      <3>2. Slots \subseteq Nat
        BY ShellAssumption
      <3>3. \A s \in Slots : s \in places => p <= s
        BY <2>1
      <3> HIDE DEF p, places
      <3>4. \A s \in Slots : s < p => s \notin places
        BY <3>1, <3>2, <3>3
      <3> USE DEF places
      <3> QED BY <3>1, <3>4
    <2> HIDE DEF p
    <2>3. \A s \in Slots : dir'[s] = IF s = p THEN e ELSE dir[s]
      BY <1>3 DEF ShellInv, p
    <2>4. e.name = bytes /\ e.text = writes
      OBVIOUS
    <2> HIDE DEF e
    <2>5. Counted'
      <3>1. ASSUME NEW s \in Slots, Live(s)', dir'[s].text # None
            PROVE  dir'[s].text \in Nat /\ dir'[s].text < writes + 1
        <4>1. CASE s = p
          BY <1>1, <2>3, <2>4, <4>1
        <4>2. CASE s # p
          <5>1. dir'[s] = dir[s] /\ Live(s)
            BY <2>3, <3>1, <4>2 DEF Live
          <5>2. dir[s].text \in Nat /\ dir[s].text < writes
            BY <3>1, <5>1 DEF ShellInv, Counted
          <5> QED BY <1>1, <5>1, <5>2
        <4> QED BY <4>1, <4>2
      <3> QED BY <1>1, <3>1 DEF Counted, Live
    <2>6. NewestFirst'
      <3> SUFFICES ASSUME NEW s \in Slots, NEW t \in Slots, s < t, Live(s)', Live(t)',
                          dir'[s].name = dir'[t].name, dir'[s].text # None, dir'[t].text # None
                   PROVE  dir'[s].text > dir'[t].text
        BY DEF NewestFirst
      <3>1. CASE s = p
        BY <2>3, <2>4, <3>1 DEF ShellInv, Counted, Live
      <3>2. CASE t = p
        <4>1. s # p
          BY <3>2
        <4>2. dir[s].name = bytes
          BY <2>3, <2>4, <3>2, <4>1
        <4> QED BY <2>2, <3>2, <4>2
      <3>3. CASE s # p /\ t # p
        BY <2>3, <3>3 DEF ShellInv, NewestFirst, Live
      <3> QED BY <3>1, <3>2, <3>3
    <2>7. dir' \in [Slots -> Range(dir')]
      BY <1>3 DEF ShellInv, Range
    <2> QED BY <2>5, <2>6, <2>7 DEF ShellInv
  <1> QED BY <1>2, <1>3 DEF WriteFile, Entry

LEMMA ShellInitial == Init => ShellInv
  BY DEF Init, ShellInv, Counted, NewestFirst, Live, Marks, Range

LEMMA ShellStep == ShellInv /\ [Next]_vars => ShellInv'
  <1> SUFFICES ASSUME ShellInv, [Next]_vars PROVE ShellInv'
    OBVIOUS
  <1>1. CASE UNCHANGED vars
    BY <1>1, SameKeeps DEF vars
  <1>2. ASSUME NEW arg \in Arguments,
               Create(arg) \/ Mkdir(arg) \/ Delete(arg) \/ WriteBinary(arg)
                 \/ EditAndSave(arg) \/ OtherCommand(arg)
        PROVE  ShellInv'
    BY <1>2, CreateEntryKeeps, DeleteEntryKeeps, WriteFileKeeps, SameKeeps
    DEF Create, Mkdir, Delete, WriteBinary, EditAndSave, OtherCommand
  <1>3. CASE WriteTest
    BY <1>3, WriteFileKeeps DEF WriteTest
  <1>4. ASSUME NEW arg \in Arguments, NEW rest \in Rests, NEW mode \in {"read", "write"},
               Open(arg, rest, mode)
        PROVE  ShellInv'
    BY <1>4, CreateEntryKeeps, SameKeeps DEF Open
  <1>5. CASE ReadOpened \/ WriteOpened
    BY <1>5, SameKeeps, WriteFileKeeps DEF ReadOpened, WriteOpened
  <1> QED BY <1>1, <1>2, <1>3, <1>4, <1>5 DEF Next

(* Of the files of one name the newest comes first.                        *)
THEOREM NewestIsFound == Spec => []NewestFirst
  <1>1. ShellInv => NewestFirst
    BY DEF ShellInv
  <1> QED BY <1>1, ShellInitial, ShellStep, PTL DEF Spec

----------------------------------------------------------------------------

(* Every entry is found by cat under the name it was made with: for names  *)
(* that fit, except directories whose name is full up to the attribute.    *)
THEOREM NamesAreFound == Spec => []FoundAsNamed
  <1>1. ShellInv => writes \in Nat
    BY DEF ShellInv, Counted
  <1>2. NamesInv /\ writes \in Nat /\ [Next]_vars => NamesInv'
    BY NamesStep
  <1> QED BY <1>1, <1>2, ShellInitial, ShellStep, NamesInitial, FoundState, PTL DEF Spec

(* A delete takes only an entry that cat would have shown for the name     *)
(* that was typed, although it compares bytes that earlier lines left.     *)
THEOREM DeletesAreMeant == Spec => DeletesWhatCatFinds
  <1>1. ShellInv => writes \in Nat
    BY DEF ShellInv, Counted
  <1>2. NamesInv /\ writes \in Nat /\ [Next]_vars => NamesInv'
    BY NamesStep
  <1>3. ASSUME NamesInv, writes \in Nat, [Next]_vars,
               NEW s \in Slots, Live(s), dir'[s] = Deleted,
               WellFormed(DeleteArg'), Len(DeleteArg') <= NameSize,
               dir[s].kind = "directory" => ~ ReadsAttribute(DeleteArg')
        PROVE  Read(dir[s]) = Format(DeleteArg')
    <2>1. PICK arg \in Arguments : Delete(arg)
      BY <1>3, NamesStep DEF Kept
    <2>2. DirOK /\ line \in [1 .. LineSize -> Chars]
      BY <1>3 DEF NamesInv, DirOK
    <2>3. DeleteArg' = arg
      BY <2>1, <2>2, DeleteArgIs DEF Delete
    <2>4. /\ WellFormed(arg) /\ Len(arg) <= NameSize
          /\ dir[s].kind = "directory" => ~ ReadsAttribute(arg)
      BY <1>3, <2>3
    <2>5. Read(dir[s]) = Format(arg)
      BY <1>3, <2>1, <2>2, <2>4, DeleteTakes
    <2> QED BY <2>3, <2>5
  <1>4. NamesInv /\ writes \in Nat /\ [Next]_vars =>
          [\A s \in Slots :
             /\ Live(s) /\ dir'[s] = Deleted
             /\ WellFormed(DeleteArg') /\ Len(DeleteArg') <= NameSize
             /\ dir[s].kind = "directory" => ~ ReadsAttribute(DeleteArg')
             => Read(dir[s]) = Format(DeleteArg')]_vars
    BY <1>3
  <1> QED BY <1>1, <1>2, <1>4, ShellInitial, ShellStep, NamesInitial, PTL
          DEF Spec, DeletesWhatCatFinds
=============================================================================
