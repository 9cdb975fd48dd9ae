------------------------------ MODULE Extremes ------------------------------
(***************************************************************************)
(* Least and greatest elements of sets of natural numbers, and functions   *)
(* that are applied again and again: what the other proofs have in place   *)
(* of induction is that a set of numbers has a least element.              *)
(***************************************************************************)
EXTENDS Integers, FiniteSetsExt, WellFoundedInduction, TLAPS

LEMMA LeastNat ==
  ASSUME NEW S \in SUBSET Nat, S # {}
  PROVE  \E n \in S : \A m \in S : n <= m
  <1> DEFINE Less == {p \in Nat \X Nat : p[1] < p[2]}
  <1>1. IsWellFoundedOn(Less, Nat)
    <2>1. Less = OpToRel(<, Nat)
      BY DEF OpToRel
    <2> QED BY <2>1, NatLessThanWellFounded
  <1>2. PICK n \in S : \A m \in S : <<m, n>> \notin Less
    <2> HIDE DEF Less
    <2> QED BY <1>1, WFMin
  <1>3. \A m \in S : n <= m
    <2> TAKE m \in S
    <2>1. ~ (m < n)
      BY <1>2
    <2> QED BY <2>1
  <1> QED BY <1>3

(* A set of natural numbers that has an element has its least one.         *)
LEMMA MinIsLeast ==
  ASSUME NEW S \in SUBSET Nat, S # {}
  PROVE  Min(S) \in S /\ \A m \in S : Min(S) <= m
  <1>1. \E n \in S : \A m \in S : n <= m
    BY LeastNat
  <1> QED BY <1>1 DEF Min

(* Counting up from 0 reaches every number of a range.                     *)
LEMMA CountUp ==
  ASSUME NEW n \in Nat, NEW S, 0 \in S, \A k \in 0 .. n - 1 : k \in S => k + 1 \in S
  PROVE  \A k \in 0 .. n : k \in S
<1> DEFINE Bad == {k \in Nat : k <= n /\ k \notin S}
<1>1. ASSUME Bad # {} PROVE FALSE
  <2>1. PICK m \in Bad : \A k \in Bad : m <= k
    BY <1>1, LeastNat
  <2>2. m # 0 /\ m \in Nat /\ m <= n /\ m \notin S
    BY <2>1
  <2>3. m - 1 \notin Bad /\ m - 1 \in Nat /\ m - 1 \in 0 .. n - 1 /\ (m - 1) + 1 = m
    BY <2>1, <2>2
  <2>4. m - 1 \in S
    BY <2>2, <2>3
  <2> QED  BY <2>2, <2>3, <2>4
<1> QED  BY <1>1

(* If it is bounded, it has its greatest one.                              *)
LEMMA MaxIsGreatest ==
  ASSUME NEW n \in Nat, NEW S \in SUBSET (0 .. n), S # {}
  PROVE  Max(S) \in S /\ \A m \in S : Max(S) >= m
  <1> DEFINE T == {n - m : m \in S}
  <1>1. T \in SUBSET Nat /\ T # {}
    <2>1. \A m \in S : n - m \in Nat
      OBVIOUS
    <2>2. PICK m \in S : TRUE
      OBVIOUS
    <2>3. n - m \in T
      OBVIOUS
    <2> QED BY <2>1, <2>3
  <1>2. PICK t \in T : \A u \in T : t <= u
    <2> HIDE DEF T
    <2> QED BY <1>1, LeastNat
  <1>3. PICK k \in S : t = n - k
    BY <1>2
  <1>4. \A m \in S : k >= m
    <2> TAKE m \in S
    <2>1. n - m \in T
      OBVIOUS
    <2>2. n - k <= n - m
      BY <1>2, <1>3, <2>1
    <2> QED BY <2>2
  <1> QED BY <1>4 DEF Max

(* A function can be applied again and again.                              *)
LEMMA Iterate ==
  ASSUME NEW V, NEW hop \in [V -> V], NEW a \in V, NEW n \in Nat
  PROVE  \E f \in [1 .. n + 1 -> V] :
           f[1] = a /\ \A i \in 1 .. n : f[i + 1] = hop[f[i]]
<1> DEFINE Done(m) == \E f \in [1 .. m + 1 -> V] :
                        f[1] = a /\ \A i \in 1 .. m : f[i + 1] = hop[f[i]]
           Bad == {m \in Nat : ~ Done(m)}
<1>1. Done(0)
  <2> DEFINE g == [i \in 1 .. 0 + 1 |-> a]
  <2>1. g \in [1 .. 0 + 1 -> V] /\ g[1] = a
    OBVIOUS
  <2>2. \A i \in 1 .. 0 : g[i + 1] = hop[g[i]]
    OBVIOUS
  <2> HIDE DEF g
  <2> QED  BY <2>1, <2>2
<1>2. ASSUME NEW m \in Nat, Done(m) PROVE Done(m + 1)
  <2>1. PICK f \in [1 .. m + 1 -> V] :
               f[1] = a /\ \A i \in 1 .. m : f[i + 1] = hop[f[i]]
    BY <1>2
  <2> DEFINE g == [i \in 1 .. (m + 1) + 1 |->
                     IF i = m + 2 THEN hop[f[m + 1]] ELSE f[i]]
  <2>2. g \in [1 .. (m + 1) + 1 -> V] /\ g[1] = a
    BY <2>1
  <2>3. \A i \in 1 .. m + 1 : g[i + 1] = hop[g[i]]
    BY <2>1
  <2> QED  BY <2>2, <2>3
<1>3. ASSUME Bad # {} PROVE FALSE
  <2> HIDE DEF Done
  <2>1. PICK m \in Bad : \A k \in Bad : m <= k
    BY <1>3, LeastNat
  <2>2. m # 0 /\ m \in Nat /\ ~ Done(m)
    BY <1>1, <2>1
  <2>3. m - 1 \in Nat /\ m - 1 \notin Bad
    BY <2>1, <2>2
  <2>4. Done((m - 1) + 1)
    BY <1>2, <2>3
  <2> QED  BY <2>2, <2>4
<1> QED  BY <1>3

(* A fold over a sequence is a CHOOSE: what it chooses exists, and what it  *)
(* is of the first elements is known one element at a time.                *)
LEMMA MaxUpTo ==
  ASSUME NEW n \in Nat, NEW S \in SUBSET (1 .. n + 1), n + 1 \in S
  PROVE  Max(S) = n + 1
<1>1. PICK j \in Nat : j = n + 1
  OBVIOUS
<1>2. \A i \in S : i \in 0 .. j
  BY <1>1
<1>3. S \in SUBSET (0 .. j) /\ S # {}
  BY <1>2
<1>4. Max(S) \in S /\ \A k \in S : Max(S) >= k
  BY <1>3, MaxIsGreatest
<1>5. PICK m : m = Max(S)
  OBVIOUS
<1>6. m \in 1 .. n + 1 /\ m >= n + 1
  BY <1>4, <1>5
<1>7. m = n + 1
  BY <1>6
<1> QED  BY <1>5, <1>7

LEMMA UpTo ==
  ASSUME NEW n \in Nat
  PROVE  Max(1 .. n + 1) = n + 1 /\ (1 .. n + 1) \ {n + 1} = 1 .. n /\ 1 .. n + 1 # {}
<1>1. n + 1 \in 1 .. n + 1 /\ (1 .. n + 1) \ {n + 1} = 1 .. n
  OBVIOUS
<1> QED  BY <1>1, MaxUpTo

FoldsTo(g, V, base, step, n, seq) ==
  /\ g \in [SUBSET (1 .. n) -> V]
  /\ \A s \in SUBSET (1 .. n) :
       g[s] = IF s = {} THEN base ELSE step[<<g[s \ {Max(s)}], seq[Max(s)]>>]

LEMMA FoldExists ==
  ASSUME NEW V, NEW E, NEW base \in V, NEW step \in [V \X E -> V], NEW n \in Nat,
         NEW seq \in [1 .. n -> E]
  PROVE  \E g : FoldsTo(g, V, base, step, n, seq)
<1> DEFINE Good(m, g) ==
             \A s \in SUBSET (1 .. m) :
               g[s] = IF s = {} THEN base ELSE step[<<g[s \ {Max(s)}], seq[Max(s)]>>]
           Done(m) == \E g \in [SUBSET (1 .. m) -> V] : Good(m, g)
           Bad == {m \in Nat : m <= n /\ ~ Done(m)}
<1>1. Done(0)
  <2>1. SUBSET (1 .. 0) = {{}}
    OBVIOUS
  <2> DEFINE g == [s \in SUBSET (1 .. 0) |-> base]
  <2>2. g \in [SUBSET (1 .. 0) -> V] /\ Good(0, g)
    BY <2>1
  <2> HIDE DEF g, Good
  <2> QED  BY <2>2
<1>2. ASSUME NEW m \in Nat, m < n, Done(m) PROVE Done(m + 1)
  <2>1. PICK g \in [SUBSET (1 .. m) -> V] : Good(m, g)
    BY <1>2
  <2> DEFINE h == [s \in SUBSET (1 .. m + 1) |->
                     IF s \in SUBSET (1 .. m) THEN g[s]
                     ELSE step[<<g[s \ {m + 1}], seq[m + 1]>>]]
  <2>2. ASSUME NEW s \in SUBSET (1 .. m + 1)
        PROVE  /\ s \in SUBSET (1 .. m) \/ s \ {m + 1} \in SUBSET (1 .. m)
               /\ s \notin SUBSET (1 .. m) => m + 1 \in s /\ Max(s) = m + 1
               /\ s \in SUBSET (1 .. m) /\ s # {} => s \ {Max(s)} \in SUBSET (1 .. m)
    <3>1. s \ {m + 1} \in SUBSET (1 .. m) /\ (s \notin SUBSET (1 .. m) => m + 1 \in s)
      OBVIOUS
    <3>2. ASSUME m + 1 \in s PROVE Max(s) = m + 1
      BY <3>2, MaxUpTo
    <3> QED  BY <3>1, <3>2
  <2>3. m + 1 \in 1 .. n /\ seq[m + 1] \in E
    BY <1>2
  <2>4. ASSUME NEW s \in SUBSET (1 .. m + 1) PROVE h[s] \in V
    <3>1. CASE s \in SUBSET (1 .. m)
      BY <3>1
    <3>2. CASE s \notin SUBSET (1 .. m)
      <4>1. g[s \ {m + 1}] \in V
        BY <2>2, <3>2
      <4> QED  BY <2>3, <3>2, <4>1
    <3> QED  BY <3>1, <3>2
  <2>5. h \in [SUBSET (1 .. m + 1) -> V]
    BY <2>4
  <2>6. ASSUME NEW s \in SUBSET (1 .. m + 1)
        PROVE  h[s] = IF s = {} THEN base ELSE step[<<h[s \ {Max(s)}], seq[Max(s)]>>]
    <3>1. CASE s \in SUBSET (1 .. m)
      <4>1. s # {} => /\ s \ {Max(s)} \in SUBSET (1 .. m)
                      /\ s \ {Max(s)} \in SUBSET (1 .. m + 1)
        BY <2>2, <3>1
      <4>2. h[s] = g[s] /\ (s # {} => h[s \ {Max(s)}] = g[s \ {Max(s)}])
        BY <3>1, <4>1
      <4> HIDE DEF h
      <4> QED  BY <2>1, <3>1, <4>2
    <3>2. CASE s \notin SUBSET (1 .. m)
      <4>1. /\ s # {} /\ Max(s) = m + 1 /\ s \ {m + 1} \in SUBSET (1 .. m)
            /\ s \ {m + 1} \in SUBSET (1 .. m + 1)
        BY <2>2, <3>2
      <4>2. h[s \ {m + 1}] = g[s \ {m + 1}]
        BY <4>1
      <4>3. h[s] = step[<<g[s \ {m + 1}], seq[m + 1]>>]
        BY <3>2
      <4> HIDE DEF h
      <4> QED  BY <4>1, <4>2, <4>3
    <3> QED  BY <3>1, <3>2
  <2> HIDE DEF h
  <2>7. Good(m + 1, h)
    BY <2>6
  <2> QED  BY <2>5, <2>7
<1> HIDE DEF Good, Done
<1>3. ASSUME Bad # {} PROVE FALSE
  <2>1. PICK m \in Bad : \A k \in Bad : m <= k
    BY <1>3, LeastNat
  <2>2. m # 0 /\ m \in Nat /\ m <= n /\ ~ Done(m)
    BY <1>1, <2>1
  <2>3. m - 1 \in Nat /\ m - 1 \notin Bad /\ m - 1 < n
    BY <2>1, <2>2
  <2>4. Done((m - 1) + 1)
    BY <1>2, <2>3
  <2> QED  BY <2>2, <2>4
<1>4. Done(n)
  BY <1>3
<1> QED  BY <1>4 DEF Done, Good, FoldsTo
=============================================================================
