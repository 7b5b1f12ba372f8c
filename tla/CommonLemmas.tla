----------------------------- MODULE CommonLemmas -----------------------------
(***************************************************************************)
(* Lemmas that more than one module of proofs needs: induction and         *)
(* recursion over the naturals, for sets and functions instead of          *)
(* operators; sequences; and the operators of ChunkText on any text.       *)
(***************************************************************************)
EXTENDS Integers, ChunkText, SequenceTheorems, FiniteSetTheorems, WellFoundedInduction, NaturalsInduction, TLAPS

LEMMA NatWF == IsWellFoundedOn({p \in Nat \X Nat : p[1] < p[2]}, Nat)
  <1>1. {p \in Nat \X Nat : p[1] < p[2]} = OpToRel(<, Nat)
    BY DEF OpToRel
  <1>2. QED
    BY <1>1, NatLessThanWellFounded

\* A set of naturals that is not empty has a least element.
LEMMA Least ==
  ASSUME NEW S \in SUBSET Nat, S # {}
  PROVE  \E x \in S : \A y \in S : x <= y
  <1> DEFINE R == {p \in Nat \X Nat : p[1] < p[2]}
  <1>1. IsWellFoundedOn(R, Nat)
    BY NatWF
  <1>2. \A x, y \in Nat : ~(<<y, x>> \in R) => x <= y
    OBVIOUS
  <1> HIDE DEF R
  <1>3. \E x \in S : \A y \in S : ~(<<y, x>> \in R)
    BY <1>1, WFMin
  <1>4. QED
    BY <1>2, <1>3

\* One that is bounded has a greatest.
LEMMA Greatest ==
  ASSUME NEW n \in Nat, NEW S \in SUBSET (0..n), S # {}
  PROVE  \E x \in S : \A y \in S : y <= x
  <1> DEFINE T == {n - x : x \in S}
  <1>1. T \in SUBSET Nat /\ T # {}
    <2>1. \A x \in S : n - x \in Nat
      OBVIOUS
    <2>2. PICK x \in S : TRUE
      OBVIOUS
    <2>3. n - x \in T
      OBVIOUS
    <2>4. T \subseteq Nat
      BY <2>1
    <2>5. QED
      BY <2>3, <2>4
  <1>2. PICK z \in T : \A w \in T : z <= w
    <2> HIDE DEF T
    <2>1. QED
      BY <1>1, Least
  <1>3. PICK x \in S : z = n - x
    BY <1>2
  <1>4. \A y \in S : n - x <= n - y
    BY <1>2, <1>3
  <1>5. QED
    BY <1>4

\* Induction, for a set.
LEMMA Induction ==
  ASSUME NEW S \in SUBSET Nat, 0 \in S, \A n \in S : n + 1 \in S
  PROVE  S = Nat
  <1> SUFFICES ASSUME Nat \ S # {} PROVE FALSE
    OBVIOUS
  <1>1. PICK x \in Nat \ S : \A y \in Nat \ S : x <= y
    BY Least
  <1>2. x - 1 \in Nat /\ x - 1 \in S
    BY <1>1
  <1>3. (x - 1) + 1 \in S
    BY <1>2
  <1>4. QED
    BY <1>1, <1>3

\* Induction up to n.
LEMMA InductionUpTo ==
  ASSUME NEW n \in Nat, NEW S, 0 \in S, \A i \in 0..n - 1 : i \in S => i + 1 \in S
  PROVE  0..n \subseteq S
  <1> DEFINE T == {i \in Nat : i \in S \/ i > n}
  <1>1. 0 \in T /\ T \in SUBSET Nat
    OBVIOUS
  <1>2. ASSUME NEW i \in T PROVE i + 1 \in T
    OBVIOUS
  <1> HIDE DEF T
  <1>3. T = Nat
    BY <1>1, <1>2, Induction
  <1>4. QED
    BY <1>3 DEF T

\* A function can be iterated n times.
LEMMA Iterates ==
  ASSUME NEW A, NEW a \in A, NEW n \in Nat, NEW g \in [1..n -> [A -> A]]
  PROVE  \E f \in [0..n -> A] : f[0] = a /\ \A i \in 1..n : f[i] = g[i][f[i - 1]]
  <1> DEFINE Good(m) == \E f \in [0..m -> A] : f[0] = a /\ \A i \in 1..m : f[i] = g[i][f[i - 1]]
             S == {m \in 0..n : Good(m)}
  <1>1. Good(0)
    <2> DEFINE h == [i \in 0..0 |-> a]
    <2>1. h \in [0..0 -> A] /\ h[0] = a /\ 1..0 = {}
      OBVIOUS
    <2> HIDE DEF h
    <2>2. QED
      BY <2>1
  <1>2. ASSUME NEW m \in 0..n - 1, Good(m)
        PROVE  Good(m + 1)
    <2>1. PICK f \in [0..m -> A] : f[0] = a /\ \A i \in 1..m : f[i] = g[i][f[i - 1]]
      BY <1>2
    <2> DEFINE h == [i \in 0..m + 1 |-> IF i <= m THEN f[i] ELSE g[m + 1][f[m]]]
    <2>2. f[m] \in A /\ g[m + 1] \in [A -> A]
      BY <2>1
    <2>3. h \in [0..m + 1 -> A]
      BY <2>1, <2>2
    <2>4. h[0] = a
      <3>1. 0 \in 0..m + 1 /\ 0 <= m /\ 0 \in 0..m
        OBVIOUS
      <3>2. QED
        BY <2>1, <3>1
    <2>5. ASSUME NEW i \in 1..m + 1 PROVE h[i] = g[i][h[i - 1]]
      <3>1. i - 1 \in 0..m /\ h[i - 1] = f[i - 1]
        BY <2>5
      <3>2. CASE i = m + 1
        BY <3>1, <3>2
      <3>3. CASE i # m + 1
        BY <2>1, <3>1, <3>3
      <3>4. QED
        BY <3>2, <3>3
    <2>6. QED
      BY <2>3, <2>4, <2>5
  <1> HIDE DEF Good
  <1>3. 0 \in S /\ \A m \in 0..n - 1 : m \in S => m + 1 \in S
    BY <1>1, <1>2
  <1> HIDE DEF S
  <1>4. 0..n \subseteq S
    BY <1>3, InductionUpTo
  <1>5. QED
    BY <1>4 DEF S, Good

-----------------------------------------------------------------------------
(* Sequences put one after the other *)

\* The first n of some sequences can be put one after the other.
Joinable(q, n, S) ==
    \E f \in [0..n -> Seq(S)] : f[0] = <<>> /\ \A i \in 1..n : f[i] = f[i - 1] \o q[i]

LEMMA Joins ==
  ASSUME NEW S, NEW n \in Nat, NEW q
  PROVE  q \in [1..n -> Seq(S)] => Joinable(q, n, S)
  <1> DEFINE A == Seq(S)
             g == [i \in 1..n |-> [s \in A |-> s \o q[i]]]
             a == <<>>
  <1>1. a \in A
    BY EmptySeq
  <1>2. SUFFICES ASSUME q \in [1..n -> Seq(S)]
                 PROVE  \E f \in [0..n -> A] : f[0] = a /\ \A i \in 1..n : f[i] = f[i - 1] \o q[i]
    BY DEF Joinable
  <1>3. g \in [1..n -> [A -> A]]
    BY <1>2, ConcatProperties
  <1>4. \A f \in [0..n -> A] : \A i \in 1..n : g[i][f[i - 1]] = f[i - 1] \o q[i]
    <2>1. \A i \in 1..n : i - 1 \in 0..n
      OBVIOUS
    <2>2. QED
      BY <2>1
  <1>5. \E f \in [0..n -> A] : f[0] = a /\ \A i \in 1..n : f[i] = g[i][f[i - 1]]
    <2> HIDE DEF A, g, a
    <2>1. QED
      BY <1>1, <1>3, Iterates
  <1>6. QED
    <2> HIDE DEF A, g, a
    <2>1. QED
      BY <1>4, <1>5

\* Where sequences that are put one after the other begin and end.
Growing(b, n) == b \in [0..n -> Nat] /\ b[0] = 0 /\ \A i \in 1..n : b[i - 1] <= b[i]

LEMMA Grows ==
  ASSUME NEW n \in Nat, NEW b, Growing(b, n)
  PROVE  \A i, j \in 0..n : i <= j => b[i] <= b[j]
  <1> DEFINE T == {j \in 0..n : \A i \in 0..j : b[i] <= b[j]}
  <1>1. b \in [0..n -> Nat] /\ \A i \in 1..n : b[i - 1] <= b[i]
    BY DEF Growing
  <1>2. 0 \in T
    BY <1>1
  <1>3. ASSUME NEW j \in 0..n - 1, j \in T PROVE j + 1 \in T
    <2>1. /\ j + 1 \in 1..n /\ (j + 1) - 1 = j /\ j \in 0..n /\ j + 1 \in 0..n
          /\ \A i \in 0..j + 1 : i \in 0..n /\ (i = j + 1 \/ i \in 0..j)
      OBVIOUS
    <2>2. b[j] <= b[j + 1] /\ b[j] \in Nat /\ b[j + 1] \in Nat
      BY <1>1, <2>1
    <2>3. ASSUME NEW i \in 0..j + 1 PROVE b[i] <= b[j + 1]
      <3>1. b[i] \in Nat
        BY <1>1, <2>1
      <3>2. QED
        BY <1>3, <2>1, <2>2, <3>1
    <2>4. QED
      BY <2>1, <2>3
  <1>4. 0..n \subseteq T
    <2> HIDE DEF T
    <2>1. QED
      BY <1>2, <1>3, InductionUpTo
  <1>5. QED
    BY <1>4

\* Every place is in one of them, and the later of two places in no earlier one.
LEMMA Places ==
  ASSUME NEW n \in Nat, NEW b, Growing(b, n)
  PROVE  /\ \A p \in 1..b[n] : \E i \in 1..n : b[i - 1] < p /\ p <= b[i]
         /\ \A i, j \in 1..n, p, r \in Nat :
              b[i - 1] < p /\ p <= b[i] /\ b[j - 1] < r /\ r <= b[j] /\ p <= r => i <= j
         /\ \A i \in 1..n, p \in Nat : b[i - 1] < p /\ p <= b[i] => p \in 1..b[n]
  <1>1. b \in [0..n -> Nat] /\ b[0] = 0
    BY DEF Growing
  <1>2. \A i \in 1..n : i - 1 \in 0..n /\ i \in 0..n /\ n \in 0..n
    OBVIOUS
  <1>3. ASSUME NEW p \in 1..b[n]
        PROVE  \E i \in 1..n : b[i - 1] < p /\ p <= b[i]
    <2> DEFINE T == {i \in 0..n : p <= b[i]}
    <2>1. n \in T
      OBVIOUS
    <2>2. PICK i \in T : \A j \in T : i <= j
      <3>1. T \in SUBSET Nat /\ T # {}
        BY <2>1
      <3> HIDE DEF T
      <3>2. QED
        BY <3>1, Least
    <2>3. i # 0
      BY <1>1, <1>3
    <2>4. i \in 1..n /\ i - 1 \in 0..n
      BY <2>3
    <2>5. b[i - 1] \in Nat /\ ~(p <= b[i - 1])
      BY <1>1, <2>2, <2>4
    <2>6. QED
      BY <1>1, <2>4, <2>5
  <1>4. ASSUME NEW i \in 1..n, NEW j \in 1..n, NEW p \in Nat, NEW r \in Nat,
               b[i - 1] < p, p <= b[i], b[j - 1] < r, r <= b[j], p <= r
        PROVE  i <= j
    <2> SUFFICES ASSUME j < i PROVE FALSE
      OBVIOUS
    <2>1. j <= i - 1 /\ i - 1 \in 0..n /\ j \in 0..n
      OBVIOUS
    <2>2. b[j] <= b[i - 1] /\ b[j] \in Nat /\ b[i - 1] \in Nat
      BY <1>1, <2>1, Grows
    <2>3. QED
      BY <1>4, <2>2
  <1>5. ASSUME NEW i \in 1..n, NEW p \in Nat, b[i - 1] < p, p <= b[i]
        PROVE  p \in 1..b[n]
    <2>1. b[i] <= b[n] /\ b[i - 1] \in Nat /\ b[n] \in Nat /\ b[i] \in Nat
      <3>1. i <= n
        OBVIOUS
      <3>2. QED
        BY <1>1, <1>2, <3>1, Grows
    <2>2. QED
      BY <1>5, <2>1
  <1>6. QED
    BY <1>3, <1>4, <1>5

\* v holds the n sequences of q, the i-th of them after place b[i - 1].
Flat(q, n, v, b) ==
    /\ Growing(b, n) /\ b[n] = Len(v)
    /\ \A i \in 1..n : b[i] = b[i - 1] + Len(q[i])
    /\ \A i \in 1..n : \A k \in 1..Len(q[i]) : v[b[i - 1] + k] = q[i][k]

\* Two sequences, one after the other.
LEMMA ConcatAt ==
  ASSUME NEW S, NEW s \in Seq(S), NEW t \in Seq(S)
  PROVE  /\ s \o t \in Seq(S) /\ Len(s) \in Nat /\ Len(t) \in Nat /\ Len(s \o t) = Len(s) + Len(t)
         /\ \A k \in 1..Len(s) : (s \o t)[k] = s[k]
         /\ \A k \in 1..Len(t) : (s \o t)[Len(s) + k] = t[k]
  <1> DEFINE a == Len(s)
             b == Len(t)
             v == s \o t
  <1>1. a \in Nat /\ b \in Nat /\ v \in Seq(S) /\ Len(v) = a + b
    BY LenProperties, ConcatProperties
  <1>2. \A k \in 1..a + b : v[k] = IF k <= a THEN s[k] ELSE t[k - a]
    BY ConcatProperties
  <1> HIDE DEF a, b, v
  <1>3. \A k \in 1..a : k \in 1..a + b /\ k <= a
    BY <1>1
  <1>4. \A k \in 1..b : a + k \in 1..a + b /\ ~(a + k <= a) /\ (a + k) - a = k
    BY <1>1
  <1>5. \A k \in 1..a : v[k] = s[k]
    BY <1>2, <1>3
  <1>6. ASSUME NEW k \in 1..b PROVE v[a + k] = t[k]
    BY <1>2, <1>4
  <1>7. QED
    BY <1>1, <1>5, <1>6 DEF a, b, v

LEMMA Flattens ==
  ASSUME NEW S, NEW n \in Nat, NEW q
  PROVE  q \in [1..n -> Seq(S)] =>
           FlattenSeq(q) \in Seq(S) /\ \E b : Flat(q, n, FlattenSeq(q), b)
  <1> SUFFICES ASSUME q \in [1..n -> Seq(S)]
               PROVE  FlattenSeq(q) \in Seq(S) /\ \E b : Flat(q, n, FlattenSeq(q), b)
    OBVIOUS
  <1>1. PICK f \in [0..n -> Seq(S)] : f[0] = <<>> /\ \A i \in 1..n : f[i] = f[i - 1] \o q[i]
    <2>1. Joinable(q, n, S)
      BY Joins
    <2>2. QED
      BY <2>1 DEF Joinable
  <1> DEFINE b == [i \in 0..n |-> Len(f[i])]
             last == FlattenSeq(q)
  <1>2. ASSUME NEW i \in 1..n
        PROVE  /\ f[i - 1] \in Seq(S) /\ q[i] \in Seq(S) /\ f[i] \in Seq(S)
               /\ Len(f[i - 1]) \in Nat /\ Len(q[i]) \in Nat
               /\ Len(f[i]) = Len(f[i - 1]) + Len(q[i])
               /\ \A m \in 1..Len(f[i - 1]) + Len(q[i]) :
                    f[i][m] = IF m <= Len(f[i - 1]) THEN f[i - 1][m] ELSE q[i][m - Len(f[i - 1])]
    <2>1. i - 1 \in 0..n /\ i \in 0..n
      OBVIOUS
    <2>2. f[i - 1] \in Seq(S) /\ q[i] \in Seq(S) /\ f[i] = f[i - 1] \o q[i]
      BY <1>1, <2>1
    <2>3. QED
      BY <2>2, ConcatProperties, LenProperties
  <1>3. Growing(b, n) /\ \A i \in 1..n : b[i] = b[i - 1] + Len(q[i])
    <2>1. \A i \in 0..n : f[i] \in Seq(S)
      BY <1>1
    <2>2. b \in [0..n -> Nat]
      BY <2>1, LenProperties
    <2>3. b[0] = 0
      BY <1>1
    <2>4. \A i \in 1..n : b[i] = Len(f[i]) /\ b[i - 1] = Len(f[i - 1])
      OBVIOUS
    <2> HIDE DEF b
    <2>5. \A i \in 1..n : b[i] = b[i - 1] + Len(q[i]) /\ b[i - 1] \in Nat /\ Len(q[i]) \in Nat
      BY <1>2, <2>4
    <2>6. \A i \in 1..n : b[i - 1] <= b[i]
      BY <2>5
    <2>7. QED
      BY <2>2, <2>3, <2>5, <2>6 DEF Growing
  <1>4. FlattenSeq(q) = f[n]
    <2>1. Len(q) = n
      BY LenProperties
    <2>2. CASE n = 0
      <3>1. q = <<>>
        BY <2>2
      <3>2. QED
        BY <1>1, <2>1, <2>2, <3>1 DEF FlattenSeq
    <2>3. CASE n # 0
      <3> DEFINE h == [i \in 1..n |-> f[i]]
                 flatten[i \in 1..n] == IF i = 1 THEN q[i] ELSE flatten[i - 1] \o q[i]
      <3>1. 1 \in 1..n /\ f[1] = q[1]
        <4>1. 1 \in 1..n /\ 1 - 1 = 0
          BY <2>3
        <4>2. f[1] = <<>> \o q[1] /\ q[1] \in Seq(S)
          BY <1>1, <4>1
        <4>3. QED
          BY <4>1, <4>2, ConcatEmptySeq
      <3>2. h = [i \in 1..n |-> IF i = 1 THEN q[i] ELSE h[i - 1] \o q[i]]
        <4>1. \A i \in 1..n : i # 1 => i - 1 \in 1..n
          OBVIOUS
        <4>2. \A i \in 1..n : f[i] = IF i = 1 THEN q[i] ELSE h[i - 1] \o q[i]
          BY <1>1, <3>1, <4>1
        <4> HIDE DEF h
        <4>3. h = [i \in 1..n |-> f[i]]
          BY DEF h
        <4>4. QED
          BY <4>2, <4>3
      <3>3. h[n] = f[n] /\ n \in 1..n
        BY <2>3
      <3> HIDE DEF h
      <3>4. flatten = [i \in 1..n |-> IF i = 1 THEN q[i] ELSE flatten[i - 1] \o q[i]]
        BY <3>2
      <3>5. FlattenSeq(q) = flatten[n]
        BY <2>1, <2>3 DEF FlattenSeq
      <3> HIDE DEF flatten
      <3> DEFINE T == {i \in 0..n : i # 0 => flatten[i] = f[i]}
      <3>6. 0 \in T
        OBVIOUS
      <3>7. ASSUME NEW i \in 0..n - 1, i \in T PROVE i + 1 \in T
        <4>1. i + 1 \in 1..n /\ (i + 1) - 1 = i /\ i + 1 \in 0..n
          OBVIOUS
        <4>2. flatten[i + 1] = IF i + 1 = 1 THEN q[i + 1] ELSE flatten[i] \o q[i + 1]
          BY <3>4, <4>1
        <4>3. f[i + 1] = f[i] \o q[i + 1]
          BY <1>1, <4>1
        <4>4. flatten[i + 1] = f[i + 1]
          <5>1. CASE i = 0
            BY <3>1, <4>2, <5>1
          <5>2. CASE i # 0
            <6>1. flatten[i] = f[i] /\ i + 1 # 1
              BY <3>7, <5>2
            <6> HIDE DEF flatten
            <6>2. QED
              BY <4>2, <4>3, <6>1
          <5>3. QED
            BY <5>1, <5>2
        <4>5. QED
          BY <4>1, <4>4
      <3>8. n \in T
        <4> HIDE DEF T
        <4>1. 0..n \subseteq T
          BY <3>6, <3>7, InductionUpTo
        <4>2. QED
          BY <4>1
      <3>9. QED
        BY <2>3, <3>5, <3>8
    <2>4. QED
      BY <2>2, <2>3
  <1>5. f[n] \in Seq(S) /\ b[n] = Len(f[n]) /\ \A i \in 0..n : b[i] = Len(f[i])
    BY <1>1
  <1> HIDE DEF b
  <1> DEFINE T == {i \in 0..n : \A j \in 1..i : \A k \in 1..Len(q[j]) : f[i][b[j - 1] + k] = q[j][k]}
  <1>6. 0 \in T
    OBVIOUS
  <1>7. ASSUME NEW i \in 0..n - 1, i \in T PROVE i + 1 \in T
    <2> DEFINE s == f[i]
               w == q[i + 1]
               v == f[i + 1]
    <2>1. i + 1 \in 1..n /\ (i + 1) - 1 = i /\ i + 1 \in 0..n /\ i \in 0..n
      OBVIOUS
    <2>2. s \in Seq(S) /\ w \in Seq(S) /\ v = s \o w /\ Len(s) = b[i] /\ b[i] \in Nat
      BY <1>1, <1>2, <1>5, <2>1
    <2>3. /\ \A m \in 1..b[i] : v[m] = s[m]
          /\ \A m \in 1..Len(w) : v[b[i] + m] = w[m]
      <3> HIDE DEF s, w, v
      <3>1. /\ \A m \in 1..Len(s) : (s \o w)[m] = s[m]
            /\ \A m \in 1..Len(w) : (s \o w)[Len(s) + m] = w[m]
        <4>1. s \in Seq(S) /\ w \in Seq(S)
          BY <2>2
        <4>2. QED
          BY ONLY <4>1, ConcatAt
      <3>2. QED
        BY <2>2, <3>1, Zenon
    <2>4. ASSUME NEW j \in 1..i + 1, NEW k \in 1..Len(q[j]) PROVE v[b[j - 1] + k] = q[j][k]
      <3>1. j \in 1..n /\ j - 1 \in 0..n /\ j \in 0..n
        BY <2>1
      <3>2. CASE j = i + 1
        <4>1. q[j] = w /\ b[j - 1] = b[i]
          BY <2>1, <3>2
        <4> HIDE DEF w, v
        <4>2. QED
          BY <2>3, <4>1
      <3>3. CASE j # i + 1
        <4>1. j \in 1..i /\ j <= i
          BY <3>3
        <4>2. b[j] <= b[i]
          BY <1>3, <2>1, <3>1, <4>1, Grows
        <4>3. b[j - 1] \in Nat /\ b[j] = b[j - 1] + Len(q[j]) /\ Len(q[j]) \in Nat
          <5>1. b[j - 1] \in Nat
            BY <1>3, <3>1 DEF Growing
          <5>2. QED
            BY <1>2, <1>3, <3>1, <5>1
        <4> DEFINE lq == Len(q[j])
                   m == b[j - 1]
        <4>4. m + k \in 1..b[i]
          <5> HIDE DEF lq
          <5>1. k \in 1..lq
            BY DEF lq
          <5>2. m \in Nat /\ lq \in Nat /\ m + lq <= b[i]
            BY <4>2, <4>3 DEF lq
          <5> HIDE DEF m
          <5>3. QED
            BY <2>2, <5>1, <5>2
        <4>5. s[m + k] = q[j][k]
          BY <1>7, <4>1
        <4> HIDE DEF s, v, m
        <4>6. v[m + k] = s[m + k]
          BY <2>3, <4>4
        <4>7. QED
          BY <4>5, <4>6 DEF m
      <3>4. QED
        BY <3>2, <3>3
    <2>5. QED
      BY <2>1, <2>4
  <1>8. n \in T
    <2> HIDE DEF T
    <2>1. 0..n \subseteq T
      BY <1>6, <1>7, InductionUpTo
    <2>2. QED
      BY <2>1
  <1>9. Flat(q, n, f[n], b)
    BY <1>3, <1>5, <1>8 DEF Flat
  <1>10. QED
    BY <1>4, <1>5, <1>9

-----------------------------------------------------------------------------
(* The text of an answer *)

\* The characters kept are characters of the text.
LEMMA AtType ==
  ASSUME NEW S, NEW t \in Seq(S), NEW I
  PROVE  At(t, I) \in Seq(S)
  <1> DEFINE n == Len(t)
             A == Seq(S)
             a == <<>>
             Step(i, s) == IF i \in I THEN Append(s, t[i]) ELSE s
             g == [i \in 1..n |-> [s \in A |-> Step(i, s)]]
             kept[i \in 0..n] ==
               IF i = 0 THEN <<>>
               ELSE IF i \in I THEN Append(kept[i - 1], t[i]) ELSE kept[i - 1]
  <1>1. n \in Nat /\ a \in A
    BY LenProperties, EmptySeq
  <1>2. \A i \in 1..n, s \in A : Step(i, s) \in A
    BY AppendProperties, ElementOfSeq
  <1>3. PICK f \in [0..n -> A] : f[0] = a /\ \A i \in 1..n : f[i] = Step(i, f[i - 1])
    <2>1. g \in [1..n -> [A -> A]]
      <3> HIDE DEF n, A, Step
      <3>1. QED
        BY <1>2
    <2>2. \E f \in [0..n -> A] : f[0] = a /\ \A i \in 1..n : f[i] = g[i][f[i - 1]]
      <3> HIDE DEF n, A, a, g
      <3>1. QED
        BY <1>1, <2>1, Iterates
    <2>3. \A f \in [0..n -> A] : \A i \in 1..n : g[i][f[i - 1]] = Step(i, f[i - 1])
      <3>1. \A i \in 1..n : i - 1 \in 0..n
        BY <1>1
      <3> HIDE DEF n, A, Step
      <3>2. QED
        BY <3>1
    <2> HIDE DEF n, A, a, g, Step
    <2>4. QED
      BY <2>2, <2>3
  <1>4. f = [i \in 0..n |-> IF i = 0 THEN <<>>
                            ELSE IF i \in I THEN Append(f[i - 1], t[i]) ELSE f[i - 1]]
    <2>1. \A i \in 0..n : f[i] = IF i = 0 THEN <<>>
                                 ELSE IF i \in I THEN Append(f[i - 1], t[i]) ELSE f[i - 1]
      <3>1. \A i \in 0..n : i = 0 \/ i \in 1..n
        BY <1>1
      <3>2. QED
        BY <1>3, <3>1
    <2> HIDE DEF n
    <2>2. QED
      BY <2>1
  <1>5. kept = [i \in 0..n |-> IF i = 0 THEN <<>>
                               ELSE IF i \in I THEN Append(kept[i - 1], t[i]) ELSE kept[i - 1]]
    BY <1>4
  <1>6. At(t, I) = kept[n]
    BY DEF At
  <1> HIDE DEF kept
  <1> DEFINE Good == {i \in 0..n : kept[i] \in A}
  <1>7. 0 \in Good
    BY <1>1, <1>5
  <1>8. ASSUME NEW i \in 0..n - 1, i \in Good PROVE i + 1 \in Good
    <2>1. i + 1 \in 1..n /\ (i + 1) - 1 = i /\ i + 1 \in 0..n /\ i + 1 # 0
      BY <1>1
    <2>2. kept[i + 1] = Step(i + 1, kept[i])
      BY <1>5, <2>1
    <2>3. QED
      BY <1>2, <1>8, <2>1, <2>2
  <1>9. n \in Good
    <2> HIDE DEF Good, n
    <2>1. 0..n \subseteq Good
      BY <1>1, <1>7, <1>8, InductionUpTo
    <2>2. QED
      BY <1>1, <2>1
  <1>10. QED
    BY <1>6, <1>9

LEMMA CleanType ==
  ASSUME NEW t \in Seq(STRING)
  PROVE  Clean(t) \in Seq(STRING)
  <1> DEFINE u == At(t, 1..Len(t) \ TagsIn(t))
             trimmed[s \in Seq(STRING)] ==
               At(s, {i \in 1..Len(s) :
                        /\ i = 1 => s[i] \notin {Open, Close}
                        /\ i = Len(s) => s[i] # Lt})
  <1>1. u \in Seq(STRING)
    BY AtType
  <1>2. Clean(t) = trimmed[u]
    BY DEF Clean
  <1> HIDE DEF u
  <1>3. trimmed[u] = At(u, {i \in 1..Len(u) :
                              /\ i = 1 => u[i] \notin {Open, Close}
                              /\ i = Len(u) => u[i] # Lt})
    BY <1>1
  <1>4. QED
    BY <1>1, <1>2, <1>3, AtType

LEMMA FilteredType ==
  ASSUME NEW t \in Seq(STRING)
  PROVE  Filtered(t) \in Seq(STRING)
  <1> DEFINE in == Inside(t)
             u == At(t, {i \in 1..Len(t) :
                           /\ ~in[i] /\ ~in[i - 1]
                           /\ i < Len(t) => ~in[i + 1]})
             cleaned[s \in Seq(STRING)] == Clean(s)
  <1>1. u \in Seq(STRING)
    BY AtType
  <1>2. Filtered(t) = cleaned[u]
    BY DEF Filtered
  <1> HIDE DEF u
  <1>3. cleaned[u] = Clean(u)
    BY <1>1
  <1>4. QED
    BY <1>1, <1>2, <1>3, CleanType

\* What a chunk adds to the text so far, and the text so far after it.
LEMMA IncrementType ==
  ASSUME NEW sofar \in Seq(STRING), NEW v \in Seq(STRING)
  PROVE  NewText(sofar, v) \in Seq(STRING) /\ TextSoFar(sofar, v) \in Seq(STRING)
  <1>1. <<>> \in Seq(STRING) /\ sofar \o v \in Seq(STRING)
    BY EmptySeq, ConcatProperties
  <1>2. SubSeq(v, Len(sofar) + 1, Len(v)) \in Seq(STRING)
    <2>1. Len(sofar) \in Nat /\ Len(v) \in Nat /\ \A i \in Len(sofar) + 1..Len(v) : v[i] \in STRING
      BY LenProperties, ElementOfSeq
    <2>2. QED
      BY <2>1, SubSeqProperties
  <1>3. QED
    BY <1>1, <1>2 DEF NewText, TextSoFar

LEMMA SnapshotDeltaType ==
  ASSUME NEW new \in Seq(STRING), NEW last \in Seq(STRING)
  PROVE  SnapshotDelta(new, last) \in Seq(STRING)
  <1> DEFINE same == {n \in 0..Len(new) : n <= Len(last) /\ SubSeq(new, 1, n) = SubSeq(last, 1, n)}
             n == CHOOSE m \in same : \A k \in same : k <= m
  <1>1. Len(new) \in Nat /\ Len(last) \in Nat /\ same \subseteq 0..Len(new)
    BY LenProperties
  <1>2. 0 \in same
    <2>1. SubSeq(new, 1, 0) = <<>> /\ SubSeq(last, 1, 0) = <<>>
      BY SubSeqEmpty
    <2>2. QED
      BY <1>1, <2>1
  <1> HIDE DEF same
  <1>3. \E m \in same : \A k \in same : k <= m
    BY <1>1, <1>2, Greatest
  <1>4. n \in same
    BY <1>3
  <1>5. n \in Nat
    <2> HIDE DEF n
    <2>1. QED
      BY <1>1, <1>4
  <1>6. SnapshotDelta(new, last) =
          IF n > 0 \/ last = <<>> THEN SubSeq(new, n + 1, Len(new)) ELSE <<>>
    BY DEF SnapshotDelta, same
  <1> HIDE DEF n
  <1>7. SubSeq(new, n + 1, Len(new)) \in Seq(STRING)
    <2>1. \A i \in n + 1..Len(new) : new[i] \in STRING
      BY <1>1, <1>5, ElementOfSeq
    <2>2. QED
      BY <1>1, <1>5, <2>1, SubSeqProperties
  <1>8. QED
    BY <1>6, <1>7, EmptySeq

-----------------------------------------------------------------------------
(* Tool calls *)

Distinct(s) == \A i, j \in 1..Len(s) : s[i] = s[j] => i = j

LEMMA AppendSet ==
  ASSUME NEW S, NEW s \in Seq(S), NEW e \in S
  PROVE  /\ ToSet(Append(s, e)) = ToSet(s) \cup {e}
         /\ Distinct(s) /\ e \notin ToSet(s) => Distinct(Append(s, e))
  <1>1. /\ Append(s, e) \in Seq(S) /\ Len(Append(s, e)) = Len(s) + 1 /\ Len(s) \in Nat
        /\ \A i \in 1..Len(s) : Append(s, e)[i] = s[i]
        /\ Append(s, e)[Len(s) + 1] = e
    BY AppendProperties, LenProperties
  <1>2. DOMAIN s = 1..Len(s) /\ DOMAIN Append(s, e) = 1..Len(s) + 1
    BY <1>1, LenProperties
  <1>3. 1..Len(s) + 1 = 1..Len(s) \cup {Len(s) + 1}
    BY <1>1
  <1>4. ToSet(Append(s, e)) = ToSet(s) \cup {e}
    BY <1>1, <1>2, <1>3 DEF ToSet
  <1>5. ASSUME Distinct(s), e \notin ToSet(s), NEW i \in 1..Len(s) + 1, NEW j \in 1..Len(s) + 1,
               Append(s, e)[i] = Append(s, e)[j]
        PROVE  i = j
    <2>1. \A k \in 1..Len(s) : s[k] # e
      BY <1>2, <1>5 DEF ToSet
    <2>2. QED
      BY <1>1, <1>3, <1>5, <2>1 DEF Distinct
  <1>6. QED
    BY <1>1, <1>4, <1>5 DEF Distinct

\* The new calls are those not seen, each once.
LEMMA NewCallsAre ==
  ASSUME NEW S, NEW calls \in Seq(S), NEW seen
  PROVE  /\ NewCalls(calls, seen) \in Seq(S)
         /\ ToSet(NewCalls(calls, seen)) = ToSet(calls) \ seen
         /\ Distinct(NewCalls(calls, seen))
  <1> DEFINE n == Len(calls)
             A == Seq(S)
             a == <<>>
             Step(i, s) == IF calls[i] \in seen \cup ToSet(s) THEN s ELSE Append(s, calls[i])
             g == [i \in 1..n |-> [s \in A |-> Step(i, s)]]
             new[i \in 0..n] ==
               IF i = 0 THEN <<>>
               ELSE IF calls[i] \in seen \cup ToSet(new[i - 1])
                    THEN new[i - 1] ELSE Append(new[i - 1], calls[i])
  <1>1. n \in Nat /\ a \in A /\ DOMAIN calls = 1..n /\ \A i \in 1..n : calls[i] \in S
    BY LenProperties, EmptySeq, ElementOfSeq
  <1>2. \A i \in 1..n, s \in A : Step(i, s) \in A
    BY <1>1, AppendProperties
  <1>3. PICK f \in [0..n -> A] : f[0] = a /\ \A i \in 1..n : f[i] = Step(i, f[i - 1])
    <2>1. g \in [1..n -> [A -> A]]
      <3> HIDE DEF n, A, Step
      <3>1. QED
        BY <1>2
    <2>2. \E f \in [0..n -> A] : f[0] = a /\ \A i \in 1..n : f[i] = g[i][f[i - 1]]
      <3> HIDE DEF n, A, a, g
      <3>1. QED
        BY <1>1, <2>1, Iterates
    <2>3. \A f \in [0..n -> A] : \A i \in 1..n : g[i][f[i - 1]] = Step(i, f[i - 1])
      <3>1. \A i \in 1..n : i - 1 \in 0..n
        BY <1>1
      <3> HIDE DEF n, A, Step
      <3>2. QED
        BY <3>1
    <2> HIDE DEF n, A, a, g, Step
    <2>4. QED
      BY <2>2, <2>3
  <1>4. f = [i \in 0..n |-> IF i = 0 THEN <<>>
                            ELSE IF calls[i] \in seen \cup ToSet(f[i - 1])
                                 THEN f[i - 1] ELSE Append(f[i - 1], calls[i])]
    <2>1. \A i \in 0..n : f[i] = IF i = 0 THEN <<>>
                                 ELSE IF calls[i] \in seen \cup ToSet(f[i - 1])
                                      THEN f[i - 1] ELSE Append(f[i - 1], calls[i])
      <3>1. \A i \in 0..n : i = 0 \/ i \in 1..n
        BY <1>1
      <3>2. QED
        BY <1>3, <3>1
    <2> HIDE DEF n
    <2>2. QED
      BY <2>1
  <1>5. new = [i \in 0..n |-> IF i = 0 THEN <<>>
                              ELSE IF calls[i] \in seen \cup ToSet(new[i - 1])
                                   THEN new[i - 1] ELSE Append(new[i - 1], calls[i])]
    BY <1>4
  <1>6. NewCalls(calls, seen) = new[n]
    BY DEF NewCalls
  <1> HIDE DEF new, n
  <1> DEFINE Found(i) == {calls[k] : k \in 1..i} \ seen
             Good == {i \in 0..n : new[i] \in A /\ ToSet(new[i]) = Found(i) /\ Distinct(new[i])}
  <1>7. 0 \in Good
    <2>1. new[0] = <<>>
      BY <1>1, <1>5
    <2>2. Found(0) = {} /\ ToSet(<<>>) = {} /\ Distinct(<<>>)
      BY DEF ToSet, Distinct
    <2>3. 0 \in 0..n /\ new[0] \in A
      BY <1>1, <2>1
    <2> HIDE DEF Found, A, a
    <2>4. QED
      BY <2>1, <2>2, <2>3
  <1>8. ASSUME NEW i \in 0..n - 1, i \in Good PROVE i + 1 \in Good
    <2>1. i + 1 \in 1..n /\ (i + 1) - 1 = i /\ i + 1 \in 0..n /\ i + 1 # 0
      BY <1>1
    <2>2. new[i + 1] = Step(i + 1, new[i])
      BY <1>5, <2>1
    <2>3. Found(i + 1) = Found(i) \cup ({calls[i + 1]} \ seen)
      <3>1. 1..i + 1 = 1..i \cup {i + 1}
        BY <1>1
      <3>2. QED
        BY <3>1
    <2>4. new[i] \in A /\ ToSet(new[i]) = Found(i) /\ Distinct(new[i]) /\ calls[i + 1] \in S
      BY <1>1, <1>8, <2>1
    <2>5. CASE calls[i + 1] \in seen \cup ToSet(new[i])
      <3>1. new[i + 1] = new[i]
        BY <2>2, <2>5
      <3>2. Found(i + 1) = Found(i)
        <4> HIDE DEF Found
        <4>1. QED
          BY <2>3, <2>4, <2>5
      <3> HIDE DEF Found
      <3>3. QED
        BY <2>1, <2>4, <3>1, <3>2
    <2>6. CASE calls[i + 1] \notin seen \cup ToSet(new[i])
      <3>1. new[i + 1] = Append(new[i], calls[i + 1])
        BY <2>2, <2>6
      <3>2. Found(i + 1) = Found(i) \cup {calls[i + 1]}
        <4> HIDE DEF Found
        <4>1. QED
          BY <2>3, <2>6
      <3> HIDE DEF Found
      <3>3. /\ new[i + 1] \in A
            /\ ToSet(new[i + 1]) = ToSet(new[i]) \cup {calls[i + 1]}
            /\ Distinct(new[i + 1])
        BY <2>4, <2>6, <3>1, AppendSet, AppendProperties
      <3>4. QED
        BY <2>1, <2>4, <3>2, <3>3
    <2>7. QED
      BY <2>5, <2>6
  <1>9. n \in Good
    <2> HIDE DEF Good
    <2>1. 0..n \subseteq Good
      BY <1>1, <1>7, <1>8, InductionUpTo
    <2>2. QED
      BY <1>1, <2>1
  <1>10. Found(n) = ToSet(calls) \ seen
    BY <1>1 DEF ToSet
  <1> HIDE DEF Found
  <1>11. QED
    BY <1>6, <1>9, <1>10

\* Where the inside of a tool call begins and ends.
LEMMA InsideIs ==
  ASSUME NEW t \in Seq(STRING)
  PROVE  /\ Inside(t) \in [0..Len(t) -> BOOLEAN]
         /\ ~Inside(t)[0]
         /\ \A i \in 1..Len(t) :
              Inside(t)[i] = IF i < 2 THEN FALSE
                             ELSE IF Inside(t)[i - 1] THEN ~(t[i - 1] = Lt /\ t[i] = Close)
                             ELSE t[i - 1] = Lt /\ t[i] = Open
  <1> DEFINE n == Len(t)
             A == BOOLEAN
             a == FALSE
             Step(i, b) == IF i < 2 THEN FALSE
                           ELSE IF b THEN ~(t[i - 1] = Lt /\ t[i] = Close)
                           ELSE t[i - 1] = Lt /\ t[i] = Open
             g == [i \in 1..n |-> [b \in A |-> Step(i, b)]]
             in[i \in 0..n] ==
               IF i < 2 THEN FALSE
               ELSE IF in[i - 1] THEN ~(t[i - 1] = Lt /\ t[i] = Close)
               ELSE t[i - 1] = Lt /\ t[i] = Open
  <1>1. n \in Nat /\ a \in A
    BY LenProperties
  <1>2. \A i \in 1..n, b \in A : Step(i, b) \in A
    OBVIOUS
  <1>3. PICK f \in [0..n -> A] : f[0] = a /\ \A i \in 1..n : f[i] = Step(i, f[i - 1])
    <2>1. g \in [1..n -> [A -> A]]
      <3> HIDE DEF n, A, Step
      <3>1. QED
        BY <1>2
    <2>2. \E f \in [0..n -> A] : f[0] = a /\ \A i \in 1..n : f[i] = g[i][f[i - 1]]
      <3> HIDE DEF n, A, a, g
      <3>1. QED
        BY <1>1, <2>1, Iterates
    <2>3. \A f \in [0..n -> A] : \A i \in 1..n : g[i][f[i - 1]] = Step(i, f[i - 1])
      <3>1. \A i \in 1..n : i - 1 \in 0..n
        BY <1>1
      <3> HIDE DEF n, A, Step
      <3>2. QED
        BY <3>1
    <2> HIDE DEF n, A, a, g, Step
    <2>4. QED
      BY <2>2, <2>3
  <1>4. f = [i \in 0..n |-> IF i < 2 THEN FALSE
                            ELSE IF f[i - 1] THEN ~(t[i - 1] = Lt /\ t[i] = Close)
                            ELSE t[i - 1] = Lt /\ t[i] = Open]
    <2>1. \A i \in 0..n : f[i] = IF i < 2 THEN FALSE
                                 ELSE IF f[i - 1] THEN ~(t[i - 1] = Lt /\ t[i] = Close)
                                 ELSE t[i - 1] = Lt /\ t[i] = Open
      <3>1. \A i \in 0..n : (i = 0 /\ i < 2) \/ i \in 1..n
        BY <1>1
      <3> HIDE DEF n
      <3>2. QED
        BY <1>3, <3>1
    <2> HIDE DEF n
    <2>2. QED
      BY <2>1
  <1>5. in = [i \in 0..n |-> IF i < 2 THEN FALSE
                             ELSE IF in[i - 1] THEN ~(t[i - 1] = Lt /\ t[i] = Close)
                             ELSE t[i - 1] = Lt /\ t[i] = Open]
    BY <1>4
  <1>6. Inside(t) = in
    BY DEF Inside
  <1> HIDE DEF in
  <1>7. \A i \in 1..n : i \in 0..n
    BY <1>1
  <1>8. \A i \in 0..n : in[i] \in BOOLEAN
    BY <1>5
  <1>9. 0 \in 0..n /\ 0 < 2
    BY <1>1
  <1>10. ~in[0]
    BY <1>5, <1>9
  <1>11. in \in [0..n -> BOOLEAN]
    <2> HIDE DEF n
    <2>1. in = [i \in 0..n |-> in[i]]
      BY <1>5
    <2>2. QED
      BY <1>8, <2>1
  <1>12. \A i \in 1..n : in[i] = Step(i, in[i - 1])
    BY <1>5, <1>7
  <1>13. QED
    BY <1>6, <1>10, <1>11, <1>12

\* Position i ends a tool call.
EndsCall(t, i) == Inside(t)[i - 1] /\ ~Inside(t)[i]

\* The calls are texts, and there is one as soon as a call has ended.
LEMMA ToolCallsAre ==
  ASSUME NEW t \in Seq(STRING)
  PROVE  /\ ToolCalls(t) \in Seq(Seq(STRING))
         /\ ToolCalls(t) = <<>> <=> \A i \in 1..Len(t) : ~EndsCall(t, i)
  <1> DEFINE n == Len(t)
             in == Inside(t)
             start(i) == CHOOSE k \in 1..i - 1 : ~in[k - 1] /\ \A j \in k..i - 1 : in[j]
             body(i) == LET start0 == CHOOSE k \in 1..i - 1 :
                                        ~in[k - 1] /\ \A j \in k..i - 1 : in[j]
                        IN  SubSeq(t, start0 + 1, i - 2)
             A == Seq(Seq(STRING))
             a == <<>>
             Step(i, s) == IF in[i - 1] /\ ~in[i] THEN Append(s, body(i)) ELSE s
             B == [i \in 1..n |-> IF in[i - 1] /\ ~in[i] THEN body(i) ELSE <<>>]
             g == [i \in 1..n |-> [s \in A |-> Step(i, s)]]
             calls[i \in 0..n] ==
               IF i = 0 THEN <<>>
               ELSE IF in[i - 1] /\ ~in[i] THEN Append(calls[i - 1], body(i)) ELSE calls[i - 1]
  <1>1. n \in Nat /\ a \in A
    BY LenProperties, EmptySeq
  <1>2. ASSUME NEW i \in 1..n, in[i - 1], ~in[i]
        PROVE  body(i) \in Seq(STRING)
    <2> DEFINE K == {k \in 1..i - 1 : \A j \in k..i - 1 : in[j]}
    <2>1. ~in[0] /\ i - 1 \in Nat /\ i - 1 # 0
      <3> HIDE DEF in
      <3>1. ~in[0]
        BY InsideIs DEF in
      <3>2. i - 1 # 0
        BY <1>2, <3>1
      <3>3. QED
        BY <1>1, <3>1, <3>2
    <2>2. i - 1 \in K /\ K \subseteq Nat
      BY <1>2, <2>1
    <2>3. PICK k \in K : \A l \in K : k <= l
      <3> HIDE DEF K
      <3>1. QED
        BY <2>2, Least
    <2>4. ~in[k - 1]
      <3> SUFFICES ASSUME in[k - 1] PROVE FALSE
        OBVIOUS
      <3>1. k \in 1..i - 1 /\ k # 1
        BY <2>1, <2>3
      <3>2. k - 1 \in 1..i - 1 /\ \A j \in k - 1..i - 1 : j = k - 1 \/ j \in k..i - 1
        BY <2>1, <3>1
      <3>3. k - 1 \in K
        BY <2>3, <3>2
      <3>4. QED
        BY <2>3, <3>1, <3>3
    <2>5. start(i) \in 1..i - 1
      BY <2>3, <2>4
    <2>6. body(i) = SubSeq(t, start(i) + 1, i - 2)
      OBVIOUS
    <2> HIDE DEF start
    <2>7. \A j \in start(i) + 1..i - 2 : j \in 1..Len(t)
      BY <1>1, <2>1, <2>5
    <2>8. \A j \in start(i) + 1..i - 2 : t[j] \in STRING
      BY <2>7, ElementOfSeq
    <2>9. start(i) + 1 \in Int /\ i - 2 \in Int
      BY <2>1, <2>5
    <2>10. SubSeq(t, start(i) + 1, i - 2) \in Seq(STRING)
      BY <2>8, <2>9, SubSeqProperties
    <2>11. QED
      BY <2>6, <2>10
  <1> HIDE DEF start, body
  <1>3. \A i \in 1..n, s \in A : Step(i, s) \in A
    BY <1>2, AppendProperties
  <1>4. PICK f \in [0..n -> A] : f[0] = a /\ \A i \in 1..n : f[i] = Step(i, f[i - 1])
    <2>1. g \in [1..n -> [A -> A]]
      <3> HIDE DEF n, A, Step
      <3>1. QED
        BY <1>3
    <2>2. \E f \in [0..n -> A] : f[0] = a /\ \A i \in 1..n : f[i] = g[i][f[i - 1]]
      <3> HIDE DEF n, A, a, g
      <3>1. QED
        BY <1>1, <2>1, Iterates
    <2>3. \A f \in [0..n -> A] : \A i \in 1..n : g[i][f[i - 1]] = Step(i, f[i - 1])
      <3>1. \A i \in 1..n : i - 1 \in 0..n
        BY <1>1
      <3> HIDE DEF n, A, Step
      <3>2. QED
        BY <3>1
    <2> HIDE DEF n, A, a, g, Step
    <2>4. QED
      BY <2>2, <2>3
  <1>5. f = [i \in 0..n |-> IF i = 0 THEN <<>>
                            ELSE IF in[i - 1] /\ ~in[i] THEN Append(f[i - 1], body(i)) ELSE f[i - 1]]
    <2>1. \A i \in 0..n : f[i] = IF i = 0 THEN <<>>
                                 ELSE IF in[i - 1] /\ ~in[i] THEN Append(f[i - 1], body(i))
                                 ELSE f[i - 1]
      <3>1. \A i \in 0..n : i = 0 \/ i \in 1..n
        BY <1>1
      <3>2. QED
        BY <1>4, <3>1
    <2> HIDE DEF n
    <2>2. QED
      BY <2>1
  <1>6. calls = [i \in 0..n |-> IF i = 0 THEN <<>>
                                ELSE IF in[i - 1] /\ ~in[i] THEN Append(calls[i - 1], body(i))
                                ELSE calls[i - 1]]
    BY <1>5
  <1>7. ToolCalls(t) = calls[n]
    BY DEF ToolCalls, body
  <1> HIDE DEF calls, n
  <1> DEFINE NoEnd(i) == \A k \in 1..i : ~(in[k - 1] /\ ~in[k])
             Good == {i \in 0..n : calls[i] \in A /\ (calls[i] = <<>> <=> NoEnd(i))}
  <1>8. 0 \in Good
    <2>1. calls[0] = <<>>
      BY <1>1, <1>6
    <2>2. NoEnd(0) /\ 0 \in 0..n
      BY <1>1
    <2> HIDE DEF NoEnd, A
    <2>3. QED
      BY <1>1, <2>1, <2>2
  <1>9. ASSUME NEW i \in 0..n - 1, i \in Good PROVE i + 1 \in Good
    <2>1. i + 1 \in 1..n /\ (i + 1) - 1 = i /\ i + 1 \in 0..n /\ i + 1 # 0
      BY <1>1
    <2>2. calls[i + 1] = Step(i + 1, calls[i])
      BY <1>6, <2>1
    <2>3. NoEnd(i + 1) <=> NoEnd(i) /\ ~(in[i] /\ ~in[i + 1])
      <3>1. 1..i + 1 = 1..i \cup {i + 1}
        BY <1>1
      <3>2. QED
        BY <2>1, <3>1
    <2>4. calls[i] \in A /\ (calls[i] = <<>> <=> NoEnd(i))
      BY <1>9
    <2>5. calls[i + 1] \in A
      BY <1>3, <2>1, <2>2, <2>4
    <2> HIDE DEF NoEnd
    <2>6. CASE in[i] /\ ~in[i + 1]
      <3>1. calls[i + 1] = Append(calls[i], body(i + 1)) /\ body(i + 1) \in Seq(STRING)
        BY <1>2, <2>1, <2>2, <2>6
      <3>2. calls[i + 1] # <<>>
        BY <2>4, <3>1, AppendProperties
      <3>3. QED
        BY <2>1, <2>3, <2>5, <2>6, <3>2
    <2>7. CASE ~(in[i] /\ ~in[i + 1])
      BY <2>1, <2>2, <2>3, <2>4, <2>7
    <2>8. QED
      BY <2>6, <2>7
  <1>10. n \in Good
    <2> HIDE DEF Good
    <2>1. 0..n \subseteq Good
      BY <1>1, <1>8, <1>9, InductionUpTo
    <2>2. QED
      BY <1>1, <2>1
  <1>11. NoEnd(n) <=> \A i \in 1..Len(t) : ~EndsCall(t, i)
    BY DEF EndsCall, n
  <1> HIDE DEF NoEnd
  <1>12. QED
    BY <1>7, <1>10, <1>11

\* The beginning of a text decides where the calls in it begin and end.
LEMMA InsidePrefix ==
  ASSUME NEW a \in Seq(STRING), NEW b \in Seq(STRING)
  PROVE  \A i \in 0..Len(a) : Inside(a \o b)[i] = Inside(a)[i]
  <1> DEFINE n == Len(a)
             ab == a \o b
             Good == {i \in 0..n : Inside(ab)[i] = Inside(a)[i]}
  <1>1. /\ n \in Nat /\ Len(b) \in Nat
        /\ ab \in Seq(STRING) /\ Len(ab) = n + Len(b)
        /\ \A i \in 1..n + Len(b) : ab[i] = IF i <= n THEN a[i] ELSE b[i - n]
    BY LenProperties, ConcatProperties
  <1> HIDE DEF ab
  <1>2. \A i \in 1..n : i \in 1..Len(ab) /\ ab[i] = a[i]
    BY <1>1
  <1>3. 0 \in Good
    <2>1. ~Inside(ab)[0] /\ Inside(ab) \in [0..Len(ab) -> BOOLEAN]
      BY <1>1, InsideIs
    <2>2. ~Inside(a)[0] /\ Inside(a) \in [0..n -> BOOLEAN]
      BY InsideIs
    <2>3. 0 \in 0..n /\ 0 \in 0..Len(ab)
      BY <1>1
    <2>4. Inside(ab)[0] = Inside(a)[0]
      BY <2>1, <2>2, <2>3
    <2>5. QED
      BY <2>3, <2>4
  <1>4. ASSUME NEW i \in 0..n - 1, i \in Good PROVE i + 1 \in Good
    <2>1. i + 1 \in 1..n /\ (i + 1) - 1 = i /\ i + 1 \in 0..n /\ (i + 1 < 2 \/ i \in 1..n)
      BY <1>1
    <2>2. i + 1 \in 1..Len(ab) /\ ab[i + 1] = a[i + 1]
      BY <1>2, <2>1
    <2>3. ~(i + 1 < 2) => ab[i] = a[i]
      BY <1>2, <2>1
    <2>4. Inside(ab)[i] = Inside(a)[i]
      BY <1>4
    <2>5. Inside(ab)[i + 1] = IF i + 1 < 2 THEN FALSE
                              ELSE IF Inside(ab)[i] THEN ~(ab[i] = Lt /\ ab[i + 1] = Close)
                              ELSE ab[i] = Lt /\ ab[i + 1] = Open
      BY <1>1, <2>1, <2>2, InsideIs
    <2>6. Inside(a)[i + 1] = IF i + 1 < 2 THEN FALSE
                             ELSE IF Inside(a)[i] THEN ~(a[i] = Lt /\ a[i + 1] = Close)
                             ELSE a[i] = Lt /\ a[i + 1] = Open
      BY <2>1, InsideIs
    <2>7. Inside(ab)[i + 1] = Inside(a)[i + 1]
      BY <2>2, <2>3, <2>4, <2>5, <2>6
    <2>8. QED
      BY <2>1, <2>7
  <1>5. 0..n \subseteq Good
    <2> HIDE DEF Good
    <2>1. QED
      BY <1>1, <1>3, <1>4, InductionUpTo
  <1>6. QED
    BY <1>5 DEF ab

-----------------------------------------------------------------------------
(* Elements that are picked, and counted; the calls of a text and of its parts *)

\* s collects q[i] for the i of I, up to n.
Collects(s, q, I, n, S) ==
    \E f \in [0..n -> Seq(S)] :
      /\ f[0] = <<>> /\ f[n] = s
      /\ \A i \in 1..n : f[i] = IF i \in I THEN Append(f[i - 1], q[i]) ELSE f[i - 1]

\* The elements of s are q[i] for the i of I, each once; e says where they come from.
Picks(s, q, I, e) ==
    /\ e \in [1..Len(s) -> I]
    /\ \A j, k \in 1..Len(s) : e[j] = e[k] => j = k
    /\ \A i \in I : \E k \in 1..Len(s) : e[k] = i
    /\ \A k \in 1..Len(s) : s[k] = q[e[k]]

\* One element more.
LEMMA PicksOne ==
  ASSUME NEW S, NEW s \in Seq(S), NEW q, NEW I, NEW e, Picks(s, q, I, e), NEW i, i \notin I, q[i] \in S
  PROVE  \E d : Picks(Append(s, q[i]), q, I \cup {i}, d)
  <1> DEFINE n == Len(s)
             r == Append(s, q[i])
             d == [k \in 1..n + 1 |-> IF k = n + 1 THEN i ELSE e[k]]
  <1>1. n \in Nat /\ Len(r) = n + 1 /\ r[n + 1] = q[i] /\ \A k \in 1..n : r[k] = s[k]
    BY LenProperties, AppendProperties
  <1>2. \A k \in 1..n + 1 : k = n + 1 \/ k \in 1..n
    BY <1>1
  <1>3. 1..n \subseteq 1..n + 1 /\ n + 1 \in 1..n + 1 /\ n + 1 \notin 1..n
    BY <1>1
  <1> HIDE DEF n, r
  <1>4. /\ e \in [1..n -> I]
        /\ \A j, k \in 1..n : e[j] = e[k] => j = k
        /\ \A j \in I : \E k \in 1..n : e[k] = j
        /\ \A k \in 1..n : s[k] = q[e[k]]
    BY DEF Picks, n
  <1>5. d[n + 1] = i /\ \A k \in 1..n : d[k] = e[k]
    BY <1>3
  <1>6. d \in [1..n + 1 -> I \cup {i}]
    BY <1>2, <1>4
  <1> HIDE DEF d
  <1>7. \A j, k \in 1..n + 1 : d[j] = d[k] => j = k
    BY <1>2, <1>4, <1>5
  <1>8. \A j \in I \cup {i} : \E k \in 1..n + 1 : d[k] = j
    BY <1>3, <1>4, <1>5
  <1>9. \A k \in 1..n + 1 : r[k] = q[d[k]]
    BY <1>1, <1>2, <1>4, <1>5
  <1>10. Picks(r, q, I \cup {i}, d)
    BY <1>1, <1>6, <1>7, <1>8, <1>9 DEF Picks
  <1>11. QED
    BY <1>10 DEF r

\* What is collected is picked.
LEMMA CollectsPicks ==
  ASSUME NEW S, NEW n \in Nat, NEW I \in SUBSET (1..n), NEW q, \A i \in I : q[i] \in S,
         NEW s, Collects(s, q, I, n, S)
  PROVE  s \in Seq(S) /\ \E e : Picks(s, q, I, e)
  <1>1. PICK f \in [0..n -> Seq(S)] :
          /\ f[0] = <<>> /\ f[n] = s
          /\ \A i \in 1..n : f[i] = IF i \in I THEN Append(f[i - 1], q[i]) ELSE f[i - 1]
    BY DEF Collects
  <1> DEFINE J(i) == I \cap 1..i
             Good == {i \in 0..n : \E e : Picks(f[i], q, J(i), e)}
  <1>2. 0 \in Good
    <2>1. J(0) = {} /\ 0 \in 0..n /\ Len(<<>>) = 0 /\ 1..0 = {}
      OBVIOUS
    <2>2. Picks(<<>>, q, {}, [k \in {} |-> 0])
      BY <2>1 DEF Picks
    <2>3. QED
      BY <1>1, <2>1, <2>2
  <1>3. ASSUME NEW i \in 0..n - 1, i \in Good PROVE i + 1 \in Good
    <2>1. i + 1 \in 1..n /\ (i + 1) - 1 = i /\ i + 1 \in 0..n
      OBVIOUS
    <2>2. PICK e : Picks(f[i], q, J(i), e)
      BY <1>3
    <2>3. f[i] \in Seq(S) /\ i + 1 \notin J(i)
      BY <1>1
    <2>4. CASE i + 1 \in I
      <3>1. f[i + 1] = Append(f[i], q[i + 1]) /\ q[i + 1] \in S
        BY <1>1, <2>1, <2>4
      <3>2. J(i + 1) = J(i) \cup {i + 1}
        BY <2>1, <2>4
      <3> HIDE DEF J
      <3>3. \E d : Picks(Append(f[i], q[i + 1]), q, J(i) \cup {i + 1}, d)
        BY <2>2, <2>3, <3>1, PicksOne
      <3>4. QED
        BY <2>1, <3>1, <3>2, <3>3
    <2>5. CASE i + 1 \notin I
      <3>1. f[i + 1] = f[i]
        BY <1>1, <2>1, <2>5
      <3>2. J(i + 1) = J(i)
        BY <2>1, <2>5
      <3> HIDE DEF J
      <3>3. QED
        BY <2>1, <2>2, <3>1, <3>2
    <2>6. QED
      BY <2>4, <2>5
  <1>4. n \in Good
    <2> HIDE DEF Good
    <2>1. 0..n \subseteq Good
      BY <1>2, <1>3, InductionUpTo
    <2>2. QED
      BY <2>1
  <1>5. J(n) = I
    OBVIOUS
  <1> HIDE DEF J
  <1>6. n \in 0..n
    OBVIOUS
  <1>7. QED
    BY <1>1, <1>4, <1>5, <1>6

-----------------------------------------------------------------------------
(* Counting *)

\* How many elements of s are in C.
Count(s, C) == Cardinality({k \in 1..Len(s) : s[k] \in C})

\* How many elements of a sequence are in C.
LEMMA CountType ==
  ASSUME NEW S, NEW s \in Seq(S), NEW C
  PROVE  /\ IsFiniteSet({k \in 1..Len(s) : s[k] \in C})
         /\ Count(s, C) \in Nat /\ Count(s, C) <= Len(s)
         /\ S \subseteq C => Count(s, C) = Len(s)
         /\ Count(s, C) > 0 <=> \E k \in 1..Len(s) : s[k] \in C
  <1> DEFINE K == {k \in 1..Len(s) : s[k] \in C}
  <1>1. Len(s) \in Nat /\ \A k \in 1..Len(s) : s[k] \in S
    BY LenProperties, ElementOfSeq
  <1>2. IsFiniteSet(1..Len(s)) /\ Cardinality(1..Len(s)) = Len(s)
    <2>1. 1 \in Int /\ Len(s) \in Int /\ (1 > Len(s) => Len(s) = 0) /\ Len(s) - 1 + 1 = Len(s)
      BY <1>1
    <2>2. QED
      BY <2>1, FS_Interval
  <1>3. K \in SUBSET (1..Len(s))
    OBVIOUS
  <1>4. IsFiniteSet(K) /\ Cardinality(K) <= Len(s)
    BY <1>2, <1>3, FS_Subset
  <1>5. Cardinality(K) \in Nat /\ (Cardinality(K) = 0 <=> K = {})
    BY <1>4, FS_CardinalityType, FS_EmptySet
  <1>6. S \subseteq C => K = 1..Len(s)
    BY <1>1
  <1>7. K # {} <=> \E k \in 1..Len(s) : s[k] \in C
    OBVIOUS
  <1> HIDE DEF K
  <1>8. Cardinality(K) > 0 <=> K # {}
    BY <1>5
  <1>9. QED
    BY <1>2, <1>4, <1>5, <1>6, <1>7, <1>8 DEF Count, K

\* What is in C or in D is counted in one of them, if it cannot be in both.
LEMMA CountApart ==
  ASSUME NEW S, NEW s \in Seq(S), NEW C, NEW D, C \cap D = {}
  PROVE  Count(s, C \cup D) = Count(s, C) + Count(s, D)
  <1> DEFINE K(B) == {k \in 1..Len(s) : s[k] \in B}
  <1>1. \A B : IsFiniteSet(K(B)) /\ Count(s, B) \in Nat
    BY CountType
  <1>2. K(C \cup D) = K(C) \cup K(D) /\ K(C) \cap K(D) = {}
    OBVIOUS
  <1>3. \A B : Count(s, B) = Cardinality(K(B))
    BY DEF Count
  <1> HIDE DEF K
  <1>4. Cardinality(K(C) \cup K(D)) = Cardinality(K(C)) + Cardinality(K(D)) - Cardinality({})
    BY <1>1, <1>2, FS_Union
  <1>5. Cardinality({}) = 0
    BY FS_EmptySet
  <1>6. Count(s, C \cup D) = Cardinality(K(C) \cup K(D))
    BY <1>2, <1>3, Zenon
  <1>7. /\ Count(s, C) = Cardinality(K(C)) /\ Count(s, D) = Cardinality(K(D))
        /\ Count(s, C) \in Nat /\ Count(s, D) \in Nat
    BY <1>1, <1>3
  <1>8. QED
    BY <1>4, <1>5, <1>6, <1>7

\* More elements count more.
LEMMA CountMore ==
  ASSUME NEW S, NEW s \in Seq(S), NEW C, NEW D, C \subseteq D
  PROVE  Count(s, C) <= Count(s, D)
  <1> DEFINE K(B) == {k \in 1..Len(s) : s[k] \in B}
  <1>1. IsFiniteSet(K(D)) /\ K(C) \in SUBSET K(D)
    BY CountType
  <1> HIDE DEF K
  <1>2. Cardinality(K(C)) <= Cardinality(K(D))
    BY <1>1, FS_Subset
  <1>3. QED
    BY <1>2 DEF Count, K

\* Picked elements are counted where they come from.
LEMMA CountPicked ==
  ASSUME NEW S, NEW s \in Seq(S), NEW q, NEW I, NEW e, Picks(s, q, I, e), NEW C
  PROVE  Count(s, C) = Cardinality({i \in I : q[i] \in C})
  <1> DEFINE K == {k \in 1..Len(s) : s[k] \in C}
             L == {i \in I : q[i] \in C}
             b == [k \in K |-> e[k]]
  <1>1. IsFiniteSet(K)
    BY CountType
  <1>2. b \in [K -> L]
    BY DEF Picks
  <1>3. \A j, k \in K : b[j] = b[k] => j = k
    BY DEF Picks
  <1>4. \A i \in L : \E k \in K : b[k] = i
    BY DEF Picks
  <1> HIDE DEF K, L, b
  <1>5. ExistsBijection(K, L)
    BY <1>2, <1>3, <1>4 DEF ExistsBijection, Bijection, Injection, Surjection, IsInjective
  <1>6. IsFiniteSet(L) /\ Cardinality(L) = Cardinality(K)
    BY <1>1, <1>5, FS_Bijection
  <1>7. QED
    BY <1>6 DEF Count, K, L

\* Two sequences, one after the other.
LEMMA CountConcat ==
  ASSUME NEW S, NEW s \in Seq(S), NEW r \in Seq(S), NEW C
  PROVE  Count(s \o r, C) = Count(s, C) + Count(r, C)
  <1> DEFINE n == Len(s)
             m == Len(r)
             t == s \o r
             K == {k \in 1..n : s[k] \in C}
             L == {k \in 1..m : r[k] \in C}
             M == {n + k : k \in L}
             b == [k \in L |-> n + k]
  <1>1. /\ n \in Nat /\ m \in Nat /\ Len(t) = n + m
        /\ \A k \in 1..n + m : t[k] = IF k <= n THEN s[k] ELSE r[k - n]
    BY LenProperties, ConcatProperties
  <1>2. IsFiniteSet(K) /\ IsFiniteSet(L) /\ Cardinality(K) \in Nat /\ Cardinality(L) \in Nat
    BY CountType DEF Count
  <1> HIDE DEF n, m, t
  <1>3. {k \in 1..n + m : t[k] \in C} = K \cup M
    <2>1. ASSUME NEW k \in 1..n + m PROVE t[k] \in C <=> k \in K \cup M
      <3>1. CASE k <= n
        <4>1. k \in 1..n /\ k \notin M
          BY <1>1, <3>1
        <4>2. QED
          BY <1>1, <3>1, <4>1
      <3>2. CASE k > n
        <4>1. k - n \in 1..m /\ k \notin K /\ n + (k - n) = k
          BY <1>1, <3>2
        <4>2. k \in M <=> k - n \in L
          BY <1>1, <4>1
        <4>3. QED
          BY <1>1, <3>2, <4>1, <4>2
      <3>3. QED
        BY <1>1, <3>1, <3>2
    <2>2. K \cup M \subseteq 1..n + m
      BY <1>1
    <2> HIDE DEF K, M
    <2>3. QED
      BY <2>1, <2>2
  <1>4. K \cap M = {}
    BY <1>1
  <1>5. b \in [L -> M] /\ (\A j, k \in L : b[j] = b[k] => j = k) /\ \A i \in M : \E k \in L : b[k] = i
    BY <1>1
  <1> HIDE DEF K, L, M, b
  <1>6. ExistsBijection(L, M)
    BY <1>5 DEF ExistsBijection, Bijection, Injection, Surjection, IsInjective
  <1>7. IsFiniteSet(M) /\ Cardinality(M) = Cardinality(L)
    BY <1>2, <1>6, FS_Bijection
  <1>8. Cardinality(K \cup M) = Cardinality(K) + Cardinality(M) - Cardinality({})
    BY <1>2, <1>4, <1>7, FS_Union
  <1>9. Cardinality({}) = 0
    BY FS_EmptySet
  <1>10. Count(t, C) = Cardinality(K \cup M)
    <2>1. 1..Len(t) = 1..n + m
      BY <1>1
    <2>2. QED
      BY <1>3, <2>1, Zenon DEF Count
  <1>11. Count(s, C) = Cardinality(K) /\ Count(r, C) = Cardinality(L)
    BY DEF Count, K, L, n, m
  <1>12. Count(t, C) = Count(s, C) + Count(r, C)
    BY <1>2, <1>7, <1>8, <1>9, <1>10, <1>11
  <1>13. QED
    BY <1>12 DEF t

-----------------------------------------------------------------------------
(* The parts of a text *)

\* Where a call starts that ends at i, and its body.
InsideFrom(t, k, i) == ~Inside(t)[k - 1] /\ \A j \in k..i - 1 : Inside(t)[j]
StartOf(t, i) == CHOOSE k \in 1..i - 1 : InsideFrom(t, k, i)
Body(t, i) == SubSeq(t, StartOf(t, i) + 1, i - 2)
CallEnds(t) == {i \in 1..Len(t) : EndsCall(t, i)}

\* A call that ends has one start.
LEMMA CallStart ==
  ASSUME NEW t \in Seq(STRING), NEW i \in CallEnds(t)
  PROVE  /\ StartOf(t, i) \in 1..i - 1 /\ InsideFrom(t, StartOf(t, i), i)
         /\ \A k \in 1..i - 1 : InsideFrom(t, k, i) => k = StartOf(t, i)
  <1> DEFINE in == Inside(t)
             K == {k \in 1..i - 1 : \A j \in k..i - 1 : in[j]}
  <1>1. Len(t) \in Nat /\ i \in 1..Len(t) /\ in[i - 1] /\ ~in[i] /\ ~in[0]
    BY LenProperties, InsideIs DEF CallEnds, EndsCall
  <1> HIDE DEF in
  <1>2. i - 1 \in Nat /\ i - 1 # 0
    BY <1>1
  <1>3. i - 1 \in K /\ K \subseteq Nat
    BY <1>1, <1>2
  <1>4. PICK k \in K : \A l \in K : k <= l
    <2> HIDE DEF K
    <2>1. QED
      BY <1>3, Least
  <1>5. ~in[k - 1]
    <2> SUFFICES ASSUME in[k - 1] PROVE FALSE
      OBVIOUS
    <2>1. k \in 1..i - 1 /\ k # 1
      BY <1>1, <1>4
    <2>2. k - 1 \in 1..i - 1 /\ \A j \in k - 1..i - 1 : j = k - 1 \/ j \in k..i - 1
      BY <1>2, <2>1
    <2>3. k - 1 \in K
      BY <1>4, <2>2
    <2>4. QED
      BY <1>4, <2>1, <2>3
  <1>6. k \in 1..i - 1 /\ InsideFrom(t, k, i)
    BY <1>4, <1>5 DEF InsideFrom, in
  <1>7. StartOf(t, i) \in 1..i - 1 /\ InsideFrom(t, StartOf(t, i), i)
    BY <1>6 DEF StartOf
  <1>8. ASSUME NEW x \in 1..i - 1, NEW y \in 1..i - 1, InsideFrom(t, x, i), InsideFrom(t, y, i), x < y PROVE FALSE
    <2>1. y - 1 \in x..i - 1
      BY <1>2, <1>8
    <2>2. QED
      BY <1>8, <2>1 DEF InsideFrom
  <1> HIDE DEF K
  <1>9. ASSUME NEW x \in 1..i - 1, InsideFrom(t, x, i) PROVE x = StartOf(t, i)
    <2>1. x < StartOf(t, i) \/ StartOf(t, i) < x \/ x = StartOf(t, i)
      BY <1>2, <1>7
    <2>2. QED
      BY <1>7, <1>8, <1>9, <2>1
  <1>10. QED
    BY <1>7, <1>9

\* A body is a part of the text.
LEMMA BodyType ==
  ASSUME NEW t \in Seq(STRING), NEW i \in CallEnds(t)
  PROVE  Body(t, i) \in Seq(STRING)
  <1> DEFINE x == StartOf(t, i)
  <1>1. x \in 1..i - 1
    BY CallStart
  <1>2. Len(t) \in Nat /\ i \in 1..Len(t)
    BY LenProperties DEF CallEnds
  <1> HIDE DEF x
  <1>3. x + 1 \in Int /\ i - 2 \in Int /\ \A j \in x + 1..i - 2 : j \in 1..Len(t)
    BY <1>1, <1>2
  <1>4. \A j \in x + 1..i - 2 : t[j] \in STRING
    BY <1>3, ElementOfSeq
  <1>5. SubSeq(t, x + 1, i - 2) \in Seq(STRING)
    BY <1>3, <1>4, SubSeqProperties
  <1>6. QED
    BY <1>5 DEF Body, x
\* At collects.
LEMMA AtCollects ==
  ASSUME NEW S, NEW t \in Seq(S), NEW I
  PROVE  Collects(At(t, I), t, I \cap 1..Len(t), Len(t), S)
  <1> DEFINE n == Len(t)
             A == Seq(S)
             a == <<>>
             Step(i, s) == IF i \in I THEN Append(s, t[i]) ELSE s
             g == [i \in 1..n |-> [s \in A |-> Step(i, s)]]
             kept[i \in 0..n] ==
               IF i = 0 THEN <<>>
               ELSE IF i \in I THEN Append(kept[i - 1], t[i]) ELSE kept[i - 1]
  <1>1. n \in Nat /\ a \in A
    BY LenProperties, EmptySeq
  <1>2. \A i \in 1..n, s \in A : Step(i, s) \in A
    BY AppendProperties, ElementOfSeq
  <1>3. PICK f \in [0..n -> A] : f[0] = a /\ \A i \in 1..n : f[i] = Step(i, f[i - 1])
    <2>1. g \in [1..n -> [A -> A]]
      <3> HIDE DEF n, A, Step
      <3>1. QED
        BY <1>2
    <2>2. \E f \in [0..n -> A] : f[0] = a /\ \A i \in 1..n : f[i] = g[i][f[i - 1]]
      <3> HIDE DEF n, A, a, g
      <3>1. QED
        BY <1>1, <2>1, Iterates
    <2>3. \A f \in [0..n -> A] : \A i \in 1..n : g[i][f[i - 1]] = Step(i, f[i - 1])
      <3>1. \A i \in 1..n : i - 1 \in 0..n
        BY <1>1
      <3> HIDE DEF n, A, Step
      <3>2. QED
        BY <3>1
    <2> HIDE DEF n, A, a, g, Step
    <2>4. QED
      BY <2>2, <2>3
  <1>4. f = [i \in 0..n |-> IF i = 0 THEN <<>>
                            ELSE IF i \in I THEN Append(f[i - 1], t[i]) ELSE f[i - 1]]
    <2>1. \A i \in 0..n : f[i] = IF i = 0 THEN <<>>
                                 ELSE IF i \in I THEN Append(f[i - 1], t[i]) ELSE f[i - 1]
      <3>1. \A i \in 0..n : i = 0 \/ i \in 1..n
        BY <1>1
      <3>2. QED
        BY <1>3, <3>1
    <2> HIDE DEF n
    <2>2. QED
      BY <2>1
  <1>5. kept = [i \in 0..n |-> IF i = 0 THEN <<>>
                               ELSE IF i \in I THEN Append(kept[i - 1], t[i]) ELSE kept[i - 1]]
    BY <1>4
  <1>6. At(t, I) = kept[n]
    BY DEF At
  <1> HIDE DEF kept
  <1>7. \A i \in 1..n : kept[i] = IF i \in I \cap 1..n THEN Append(kept[i - 1], t[i]) ELSE kept[i - 1]
    <2>1. \A i \in 1..n : i \in 0..n /\ i # 0
      BY <1>1
    <2> HIDE DEF n
    <2>2. QED
      BY <1>5, <2>1
  <1>8. kept[0] = <<>>
    BY <1>1, <1>5
  <1> DEFINE Good == {i \in 0..n : kept[i] \in A}
  <1>9. 0 \in Good
    BY <1>1, <1>8
  <1>10. ASSUME NEW i \in 0..n - 1, i \in Good PROVE i + 1 \in Good
    <2>1. i + 1 \in 1..n /\ (i + 1) - 1 = i /\ i + 1 \in 0..n
      BY <1>1
    <2>2. kept[i + 1] = Step(i + 1, kept[i])
      BY <1>7, <2>1
    <2>3. QED
      BY <1>2, <1>10, <2>1, <2>2
  <1>11. kept \in [0..n -> A]
    <2> HIDE DEF Good, n
    <2>1. 0..n \subseteq Good
      BY <1>1, <1>9, <1>10, InductionUpTo
    <2>2. \A i \in 0..n : kept[i] \in A
      BY <2>1 DEF Good
    <2> HIDE DEF A
    <2>3. kept = [i \in 0..n |-> kept[i]]
      BY <1>5
    <2>4. QED
      BY <2>2, <2>3
  <1>12. QED
    BY <1>6, <1>7, <1>8, <1>11 DEF Collects

\* What is kept of a sequence is picked from it.
LEMMA AtPicks ==
  ASSUME NEW S, NEW t \in Seq(S), NEW I
  PROVE  /\ At(t, I) \in Seq(S)
         /\ \E e : Picks(At(t, I), t, I \cap 1..Len(t), e)
  <1>1. Len(t) \in Nat /\ \A i \in 1..Len(t) : t[i] \in S
    BY LenProperties, ElementOfSeq
  <1>2. I \cap 1..Len(t) \in SUBSET (1..Len(t)) /\ \A i \in I \cap 1..Len(t) : t[i] \in S
    BY <1>1
  <1>3. Collects(At(t, I), t, I \cap 1..Len(t), Len(t), S)
    BY AtCollects
  <1> DEFINE J == I \cap 1..Len(t)
             u == At(t, I)
  <1> HIDE DEF J, u
  <1>4. u \in Seq(S) /\ \E e : Picks(u, t, J, e)
    BY <1>1, <1>2, <1>3, CollectsPicks DEF J, u
  <1>5. QED
    BY <1>4 DEF J, u

\* And so are the calls of a text from their bodies.
LEMMA CallsPick ==
  ASSUME NEW t \in Seq(STRING)
  PROVE  /\ ToolCalls(t) \in Seq(Seq(STRING))
         /\ \E e : Picks(ToolCalls(t), [i \in CallEnds(t) |-> Body(t, i)], CallEnds(t), e)
  <1> DEFINE n == Len(t)
             in == Inside(t)
             body(i) == LET start0 == CHOOSE k \in 1..i - 1 :
                                        ~in[k - 1] /\ \A j \in k..i - 1 : in[j]
                        IN  SubSeq(t, start0 + 1, i - 2)
             S == Seq(STRING)
             A == Seq(S)
             a == <<>>
             I == CallEnds(t)
             q == [i \in I |-> Body(t, i)]
             Step(i, s) == IF i \in I THEN Append(s, q[i]) ELSE s
             g == [i \in 1..n |-> [s \in A |-> Step(i, s)]]
             calls[i \in 0..n] ==
               IF i = 0 THEN <<>>
               ELSE IF in[i - 1] /\ ~in[i] THEN Append(calls[i - 1], body(i)) ELSE calls[i - 1]
  <1>1. n \in Nat /\ a \in A
    BY LenProperties, EmptySeq
  <1>2. \A i \in I : q[i] \in S
    BY BodyType
  <1>3. \A i : body(i) = Body(t, i)
    BY DEF Body, StartOf, InsideFrom
  <1>4. \A i \in 1..n : i \in I <=> in[i - 1] /\ ~in[i]
    BY DEF CallEnds, EndsCall
  <1>5. I \in SUBSET (1..n)
    BY DEF CallEnds
  <1> HIDE DEF body, I, S
  <1>6. \A i \in 1..n, s \in A : Step(i, s) \in A
    <2> HIDE DEF q
    <2>1. QED
      BY <1>2, AppendProperties
  <1>7. PICK f \in [0..n -> A] : f[0] = a /\ \A i \in 1..n : f[i] = Step(i, f[i - 1])
    <2>1. g \in [1..n -> [A -> A]]
      <3> HIDE DEF n, A, Step
      <3>1. QED
        BY <1>6
    <2>2. \E f \in [0..n -> A] : f[0] = a /\ \A i \in 1..n : f[i] = g[i][f[i - 1]]
      <3> HIDE DEF n, A, a, g
      <3>1. QED
        BY <1>1, <2>1, Iterates
    <2>3. \A f \in [0..n -> A] : \A i \in 1..n : g[i][f[i - 1]] = Step(i, f[i - 1])
      <3>1. \A i \in 1..n : i - 1 \in 0..n
        BY <1>1
      <3> HIDE DEF n, A, Step
      <3>2. QED
        BY <3>1
    <2> HIDE DEF n, A, a, g, Step
    <2>4. QED
      BY <2>2, <2>3
  <1>8. f = [i \in 0..n |-> IF i = 0 THEN <<>>
                            ELSE IF in[i - 1] /\ ~in[i] THEN Append(f[i - 1], body(i)) ELSE f[i - 1]]
    <2>1. \A i \in 0..n : f[i] = IF i = 0 THEN <<>>
                                 ELSE IF in[i - 1] /\ ~in[i] THEN Append(f[i - 1], body(i))
                                 ELSE f[i - 1]
      <3>1. \A i \in 0..n : i = 0 \/ i \in 1..n
        BY <1>1
      <3>2. \A i \in I : q[i] = body(i)
        BY <1>3
      <3> HIDE DEF q, in, n
      <3>3. QED
        BY <1>4, <1>7, <3>1, <3>2
    <2> HIDE DEF n
    <2>2. QED
      BY <2>1
  <1>9. calls = [i \in 0..n |-> IF i = 0 THEN <<>>
                                ELSE IF in[i - 1] /\ ~in[i] THEN Append(calls[i - 1], body(i))
                                ELSE calls[i - 1]]
    BY <1>8
  <1>10. ToolCalls(t) = calls[n]
    BY DEF ToolCalls, body
  <1> HIDE DEF calls
  <1>11. \A i \in 1..n : calls[i] = IF i \in I THEN Append(calls[i - 1], q[i]) ELSE calls[i - 1]
    <2>1. \A i \in 1..n : i \in 0..n /\ i # 0
      BY <1>1
    <2>2. \A i \in I : q[i] = body(i)
      BY <1>3
    <2> HIDE DEF q, in, n
    <2>3. QED
      BY <1>4, <1>9, <2>1, <2>2
  <1>12. calls[0] = <<>>
    BY <1>1, <1>9
  <1> HIDE DEF q, in
  <1> DEFINE Good == {i \in 0..n : calls[i] \in A}
  <1>13. 0 \in Good
    BY <1>1, <1>12
  <1>14. ASSUME NEW i \in 0..n - 1, i \in Good PROVE i + 1 \in Good
    <2>1. i + 1 \in 1..n /\ (i + 1) - 1 = i /\ i + 1 \in 0..n
      BY <1>1
    <2>2. calls[i + 1] = Step(i + 1, calls[i])
      BY <1>11, <2>1
    <2>3. QED
      BY <1>6, <1>14, <2>1, <2>2
  <1>15. calls \in [0..n -> A]
    <2> HIDE DEF Good, n
    <2>1. 0..n \subseteq Good
      BY <1>1, <1>13, <1>14, InductionUpTo
    <2>2. \A i \in 0..n : calls[i] \in A
      BY <2>1 DEF Good
    <2> HIDE DEF A
    <2>3. calls = [i \in 0..n |-> calls[i]]
      BY <1>9
    <2>4. QED
      BY <2>2, <2>3
  <1>16. Collects(ToolCalls(t), q, I, n, S)
    BY <1>10, <1>11, <1>12, <1>15 DEF Collects
  <1>17. ToolCalls(t) \in Seq(S) /\ \E e : Picks(ToolCalls(t), q, I, e)
    <2> HIDE DEF n
    <2>1. QED
      BY <1>1, <1>2, <1>5, <1>16, CollectsPicks
  <1>18. QED
    BY <1>17 DEF q, I, S

\* A part of a text is a text.
LEMMA PartIs ==
  ASSUME NEW t \in Seq(STRING), NEW a \in Nat, NEW b \in Nat, a <= b, b <= Len(t)
  PROVE  LET w == SubSeq(t, a + 1, b)
         IN  /\ w \in Seq(STRING) /\ Len(w) = b - a
             /\ \A i \in 1..b - a : w[i] = t[a + i]
  <1>1. Len(t) \in Nat /\ \A j \in a + 1..b : j \in 1..Len(t)
    BY LenProperties
  <1>2. \A j \in a + 1..b : t[j] \in STRING
    BY <1>1, ElementOfSeq
  <1>3. a + 1 \in Int /\ b \in Int /\ (a + 1 <= b + 1) /\ b - (a + 1) + 1 = b - a
        /\ \A i : (a + 1) + i - 1 = a + i \/ i \notin Int
    OBVIOUS
  <1>4. QED
    BY <1>1, <1>2, <1>3, SubSeqProperties

\* A text whose calls are apart decides what is inside of one in a part of it.
LEMMA InsidePart ==
  ASSUME NEW t \in Seq(STRING), CallsApart(t), NEW a \in Nat, NEW b \in Nat, a <= b, b <= Len(t),
         NEW w, w = SubSeq(t, a + 1, b)
  PROVE  /\ \A i \in 0..b - a : Inside(w)[i] => Inside(t)[a + i]
         /\ \A i \in 1..b - a : Inside(w)[i] /\ ~Inside(w)[i - 1] => ~Inside(t)[a + i - 1]
         /\ \A i \in 1..b - a : ~Inside(w)[i] /\ Inside(w)[i - 1] => ~Inside(t)[a + i]
  <1> DEFINE m == b - a
             Good == {i \in 0..m : Inside(w)[i] => Inside(t)[a + i]}
  <1>1. /\ w \in Seq(STRING) /\ Len(w) = m /\ m \in Nat /\ Len(t) \in Nat
        /\ \A i \in 1..m : w[i] = t[a + i]
    BY PartIs, LenProperties
  <1>2. ASSUME NEW i \in 2..m
        PROVE  /\ Inside(w)[i] = IF Inside(w)[i - 1] THEN ~(t[a + i - 1] = Lt /\ t[a + i] = Close)
                                 ELSE t[a + i - 1] = Lt /\ t[a + i] = Open
               /\ Inside(t)[a + i] = IF Inside(t)[a + i - 1] THEN ~(t[a + i - 1] = Lt /\ t[a + i] = Close)
                                     ELSE t[a + i - 1] = Lt /\ t[a + i] = Open
    <2>1. i \in 1..Len(w) /\ i - 1 \in 1..m /\ ~(i < 2) /\ a + i \in 1..Len(t) /\ ~(a + i < 2)
          /\ a + (i - 1) = a + i - 1 /\ (a + i) - 1 = a + i - 1
      BY <1>1
    <2>2. w[i - 1] = t[a + i - 1] /\ w[i] = t[a + i]
      BY <1>1, <2>1
    <2>3. Inside(w)[i] = IF Inside(w)[i - 1] THEN ~(w[i - 1] = Lt /\ w[i] = Close)
                         ELSE w[i - 1] = Lt /\ w[i] = Open
      BY <1>1, <2>1, InsideIs
    <2>4. Inside(t)[a + i] = IF Inside(t)[a + i - 1] THEN ~(t[a + i - 1] = Lt /\ t[a + i] = Close)
                             ELSE t[a + i - 1] = Lt /\ t[a + i] = Open
      BY <2>1, InsideIs
    <2>5. QED
      BY <2>2, <2>3, <2>4
  <1>3. ASSUME NEW i \in 0..m, i < 2 PROVE ~Inside(w)[i]
    <2>1. i = 0 \/ i \in 1..Len(w)
      BY <1>1
    <2>2. QED
      BY <1>1, <1>3, <2>1, InsideIs
  <1>4. ASSUME NEW i \in 2..m, t[a + i - 1] = Lt, t[a + i] = Open PROVE ~Inside(t)[a + i - 1]
    <2>1. a + i - 1 \in 1..Len(t) - 1 /\ (a + i - 1) + 1 = a + i
      BY <1>1
    <2>2. QED
      BY <1>4, <2>1 DEF CallsApart
  <1>5. 0 \in Good
    BY <1>1, <1>3
  <1>6. Lt # Close /\ Lt # Open /\ Open # Close
    BY DEF Lt, Open, Close
  <1>7. ASSUME NEW i \in 0..m - 1, i \in Good PROVE i + 1 \in Good
    <2>1. i + 1 \in 0..m /\ (i + 1) - 1 = i /\ a + (i + 1) - 1 = a + i
      BY <1>1
    <2>2. CASE i + 1 < 2
      BY <1>3, <2>1, <2>2
    <2>3. CASE i + 1 \in 2..m
      <3>1. /\ Inside(w)[i + 1] = IF Inside(w)[i] THEN ~(t[a + i] = Lt /\ t[a + (i + 1)] = Close)
                                  ELSE t[a + i] = Lt /\ t[a + (i + 1)] = Open
            /\ Inside(t)[a + (i + 1)] = IF Inside(t)[a + i] THEN ~(t[a + i] = Lt /\ t[a + (i + 1)] = Close)
                                        ELSE t[a + i] = Lt /\ t[a + (i + 1)] = Open
        BY <1>2, <2>1, <2>3
      <3>2. t[a + i] = Lt /\ t[a + (i + 1)] = Open => ~Inside(t)[a + i]
        BY <1>4, <2>1, <2>3
      <3>3. Inside(w)[i] => Inside(t)[a + i]
        BY <1>7
      <3>4. QED
        BY <2>1, <3>1, <3>2, <3>3
    <2>4. QED
      BY <1>1, <2>1, <2>2, <2>3
  <1>8. 0..m \subseteq Good
    <2> HIDE DEF Good, m
    <2>1. QED
      BY <1>1, <1>5, <1>7, InductionUpTo
  <1>9. \A i \in 0..m : Inside(w)[i] => Inside(t)[a + i]
    BY <1>8
  <1> HIDE DEF Good
  <1>10. ASSUME NEW i \in 1..m, Inside(w)[i] \/ Inside(w)[i - 1] PROVE i \in 2..m
    <2>1. i \in 0..m /\ i - 1 \in 0..m /\ (i \notin 2..m => i < 2 /\ i - 1 < 2)
      BY <1>1
    <2>2. QED
      BY <1>3, <1>10, <2>1
  <1>11. ASSUME NEW i \in 1..m, Inside(w)[i], ~Inside(w)[i - 1] PROVE ~Inside(t)[a + i - 1]
    <2>1. i \in 2..m
      BY <1>10, <1>11
    <2>2. QED
      BY <1>2, <1>4, <1>11, <2>1
  <1>12. ASSUME NEW i \in 1..m, ~Inside(w)[i], Inside(w)[i - 1] PROVE ~Inside(t)[a + i]
    <2>1. i \in 2..m /\ i - 1 \in 0..m /\ a + (i - 1) = a + i - 1
      BY <1>10, <1>12
    <2>2. Inside(t)[a + i - 1]
      BY <1>9, <1>12, <2>1
    <2>3. QED
      BY <1>2, <1>12, <2>1, <2>2
  <1>13. QED
    BY <1>9, <1>11, <1>12

\* A call that ends in a part ends in the text, with its body.
LEMMA PartEnds ==
  ASSUME NEW t \in Seq(STRING), CallsApart(t), NEW a \in Nat, NEW b \in Nat, a <= b, b <= Len(t)
  PROVE  \A i \in CallEnds(SubSeq(t, a + 1, b)) :
           /\ i \in 1..b - a /\ a + i \in CallEnds(t)
           /\ Body(t, a + i) = Body(SubSeq(t, a + 1, b), i)
  <1> SUFFICES ASSUME NEW w, w = SubSeq(t, a + 1, b), NEW i \in CallEnds(w)
               PROVE  /\ i \in 1..b - a /\ a + i \in CallEnds(t)
                      /\ Body(t, a + i) = Body(w, i)
    OBVIOUS
  <1> DEFINE m == b - a
             k == StartOf(w, i)
  <1>1. /\ w \in Seq(STRING) /\ Len(w) = m /\ m \in Nat /\ Len(t) \in Nat
        /\ \A j \in 1..m : w[j] = t[a + j]
    BY PartIs, LenProperties
  <1>2. i \in 1..m /\ i - 1 \in 0..m /\ i \in 0..m /\ Inside(w)[i - 1] /\ ~Inside(w)[i]
    BY <1>1 DEF CallEnds, EndsCall
  <1>3. k \in 1..i - 1 /\ InsideFrom(w, k, i)
    BY <1>1, CallStart
  <1> HIDE DEF k
  <1>4. /\ \A j \in 0..m : Inside(w)[j] => Inside(t)[a + j]
        /\ \A j \in 1..m : Inside(w)[j] /\ ~Inside(w)[j - 1] => ~Inside(t)[a + j - 1]
        /\ \A j \in 1..m : ~Inside(w)[j] /\ Inside(w)[j - 1] => ~Inside(t)[a + j]
    BY InsidePart
  <1>5. a + i \in CallEnds(t)
    <2>1. a + i \in 1..Len(t) /\ (a + i) - 1 = a + (i - 1)
      BY <1>1, <1>2
    <2>2. Inside(t)[a + (i - 1)] /\ ~Inside(t)[a + i]
      BY <1>2, <1>4
    <2>3. QED
      BY <2>1, <2>2 DEF CallEnds, EndsCall
  <1>6. StartOf(t, a + i) = a + k
    <2>1. a + k \in 1..(a + i) - 1 /\ k \in 1..m /\ k \in k..i - 1 /\ a + k - 1 = (a + k) - 1
      BY <1>1, <1>2, <1>3
    <2>2. ~Inside(t)[(a + k) - 1]
      BY <1>3, <1>4, <2>1 DEF InsideFrom
    <2>3. ASSUME NEW j \in a + k..(a + i) - 1 PROVE Inside(t)[j]
      <3>1. j - a \in k..i - 1 /\ j - a \in 0..m /\ a + (j - a) = j
        BY <1>1, <1>2, <1>3
      <3>2. Inside(t)[a + (j - a)]
        BY <1>3, <1>4, <3>1 DEF InsideFrom
      <3>3. QED
        BY <3>1, <3>2
    <2>4. InsideFrom(t, a + k, a + i)
      BY <2>2, <2>3 DEF InsideFrom
    <2>5. QED
      BY <1>5, <2>1, <2>4, CallStart
  <1>7. SubSeq(t, (a + k) + 1, (a + i) - 2) = SubSeq(w, k + 1, i - 2)
    <2> DEFINE x == SubSeq(t, (a + k) + 1, (a + i) - 2)
               y == SubSeq(w, k + 1, i - 2)
    <2> SUFFICES x = y
      OBVIOUS
    <2>1. CASE k <= i - 2
      <3>1. /\ k \in Nat /\ i - 2 \in Nat /\ i - 2 <= Len(w) /\ a + k \in Nat /\ (a + i) - 2 \in Nat
            /\ a + k <= (a + i) - 2 /\ (a + i) - 2 <= Len(t)
            /\ ((a + i) - 2) - (a + k) = (i - 2) - k /\ (i - 2) - k \in Nat
        <4>1. /\ i \in Nat /\ i <= Len(w) /\ Len(w) \in Nat /\ a + Len(w) <= Len(t) /\ Len(t) \in Nat
              /\ k \in Nat /\ k \in 1..i - 1
          BY <1>1, <1>2, <1>3
        <4>2. i - 2 \in Nat /\ i - 2 <= Len(w) /\ a + k \in Nat /\ (a + i) - 2 \in Nat
          BY <2>1, <4>1
        <4>3. a + k <= (a + i) - 2 /\ (a + i) - 2 <= Len(t)
          BY <2>1, <4>1
        <4>4. ((a + i) - 2) - (a + k) = (i - 2) - k /\ (i - 2) - k \in Nat
          BY <2>1, <4>1
        <4>5. QED
          BY <4>1, <4>2, <4>3, <4>4
      <3>2. x \in Seq(STRING) /\ Len(x) = ((a + i) - 2) - (a + k)
            /\ \A j \in 1..((a + i) - 2) - (a + k) : x[j] = t[(a + k) + j]
        BY <3>1, PartIs
      <3>3. y \in Seq(STRING) /\ Len(y) = (i - 2) - k /\ \A j \in 1..(i - 2) - k : y[j] = w[k + j]
        BY <1>1, <2>1, <3>1, PartIs
      <3> HIDE DEF x, y
      <3>4. ASSUME NEW j \in 1..(i - 2) - k PROVE x[j] = y[j]
        <4>1. k + j \in 1..m /\ a + (k + j) = (a + k) + j
          BY <1>1, <1>2, <1>3
        <4>2. w[k + j] = t[a + (k + j)]
          BY <1>1, <4>1
        <4>3. x[j] = t[(a + k) + j] /\ y[j] = w[k + j]
          BY <3>1, <3>2, <3>3, <3>4
        <4>4. QED
          BY <4>1, <4>2, <4>3
      <3>5. Len(x) = Len(y) /\ \A j \in 1..Len(x) : x[j] = y[j]
        BY <3>1, <3>2, <3>3, <3>4
      <3>6. QED
        BY <3>2, <3>3, <3>5, SeqEqual
    <2>2. CASE k > i - 2
      <3>1. /\ k + 1 \in Int /\ i - 2 \in Int /\ i - 2 < k + 1
            /\ (a + k) + 1 \in Int /\ (a + i) - 2 \in Int /\ (a + i) - 2 < (a + k) + 1
        BY <1>2, <1>3, <2>2
      <3>2. x = <<>> /\ y = <<>>
        BY <3>1, SubSeqEmpty
      <3>3. QED
        BY <3>2
    <2> HIDE DEF x, y
    <2>8. k <= i - 2 \/ k > i - 2
      BY <1>2, <1>3
    <2>9. QED
      BY <2>1, <2>2, <2>8
  <1>8. QED
    BY <1>2, <1>5, <1>6, <1>7 DEF Body, k

\* The calls of two parts are among those of the whole.
LEMMA CallsOfTwo ==
  ASSUME NEW t \in Seq(STRING), CallsApart(t), NEW a \in 0..Len(t), NEW C
  PROVE  Count(ToolCalls(SubSeq(t, 1, a)), C) + Count(ToolCalls(SubSeq(t, a + 1, Len(t))), C)
           <= Count(ToolCalls(t), C)
  <1> DEFINE n == Len(t)
             u == SubSeq(t, 1, a)
             w == SubSeq(t, a + 1, n)
             In(s) == {i \in CallEnds(s) : Body(s, i) \in C}
             M == {a + i : i \in In(w)}
             shift == [i \in In(w) |-> a + i]
  <1>1. n \in Nat /\ a \in Nat /\ 0 <= a /\ a <= n /\ 0 + 1 = 1 /\ a - 0 = a
    BY LenProperties
  <1>2. u \in Seq(STRING) /\ w \in Seq(STRING)
    BY <1>1, PartIs
  <1>3. ASSUME NEW s \in Seq(STRING)
        PROVE  IsFiniteSet(In(s)) /\ Count(ToolCalls(s), C) = Cardinality(In(s))
                 /\ Cardinality(In(s)) \in Nat
    <2> DEFINE q == [i \in CallEnds(s) |-> Body(s, i)]
    <2>1. ToolCalls(s) \in Seq(Seq(STRING)) /\ \E e : Picks(ToolCalls(s), q, CallEnds(s), e)
      BY CallsPick
    <2>2. {i \in CallEnds(s) : q[i] \in C} = In(s)
      OBVIOUS
    <2> DEFINE r == ToolCalls(s)
               E == CallEnds(s)
    <2> HIDE DEF q, In, r, E
    <2>3. PICK e : Picks(r, q, E, e)
      BY <2>1 DEF r, E
    <2>4. r \in Seq(Seq(STRING))
      BY <2>1 DEF r
    <2>5. IsFiniteSet({i \in E : q[i] \in C})
      <3>1. Len(s) \in Nat
        BY LenProperties
      <3>2. IsFiniteSet(1..Len(s))
        BY <3>1, FS_Interval
      <3>3. {i \in E : q[i] \in C} \in SUBSET (1..Len(s))
        BY DEF E, CallEnds
      <3>4. QED
        BY <3>2, <3>3, FS_Subset
    <2>6. Count(r, C) = Cardinality({i \in E : q[i] \in C})
      BY <2>4, <2>3, CountPicked
    <2>7. QED
      BY <2>2, <2>5, <2>6, FS_CardinalityType DEF r, E
  <1>4. In(u) \subseteq In(t) /\ \A i \in In(u) : i <= a
    <2>1. ASSUME NEW i \in CallEnds(u) PROVE i \in 1..a /\ i \in CallEnds(t) /\ Body(t, i) = Body(u, i)
      <3>1. u = SubSeq(t, 0 + 1, a)
        BY <1>1
      <3>2. i \in 1..a - 0 /\ 0 + i \in CallEnds(t) /\ Body(t, 0 + i) = Body(u, i)
        BY <1>1, <3>1, PartEnds
      <3>3. 0 + i = i /\ a - 0 = a
        BY <1>1, <3>2
      <3>4. QED
        BY <3>2, <3>3
    <2>2. QED
      BY <1>1, <2>1
  <1>5. ASSUME NEW i \in CallEnds(w) PROVE i \in Nat \ {0} /\ a + i \in CallEnds(t) /\ Body(t, a + i) = Body(w, i)
    <2>1. i \in 1..n - a /\ a + i \in CallEnds(t) /\ Body(t, a + i) = Body(w, i)
      <3>1. \A r \in {SubSeq(t, a + 1, n)} : \A j \in CallEnds(r) :
              j \in 1..n - a /\ a + j \in CallEnds(t) /\ Body(t, a + j) = Body(r, j)
        <4>1. /\ t \in Seq(STRING) /\ CallsApart(t) /\ a \in Nat /\ n \in Nat /\ a <= n /\ n <= Len(t)
          BY <1>1
        <4> HIDE DEF n
        <4>2. \A j \in CallEnds(SubSeq(t, a + 1, n)) :
                j \in 1..n - a /\ a + j \in CallEnds(t) /\ Body(t, a + j) = Body(SubSeq(t, a + 1, n), j)
          BY <4>1, PartEnds
        <4>3. QED
          BY <4>2
      <3>2. QED
        BY <3>1
    <2>2. QED
      BY <1>1, <2>1
  <1>6. M \subseteq In(t) /\ \A i \in M : i > a
    BY <1>1, <1>5
  <1>7. shift \in [In(w) -> M] /\ (\A i, j \in In(w) : shift[i] = shift[j] => i = j)
        /\ \A i \in M : \E j \in In(w) : shift[j] = i
    BY <1>1, <1>5
  <1>8. CallEnds(t) \subseteq Nat
    BY <1>1 DEF CallEnds
  <1>9. In(u) \cap M = {} /\ In(u) \cup M \in SUBSET In(t)
    <2>1. In(t) \subseteq Nat
      BY <1>8
    <2> HIDE DEF In, M
    <2>2. QED
      BY <1>1, <1>4, <1>6, <2>1
  <1> HIDE DEF n, u, w, In, M, shift
  <1>10. ExistsBijection(In(w), M)
    BY <1>7 DEF ExistsBijection, Bijection, Injection, Surjection, IsInjective
  <1>11. IsFiniteSet(M) /\ Cardinality(M) = Cardinality(In(w))
    BY <1>2, <1>3, <1>10, FS_Bijection
  <1>12. Cardinality(In(u) \cup M) = Cardinality(In(u)) + Cardinality(M) - Cardinality({})
    BY <1>2, <1>3, <1>9, <1>11, FS_Union
  <1>13. Cardinality(In(u) \cup M) <= Cardinality(In(t))
    BY <1>3, <1>9, FS_Subset
  <1>14. Cardinality({}) = 0
    BY FS_EmptySet
  <1>15. /\ Count(ToolCalls(u), C) = Cardinality(In(u)) /\ Cardinality(In(u)) \in Nat
         /\ Count(ToolCalls(w), C) = Cardinality(In(w)) /\ Cardinality(In(w)) \in Nat
         /\ Count(ToolCalls(t), C) = Cardinality(In(t)) /\ Cardinality(In(t)) \in Nat
    BY <1>2, <1>3
  <1>16. Count(ToolCalls(u), C) + Count(ToolCalls(w), C) <= Count(ToolCalls(t), C)
    BY <1>11, <1>12, <1>13, <1>14, <1>15
  <1>17. QED
    BY <1>16 DEF u, w, n

\* Those of what has come, and of the next part, are among those of both.
LEMMA CallsInParts ==
  ASSUME NEW t \in Seq(STRING), CallsApart(t), NEW a \in Nat, NEW b \in Nat, a <= b, b <= Len(t), NEW C
  PROVE  Count(ToolCalls(SubSeq(t, 1, a)), C) + Count(ToolCalls(SubSeq(t, a + 1, b)), C)
           <= Count(ToolCalls(SubSeq(t, 1, b)), C)
  <1> DEFINE u == SubSeq(t, 1, b)
  <1>1. /\ u = SubSeq(t, 0 + 1, b) /\ u \in Seq(STRING) /\ Len(u) = b - 0
        /\ \A i \in 1..b - 0 : u[i] = t[0 + i]
    BY PartIs
  <1>2. Len(u) = b /\ \A i \in 1..b : u[i] = t[i]
    BY <1>1
  <1>3. \A i \in 0..b : Inside(u)[i] => Inside(t)[i]
    <2>1. 0 \in Nat /\ 0 <= b
      OBVIOUS
    <2> HIDE DEF u
    <2>2. \A i \in 0..b - 0 : Inside(u)[i] => Inside(t)[0 + i]
      BY <1>1, <2>1, InsidePart
    <2>3. QED
      BY <2>2
  <1>4. CallsApart(u)
    <2> SUFFICES ASSUME NEW i \in 1..Len(u) - 1, u[i] = Lt, u[i + 1] = Open
                 PROVE  ~Inside(u)[i]
      BY DEF CallsApart
    <2>1. i \in 1..b /\ i + 1 \in 1..b /\ i \in 0..b /\ i \in 1..Len(t) - 1
      BY <1>2, LenProperties
    <2>2. t[i] = Lt /\ t[i + 1] = Open
      BY <1>2, <2>1
    <2>3. QED
      BY <1>3, <2>1, <2>2 DEF CallsApart
  <1> HIDE DEF u
  <1>5. \A x \in Nat, y \in Nat : x <= y /\ y <= b => SubSeq(u, x + 1, y) = SubSeq(t, x + 1, y)
    <2>1. ASSUME NEW x \in Nat, NEW y \in Nat, x <= y, y <= b
          PROVE  SubSeq(u, x + 1, y) = SubSeq(t, x + 1, y)
      <3> DEFINE r == SubSeq(u, x + 1, y)
                 s == SubSeq(t, x + 1, y)
      <3>1. y <= Len(t) /\ y <= Len(u) /\ Len(t) \in Nat
        BY <1>2, <2>1, LenProperties
      <3>2. r \in Seq(STRING) /\ Len(r) = y - x /\ \A i \in 1..y - x : r[i] = u[x + i]
        BY <1>1, <2>1, <3>1, PartIs
      <3>3. s \in Seq(STRING) /\ Len(s) = y - x /\ \A i \in 1..y - x : s[i] = t[x + i]
        BY <2>1, <3>1, PartIs
      <3>4. \A i \in 1..y - x : x + i \in 1..b
        BY <2>1
      <3>5. \A i \in 1..y - x : r[i] = s[i]
        BY <1>2, <3>2, <3>3, <3>4
      <3> HIDE DEF r, s
      <3>6. r = s
        BY <3>2, <3>3, <3>5, SeqEqual
      <3>7. QED
        BY <3>6 DEF r, s
    <2>2. QED
      BY <2>1
  <1>6. a \in 0..Len(u) /\ 0 + 1 = 1
    BY <1>2
  <1>7. Count(ToolCalls(SubSeq(u, 1, a)), C) + Count(ToolCalls(SubSeq(u, a + 1, Len(u))), C)
          <= Count(ToolCalls(u), C)
    BY <1>1, <1>4, <1>6, CallsOfTwo
  <1>8. SubSeq(u, 1, a) = SubSeq(t, 1, a)
    <2>1. SubSeq(u, 0 + 1, a) = SubSeq(t, 0 + 1, a)
      <3>1. 0 \in Nat /\ 0 <= a
        OBVIOUS
      <3>2. QED
        BY <1>5, <3>1
    <2>2. QED
      BY <1>6, <2>1
  <1>9. SubSeq(u, a + 1, Len(u)) = SubSeq(t, a + 1, b)
    BY <1>2, <1>5
  <1>10. QED
    BY <1>7, <1>8, <1>9 DEF u
=============================================================================
