------------------------- MODULE ChannelNamesProofs -------------------------
(***************************************************************************)
(* Theorems about ChannelNames, for texts and alphabets of any size.       *)
(*                                                                         *)
(* FlattenSeq and Identified compute along a sequence.  What they compute  *)
(* is proved by looking at the first position where it would be wrong.     *)
(***************************************************************************)
EXTENDS ChannelNames, SequenceTheorems, WellFoundedInduction, TLAPS

\* A set of numbers has a least one.
LEMMA Least ==
  ASSUME NEW T \in SUBSET Nat, T # {}
  PROVE  \E n \in T : \A m \in T : n <= m
<1> DEFINE Below == {p \in Nat \X Nat : p[1] < p[2]}
<1>1. IsWellFoundedOn(Below, Nat)
  BY NatLessThanWellFounded DEF OpToRel
<1>2. \A x, y \in Nat : y < x => <<y, x>> \in Below
  OBVIOUS
<1> HIDE DEF Below
<1>3. PICK x \in T : \A y \in T : ~(<<y, x>> \in Below)
  BY <1>1, WFMin
<1>4. ASSUME NEW y \in T
      PROVE  x <= y
  <2>1. x \in Nat /\ y \in Nat /\ ~(y < x)
    BY <1>2, <1>3
  <2> QED
    BY <2>1
<1> QED
  BY <1>4

\* A set that has 0, and n + 1 with n, has all numbers.
LEMMA AllNat ==
  ASSUME NEW T, 0 \in T, \A n \in Nat : n \in T => n + 1 \in T
  PROVE  Nat \subseteq T
<1> SUFFICES ASSUME Nat \ T # {}
             PROVE  FALSE
  OBVIOUS
<1>1. PICK n \in Nat \ T : \A m \in Nat \ T : n <= m
  <2> DEFINE B == Nat \ T
  <2>1. B \in SUBSET Nat /\ B # {}
    OBVIOUS
  <2> HIDE DEF B
  <2>2. \E n \in B : \A m \in B : n <= m
    BY <2>1, Least
  <2> QED
    BY <2>2 DEF B
<1>2. n - 1 \in Nat /\ n - 1 \in T
  BY <1>1
<1> QED
  BY <1>1, <1>2

\* Values of which each is made from the one before.
Sequel(f, first, step, S) ==
    /\ f \in [Nat -> S]
    /\ f[0] = first
    /\ \A n \in Nat : f[n + 1] = step[<<n, f[n]>>]

LEMMA Iterates ==
  ASSUME NEW S, NEW first \in S, NEW step \in [Nat \X S -> S]
  PROVE  \E f : Sequel(f, first, step, S)
<1> DEFINE Upto(n, f) == /\ f \in [Nat -> S]
                         /\ f[0] = first
                         /\ \A i \in 0 .. n - 1 : f[i + 1] = step[<<i, f[i]>>]
           T == {n \in Nat : \E f : Upto(n, f)}
<1>1. 0 \in T
  <2>1. Upto(0, [i \in Nat |-> first])
    OBVIOUS
  <2> QED
    BY <2>1
<1>2. ASSUME NEW n \in Nat, n \in T
      PROVE  n + 1 \in T
  <2>1. PICK f : Upto(n, f)
    BY <1>2
  <2> DEFINE g == [f EXCEPT ![n + 1] = step[<<n, f[n]>>]]
  <2>2. g \in [Nat -> S] /\ g[0] = first /\ g[n + 1] = step[<<n, f[n]>>]
        /\ \A i \in 0 .. n : g[i] = f[i]
    BY <2>1
  <2>3. \A i \in 0 .. n : g[i + 1] = step[<<i, g[i]>>]
    <3> SUFFICES ASSUME NEW i \in 0 .. n
                 PROVE  g[i + 1] = step[<<i, g[i]>>]
      OBVIOUS
    <3>1. CASE i = n
      BY <2>2, <3>1
    <3>2. CASE i # n
      <4>1. i \in 0 .. n - 1 /\ i + 1 \in 0 .. n
        BY <3>2
      <4> HIDE DEF g
      <4> QED
        BY <2>1, <2>2, <4>1
    <3> QED
      BY <3>1, <3>2
  <2> HIDE DEF g
  <2>4. Upto(n + 1, g)
    BY <2>2, <2>3
  <2> QED
    BY <2>4
<1> HIDE DEF Upto
<1>3. \A n \in Nat : \E f : Upto(n, f)
  <2> HIDE DEF T
  <2>1. Nat \subseteq T
    BY <1>1, <1>2, AllNat
  <2> QED
    BY <2>1 DEF T
<1> DEFINE F == [n \in Nat |-> CHOOSE f : Upto(n, f)]
           h == [n \in Nat |-> F[n][n]]
<1>4. \A n \in Nat : Upto(n, F[n])
  BY <1>3
<1> HIDE DEF F
<1>5. ASSUME NEW n \in Nat
      PROVE  h[n] \in S
  BY <1>4 DEF Upto
<1>6. h[0] = first
  BY <1>4 DEF Upto
<1>7. ASSUME NEW n \in Nat
      PROVE  F[n + 1][n] = F[n][n]
  <2> DEFINE T2 == {i \in Nat : i <= n => F[n + 1][i] = F[n][i]}
  <2>1. 0 \in T2
    BY <1>4 DEF Upto
  <2>2. ASSUME NEW i \in Nat, i \in T2
        PROVE  i + 1 \in T2
    <3> SUFFICES ASSUME i + 1 <= n
                 PROVE  F[n + 1][i + 1] = F[n][i + 1]
      OBVIOUS
    <3>1. i \in 0 .. n - 1 /\ i \in 0 .. (n + 1) - 1
      OBVIOUS
    <3>2. F[n][i + 1] = step[<<i, F[n][i]>>] /\ F[n + 1][i + 1] = step[<<i, F[n + 1][i]>>]
      BY <1>4, <3>1 DEF Upto
    <3> QED
      BY <2>2, <3>2
  <2> HIDE DEF T2
  <2>3. Nat \subseteq T2
    BY <2>1, <2>2, AllNat
  <2> QED
    BY <2>3 DEF T2
<1>8. ASSUME NEW n \in Nat
      PROVE  h[n + 1] = step[<<n, h[n]>>]
  <2>1. n \in 0 .. (n + 1) - 1
    OBVIOUS
  <2>2. F[n + 1][n + 1] = step[<<n, F[n + 1][n]>>]
    BY <1>4, <2>1 DEF Upto
  <2>3. h[n + 1] = F[n + 1][n + 1] /\ h[n] = F[n][n]
    OBVIOUS
  <2> HIDE DEF h
  <2> QED
    BY <1>7, <2>2, <2>3
<1>9. Sequel(h, first, step, S)
  BY <1>5, <1>6, <1>8 DEF Sequel
<1> QED
  BY <1>9

-----------------------------------------------------------------------------
(* Sequences *)

\* One after the other, from nothing to all of them.
LEMMA Flattened ==
  ASSUME NEW S, NEW ss \in Seq(Seq(S))
  PROVE  \E f \in [Nat -> Seq(S)] :
             /\ f[0] = <<>> /\ f[Len(ss)] = FlattenSeq(ss)
             /\ \A i \in Nat : i + 1 <= Len(ss) => f[i + 1] = f[i] \o ss[i + 1]
<1> DEFINE n == Len(ss)
           Q == Seq(S)
           e == <<>>
           step == [p \in Nat \X Q |->
                       IF p[1] + 1 <= n THEN p[2] \o ss[p[1] + 1] ELSE p[2]]
<1>1. n \in Nat /\ \A i \in Nat : i + 1 <= n => ss[i + 1] \in Q
  BY LenProperties, ElementOfSeq
<1>2. e \in Q /\ \A s \in Q : e \o s = s
  BY EmptySeq, ConcatEmptySeq
<1>3. \A i \in Nat, s \in Q : i + 1 <= n => s \o ss[i + 1] \in Q
  BY <1>1, ConcatProperties
<1> HIDE DEF n, Q, e
<1>4. step \in [Nat \X Q -> Q]
  BY <1>3
<1>5. \A i \in Nat, s \in Q : i + 1 <= n => step[<<i, s>>] = s \o ss[i + 1]
  OBVIOUS
<1> HIDE DEF step
<1>6. PICK f : Sequel(f, e, step, Q)
  BY <1>2, <1>4, Iterates
<1>7. /\ f \in [Nat -> Q] /\ f[0] = e
      /\ \A i \in Nat : f[i + 1] = step[<<i, f[i]>>]
  BY <1>6 DEF Sequel
<1>8. \A i \in Nat : i + 1 <= n => f[i + 1] = f[i] \o ss[i + 1]
  BY <1>5, <1>7
<1>9. f[n] = FlattenSeq(ss)
  <2>1. CASE n = 0
    <3>1. ss = <<>>
      BY <2>1, EmptySeq DEF n
    <3> QED
      BY <1>7, <2>1, <3>1 DEF FlattenSeq, e
  <2>2. CASE n # 0
    <3> DEFINE Eq(g) == g = [i \in 1 .. n |-> IF i = 1 THEN ss[i] ELSE g[i - 1] \o ss[i]]
               g == CHOOSE x : Eq(x)
               d == [i \in 1 .. n |-> f[i]]
    <3>1. FlattenSeq(ss) = g[n]
      BY <2>2 DEF FlattenSeq, n
    <3>2. \A i \in 1 .. n : d[i] = IF i = 1 THEN ss[i] ELSE d[i - 1] \o ss[i]
      <4> SUFFICES ASSUME NEW i \in 1 .. n
                   PROVE  d[i] = IF i = 1 THEN ss[i] ELSE d[i - 1] \o ss[i]
        OBVIOUS
      <4>1. PICK j \in Nat : i = j + 1 /\ i - 1 = j
        BY <1>1
      <4>2. d[i] = f[j] \o ss[i]
        <5>1. d[i] = f[i]
          OBVIOUS
        <5>2. j + 1 <= n
          BY <1>1, <4>1
        <5>3. f[j + 1] = f[j] \o ss[j + 1]
          BY <1>8, <5>2
        <5> HIDE DEF d
        <5> QED
          BY <4>1, <5>1, <5>3
      <4>3. CASE i = 1
        <5>1. f[j] = e
          BY <1>7, <4>1, <4>3
        <5>2. ss[i] \in Q
          BY <1>1, <4>1
        <5> HIDE DEF d
        <5> QED
          BY <1>2, <4>2, <4>3, <5>1, <5>2
      <4>4. CASE i # 1
        <5>1. d[j] = f[j]
          BY <1>1, <4>1, <4>4
        <5> HIDE DEF d
        <5> QED
          BY <4>1, <4>2, <4>4, <5>1
      <4> QED
        BY <4>3, <4>4
    <3>3. Eq(d)
      <4> DEFINE b == [i \in 1 .. n |-> IF i = 1 THEN ss[i] ELSE d[i - 1] \o ss[i]]
      <4>1. DOMAIN d = 1 .. n /\ d = [i \in 1 .. n |-> d[i]]
        OBVIOUS
      <4> HIDE DEF d
      <4>2. [i \in 1 .. n |-> d[i]] = b
        BY <3>2
      <4> QED
        BY <4>1, <4>2
    <3>4. Eq(g)
      <4> HIDE DEF Eq
      <4>1. \E x : Eq(x)
        BY <3>3
      <4> QED
        BY <4>1
    <3>5. \A i \in 1 .. n : g[i] = IF i = 1 THEN ss[i] ELSE g[i - 1] \o ss[i]
      BY <3>4
    <3> HIDE DEF g
    <3> DEFINE T == {i \in Nat : i + 1 <= n => g[i + 1] = f[i + 1]}
    <3>6. 0 \in T
      <4>1. 1 <= n => g[1] = ss[1]
        BY <1>1, <3>5
      <4>2. PICK z \in Nat : z = 0
        OBVIOUS
      <4>3. z + 1 <= n => f[z + 1] = f[z] \o ss[z + 1] /\ ss[z + 1] \in Q
        BY <1>1, <1>8
      <4>4. f[z] = e
        BY <1>7, <4>2
      <4>5. z + 1 <= n => f[z + 1] = ss[z + 1]
        BY <1>2, <4>3, <4>4
      <4>6. z + 1 <= n => g[z + 1] = f[z + 1]
        BY <4>1, <4>2, <4>5
      <4> QED
        BY <4>2, <4>6
    <3>7. ASSUME NEW i \in Nat, i \in T
          PROVE  i + 1 \in T
      <4>1. PICK j \in Nat : j = i + 1
        OBVIOUS
      <4> SUFFICES ASSUME j + 1 <= n
                   PROVE  g[j + 1] = f[j + 1]
        BY <4>1
      <4>2. f[j + 1] = f[j] \o ss[j + 1]
        BY <1>8
      <4>3. PICK k \in 1 .. n : k = j + 1 /\ k # 1 /\ k - 1 = j
        BY <1>1, <4>1
      <4>4. g[k] = g[k - 1] \o ss[k]
        BY <3>5, <4>3
      <4>5. g[j] = f[j]
        BY <1>1, <3>7, <4>1
      <4> QED
        BY <4>2, <4>3, <4>4, <4>5
    <3>8. Nat \subseteq T
      <4> HIDE DEF T
      <4> QED
        BY <3>6, <3>7, AllNat
    <3>9. PICK m \in Nat : n = m + 1
      <4>1. n - 1 \in Nat /\ n = (n - 1) + 1
        BY <1>1, <2>2
      <4> QED
        BY <4>1
    <3> QED
      BY <3>1, <3>8, <3>9
  <2> QED
    BY <2>1, <2>2
<1> QED
  BY <1>7, <1>8, <1>9 DEF n, Q, e

\* A sequence is its elements, one after the other.
LEMMA FlattenSingletons ==
  ASSUME NEW S, NEW x \in Seq(S)
  PROVE  FlattenSeq([i \in DOMAIN x |-> <<x[i]>>]) = x
<1> DEFINE ss == [i \in DOMAIN x |-> <<x[i]>>]
           n == Len(x)
<1>1. n \in Nat /\ DOMAIN x = 1 .. n /\ \A i \in 1 .. n : x[i] \in S
  BY LenProperties, ElementOfSeq
<1>2. ss \in Seq(Seq(S)) /\ Len(ss) = n /\ \A i \in 1 .. n : ss[i] = <<x[i]>>
  <2>1. \A i \in 1 .. n : <<x[i]>> \in Seq(S)
    BY <1>1
  <2>2. ss \in [1 .. n -> Seq(S)]
    BY <1>1, <2>1
  <2>3. ss \in Seq(Seq(S)) /\ Len(ss) = n
    BY <1>1, <2>2
  <2> QED
    BY <1>1, <2>3
<1> HIDE DEF ss
<1>3. \E f \in [Nat -> Seq(S)] :
          /\ f[0] = <<>> /\ f[Len(ss)] = FlattenSeq(ss)
          /\ \A i \in Nat : i + 1 <= Len(ss) => f[i + 1] = f[i] \o ss[i + 1]
  BY <1>2, Flattened, Zenon
<1>4. PICK f \in [Nat -> Seq(S)] :
          /\ f[0] = <<>> /\ f[n] = FlattenSeq(ss)
          /\ \A i \in Nat : i + 1 <= n => f[i + 1] = f[i] \o ss[i + 1]
  BY <1>2, <1>3
<1> DEFINE T == {k \in Nat : k <= n => f[k] = SubSeq(x, 1, k)}
<1>5. 0 \in T
  BY <1>4, SubSeqEmpty
<1>6. ASSUME NEW k \in Nat, k \in T
      PROVE  k + 1 \in T
  <2> SUFFICES ASSUME k + 1 <= n
               PROVE  f[k + 1] = SubSeq(x, 1, k + 1)
    BY <1>6
  <2>1. f[k] = SubSeq(x, 1, k)
    <3>1. k <= n
      BY <1>1
    <3> HIDE DEF n
    <3> QED
      BY <1>6, <3>1
  <2>2. PICK m \in 1 .. n : m = k + 1 /\ m - 1 = k
    BY <1>1
  <2>3. f[m] = f[k] \o <<x[m]>>
    <3>1. f[k + 1] = f[k] \o ss[k + 1]
      BY <1>4
    <3>2. ss[m] = <<x[m]>>
      BY <1>2
    <3> QED
      BY <2>2, <3>1, <3>2
  <2>4. SubSeq(x, 1, m) = SubSeq(x, 1, m - 1) \o <<x[m]>>
    <3>1. 1 \in 1 .. Len(x) /\ m \in 1 .. Len(x)
      BY <1>1
    <3> HIDE DEF n
    <3> QED
      BY <3>1, SubSeqRecursiveSecond
  <2> QED
    BY <2>1, <2>2, <2>3, <2>4
<1>7. f[n] = SubSeq(x, 1, n)
  <2> HIDE DEF T
  <2>1. Nat \subseteq T
    BY <1>5, <1>6, AllNat
  <2>2. n \in T /\ n <= n
    BY <1>1, <2>1
  <2> HIDE DEF n
  <2> QED
    BY <2>2 DEF T
<1>8. SubSeq(x, 1, n) = x
  BY SubSeqFull
<1> QED
  BY <1>4, <1>7, <1>8 DEF ss

-----------------------------------------------------------------------------
(* PostgreSQL reads what was quoted *)

\* What is read from position i of a text on, where r has what is read from the
\* positions after it.
ReadAt(text, i, r) ==
    IF i > Len(text) THEN {}
    ELSE IF text[i] # Quote THEN {<<text[i]>> \o rest : rest \in r[i + 1]}
    ELSE IF i = Len(text) THEN {<<>>}
    ELSE IF text[i + 1] = Quote THEN {<<Quote>> \o rest : rest \in r[i + 2]}
    ELSE {}

\* There is what Identified reads, from the end of the text to its beginning.
LEMMA Reads ==
  ASSUME NEW text \in Seq(Char)
  PROVE  \E r : /\ \A i \in 2 .. Len(text) + 2 : r[i] = ReadAt(text, i, r)
                /\ Identified(text) = {Truncated(name) : name \in r[2] \ {<<>>}}
<1> DEFINE L == Len(text)
           Q == SUBSET Seq(Char)
           none == <<{}, {}>>
           before(i, a, b) ==
               IF i > L THEN {}
               ELSE IF text[i] # Quote THEN {<<text[i]>> \o rest : rest \in a}
               ELSE IF i = L THEN {<<>>}
               ELSE IF text[i + 1] = Quote THEN {<<Quote>> \o rest : rest \in b}
               ELSE {}
           step == [p \in Nat \X (Q \X Q) |->
                       IF p[1] < L THEN <<before(L + 1 - p[1], p[2][1], p[2][2]), p[2][1]>>
                       ELSE none]
<1>1. L \in Nat /\ \A i \in 1 .. L : text[i] \in Char
  BY LenProperties, ElementOfSeq
<1>2. \A i \in Int : i >= 1 => \A a, b \in Q : before(i, a, b) \in Q
  <2> SUFFICES ASSUME NEW i \in Int, i >= 1, NEW a \in Q, NEW b \in Q
               PROVE  before(i, a, b) \in Q
    OBVIOUS
  <2>1. \A c \in Char, s \in Seq(Char) : <<c>> \o s \in Seq(Char)
    <3>1. \A c \in Char : <<c>> \in Seq(Char)
      OBVIOUS
    <3> QED
      BY <3>1, ConcatProperties
  <2>2. <<>> \in Seq(Char) /\ Quote \in Char
    BY EmptySeq, NamesAssumption
  <2>3. i <= L => {<<text[i]>> \o rest : rest \in a} \in Q
    <3> SUFFICES ASSUME i <= L, NEW rest \in a
                 PROVE  <<text[i]>> \o rest \in Seq(Char)
      OBVIOUS
    <3>1. text[i] \in Char /\ rest \in Seq(Char)
      <4>1. i \in 1 .. L
        BY <1>1
      <4> HIDE DEF L
      <4> QED
        BY <1>1, <4>1
    <3> QED
      BY <2>1, <3>1
  <2>4. {<<Quote>> \o rest : rest \in b} \in Q
    BY <2>1, <2>2
  <2>5. {} \in Q /\ {<<>>} \in Q
    BY <2>2
  <2> HIDE DEF Q
  <2> QED
    BY <1>1, <2>3, <2>4, <2>5
<1>3. {} \in Q
  OBVIOUS
<1> HIDE DEF Q, L, before
<1>4. none \in Q \X Q
  BY <1>3
<1>5. step \in [Nat \X (Q \X Q) -> Q \X Q]
  <2>1. \A p \in Nat \X (Q \X Q) :
            p[1] < L => before(L + 1 - p[1], p[2][1], p[2][2]) \in Q
    BY <1>1, <1>2
  <2> QED
    BY <1>4, <2>1
<1>6. \A m \in Nat, st \in Q \X Q :
          m < L => step[<<m, st>>] = <<before(L + 1 - m, st[1], st[2]), st[1]>>
  OBVIOUS
<1> HIDE DEF step
<1>7. PICK h : Sequel(h, none, step, Q \X Q)
  BY <1>4, <1>5, Iterates
<1> DEFINE at == [m \in Nat |-> h[m][1]]
<1>8. /\ h[0] = none
      /\ \A m \in Nat : m < L => h[m + 1] = <<before(L + 1 - m, h[m][1], h[m][2]), h[m][1]>>
  BY <1>6, <1>7 DEF Sequel
<1> DEFINE e == [i \in 2 .. L + 2 |-> h[L + 2 - i][1]]
           Eq(r) == r = [i \in 2 .. L + 2 |-> before(i, r[i + 1], r[i + 2])]
           r == CHOOSE x : Eq(x)
<1>9. \A i \in 2 .. L + 2 : e[i] = before(i, e[i + 1], e[i + 2])
  <2> SUFFICES ASSUME NEW i \in 2 .. L + 2
               PROVE  e[i] = before(i, e[i + 1], e[i + 2])
    OBVIOUS
  <2>1. PICK k \in Nat : k = L + 2 - i
    BY <1>1
  <2>2. e[i] = h[k][1]
    BY <2>1
  <2>3. CASE k = 0
    <3>1. e[i] = {}
      BY <1>8, <2>2, <2>3
    <3>2. i > L
      BY <1>1, <2>1, <2>3
    <3> HIDE DEF e
    <3> QED
      BY <3>1, <3>2 DEF before
  <2>4. CASE k # 0
    <3>1. PICK m \in Nat : k = m + 1 /\ m < L /\ L + 1 - m = i /\ m = L + 2 - (i + 1)
                           /\ i + 1 \in 2 .. L + 2
      <4>1. k - 1 \in Nat /\ k = (k - 1) + 1 /\ k - 1 < L /\ L + 1 - (k - 1) = i
            /\ k - 1 = L + 2 - (i + 1) /\ i + 1 \in 2 .. L + 2
        BY <1>1, <2>1, <2>4
      <4> QED
        BY <4>1
    <3>2. e[i + 1] = h[m][1]
      BY <3>1
    <3>3. e[i] = before(i, h[m][1], h[m][2])
      <4>1. h[m + 1] = <<before(L + 1 - m, h[m][1], h[m][2]), h[m][1]>>
        BY <1>8, <3>1
      <4> HIDE DEF e
      <4> QED
        BY <2>2, <3>1, <4>1
    <3>4. CASE m = 0
      <4>1. i > L
        BY <1>1, <3>1, <3>4
      <4> HIDE DEF e
      <4> QED
        BY <3>3, <4>1 DEF before
    <3>5. CASE m # 0
      <4>1. PICK l \in Nat : m = l + 1 /\ l < L /\ l = L + 2 - (i + 2)
                             /\ i + 2 \in 2 .. L + 2
        <5>1. m - 1 \in Nat /\ m = (m - 1) + 1 /\ m - 1 < L /\ m - 1 = L + 2 - (i + 2)
              /\ i + 2 \in 2 .. L + 2
          BY <1>1, <3>1, <3>5
        <5> QED
          BY <5>1
      <4>2. e[i + 2] = h[l][1]
        BY <4>1
      <4>3. h[m][2] = h[l][1]
        <5>1. h[l + 1] = <<before(L + 1 - l, h[l][1], h[l][2]), h[l][1]>>
          BY <1>8, <4>1
        <5> QED
          BY <4>1, <5>1
      <4> HIDE DEF e
      <4> QED
        BY <3>2, <3>3, <4>2, <4>3
    <3> QED
      BY <3>4, <3>5
  <2> QED
    BY <2>3, <2>4
<1>10. Eq(e)
  <2>1. e = [i \in 2 .. L + 2 |-> e[i]]
    OBVIOUS
  <2> HIDE DEF e
  <2>2. [i \in 2 .. L + 2 |-> e[i]]
            = [i \in 2 .. L + 2 |-> before(i, e[i + 1], e[i + 2])]
    BY <1>9
  <2> QED
    BY <2>1, <2>2
<1>11. Eq(r)
  <2> HIDE DEF Eq
  <2>1. \E x : Eq(x)
    BY <1>10
  <2> QED
    BY <2>1
<1>12. Identified(text) = {Truncated(name) : name \in r[2] \ {<<>>}}
  BY DEF Identified, before, L
<1>13. \A i \in 2 .. L + 2 : r[i] = before(i, r[i + 1], r[i + 2])
  BY <1>11
<1> HIDE DEF r
<1>14. \A i \in 2 .. Len(text) + 2 : r[i] = ReadAt(text, i, r)
  BY <1>13 DEF ReadAt, before, L
<1> QED
  BY <1>12, <1>14

\* A sequence between two elements.
LEMMA Enclosed ==
  ASSUME NEW S, NEW D \in Seq(S), NEW c \in S
  PROVE  /\ <<c>> \o D \o <<c>> \in Seq(S)
         /\ Len(<<c>> \o D \o <<c>>) = Len(D) + 2
         /\ (<<c>> \o D \o <<c>>)[Len(D) + 2] = c
         /\ \A j \in 1 .. Len(D) : (<<c>> \o D \o <<c>>)[j + 1] = D[j]
<1> DEFINE q == <<c>>
           x == q \o D
           t == x \o q
           d == Len(D)
<1>1. q \in Seq(S) /\ Len(q) = 1 /\ q[1] = c
  OBVIOUS
<1>2. d \in Nat
  BY LenProperties
<1> HIDE DEF q
<1>3. x \in Seq(S) /\ Len(x) = Len(q) + d
      /\ \A j \in 1 .. Len(q) + d : x[j] = IF j <= Len(q) THEN q[j] ELSE D[j - Len(q)]
  BY <1>1, ConcatProperties
<1> HIDE DEF x
<1>4. t \in Seq(S) /\ Len(t) = Len(x) + Len(q)
      /\ \A j \in 1 .. Len(x) + Len(q) : t[j] = IF j <= Len(x) THEN x[j] ELSE q[j - Len(x)]
  <2>1. x \in Seq(S) /\ q \in Seq(S)
    BY <1>1, <1>3
  <2> QED
    BY <2>1, ConcatProperties
<1> HIDE DEF t, d
<1>5. Len(q) = 1 /\ Len(x) = d + 1 /\ Len(x) + Len(q) = d + 2
  BY <1>1, <1>2, <1>3
<1>6. ASSUME NEW j \in 1 .. d
      PROVE  t[j + 1] = D[j]
  <2>1. PICK i \in 1 .. d + 1 : i = j + 1 /\ ~(i <= 1) /\ i - 1 = j /\ i \in 1 .. d + 2 /\ i <= d + 1
                                /\ i \in 1 .. 1 + d
    BY <1>2
  <2>2. t[i] = x[i]
    BY <1>4, <1>5, <2>1
  <2>3. x[i] = D[i - 1]
    BY <1>3, <1>5, <2>1
  <2> QED
    BY <2>1, <2>2, <2>3
<1>7. t[d + 2] = c
  <2>1. PICK i \in 1 .. d + 2 : i = d + 2 /\ ~(i <= d + 1) /\ i - (d + 1) = 1
    BY <1>2
  <2>2. t[i] = q[i - (d + 1)]
    BY <1>4, <1>5, <2>1
  <2> QED
    BY <1>1, <2>1, <2>2
<1>8. t = <<c>> \o D \o <<c>>
  BY DEF t, x, q
<1> QED
  BY <1>4, <1>5, <1>6, <1>7, <1>8 DEF d

\* Between quotes, with its own quotes doubled, a name is read as it was.
LEMMA ReadsBack ==
  ASSUME NEW name \in Seq(Char)
  PROVE  Identified(<<Quote>> \o Doubled(name) \o <<Quote>>)
             = {Truncated(s) : s \in {name} \ {<<>>}}
<1> DEFINE n == Len(name)
           ss == [i \in DOMAIN name |->
                     IF name[i] = Quote THEN <<Quote, Quote>> ELSE <<name[i]>>]
           D == Doubled(name)
           text == <<Quote>> \o D \o <<Quote>>
           L == Len(text)
<1>1. n \in Nat /\ DOMAIN name = 1 .. n /\ (\A i \in 1 .. n : name[i] \in Char)
      /\ Quote \in Char
  BY LenProperties, ElementOfSeq, NamesAssumption
<1>2. ss \in Seq(Seq(Char)) /\ Len(ss) = n
  <2>1. \A i \in 1 .. n : ss[i] \in Seq(Char)
    BY <1>1
  <2>2. ss \in [1 .. n -> Seq(Char)]
    BY <1>1, <2>1
  <2> QED
    BY <1>1, <2>2
<1>3. \A k \in Nat : k + 1 <= n =>
          /\ ss[k + 1] \in Seq(Char)
          /\ name[k + 1] # Quote => Len(ss[k + 1]) = 1 /\ ss[k + 1][1] = name[k + 1]
          /\ name[k + 1] = Quote => Len(ss[k + 1]) = 2 /\ ss[k + 1][1] = Quote
                                    /\ ss[k + 1][2] = Quote
  <2> SUFFICES ASSUME NEW k \in Nat, k + 1 <= n
               PROVE  /\ ss[k + 1] \in Seq(Char)
                      /\ name[k + 1] # Quote => Len(ss[k + 1]) = 1 /\ ss[k + 1][1] = name[k + 1]
                      /\ name[k + 1] = Quote => Len(ss[k + 1]) = 2 /\ ss[k + 1][1] = Quote
                                                /\ ss[k + 1][2] = Quote
    OBVIOUS
  <2>1. PICK j \in 1 .. n : j = k + 1
    BY <1>1
  <2>2. name[j] \in Char
    BY <1>1
  <2>3. ss[j] = IF name[j] = Quote THEN <<Quote, Quote>> ELSE <<name[j]>>
    BY <1>1
  <2> HIDE DEF ss
  <2>4. /\ ss[j] \in Seq(Char)
        /\ name[j] # Quote => Len(ss[j]) = 1 /\ ss[j][1] = name[j]
        /\ name[j] = Quote => Len(ss[j]) = 2 /\ ss[j][1] = Quote /\ ss[j][2] = Quote
    BY <1>1, <2>2, <2>3
  <2> QED
    BY <2>1, <2>4
<1>4. D = FlattenSeq(ss)
  BY DEF Doubled
<1> HIDE DEF ss, D, n
<1>5. \E f \in [Nat -> Seq(Char)] :
          /\ f[0] = <<>> /\ f[Len(ss)] = FlattenSeq(ss)
          /\ \A i \in Nat : i + 1 <= Len(ss) => f[i + 1] = f[i] \o ss[i + 1]
  BY <1>2, Flattened, Zenon
<1>6. PICK f \in [Nat -> Seq(Char)] :
          /\ f[0] = <<>> /\ f[n] = D
          /\ \A i \in Nat : i + 1 <= n => f[i + 1] = f[i] \o ss[i + 1]
  BY <1>2, <1>4, <1>5
<1> DEFINE p == [k \in Nat |-> Len(f[k])]
<1>7. /\ p \in [Nat -> Nat] /\ p[0] = 0 /\ p[n] = Len(D) /\ D \in Seq(Char)
      /\ \A k \in Nat : p[k] = Len(f[k]) /\ f[k] \in Seq(Char)
  <2>1. \A k \in Nat : f[k] \in Seq(Char) /\ Len(f[k]) \in Nat
    BY LenProperties
  <2> QED
    BY <1>1, <1>6, <2>1, EmptySeq
<1> HIDE DEF p
<1>8. ASSUME NEW k \in Nat, k + 1 <= n
      PROVE  /\ p[k + 1] = p[k] + Len(ss[k + 1])
             /\ \A j \in 1 .. p[k] + Len(ss[k + 1]) :
                    f[k + 1][j] = IF j <= p[k] THEN f[k][j] ELSE ss[k + 1][j - p[k]]
  <2>1. f[k + 1] = f[k] \o ss[k + 1] /\ f[k] \in Seq(Char) /\ ss[k + 1] \in Seq(Char)
    <3>1. f[k + 1] = f[k] \o ss[k + 1]
      BY <1>6, <1>8, Zenon
    <3>2. f[k] \in Seq(Char)
      BY <1>7
    <3>3. ss[k + 1] \in Seq(Char)
      BY <1>3, <1>8, Zenon
    <3> QED
      BY <3>1, <3>2, <3>3
  <2>2. p[k + 1] = Len(f[k + 1]) /\ p[k] = Len(f[k])
    <3>1. k + 1 \in Nat
      OBVIOUS
    <3> QED
      BY <1>7, <3>1
  <2> QED
    BY <2>1, <2>2, ConcatProperties
<1> DEFINE Starts(k) == p[k] <= Len(D) /\ \A j \in 1 .. p[k] : D[j] = f[k][j]
<1>9. ASSUME NEW k \in Nat, k <= n
      PROVE  Starts(k)
  <2> DEFINE T == {m \in Nat : m <= n => Starts(n - m)}
  <2>1. 0 \in T
    <3>1. n - 0 = n /\ p[n] <= Len(D) /\ p[n] \in Nat
      BY <1>1, <1>7
    <3>2. Starts(n)
      BY <1>6, <3>1
    <3> HIDE DEF Starts
    <3> QED
      BY <3>1, <3>2
  <2>2. ASSUME NEW m \in Nat, m \in T
        PROVE  m + 1 \in T
    <3> SUFFICES ASSUME m + 1 <= n
                 PROVE  Starts(n - (m + 1))
      OBVIOUS
    <3> HIDE DEF T, Starts
    <3>1. PICK i \in Nat : i = n - (m + 1) /\ i + 1 = n - m /\ i + 1 <= n
      <4>1. /\ n - (m + 1) \in Nat /\ (n - (m + 1)) + 1 = n - m
            /\ (n - (m + 1)) + 1 <= n
        BY <1>1
      <4> QED
        BY <4>1
    <3>2. Starts(i + 1)
      <4>1. Starts(n - m)
        BY <1>1, <2>2 DEF T
      <4> QED
        BY <3>1, <4>1
    <3>3. p[i] \in Nat /\ p[i + 1] \in Nat /\ Len(D) \in Nat /\ p[i] <= p[i + 1]
      <4>1. i + 1 <= n /\ i + 1 \in Nat
        BY <1>1, <3>1
      <4>2. ss[i + 1] \in Seq(Char)
        BY <1>3, <4>1
      <4>3. Len(ss[i + 1]) \in Nat
        BY <4>2, LenProperties
      <4>4. p[i] \in Nat /\ p[i + 1] \in Nat /\ Len(D) \in Nat
        BY <1>7, <4>1, LenProperties
      <4>5. p[i + 1] = p[i] + Len(ss[i + 1])
        BY <1>8, <4>1
      <4> DEFINE u == p[i]
                 v == p[i + 1]
                 w == Len(ss[i + 1])
      <4>6. u \in Nat /\ v \in Nat /\ w \in Nat /\ v = u + w
        BY <4>3, <4>4, <4>5
      <4> HIDE DEF u, v, w
      <4>7. u <= v
        BY <4>6
      <4> QED
        BY <4>4, <4>7 DEF u, v
    <3>4. \A j \in 1 .. p[i + 1] : j <= p[i] => f[i + 1][j] = f[i][j]
      BY <1>8, <3>1
    <3>5. p[i] <= Len(D)
      <4> DEFINE u == p[i]
                 v == p[i + 1]
                 w == Len(D)
      <4>1. u \in Nat /\ v \in Nat /\ w \in Nat /\ u <= v /\ v <= w
        BY <3>2, <3>3 DEF Starts
      <4> HIDE DEF u, v, w
      <4>2. u <= w
        BY <4>1
      <4> QED
        BY <4>2 DEF u, w
    <3>6. Starts(i)
      <4> SUFFICES ASSUME NEW j \in 1 .. p[i]
                   PROVE  D[j] = f[i][j]
        BY <3>5 DEF Starts
      <4>1. j \in 1 .. p[i + 1] /\ j <= p[i]
        <5> DEFINE u == p[i]
                   v == p[i + 1]
        <5>1. u \in Nat /\ v \in Nat /\ u <= v /\ j \in 1 .. u
          BY <3>3
        <5> HIDE DEF u, v
        <5>2. j \in 1 .. v /\ j <= u
          BY <5>1
        <5> QED
          BY <5>2 DEF u, v
      <4>2. f[i + 1][j] = f[i][j]
        BY <3>4, <4>1
      <4> QED
        BY <3>2, <4>1, <4>2 DEF Starts
    <3> QED
      BY <3>1, <3>6
  <2>3. Nat \subseteq T
    <3> HIDE DEF T
    <3> QED
      BY <2>1, <2>2, AllNat
  <2>4. n - k \in Nat /\ n - k <= n /\ n - (n - k) = k
    BY <1>1, <1>9
  <2>5. n - k \in T
    BY <2>3, <2>4
  <2> HIDE DEF Starts
  <2> QED
    BY <2>4, <2>5
<1>10. L = Len(D) + 2 /\ text \in Seq(Char) /\ text[L] = Quote
       /\ \A j \in 1 .. Len(D) : text[j + 1] = D[j]
  <2>1. /\ text \in Seq(Char) /\ L = Len(D) + 2 /\ text[Len(D) + 2] = Quote
        /\ \A j \in 1 .. Len(D) : text[j + 1] = D[j]
    BY <1>1, <1>7, Enclosed
  <2> HIDE DEF text, L
  <2> QED
    BY <2>1
<1> HIDE DEF text, L
\* Where the k-th character of the name begins in the text.
<1>11. ASSUME NEW k \in Nat, k + 1 <= n
       PROVE  /\ p[k] + 2 \in 2 .. L - 1
              /\ text[p[k] + 2] = name[k + 1]
              /\ name[k + 1] # Quote => p[k + 1] + 2 = (p[k] + 2) + 1
              /\ name[k + 1] = Quote =>
                     p[k + 1] + 2 = (p[k] + 2) + 2 /\ text[(p[k] + 2) + 1] = Quote
  <2> DEFINE u == p[k]
             v == p[k + 1]
             w == Len(ss[k + 1])
             d == Len(D)
  <2>1. u \in Nat /\ v \in Nat /\ d \in Nat
    <3>1. k + 1 \in Nat
      OBVIOUS
    <3>2. p[k] \in Nat /\ p[k + 1] \in Nat
      BY <1>7, <3>1
    <3>3. Len(D) \in Nat
      BY <1>7, LenProperties
    <3> QED
      BY <3>2, <3>3
  <2>2. v <= d /\ \A j \in 1 .. v : D[j] = f[k + 1][j]
    <3>1. k + 1 \in Nat
      OBVIOUS
    <3>2. Starts(k + 1)
      <4> HIDE DEF Starts
      <4> QED
        BY <1>9, <1>11, <3>1
    <3> QED
      BY <3>2
  <2>3. w \in {1, 2} /\ (w = 2 <=> name[k + 1] = Quote)
    <3>1. name[k + 1] # Quote => Len(ss[k + 1]) = 1
      BY <1>3, <1>11, Zenon
    <3>2. name[k + 1] = Quote => Len(ss[k + 1]) = 2
      BY <1>3, <1>11, Zenon
    <3>3. /\ name[k + 1] # Quote => w = 1
          /\ name[k + 1] = Quote => w = 2
      BY <3>1, <3>2
    <3> HIDE DEF w
    <3>4. CASE name[k + 1] = Quote
      <4>1. w = 2
        BY <3>3, <3>4, Zenon
      <4> QED
        BY <3>4, <4>1
    <3>5. CASE name[k + 1] # Quote
      <4>1. w = 1
        BY <3>3, <3>5, Zenon
      <4> QED
        BY <3>5, <4>1
    <3> QED
      BY <3>4, <3>5, Zenon
  <2>4. v = u + w
    BY <1>8, <1>11
  <2>5. \A j \in 1 .. u + w : j > u => f[k + 1][j] = ss[k + 1][j - u]
    <3>1. \A j \in 1 .. u + w :
              f[k + 1][j] = IF j <= u THEN f[k][j] ELSE ss[k + 1][j - u]
      BY <1>8, <1>11, Zenon
    <3> HIDE DEF u, w
    <3> QED
      BY <2>1, <2>3, <3>1
  <2>6. L = d + 2 /\ \A j \in 1 .. d : text[j + 1] = D[j]
    BY <1>10
  <2> HIDE DEF u, v, w, d
  <2>7. ASSUME NEW i \in 1 .. w
        PROVE  text[u + 1 + i] = ss[k + 1][i]
    <3>1. PICK j \in 1 .. v : j = u + i /\ j > u /\ j - u = i /\ j + 1 = u + 1 + i /\ j \in 1 .. d
      BY <2>1, <2>2, <2>3, <2>4
    <3> QED
      BY <2>2, <2>4, <2>5, <2>6, <3>1
  <2>8. text[u + 2] = ss[k + 1][1] /\ (w = 2 => text[u + 3] = ss[k + 1][2])
    <3>1. 1 \in 1 .. w /\ u + 1 + 1 = u + 2 /\ u + 1 + 2 = u + 3 /\ (w = 2 => 2 \in 1 .. w)
      BY <2>1, <2>3
    <3> QED
      BY <2>7, <3>1
  <2>9. /\ u + 2 \in 2 .. L - 1 /\ (w = 1 => v + 2 = (u + 2) + 1)
        /\ (w = 2 => v + 2 = (u + 2) + 2) /\ u + 3 = (u + 2) + 1
    BY <2>1, <2>2, <2>3, <2>4, <2>6
  <2>10. ss[k + 1][1] = name[k + 1] /\ (name[k + 1] = Quote => ss[k + 1][2] = Quote)
    BY <1>3, <1>11
  <2> QED
    BY <2>3, <2>8, <2>9, <2>10 DEF u, v
<1>12. PICK r : /\ \A i \in 2 .. L + 2 : r[i] = ReadAt(text, i, r)
                /\ Identified(text) = {Truncated(s) : s \in r[2] \ {<<>>}}
  BY <1>10, Reads DEF L
<1> DEFINE Rest(k) == SubSeq(name, k + 1, n)
           Right(k) == r[p[k] + 2] = {Rest(k)}
<1>13. Right(n)
  <2>1. p[n] + 2 = L /\ L \in 2 .. L + 2 /\ ~(L > L)
    <3> DEFINE d == Len(D)
    <3>1. d \in Nat /\ L = d + 2 /\ p[n] = d
      BY <1>7, <1>10, LenProperties
    <3> HIDE DEF d
    <3> QED
      BY <3>1
  <2>2. r[L] = ReadAt(text, L, r)
    BY <1>12, <2>1
  <2>3. r[L] = {<<>>}
    BY <1>10, <2>1, <2>2 DEF ReadAt, L
  <2>4. Rest(n) = <<>>
    <3>1. n + 1 \in Int /\ n \in Int /\ n < n + 1
      BY <1>1
    <3> QED
      BY <3>1, SubSeqEmpty
  <2> QED
    BY <2>1, <2>3, <2>4
<1>14. ASSUME NEW k \in Nat, k + 1 <= n, Right(k + 1)
       PROVE  Right(k)
  <2> DEFINE i == p[k] + 2
             c == name[k + 1]
  <2>1. /\ i \in 2 .. L - 1 /\ text[i] = c
        /\ c # Quote => p[k + 1] + 2 = i + 1
        /\ c = Quote => p[k + 1] + 2 = i + 2 /\ text[i + 1] = Quote
    BY <1>11, <1>14, Zenon
  <2>2. r[p[k + 1] + 2] = {Rest(k + 1)}
    BY <1>14
  <2>3. Rest(k) = <<c>> \o Rest(k + 1)
    <3>1. PICK m \in 1 .. Len(name) : m = k + 1 /\ n \in m .. Len(name)
      BY <1>1, <1>14 DEF n
    <3>2. SubSeq(name, m, n) = <<name[m]>> \o SubSeq(name, m + 1, n)
      BY <3>1, SubSeqRecursiveFirst
    <3> QED
      BY <3>1, <3>2
  <2> HIDE DEF i, c, Rest
  <2>4. r[i] = ReadAt(text, i, r) /\ L \in Nat /\ i \in Nat /\ ~(i > L) /\ i # L
    <3>1. L \in Nat
      BY <1>10, LenProperties DEF L
    <3>2. i \in 2 .. L + 2 /\ i \in Nat /\ ~(i > L) /\ i # L
      BY <2>1, <3>1
    <3> QED
      BY <1>12, <3>1, <3>2
  <2>5. CASE c # Quote
    <3>1. r[i] = {<<c>> \o rest : rest \in r[i + 1]}
      BY <2>1, <2>4, <2>5 DEF ReadAt, L
    <3>2. r[i + 1] = {Rest(k + 1)}
      BY <2>1, <2>2, <2>5
    <3> QED
      BY <2>3, <3>1, <3>2 DEF i
  <2>6. CASE c = Quote
    <3>1. r[i] = {<<c>> \o rest : rest \in r[i + 2]}
      BY <2>1, <2>4, <2>6 DEF ReadAt, L
    <3>2. r[i + 2] = {Rest(k + 1)}
      BY <2>1, <2>2, <2>6
    <3> QED
      BY <2>3, <3>1, <3>2 DEF i
  <2> QED
    BY <2>5, <2>6
<1>15. Right(0)
  <2> DEFINE T == {m \in Nat : m <= n => Right(n - m)}
  <2> HIDE DEF Right
  <2>1. 0 \in T
    <3>1. n - 0 = n
      BY <1>1
    <3> QED
      BY <1>13, <3>1
  <2>2. ASSUME NEW m \in Nat, m \in T
        PROVE  m + 1 \in T
    <3> SUFFICES ASSUME m + 1 <= n
                 PROVE  Right(n - (m + 1))
      OBVIOUS
    <3>1. PICK i \in Nat : i = n - (m + 1) /\ i + 1 = n - m /\ i + 1 <= n
      BY <1>1
    <3>2. Right(n - m)
      BY <1>1, <2>2
    <3> QED
      BY <1>14, <3>1, <3>2
  <2>3. Nat \subseteq T
    <3> HIDE DEF T
    <3> QED
      BY <2>1, <2>2, AllNat
  <2>4. n \in T /\ n <= n /\ n - n = 0
    BY <1>1, <2>3
  <2> QED
    BY <2>4
<1>16. r[2] = {name}
  <2>1. p[0] + 2 = 2 /\ 0 + 1 = 1
    BY <1>7
  <2>2. SubSeq(name, 1, n) = name
    BY SubSeqFull DEF n
  <2> QED
    BY <1>15, <2>1, <2>2
<1> QED
  BY <1>12, <1>16 DEF text, D

-----------------------------------------------------------------------------
(* Keys *)

\* The characters that are lower case, and the names that are keys.
LowerCase == {c \in Char : Lower[c] = <<c>>}
Key == {name \in Seq(LowerCase) : name # Invalid /\ ByteLen(name) <= MaxLen}

\* What is in lower case is what it is in lower case.
LEMMA LowerIsLower ==
  /\ \A text \in Seq(Char) : ToLowercase(text) \in Seq(LowerCase)
  /\ \A text \in Seq(LowerCase) : ToLowercase(text) = text
<1>1. ASSUME NEW text \in Seq(Char)
      PROVE  ToLowercase(text) \in Seq(LowerCase)
  <2> DEFINE Final(i) == text[i] = Sigma /\ EndsWord(text, i)
             ss == [i \in DOMAIN text |-> IF Final(i) THEN <<FinalSigma>>
                                                     ELSE Lower[text[i]]]
             n == Len(text)
  <2>1. n \in Nat /\ DOMAIN text = 1 .. n /\ \A i \in 1 .. n : text[i] \in Char
    BY LenProperties, ElementOfSeq
  <2>2. ASSUME NEW c \in Char
        PROVE  Lower[c] \in Seq(LowerCase)
    <3>1. Lower[c] \in Seq(Char)
      BY NamesAssumption
    <3>2. \A i \in DOMAIN Lower[c] : Lower[Lower[c][i]] = <<Lower[c][i]>>
      BY NamesAssumption
    <3> DEFINE s == Lower[c]
    <3>3. Len(s) \in Nat /\ s \in [1 .. Len(s) -> Char] /\ DOMAIN s = 1 .. Len(s)
      BY <3>1, LenProperties
    <3> HIDE DEF s
    <3>4. s \in [1 .. Len(s) -> LowerCase]
      BY <3>2, <3>3 DEF LowerCase, s
    <3>5. s \in Seq(LowerCase)
      BY <3>3, <3>4
    <3> QED
      BY <3>5 DEF s
  <2>3. ss \in Seq(Seq(LowerCase))
    <3>1. <<FinalSigma>> \in Seq(LowerCase)
      BY NamesAssumption DEF LowerCase
    <3> HIDE DEF Final
    <3>2. \A i \in 1 .. n : ss[i] \in Seq(LowerCase)
      BY <2>1, <2>2, <3>1
    <3>3. ss \in [1 .. n -> Seq(LowerCase)]
      BY <2>1, <3>2
    <3> QED
      BY <2>1, <3>3
  <2> HIDE DEF ss
  <2>4. \E f \in [Nat -> Seq(LowerCase)] :
            /\ f[0] = <<>> /\ f[Len(ss)] = FlattenSeq(ss)
            /\ \A i \in Nat : i + 1 <= Len(ss) => f[i + 1] = f[i] \o ss[i + 1]
    BY <2>3, Flattened, Zenon
  <2>5. Len(ss) \in Nat
    BY <2>3, LenProperties
  <2>6. FlattenSeq(ss) \in Seq(LowerCase)
    BY <2>4, <2>5
  <2> QED
    BY <2>6 DEF ToLowercase, ss
<1>2. ASSUME NEW text \in Seq(LowerCase)
      PROVE  ToLowercase(text) = text
  <2>1. \A i \in DOMAIN text : text[i] \in LowerCase
    BY LenProperties, ElementOfSeq
  <2> DEFINE Final(i) == text[i] = Sigma /\ EndsWord(text, i)
  <2>2. [i \in DOMAIN text |-> IF Final(i) THEN <<FinalSigma>> ELSE Lower[text[i]]]
            = [i \in DOMAIN text |-> <<text[i]>>]
    <3>1. \A i \in DOMAIN text : ~Final(i) /\ Lower[text[i]] = <<text[i]>>
      BY <2>1, NamesAssumption DEF LowerCase
    <3> HIDE DEF Final
    <3> QED
      BY <3>1
  <2>3. FlattenSeq([i \in DOMAIN text |-> <<text[i]>>]) = text
    BY FlattenSingletons
  <2> QED
    BY <2>2, <2>3 DEF ToLowercase
<1> QED
  BY <1>1, <1>2

\* A name that is accepted is a key, and a key stays what it is.
LEMMA NewIsKey ==
  /\ \A text \in Seq(Char) : New(text) # Invalid => New(text) \in Key
  /\ \A key \in Key : New(key) = key
  /\ Key \subseteq Seq(Char)
<1>1. LowerCase \subseteq Char
  BY DEF LowerCase
<1>2. Key \subseteq Seq(Char)
  BY <1>1, SeqMonotonic DEF Key
<1>3. ASSUME NEW text \in Seq(Char), New(text) # Invalid
      PROVE  New(text) \in Key
  BY <1>3, LowerIsLower DEF New, Key
<1>4. ASSUME NEW key \in Key
      PROVE  New(key) = key
  BY LowerIsLower DEF New, Key
<1> QED
  BY <1>2, <1>3, <1>4

\* Without a double quote there is nothing to double.
LEMMA UnquotedStays ==
  ASSUME NEW name \in Seq(Char), ~Contains(name, Quote)
  PROVE  Doubled(name) = name /\ QuoteIdentifier(name) = name
<1>1. \A i \in DOMAIN name : name[i] # Quote
  BY LenProperties DEF Contains
<1>2. [i \in DOMAIN name |-> IF name[i] = Quote THEN <<Quote, Quote>> ELSE <<name[i]>>]
          = [i \in DOMAIN name |-> <<name[i]>>]
  BY <1>1
<1>3. FlattenSeq([i \in DOMAIN name |-> <<name[i]>>]) = name
  BY FlattenSingletons
<1>4. Doubled(name) = name
  BY <1>2, <1>3 DEF Doubled
<1> QED
  BY <1>4 DEF QuoteIdentifier

\* Safe or not, what goes between the quotes is the name with its quotes doubled.
LEMMA QuoteIdentifierDoubles ==
  ASSUME NEW name \in Seq(Char)
  PROVE  QuoteIdentifier(name) = Doubled(name)
<1>1. CASE IsSafe(name)
  <2>1. ToSet(name) \subseteq Safe /\ Quote \notin Safe
    BY <1>1, NamesAssumption DEF IsSafe
  <2>2. ~Contains(name, Quote)
    BY <2>1, LenProperties DEF Contains, ToSet
  <2> QED
    BY <2>2, UnquotedStays
<1>2. CASE ~IsSafe(name)
  BY <1>2 DEF QuoteIdentifier
<1> QED
  BY <1>1, <1>2

\* What fits is not cut off.
LEMMA FitsWhole ==
  ASSUME NEW name \in Seq(Char), ByteLen(name) <= MaxLen
  PROVE  Truncated(name) = name
<1> DEFINE Longest(s) == /\ ByteLen(s) <= MaxLen
                         /\ \A t \in Prefixes(name) : ByteLen(t) <= MaxLen => Len(t) <= Len(s)
           n == Len(name)
<1>1. n \in Nat /\ \A i \in 1 .. n : name[i] \in Char
  BY LenProperties, ElementOfSeq
<1>2. \A l \in 0 .. n : Len(SubSeq(name, 1, l)) = l
  <2> SUFFICES ASSUME NEW l \in 0 .. n
               PROVE  Len(SubSeq(name, 1, l)) = l
    OBVIOUS
  <2>1. l \in Int /\ 1 \in Int /\ \A i \in 1 .. l : name[i] \in Char
    BY <1>1
  <2>2. Len(SubSeq(name, 1, l)) = IF 1 <= l THEN l - 1 + 1 ELSE 0
    BY <2>1, SubSeqProperties
  <2> QED
    BY <1>1, <2>2
<1>3. SubSeq(name, 1, n) = name
  BY SubSeqFull
<1>4. \A t \in Prefixes(name) : t = name \/ Len(t) < n
  BY <1>1, <1>2, <1>3 DEF Prefixes
<1>5. name \in Prefixes(name)
  <2>1. n \in 0 .. n
    BY <1>1
  <2>2. SubSeq(name, 1, n) \in Prefixes(name)
    BY <2>1 DEF Prefixes
  <2> QED
    BY <1>3, <2>2
<1>6. Longest(name)
  BY <1>1, <1>4
<1>7. \A t \in Prefixes(name) : Longest(t) => t = name
  <2> SUFFICES ASSUME NEW t \in Prefixes(name), Longest(t), t # name
               PROVE  FALSE
    OBVIOUS
  <2>1. n <= Len(t) /\ Len(t) < n
    BY <1>4, <1>5
  <2>2. Len(t) \in Nat
    BY <1>1, <1>2 DEF Prefixes
  <2> HIDE DEF n
  <2> QED
    BY <1>1, <2>1, <2>2
<1> HIDE DEF Longest
<1>8. (CHOOSE s \in Prefixes(name) : Longest(s)) = name
  BY <1>5, <1>6, <1>7
<1> QED
  BY <1>8 DEF Truncated, Longest

\* A key is listened on under its own name, whatever is in it.
LEMMA KeyIsHeard ==
  ASSUME NEW key \in Key
  PROVE  Identified(Listen(key)) = {key}
<1>1. key \in Seq(Char) /\ key # <<>> /\ ByteLen(key) <= MaxLen
  BY NewIsKey DEF Key, Invalid
<1>2. Listen(key) = <<Quote>> \o Doubled(key) \o <<Quote>>
  BY <1>1, QuoteIdentifierDoubles DEF Listen
<1>3. Identified(Listen(key)) = {Truncated(s) : s \in {key} \ {<<>>}}
  BY <1>1, <1>2, ReadsBack
<1>4. Truncated(key) = key
  BY <1>1, FitsWhole
<1> QED
  BY <1>1, <1>3, <1>4

-----------------------------------------------------------------------------
(* The way there and back *)

\* The names of a request are what is between its commas.
LEMMA RequestedAreKeys ==
  ASSUME NEW text \in Seq(Char)
  PROVE  Requested(text) \subseteq Key
<1> DEFINE L == Len(text)
           from == {i \in 1 .. L + 1 : i = 1 \/ text[i - 1] = Comma}
           End(i, j) == /\ j = L + 1 \/ text[j] = Comma
                        /\ \A k \in i .. j - 1 : text[k] # Comma
           to(i) == CHOOSE j \in i .. L + 1 : End(i, j)
           names == {New(SubSeq(text, i, to(i) - 1)) : i \in from}
<1>1. L \in Nat /\ \A i \in 1 .. L : text[i] \in Char
  BY LenProperties, ElementOfSeq
<1>2. ASSUME NEW i \in 1 .. L + 1
      PROVE  to(i) \in i .. L + 1
  <2> DEFINE Ends == {j \in i .. L + 1 : j = L + 1 \/ text[j] = Comma}
  <2>1. Ends \in SUBSET Nat /\ Ends # {}
    <3>1. L + 1 \in Ends
      BY <1>1
    <3> QED
      BY <1>1, <3>1
  <2>2. PICK j \in Ends : \A k \in Ends : j <= k
    <3> HIDE DEF Ends
    <3> QED
      BY <2>1, Least
  <2>3. End(i, j)
    <3> SUFFICES ASSUME NEW k \in i .. j - 1, text[k] = Comma
                 PROVE  FALSE
      OBVIOUS
    <3>1. k \in Ends /\ ~(j <= k)
      BY <1>1
    <3> QED
      BY <2>2, <3>1
  <2> HIDE DEF End
  <2> QED
    BY <2>3
<1>3. ASSUME NEW i \in from
      PROVE  SubSeq(text, i, to(i) - 1) \in Seq(Char)
  <2> DEFINE b == to(i) - 1
  <2>1. i \in Int /\ b \in Int /\ \A k \in i .. b : k \in 1 .. L
    <3>1. to(i) \in i .. L + 1
      BY <1>2
    <3> HIDE DEF to
    <3> QED
      BY <1>1, <3>1
  <2> HIDE DEF b, L
  <2>2. \A k \in i .. b : text[k] \in Char
    BY <1>1, <2>1
  <2>3. SubSeq(text, i, b) \in Seq(Char)
    BY <2>1, <2>2, SubSeqProperties
  <2> QED
    BY <2>3 DEF b
<1>4. Requested(text) = IF Invalid \in names THEN {} ELSE names
  BY DEF Requested
<1> HIDE DEF from, to
<1>5. Invalid \notin names => names \subseteq Key
  BY <1>3, NewIsKey
<1> HIDE DEF names
<1> QED
  BY <1>4, <1>5

\* Only keys are filed, and each is listened on by its own name.
NamesInv ==
    /\ filed \subseteq Key
    /\ HeardUnderItsKey
    /\ ArrivesUnlessQuoted

LEMMA ListenManyKeeps ==
  ASSUME NEW names \in SUBSET Key, ListenMany(names)
  PROVE  NamesInv'
<1>1. filed' = names /\ sent' = <<>> /\ got' = {}
  BY DEF ListenMany, Invalid
<1>2. listening' = names
  <2>1. listening' = UNION {Identified(Listen(name)) : name \in names}
    BY DEF ListenMany
  <2>2. \A name \in names : Identified(Listen(name)) = {name}
    BY KeyIsHeard
  <2>3. {Identified(Listen(name)) : name \in names} = {{name} : name \in names}
    BY <2>2
  <2> QED
    BY <2>1, <2>3
<1>3. HeardUnderItsKey'
  BY <1>1, <1>2, NewIsKey DEF HeardUnderItsKey
<1>4. got' = filed' \cap {sent'}
  BY <1>1 DEF Key, Invalid
<1> QED
  BY <1>1, <1>3, <1>4 DEF NamesInv, ArrivesUnlessQuoted

\* A name that reaches the session as it is leads to the subscribers of it.
LEMMA NotifiedKeeps ==
  ASSUME NamesInv, NEW name, NEW reached, Notified(name, reached),
         ~Contains(name, Quote) => reached \cap filed = {name} \cap filed
  PROVE  NamesInv'
<1>1. filed' = filed /\ listening' = listening /\ sent' = name
      /\ got' = {New(ch) : ch \in reached \cap listening} \cap filed
  BY DEF Notified
<1>2. listening = filed /\ \A ch \in filed : New(ch) = ch
  BY DEF NamesInv, HeardUnderItsKey
<1>3. got' = reached \cap filed
  BY <1>1, <1>2
<1>4. ~Contains(name, Quote) => got' = filed' \cap {name}
  BY <1>1, <1>3
<1> QED
  BY <1>1, <1>4 DEF NamesInv, HeardUnderItsKey, ArrivesUnlessQuoted

\* Only keys are filed, each is listened on, and what is notified arrives.
LEMMA NamesStep ==
  ASSUME NamesInv, [Next]_namesVars
  PROVE  NamesInv'
<1> USE NamesAssumption
<1>1. ASSUME NEW text \in Texts, WsSubscribe(text)
      PROVE  NamesInv'
  <2>1. {New(text)} \subseteq Key /\ ListenMany({New(text)})
    BY <1>1, NewIsKey DEF WsSubscribe, ListenMany
  <2> QED
    BY <2>1, ListenManyKeeps
<1>2. ASSUME NEW text \in Texts, SseRequest(text)
      PROVE  NamesInv'
  <2>1. Requested(text) \subseteq Key /\ ListenMany(Requested(text))
    BY <1>2, RequestedAreKeys DEF SseRequest
  <2> QED
    BY <2>1, ListenManyKeeps
<1>3. ASSUME NEW text \in Texts, WsNotify(text) \/ HttpNotify(text)
      PROVE  NamesInv'
  <2> DEFINE name == New(text)
             reached == PgNotify(QuoteIdentifier(name))
  <2>1. name \in Key /\ New(name) = name
    BY <1>3, NewIsKey DEF WsNotify, HttpNotify
  <2>2. Notified(name, reached)
    BY <1>3, <2>1 DEF WsNotify, HttpNotify
  <2>3. name \in Seq(Char) /\ ByteLen(name) <= MaxLen
    BY <2>1, NewIsKey DEF Key
  <2>4. ~Contains(name, Quote) => reached = {name}
    BY <2>3, UnquotedStays DEF PgNotify
  <2> HIDE DEF name, reached
  <2> QED
    BY <2>2, <2>4, NotifiedKeeps
<1>4. ASSUME NEW name \in Texts, OtherNotify(name)
      PROVE  NamesInv'
  <2>1. Notified(name, PgNotify(name))
    BY <1>4 DEF OtherNotify
  <2>2. PgNotify(name) \cap filed = {name} \cap filed
    BY DEF PgNotify, NamesInv, Key
  <2> QED
    BY <2>1, <2>2, NotifiedKeeps
<1>5. CASE UNCHANGED namesVars
  BY <1>5 DEF NamesInv, HeardUnderItsKey, ArrivesUnlessQuoted, namesVars
<1> QED
  BY <1>1, <1>2, <1>3, <1>4, <1>5 DEF Next

LEMMA NamesAreKept == Spec => []NamesInv
<1>1. Init => NamesInv
  BY DEF Init, NamesInv, HeardUnderItsKey, ArrivesUnlessQuoted
<1>2. NamesInv /\ [Next]_namesVars => NamesInv'
  BY NamesStep
<1> QED
  BY <1>1, <1>2, PTL DEF Spec

\* Whatever was requested, and however it was spelt: the session listens on exactly
\* the channels that are keys of the map, and what PostgreSQL reports for one is
\* that key again.
THEOREM EveryKeyIsHeard == Spec => []HeardUnderItsKey
<1>1. NamesInv => HeardUnderItsKey
  BY DEF NamesInv
<1> QED
  BY <1>1, NamesAreKept, PTL

\* A notification of a name without double quotes is distributed under the key of
\* that name and no other, whoever sent it.
THEOREM UnquotedArrives == Spec => []ArrivesUnlessQuoted
<1>1. NamesInv => ArrivesUnlessQuoted
  BY DEF NamesInv
<1> QED
  BY <1>1, NamesAreKept, PTL

=============================================================================
