--------------------------- MODULE SequenceProofs ---------------------------
(***************************************************************************)
(* The lemmas about numbers and sequences that the proofs of the           *)
(* components share: least and greatest numbers, what Ascending lists, and *)
(* what FlattenSeq of the community modules concatenates.  Induction over  *)
(* data is by the least counterexample.                                    *)
(***************************************************************************)
EXTENDS IndexOrder, Integers, Sequences, SequencesExt, FiniteSetTheorems,
        SequenceTheorems, WellFoundedInduction, TLAPS

\* A nonempty set of natural numbers has a least element.
LEMMA LeastNatural ==
    ASSUME NEW S, S \subseteq Nat, S # {}
    PROVE  Min(S) \in S /\ \A y \in S : Min(S) <= y
<1>1. PICK x \in S : \A y \in S : ~ (<<y, x>> \in OpToRel(<, Nat))
  BY NatLessThanWellFounded, WFMin, Zenon
<1>2. \A y \in S : ~ (y < x)
  BY <1>1 DEF OpToRel
<1>3. \A y \in S : x <= y
  BY <1>2
<1> QED
  BY <1>3 DEF Min

\* A bounded set of natural numbers has a greatest element.
LEMMA GreatestNatural ==
    ASSUME NEW n \in Nat, NEW S, S \subseteq 0 .. n, S # {}
    PROVE  Max(S) \in S /\ \A y \in S : y <= Max(S)
<1> DEFINE T == {k \in Nat : n - k \in S}
<1>1. T # {} /\ T \subseteq Nat
  <2>1. PICK y \in S : TRUE
    OBVIOUS
  <2>2. n - y \in Nat /\ n - (n - y) = y
    BY <2>1
  <2> QED
    BY <2>1, <2>2
<1>2. Min(T) \in T /\ \A k \in T : Min(T) <= k
  BY <1>1, LeastNatural
<1> DEFINE x == n - Min(T)
<1>3. x \in S
  BY <1>2
<1>4. \A y \in S : x >= y
  <2> SUFFICES ASSUME NEW y \in S PROVE x >= y
    OBVIOUS
  <2>1. n - y \in T
    BY DEF T
  <2>2. Min(T) \in Nat
    BY <1>2
  <2> QED
    BY <1>2, <2>1, <2>2
<1>5. Max(S) \in S /\ \A y \in S : Max(S) >= y
  BY <1>3, <1>4 DEF Max
<1> QED
  BY <1>5

\* A set that has 0 and with a number below a bound the next one has all up to it.
LEMMA Stepwise ==
    ASSUME NEW N \in Nat, NEW S, 0 \in S, \A n \in 0 .. N - 1 : n \in S => n + 1 \in S
    PROVE  \A n \in 0 .. N : n \in S
<1> DEFINE Bad == {n \in 0 .. N : n \notin S}
<1>1. SUFFICES ASSUME Bad # {} PROVE FALSE
  OBVIOUS
<1>2. Bad \subseteq Nat
  OBVIOUS
<1>3. PICK m \in Bad : \A n \in Bad : m <= n
  BY <1>1, <1>2, LeastNatural
<1>4. m # 0 /\ m \in 0 .. N /\ m \notin S
  BY <1>3
<1>5. m - 1 \in 0 .. N - 1 /\ m - 1 \in 0 .. N /\ ~ (m <= m - 1) /\ (m - 1) + 1 = m
  BY <1>4
<1>6. m - 1 \in S
  BY <1>3, <1>5
<1> QED
  BY <1>4, <1>5, <1>6

\* The elements of S have places from 1 on, in their order.
LEMMA RankOrders ==
    ASSUME NEW S, S \subseteq Nat, IsFiniteSet(S)
    PROVE  /\ Cardinality(S) \in Nat
           /\ \A i \in S : Rank(S, i) \in 1 .. Cardinality(S)
           /\ \A i, j \in S : i < j => Rank(S, i) < Rank(S, j)
<1> DEFINE upTo(i) == {j \in S : j <= i}
<1>1. Cardinality(S) \in Nat
  BY FS_CardinalityType
<1>2. ASSUME NEW i \in S
      PROVE  IsFiniteSet(upTo(i)) /\ Cardinality(upTo(i)) \in 1 .. Cardinality(S)
  <2>1. upTo(i) \in SUBSET S /\ i \in upTo(i)
    OBVIOUS
  <2>2. IsFiniteSet(upTo(i)) /\ Cardinality(upTo(i)) <= Cardinality(S)
    BY <2>1, FS_Subset
  <2>3. Cardinality(upTo(i)) \in Nat /\ Cardinality(upTo(i)) # 0
    BY <2>1, <2>2, FS_CardinalityType, FS_EmptySet
  <2> QED
    BY <1>1, <2>2, <2>3
<1>3. ASSUME NEW i \in S, NEW j \in S, i < j
      PROVE  Cardinality(upTo(i)) < Cardinality(upTo(j))
  <2>0. i \in Nat /\ j \in Nat /\ \A m \in S : m \in Nat
    OBVIOUS
  <2>a. j <= j /\ ~ (j <= i) /\ \A m \in S : m <= i => m <= j
    BY <1>3, <2>0
  <2>1. upTo(i) \in SUBSET upTo(j) /\ j \in upTo(j) /\ j \notin upTo(i)
    BY <2>a
  <2>2. Cardinality(upTo(i)) <= Cardinality(upTo(j)) /\ Cardinality(upTo(j)) # Cardinality(upTo(i))
    BY <1>2, <2>1, FS_Subset
  <2> QED
    BY <1>2, <2>2
<1> QED
  BY <1>1, <1>2, <1>3 DEF Rank

\* Two elements of S do not share a place.
LEMMA RankInjective ==
    ASSUME NEW S, S \subseteq Nat, IsFiniteSet(S)
    PROVE  \A i, j \in S : Rank(S, i) = Rank(S, j) => i = j
<1> SUFFICES ASSUME NEW i \in S, NEW j \in S, Rank(S, i) = Rank(S, j)
             PROVE  i = j
  OBVIOUS
<1>0. Cardinality(S) \in Nat /\ Rank(S, i) \in 1 .. Cardinality(S)
  BY RankOrders
<1>1. Rank(S, i) \in Nat
  BY <1>0
<1>a. (i < j => Rank(S, i) < Rank(S, j)) /\ (j < i => Rank(S, j) < Rank(S, i))
  BY RankOrders
<1>2. i \in Nat /\ j \in Nat
  OBVIOUS
<1> QED
  BY <1>1, <1>a, <1>2

\* Every place is taken.
LEMMA RankOnto ==
    ASSUME NEW S, S \subseteq Nat, IsFiniteSet(S), NEW k \in 1 .. Cardinality(S)
    PROVE  \E i \in S : Rank(S, i) = k
<1> DEFINE f == [i \in S |-> Rank(S, i)]
           n == Cardinality(S)
<1>1. n \in Nat /\ \A i \in S : Rank(S, i) \in 1 .. n
  BY RankOrders
<1>2. \A i, j \in S : Rank(S, i) = Rank(S, j) => i = j
  BY RankInjective
<1>3. f \in Injection(S, 1 .. n)
  BY <1>1, <1>2 DEF Injection, IsInjective
<1>4. IsFiniteSet(1 .. n) /\ Cardinality(1 .. n) = n
  BY <1>1, FS_Interval
<1>5. f \in Surjection(S, 1 .. n)
  BY <1>3, <1>4, FS_Injection
<1> QED
  BY <1>5 DEF Surjection

\* s lists S in ascending order.
Lists(s, S) ==
    /\ s \in Seq(S)
    /\ \A i \in S : \E k \in 1 .. Len(s) : s[k] = i
    /\ \A k, m \in 1 .. Len(s) : k < m => s[k] < s[m]

\* Ascending(S) does, ...
LEMMA AscendingLists ==
    ASSUME NEW S, S \subseteq Nat, IsFiniteSet(S)
    PROVE  /\ Lists(Ascending(S), S)
           /\ Len(Ascending(S)) = Cardinality(S)
           /\ \A k \in 1 .. Cardinality(S) : Rank(S, Ascending(S)[k]) = k
<1> DEFINE s == Ascending(S)
           n == Cardinality(S)
<1>1. n \in Nat /\ \A i \in S : Rank(S, i) \in 1 .. n
  BY RankOrders
<1>2. ASSUME NEW k \in 1 .. n
      PROVE  s[k] \in S /\ Rank(S, s[k]) = k
  <2>1. s[k] = CHOOSE i \in S : Rank(S, i) = k
    BY DEF Ascending
  <2>2. \E i \in S : Rank(S, i) = k
    BY RankOnto
  <2> QED
    BY <2>1, <2>2
<1>3. s = [k \in 1 .. n |-> s[k]]
  BY DEF Ascending
<1> HIDE DEF s
<1>4. s \in Seq(S) /\ Len(s) = n
  BY <1>1, <1>2, <1>3
<1>5. ASSUME NEW i \in S
      PROVE  \E k \in 1 .. Len(s) : s[k] = i
  <2>1. Rank(S, i) \in 1 .. n
    BY <1>1
  <2>2. s[Rank(S, i)] \in S /\ Rank(S, s[Rank(S, i)]) = Rank(S, i)
    BY <1>2, <2>1
  <2>3. s[Rank(S, i)] = i
    BY <2>2, RankInjective
  <2> QED
    BY <1>4, <2>1, <2>3
<1>6. ASSUME NEW k \in 1 .. n, NEW m \in 1 .. n, k < m
      PROVE  s[k] < s[m]
  <2>1. s[k] \in S /\ s[m] \in S /\ Rank(S, s[k]) = k /\ Rank(S, s[m]) = m
    BY <1>2
  <2>2. s[m] < s[k] => Rank(S, s[m]) < Rank(S, s[k])
    BY <2>1, RankOrders
  <2>3. s[k] \in Nat /\ s[m] \in Nat
    BY <2>1
  <2>4. k \in Nat /\ m \in Nat
    BY <1>1
  <2> QED
    BY <1>6, <2>1, <2>2, <2>3, <2>4
<1>7. Lists(s, S)
  BY <1>4, <1>5, <1>6 DEF Lists
<1> QED
  BY <1>2, <1>4, <1>7 DEF s

\* ... and nothing else does.
LEMMA AscendingUnique ==
    ASSUME NEW S, S \subseteq Nat, NEW s, Lists(s, S)
    PROVE  IsFiniteSet(S) /\ Cardinality(S) = Len(s) /\ s = Ascending(S)
<1> DEFINE n == Len(s)
<1>0. /\ s \in Seq(S)
      /\ \A i \in S : \E k \in 1 .. n : s[k] = i
      /\ \A k, m \in 1 .. n : k < m => s[k] < s[m]
  BY DEF Lists
<1>a. n \in Nat /\ \A k \in 1 .. n : s[k] \in S
  BY <1>0
<1>b. \A k \in 1 .. n : s[k] \in Nat
  BY <1>a
<1>1. /\ s \in Seq(S) /\ n \in Nat /\ \A k \in 1 .. n : s[k] \in S /\ s[k] \in Nat
      /\ \A i \in S : \E k \in 1 .. n : s[k] = i
      /\ \A k, m \in 1 .. n : k < m => s[k] < s[m]
  BY <1>0, <1>a, <1>b
<1>2. ASSUME NEW k \in 1 .. n, NEW m \in 1 .. n
      PROVE  (s[k] <= s[m] <=> k <= m) /\ (s[k] = s[m] => k = m)
  BY <1>1
<1>3. ASSUME NEW k \in 0 .. n, NEW T, T = {s[m] : m \in 1 .. k}
      PROVE  IsFiniteSet(T) /\ Cardinality(T) = k
  <2> DEFINE f == [m \in 1 .. k |-> s[m]]
  <2>1. 1 .. k \subseteq 1 .. n /\ k \in Nat
    BY <1>1
  <2>2. f \in Surjection(1 .. k, T)
    BY <1>3 DEF Surjection
  <2>3. f \in Injection(1 .. k, T)
    BY <1>2, <1>3, <2>1 DEF Injection, IsInjective
  <2>4. IsFiniteSet(1 .. k) /\ Cardinality(1 .. k) = k
    BY <2>1, FS_Interval
  <2> QED
    BY <2>2, <2>3, <2>4, FS_Surjection
<1>4. IsFiniteSet(S) /\ Cardinality(S) = n
  <2>1. S = {s[m] : m \in 1 .. n}
    BY <1>1
  <2>2. n \in 0 .. n
    BY <1>1
  <2> QED
    BY <1>3, <2>1, <2>2
<1>5. ASSUME NEW k \in 1 .. n
      PROVE  s[k] = Ascending(S)[k]
  <2>a. ASSUME NEW j \in S, j <= s[k]
        PROVE  \E m \in 1 .. k : j = s[m]
    <3>1. PICK m \in 1 .. n : s[m] = j
      BY <1>1
    <3>2. m <= k
      BY <1>2, <2>a, <3>1
    <3> QED
      BY <1>1, <3>1, <3>2
  <2>b. ASSUME NEW m \in 1 .. k
        PROVE  s[m] \in S /\ s[m] <= s[k]
    BY <1>1, <1>2
  <2>1. {j \in S : j <= s[k]} = {s[m] : m \in 1 .. k}
    BY <2>a, <2>b
  <2>2. Rank(S, s[k]) = k
    BY <1>1, <1>3, <2>1 DEF Rank
  <2>3. Ascending(S)[k] \in S /\ Rank(S, Ascending(S)[k]) = k
    <3>1. /\ Lists(Ascending(S), S) /\ Len(Ascending(S)) = n
          /\ \A m \in 1 .. n : Rank(S, Ascending(S)[m]) = m
      BY <1>4, AscendingLists
    <3>2. Ascending(S) \in Seq(S)
      BY <3>1 DEF Lists
    <3> QED
      BY <3>1, <3>2
  <2> QED
    BY <1>1, <1>4, <2>2, <2>3, RankInjective
<1>6. Ascending(S) \in Seq(S) /\ Len(Ascending(S)) = n
  BY <1>4, AscendingLists DEF Lists
<1> QED
  BY <1>1, <1>4, <1>5, <1>6

\* An empty set has nothing to list.
LEMMA AscendingEmpty == Ascending({}) = <<>>
<1>1. Lists(<<>>, {})
  BY DEF Lists
<1> QED
  BY <1>1, AscendingUnique

\* The first k elements of S.
FirstOf(S, k) == {Ascending(S)[m] : m \in 1 .. k}

\* What is listed up to a place, ...
LEMMA AscendingPrefix ==
    ASSUME NEW S, S \subseteq Nat, IsFiniteSet(S), NEW k \in 0 .. Cardinality(S)
    PROVE  /\ IsFiniteSet(FirstOf(S, k)) /\ FirstOf(S, k) \subseteq S
           /\ SubSeq(Ascending(S), 1, k) = Ascending(FirstOf(S, k))
<1> DEFINE s == Ascending(S)
           T == {s[m] : m \in 1 .. k}
           p == SubSeq(s, 1, k)
<1>1. s \in Seq(S) /\ Len(s) = Cardinality(S) /\ \A i, j \in 1 .. Len(s) : i < j => s[i] < s[j]
  BY AscendingLists DEF Lists
<1> HIDE DEF s
<1>2. k \in 0 .. Len(s) /\ T = {s[m] : m \in 1 .. k}
  BY <1>1 DEF s
<1> HIDE DEF T
<1>3. p \in Seq(S) /\ Len(p) = k /\ \A m \in 1 .. k : p[m] = s[m]
  BY <1>1, <1>2
<1> HIDE DEF p
<1>4. T \subseteq S
  BY <1>1, <1>2
<1>5. \A m \in 1 .. k : p[m] \in T
  BY <1>2, <1>3
<1>6. p \in Seq(T)
  BY <1>3, <1>5
<1>a. \A i, j \in 1 .. k : i < j => p[i] < p[j]
  BY <1>1, <1>2, <1>3
<1>b. \A i \in T : \E m \in 1 .. k : p[m] = i
  BY <1>2, <1>3
<1>7. Lists(p, T)
  BY <1>3, <1>6, <1>a, <1>b DEF Lists
<1> QED
  <2>1. T \subseteq Nat
    BY <1>4
  <2>2. IsFiniteSet(T) /\ p = Ascending(T)
    BY <1>7, <2>1, AscendingUnique
  <2> QED
    BY <1>4, <2>2 DEF FirstOf, T, p, s

\* ... and what is listed after all of another list.
LEMMA AscendingUnion ==
    ASSUME NEW A, NEW B, A \subseteq Nat, B \subseteq Nat, IsFiniteSet(A), IsFiniteSet(B),
           \A i \in A, j \in B : i < j
    PROVE  Ascending(A) \o Ascending(B) = Ascending(A \union B)
<1> DEFINE a == Ascending(A)
           b == Ascending(B)
           s == a \o b
           S == A \union B
<1>1. /\ a \in Seq(A) /\ \A i, j \in 1 .. Len(a) : i < j => a[i] < a[j]
      /\ \A x \in A : \E k \in 1 .. Len(a) : a[k] = x
  BY AscendingLists DEF Lists
<1>2. /\ b \in Seq(B) /\ \A i, j \in 1 .. Len(b) : i < j => b[i] < b[j]
      /\ \A x \in B : \E k \in 1 .. Len(b) : b[k] = x
  BY AscendingLists DEF Lists
<1> HIDE DEF a, b
<1>3. a \in Seq(S) /\ b \in Seq(S)
  BY <1>1, <1>2
<1>4. /\ s \in Seq(S) /\ Len(a) \in Nat /\ Len(b) \in Nat /\ Len(s) = Len(a) + Len(b)
      /\ \A k \in 1 .. Len(a) : s[k] = a[k]
      /\ \A k \in 1 .. Len(b) : s[Len(a) + k] = b[k]
  BY <1>3
<1>5. \A k \in 1 .. Len(s) : k \in 1 .. Len(a) \/ (k - Len(a) \in 1 .. Len(b) /\ s[k] = b[k - Len(a)])
  BY <1>4
<1> HIDE DEF s
<1>6. ASSUME NEW x \in S
      PROVE  \E k \in 1 .. Len(s) : s[k] = x
  <2>1. CASE x \in A
    <3>1. PICK k \in 1 .. Len(a) : a[k] = x
      BY <1>1, <2>1
    <3> QED
      BY <1>4, <3>1
  <2>2. CASE x \in B
    <3>1. PICK k \in 1 .. Len(b) : b[k] = x
      BY <1>2, <2>2
    <3>2. Len(a) + k \in 1 .. Len(s)
      BY <1>4
    <3> QED
      BY <1>4, <3>1, <3>2
  <2> QED
    BY <2>1, <2>2
<1>7. ASSUME NEW k \in 1 .. Len(s), NEW m \in 1 .. Len(s), k < m
      PROVE  s[k] < s[m]
  <2>1. CASE m \in 1 .. Len(a)
    <3>1. k \in 1 .. Len(a)
      BY <1>4, <1>7, <2>1
    <3> QED
      BY <1>1, <1>4, <1>7, <2>1, <3>1
  <2>2. CASE m \notin 1 .. Len(a) /\ k \in 1 .. Len(a)
    <3>1. a[k] \in A /\ b[m - Len(a)] \in B
      BY <1>1, <1>2, <1>5, <2>2
    <3> QED
      BY <1>4, <1>5, <2>2, <3>1
  <2>3. CASE m \notin 1 .. Len(a) /\ k \notin 1 .. Len(a)
    <3>1. k - Len(a) < m - Len(a)
      BY <1>4, <1>7
    <3> QED
      BY <1>2, <1>5, <2>3, <3>1
  <2> QED
    BY <2>1, <2>2, <2>3
<1>8. Lists(s, S)
  BY <1>4, <1>6, <1>7 DEF Lists
<1>9. S \subseteq Nat
  OBVIOUS
<1> QED
  BY <1>8, <1>9, AscendingUnique DEF s, a, b

-----------------------------------------------------------------------------
(* FlattenSeq                                                              *)

\* The function that FlattenSeq recurses with.
Steps(seqs) ==
    CHOOSE g : g = [i \in 1 .. Len(seqs) |-> IF i = 1 THEN seqs[i] ELSE g[i - 1] \o seqs[i]]

\* The first j sequences in one.
Flattened(seqs, j) == IF j = 0 THEN <<>> ELSE Steps(seqs)[j]

\* There is such a function, ...
LEMMA StepsExist ==
    ASSUME NEW seqs, Len(seqs) \in Nat
    PROVE  Steps(seqs) = [i \in 1 .. Len(seqs) |->
                            IF i = 1 THEN seqs[i] ELSE Steps(seqs)[i - 1] \o seqs[i]]
<1> DEFINE Is(g, m) == g = [i \in 1 .. m |-> IF i = 1 THEN seqs[i] ELSE g[i - 1] \o seqs[i]]
           Bad == {m \in Nat : ~ \E g : Is(g, m)}
<1>1. Bad = {}
  <2>1. SUFFICES ASSUME Bad # {} PROVE FALSE
    OBVIOUS
  <2>2. PICK m \in Bad : \A n \in Bad : m <= n
    BY <2>1, LeastNatural
  <2>3. m # 0
    <3>1. Is([i \in 1 .. 0 |-> IF i = 1 THEN seqs[i] ELSE 0], 0)
      OBVIOUS
    <3> QED
      BY <2>2, <3>1
  <2>4. m \in Nat /\ m - 1 \in Nat /\ ~ (m <= m - 1)
    BY <2>2, <2>3
  <2>5. m - 1 \notin Bad
    BY <2>2, <2>4
  <2>6. PICK g : Is(g, m - 1)
    BY <2>4, <2>5
  <2> DEFINE h == [i \in 1 .. m |-> IF i = m THEN (IF i = 1 THEN seqs[i] ELSE g[i - 1] \o seqs[i])
                                     ELSE g[i]]
  <2>7. ASSUME NEW i \in 1 .. m
        PROVE  h[i] = IF i = 1 THEN seqs[i] ELSE h[i - 1] \o seqs[i]
    <3>1. CASE i = m
      <4>1. i # 1 => i - 1 \in 1 .. m /\ i - 1 # m
        BY <2>4
      <4>2. i # 1 => h[i - 1] = g[i - 1]
        BY <4>1
      <4> QED
        BY <3>1, <4>2
    <3>2. CASE i # m
      <4>1. i \in 1 .. m - 1 /\ (i # 1 => i - 1 \in 1 .. m /\ i - 1 # m)
        BY <2>4, <3>2
      <4>2. h[i] = g[i] /\ (i # 1 => h[i - 1] = g[i - 1])
        BY <3>2, <4>1
      <4>3. g[i] = IF i = 1 THEN seqs[i] ELSE g[i - 1] \o seqs[i]
        BY <2>6, <4>1
      <4> QED
        BY <4>2, <4>3
    <3> QED
      BY <3>1, <3>2
  <2>8. h = [i \in 1 .. m |-> h[i]]
    OBVIOUS
  <2> HIDE DEF h
  <2>9. Is(h, m)
    BY <2>7, <2>8
  <2> QED
    BY <2>2, <2>9
<1>2. \E g : Is(g, Len(seqs))
  BY <1>1
<1> QED
  BY <1>2 DEF Steps

\* ... so FlattenSeq concatenates one sequence after the other.
LEMMA FlattenUnfolds ==
    ASSUME NEW S, NEW seqs \in Seq(Seq(S))
    PROVE  /\ Flattened(seqs, 0) = <<>>
           /\ \A j \in 0 .. Len(seqs) : Flattened(seqs, j) \in Seq(S)
           /\ \A j \in 1 .. Len(seqs) : Flattened(seqs, j) = Flattened(seqs, j - 1) \o seqs[j]
           /\ FlattenSeq(seqs) = Flattened(seqs, Len(seqs))
<1>1. Len(seqs) \in Nat /\ \A j \in 1 .. Len(seqs) : seqs[j] \in Seq(S)
  OBVIOUS
<1>2. \A j \in 1 .. Len(seqs) :
         Steps(seqs)[j] = IF j = 1 THEN seqs[j] ELSE Steps(seqs)[j - 1] \o seqs[j]
  <2> DEFINE g == Steps(seqs)
  <2>1. g = [i \in 1 .. Len(seqs) |-> IF i = 1 THEN seqs[i] ELSE g[i - 1] \o seqs[i]]
    BY <1>1, StepsExist
  <2> HIDE DEF g
  <2>2. \A j \in 1 .. Len(seqs) : g[j] = IF j = 1 THEN seqs[j] ELSE g[j - 1] \o seqs[j]
    BY <2>1
  <2> QED
    BY <2>2 DEF g
<1>3. ASSUME NEW j \in 1 .. Len(seqs)
      PROVE  Flattened(seqs, j) = Flattened(seqs, j - 1) \o seqs[j]
  <2>1. CASE j = 1
    <3>1. Flattened(seqs, j) = seqs[j] /\ Flattened(seqs, j - 1) = <<>>
      BY <1>2, <2>1 DEF Flattened
    <3>2. <<>> \o seqs[j] = seqs[j]
      BY <1>1
    <3> QED
      BY <3>1, <3>2
  <2>2. CASE j # 1
    <3>1. j # 0 /\ j - 1 # 0
      BY <1>1, <2>2
    <3>2. Flattened(seqs, j) = Steps(seqs)[j] /\ Flattened(seqs, j - 1) = Steps(seqs)[j - 1]
      BY <3>1 DEF Flattened
    <3> QED
      BY <1>2, <2>2, <3>2
  <2> QED
    BY <2>1, <2>2
<1>4. \A j \in 0 .. Len(seqs) : Flattened(seqs, j) \in Seq(S)
  <2> DEFINE Bad == {j \in 0 .. Len(seqs) : Flattened(seqs, j) \notin Seq(S)}
  <2>1. SUFFICES ASSUME Bad # {} PROVE FALSE
    OBVIOUS
  <2>2. PICK m \in Bad : \A n \in Bad : m <= n
    <3>1. Bad \subseteq Nat
      OBVIOUS
    <3> QED
      BY <2>1, <3>1, LeastNatural
  <2>3. m # 0
    <3>1. Flattened(seqs, 0) \in Seq(S)
      BY DEF Flattened
    <3> QED
      BY <2>2, <3>1
  <2>4. m \in 1 .. Len(seqs) /\ m - 1 \in 0 .. Len(seqs) /\ ~ (m <= m - 1)
    BY <1>1, <2>2, <2>3
  <2>5. Flattened(seqs, m - 1) \in Seq(S)
    BY <2>2, <2>4
  <2>6. Flattened(seqs, m) \in Seq(S)
    <3>1. Flattened(seqs, m) = Flattened(seqs, m - 1) \o seqs[m]
      BY <1>3, <2>4
    <3>2. seqs[m] \in Seq(S)
      BY <1>1, <2>4
    <3> QED
      BY <2>5, <3>1, <3>2
  <2> QED
    BY <2>2, <2>6
<1>5. FlattenSeq(seqs) = Flattened(seqs, Len(seqs))
  <2>1. CASE Len(seqs) = 0
    <3>1. seqs = <<>>
      BY <2>1
    <3> QED
      BY <2>1, <3>1 DEF FlattenSeq, Flattened
  <2>2. CASE Len(seqs) # 0
    BY <2>2 DEF FlattenSeq, Flattened, Steps
  <2> QED
    BY <2>1, <2>2
<1> QED
  BY <1>3, <1>4, <1>5 DEF Flattened

\* u is s and then p.
Joins(u, s, p) == u = s \o p

\* What is put behind a concatenation is put behind its second part.
LEMMA JoinsMore ==
    ASSUME NEW S, NEW s \in Seq(S), NEW p \in Seq(S), NEW e \in Seq(S),
           NEW u, NEW v, NEW w, Joins(u, s, p), Joins(v, p, e), Joins(w, u, e)
    PROVE  Joins(w, s, v) /\ v \in Seq(S)
<1>1. (s \o p) \o e = s \o (p \o e)
  BY ConcatAssociative
<1> QED
  BY <1>1 DEF Joins

\* Empty sequences add nothing.
LEMMA FlattenedGap ==
    ASSUME NEW S, NEW seqs \in Seq(Seq(S)), NEW a \in 0 .. Len(seqs), NEW b \in a .. Len(seqs),
           \A m \in a + 1 .. b : seqs[m] = <<>>
    PROVE  Flattened(seqs, b) = Flattened(seqs, a)
<1>0. Len(seqs) \in Nat /\ a \in Nat /\ b \in Nat /\ a <= b /\ b <= Len(seqs)
  OBVIOUS
<1> DEFINE Good == {i \in Nat : Flattened(seqs, a + i) = Flattened(seqs, a)}
<1>1. 0 \in Good
  BY <1>0
<1>2. ASSUME NEW i \in 0 .. (b - a) - 1, i \in Good
      PROVE  i + 1 \in Good
  <2>1. /\ a + (i + 1) \in 1 .. Len(seqs) /\ a + (i + 1) \in a + 1 .. b
        /\ (a + (i + 1)) - 1 = a + i /\ a + i \in 0 .. Len(seqs) /\ i + 1 \in Nat
    BY <1>0
  <2>2. Flattened(seqs, a + (i + 1)) = Flattened(seqs, a + i) \o seqs[a + (i + 1)]
    BY <2>1, FlattenUnfolds
  <2>3. Flattened(seqs, a + i) \in Seq(S) /\ seqs[a + (i + 1)] = <<>>
    BY <2>1, FlattenUnfolds
  <2>4. Flattened(seqs, a + i) \o <<>> = Flattened(seqs, a + i)
    BY <2>3
  <2> QED
    BY <1>2, <2>1, <2>2, <2>3, <2>4
<1>3. b - a \in Nat /\ b - a \in 0 .. b - a /\ a + (b - a) = b
  BY <1>0
<1> HIDE DEF Good
<1>4. b - a \in Good
  BY <1>1, <1>2, <1>3, Stepwise
<1> QED
  BY <1>3, <1>4 DEF Good

\* The place of the next element.
LEMMA NextPlace ==
    ASSUME NEW a \in Nat, NEW m \in Nat, NEW n \in Nat, a + m <= n, NEW i \in 0 .. m - 1
    PROVE  /\ a + (i + 1) \in 1 .. n /\ i + 1 \in 1 .. m
           /\ (a + (i + 1)) - 1 = a + i /\ i + 1 \in Nat
OBVIOUS

\* A list that is cut into its elements is put together again.
LEMMA FlattenedSingles ==
    ASSUME NEW S, NEW seqs \in Seq(Seq(S)), NEW a \in 0 .. Len(seqs), NEW q \in Seq(S),
           a + Len(q) <= Len(seqs), \A i \in 1 .. Len(q) : seqs[a + i] = <<q[i]>>
    PROVE  Flattened(seqs, a + Len(q)) = Flattened(seqs, a) \o q
<1>a. Flattened(seqs, a) \in Seq(S)
  BY FlattenUnfolds
<1>0. Len(seqs) \in Nat /\ a \in Nat /\ Len(q) \in Nat /\ Flattened(seqs, a) \in Seq(S)
  BY <1>a
<1> DEFINE s == Flattened(seqs, a)
           Good == {i \in Nat : Flattened(seqs, a + i) = s \o SubSeq(q, 1, i)}
<1>1. 0 \in Good
  <2>1. SubSeq(q, 1, 0) = <<>> /\ a + 0 = a
    <3>1. a + 0 = a /\ 1 \in Int /\ 0 \in Int /\ 0 < 1
      BY <1>0
    <3> QED
      BY <3>1, SubSeqEmpty
  <2>2. s \o <<>> = s
    BY <1>0
  <2> QED
    BY <2>1, <2>2
<1>2. ASSUME NEW i \in 0 .. Len(q) - 1, i \in Good
      PROVE  i + 1 \in Good
  <2>1. /\ a + (i + 1) \in 1 .. Len(seqs) /\ i + 1 \in 1 .. Len(q)
        /\ (a + (i + 1)) - 1 = a + i /\ i + 1 \in Nat
    BY <1>0, NextPlace
  <2>2. Flattened(seqs, a + (i + 1)) = Flattened(seqs, a + i) \o seqs[a + (i + 1)]
    BY <2>1, FlattenUnfolds
  <2> DEFINE x == q[i + 1]
             p == SubSeq(q, 1, i)
  <2>3. seqs[a + (i + 1)] = <<x>> /\ x \in S
    BY <2>1
  <2>4. p \in Seq(S) /\ SubSeq(q, 1, i + 1) = p \o <<x>>
    <3>1. 1 \in 1 .. Len(q) /\ i + 1 \in 1 .. Len(q) /\ (i + 1) - 1 = i
      BY <1>0, <2>1
    <3>2. SubSeq(q, 1, i + 1) = SubSeq(q, 1, (i + 1) - 1) \o <<q[i + 1]>>
      BY <3>1, SubSeqRecursiveSecond
    <3>3. p \in Seq(S)
      BY <1>0, <2>1
    <3> QED
      BY <3>1, <3>2, <3>3
  <2> HIDE DEF x, p, s
  <2>5. PICK e : e = <<x>>
    OBVIOUS
  <2>6. s \in Seq(S) /\ p \in Seq(S) /\ e \in Seq(S)
    BY <1>0, <2>3, <2>4, <2>5 DEF s
  <2>7. Joins(Flattened(seqs, a + i), s, p)
    BY <1>2 DEF p, Joins
  <2>8. Joins(SubSeq(q, 1, i + 1), p, e)
    BY <2>4, <2>5 DEF Joins
  <2>9. Joins(Flattened(seqs, a + (i + 1)), Flattened(seqs, a + i), e)
    BY <2>2, <2>3, <2>5 DEF Joins
  <2>10. Joins(Flattened(seqs, a + (i + 1)), s, SubSeq(q, 1, i + 1))
    BY <2>6, <2>7, <2>8, <2>9, JoinsMore
  <2> QED
    BY <2>1, <2>10 DEF Joins
<1>3. Len(q) \in 0 .. Len(q) /\ SubSeq(q, 1, Len(q)) = q
  BY <1>0
<1> HIDE DEF Good
<1>4. Len(q) \in Good
  BY <1>0, <1>1, <1>2, <1>3, Stepwise
<1> QED
  BY <1>3, <1>4 DEF Good

\* What is put together first is a prefix of what is put together later.
LEMMA FlattenedPrefix ==
    ASSUME NEW S, NEW seqs \in Seq(Seq(S)), NEW a \in 0 .. Len(seqs), NEW b \in a .. Len(seqs)
    PROVE  IsPrefix(Flattened(seqs, a), Flattened(seqs, b))
<1>a. Flattened(seqs, a) \in Seq(S)
  BY FlattenUnfolds
<1>0. /\ Len(seqs) \in Nat /\ a \in Nat /\ b \in Nat /\ a <= b /\ b <= Len(seqs)
      /\ Flattened(seqs, a) \in Seq(S)
  BY <1>a
<1> DEFINE s == Flattened(seqs, a)
           Good == {i \in Nat : \E r \in Seq(S) : Flattened(seqs, a + i) = s \o r}
<1>1. 0 \in Good
  <2>1. s \o <<>> = s /\ <<>> \in Seq(S) /\ a + 0 = a
    BY <1>0
  <2> QED
    BY <2>1
<1>2. ASSUME NEW i \in 0 .. (b - a) - 1, i \in Good
      PROVE  i + 1 \in Good
  <2>1. /\ a + (i + 1) \in 1 .. Len(seqs) /\ (a + (i + 1)) - 1 = a + i /\ i + 1 \in Nat
    BY <1>0
  <2>2. PICK r \in Seq(S) : Joins(Flattened(seqs, a + i), s, r)
    BY <1>2 DEF Joins
  <2>3. PICK e \in Seq(S) : e = seqs[a + (i + 1)]
    BY <2>1
  <2>4. Joins(Flattened(seqs, a + (i + 1)), Flattened(seqs, a + i), e)
    BY <2>1, <2>3, FlattenUnfolds DEF Joins
  <2> HIDE DEF s
  <2>5. s \in Seq(S)
    BY <1>0 DEF s
  <2>6. PICK v : Joins(v, r, e)
    BY DEF Joins
  <2>7. Joins(Flattened(seqs, a + (i + 1)), s, v) /\ v \in Seq(S)
    BY <2>2, <2>4, <2>5, <2>6, JoinsMore
  <2> QED
    BY <2>1, <2>7 DEF Joins
<1>3. b - a \in Nat /\ b - a \in 0 .. b - a /\ a + (b - a) = b
  BY <1>0
<1> HIDE DEF Good
<1>4. b - a \in Good
  BY <1>1, <1>2, <1>3, Stepwise
<1>5. PICK r \in Seq(S) : Flattened(seqs, b) = s \o r
  BY <1>3, <1>4 DEF Good
<1> HIDE DEF s
<1>6. /\ Len(s) \in Nat /\ Len(s) <= Len(s \o r) /\ s \o r \in Seq(S)
      /\ \A k \in 1 .. Len(s) : (s \o r)[k] = s[k]
  BY <1>0 DEF s
<1>7. SubSeq(s, 1, Len(s)) = SubSeq(s \o r, 1, Len(s))
  BY <1>0, <1>6 DEF s
<1>8. IsPrefix(s, s \o r)
  BY <1>6, <1>7 DEF IsPrefix
<1> QED
  BY <1>5, <1>8 DEF s
=============================================================================
