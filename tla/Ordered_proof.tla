---------------------------- MODULE Ordered_proof ----------------------------
(***************************************************************************)
(* What putting a finite set in sequence gives: every element once, in     *)
(* order, and there is no other such sequence.  The lemmas are about any   *)
(* strict total order; the components' proofs cite them for sorted tables, *)
(* scanned buffers, and contexts in the order of their names.              *)
(***************************************************************************)
EXTENDS Ordered, FiniteSetTheorems, WellFoundedInduction, TLAPS

-----------------------------------------------------------------------------
(* Numbers.                                                                *)

\* A set of numbers has a least one.
LEMMA LeastExists ==
  ASSUME NEW S \in SUBSET Nat, S # {}
  PROVE  \E i \in S : \A j \in S : i <= j
<1> DEFINE Less == OpToRel(<, Nat)
<1>1. \A i, j \in S : <<j, i>> \in Less <=> j < i
  BY DEF OpToRel
<1>2. IsWellFoundedOn(Less, Nat)
  BY NatLessThanWellFounded
<1> HIDE DEF Less
<1>3. \E i \in S : \A j \in S : ~ (<<j, i>> \in Less)
  BY <1>2, WFMin
<1>4. \A i, j \in S : ~(j < i) => i <= j
  OBVIOUS
<1> QED BY <1>1, <1>3, <1>4

\* A bounded one has a greatest.
LEMMA GreatestExists ==
  ASSUME NEW n \in Nat, NEW S \in SUBSET (1..n), S # {}
  PROVE  \E i \in S : \A j \in S : i >= j
<1> DEFINE T == {n - i : i \in S}
<1>1. T \in SUBSET Nat /\ T # {}
  <2>1. \A i \in S : n - i \in Nat
    OBVIOUS
  <2>2. PICK i \in S : TRUE
    OBVIOUS
  <2>3. n - i \in T
    OBVIOUS
  <2> QED BY <2>1, <2>3
<1>2. PICK t \in T : \A u \in T : t <= u
  BY <1>1, LeastExists
<1>3. PICK i \in S : t = n - i
  BY <1>2
<1>4. \A j \in S : n - i <= n - j
  BY <1>2, <1>3
<1> QED BY <1>4

\* What holds of 0 and of each number after one it holds of holds of all.
LEMMA CountUp ==
  ASSUME NEW G, 0 \in G, \A k \in Nat : k \in G => k + 1 \in G
  PROVE  Nat \subseteq G
<1> SUFFICES ASSUME Nat \ G # {} PROVE FALSE
  OBVIOUS
<1>1. PICK m \in Nat \ G : \A x \in Nat \ G : m <= x
  BY LeastExists
<1>2. m - 1 \in Nat /\ m - 1 \in G
  BY <1>1
<1>3. (m - 1) + 1 \in G
  BY <1>2
<1> QED BY <1>1, <1>3

-----------------------------------------------------------------------------
(* Sets in sequence.                                                       *)

\* A strict total order on S.
Orders(R, S) ==
  /\ \A x \in S : <<x, x>> \notin R
  /\ \A x, y, z \in S : <<x, y>> \in R /\ <<y, z>> \in R => <<x, z>> \in R
  /\ \A x, y \in S : x # y => <<x, y>> \in R \/ <<y, x>> \in R

\* s lists S in the order of R.
Lists(s, S, R) ==
  /\ s \in Seq(S)
  /\ \A x \in S : \E i \in 1..Len(s) : s[i] = x
  /\ \A i, j \in 1..Len(s) : i < j => <<s[i], s[j]>> \in R

\* Ranks are numbers below the size of the set, and grow with the order.
LEMMA RankGrows ==
  ASSUME NEW S, NEW R, IsFiniteSet(S), Orders(R, S), NEW x \in S
  PROVE  /\ Rank(S, R, x) \in 0..(Cardinality(S) - 1)
         /\ \A y \in S : <<y, x>> \in R => Rank(S, R, y) < Rank(S, R, x)
<1> DEFINE Below(y) == {z \in S : <<z, y>> \in R}
<1>1. ASSUME NEW y \in S PROVE IsFiniteSet(Below(y)) /\ Cardinality(Below(y)) \in Nat
  BY FS_Subset, FS_CardinalityType
<1>2. Cardinality(S) \in Nat
  BY FS_CardinalityType
<1>3. Cardinality(Below(x)) < Cardinality(S)
  <2>1. Below(x) \in SUBSET S /\ x \notin Below(x)
    BY DEF Orders
  <2> HIDE DEF Below
  <2>2. Cardinality(Below(x)) <= Cardinality(S) /\ Cardinality(Below(x)) # Cardinality(S)
    BY <2>1, FS_Subset
  <2> QED BY <1>1, <1>2, <2>2
<1>4. ASSUME NEW y \in S, <<y, x>> \in R
      PROVE  Cardinality(Below(y)) < Cardinality(Below(x))
  <2>1. Below(y) \in SUBSET Below(x) /\ y \in Below(x) /\ y \notin Below(y)
    BY <1>4 DEF Orders
  <2> HIDE DEF Below
  <2>2. /\ Cardinality(Below(y)) <= Cardinality(Below(x))
        /\ Cardinality(Below(y)) # Cardinality(Below(x))
    BY <1>1, <2>1, FS_Subset
  <2> QED BY <1>1, <2>2
<1> QED BY <1>1, <1>2, <1>3, <1>4 DEF Rank

\* No two elements have one rank, so every number below the size is a rank.
LEMMA RanksAreAll ==
  ASSUME NEW S, NEW R, IsFiniteSet(S), Orders(R, S)
  PROVE  /\ \A x, y \in S : Rank(S, R, x) = Rank(S, R, y) => x = y
         /\ \A k \in 0..(Cardinality(S) - 1) : \E x \in S : Rank(S, R, x) = k
<1> DEFINE n == Cardinality(S)
           f == [x \in S |-> Rank(S, R, x)]
<1>1. ASSUME NEW x \in S, NEW y \in S, Rank(S, R, x) = Rank(S, R, y)
      PROVE  x = y
  <2>1. Rank(S, R, x) \in Int /\ Rank(S, R, y) \in Int
    BY RankGrows, FS_CardinalityType
  <2>2. <<x, y>> \notin R /\ <<y, x>> \notin R
    BY <1>1, <2>1, RankGrows
  <2> QED BY <2>2 DEF Orders
<1>2. n \in Nat
  BY FS_CardinalityType
<1>3. IsFiniteSet(0..(n - 1)) /\ Cardinality(0..(n - 1)) = n
  BY <1>2, FS_Interval, SMTT(30)
<1>4. f \in Injection(S, 0..(n - 1))
  BY <1>1, RankGrows DEF Injection, IsInjective
<1>5. f \in Surjection(S, 0..(n - 1))
  <2> HIDE DEF f, n
  <2>1. Cardinality(S) = n
    BY DEF n
  <2> QED BY <1>3, <1>4, <2>1, FS_Injection
<1>6. \A k \in 0..(n - 1) : \E x \in S : f[x] = k
  BY <1>5 DEF Surjection
<1> QED BY <1>1, <1>6

\* The sequence lists the set.
LEMMA SequenceLists ==
  ASSUME NEW S, NEW R, IsFiniteSet(S), Orders(R, S)
  PROVE  /\ Lists(InSequence(S, R), S, R)
         /\ Len(InSequence(S, R)) = Cardinality(S)
         /\ \A i \in 1..Cardinality(S) : Rank(S, R, InSequence(S, R)[i]) = i - 1
<1> DEFINE n == Cardinality(S)
           s == InSequence(S, R)
<1>1. n \in Nat
  BY FS_CardinalityType
<1>2. ASSUME NEW i \in 1..n PROVE s[i] \in S /\ Rank(S, R, s[i]) = i - 1
  <2>1. i - 1 \in 0..(n - 1)
    BY <1>1
  <2>2. \E x \in S : Rank(S, R, x) = i - 1
    BY <2>1, RanksAreAll
  <2>3. s[i] = CHOOSE x \in S : Rank(S, R, x) = i - 1
    BY DEF InSequence
  <2> QED BY <2>2, <2>3
<1>3. s = [i \in 1..n |-> s[i]]
  BY DEF InSequence
<1> HIDE DEF s, n
<1>4. s \in Seq(S) /\ Len(s) = n
  <2>1. s \in [1..n -> S]
    BY <1>2, <1>3
  <2> QED BY <1>1, <2>1
<1>5. ASSUME NEW x \in S PROVE \E i \in 1..n : s[i] = x
  <2>1. Rank(S, R, x) \in 0..(n - 1)
    BY RankGrows DEF n
  <2> DEFINE i == Rank(S, R, x) + 1
  <2>2. i \in 1..n /\ Rank(S, R, x) = i - 1
    BY <1>1, <2>1
  <2>3. s[i] \in S /\ Rank(S, R, s[i]) = Rank(S, R, x)
    BY <1>2, <2>2
  <2>4. s[i] = x
    BY <2>3, RanksAreAll
  <2> QED BY <2>2, <2>4
<1>6. ASSUME NEW i \in 1..n, NEW j \in 1..n, i < j PROVE <<s[i], s[j]>> \in R
  <2>1. /\ s[i] \in S /\ s[j] \in S
        /\ Rank(S, R, s[i]) = i - 1 /\ Rank(S, R, s[j]) = j - 1
    BY <1>2
  <2>2. s[i] # s[j]
    BY <1>6, <2>1
  <2>3. <<s[j], s[i]>> \in R => j - 1 < i - 1
    BY <2>1, RankGrows
  <2> QED BY <1>6, <2>1, <2>2, <2>3 DEF Orders
<1>7. n = Cardinality(S) /\ s = InSequence(S, R)
  BY DEF n, s
<1> QED BY <1>2, <1>4, <1>5, <1>6, <1>7 DEF Lists

\* A sequence that lists the set has the element of rank i - 1 in place i.
LEMMA ListedRank ==
  ASSUME NEW S, NEW R, IsFiniteSet(S), Orders(R, S), NEW q, Lists(q, S, R)
  PROVE  /\ Len(q) = Cardinality(S)
         /\ \A i \in 1..Len(q) : Rank(S, R, q[i]) = i - 1
<1>1. q \in Seq(S) /\ Len(q) \in Nat
  BY DEF Lists
<1>2. ASSUME NEW i \in 1..Len(q), NEW j \in 1..Len(q), q[i] = q[j]
      PROVE  i = j
  <2>1. q[i] \in S /\ <<q[i], q[i]>> \notin R
    BY <1>1 DEF Orders
  <2>2. ~(i < j) /\ ~(j < i)
    BY <1>2, <2>1 DEF Lists
  <2> QED BY <2>2
<1>3. ASSUME NEW i \in 1..Len(q) PROVE Rank(S, R, q[i]) = i - 1
  <2> DEFINE T == {y \in S : <<y, q[i]>> \in R}
             f == [k \in 1..(i - 1) |-> q[k]]
  <2>1. q[i] \in S /\ <<q[i], q[i]>> \notin R
    BY <1>1 DEF Orders
  <2>2. ASSUME NEW k \in 1..(i - 1) PROVE q[k] \in T
    <3>1. k \in 1..Len(q) /\ k < i
      BY <1>1
    <3>2. q[k] \in S
      BY <1>1, <3>1
    <3>3. \A a, b \in 1..Len(q) : a < b => <<q[a], q[b]>> \in R
      BY DEF Lists
    <3>4. <<q[k], q[i]>> \in R
      BY <3>1, <3>3
    <3> QED BY <3>2, <3>4
  <2>3. ASSUME NEW y \in T PROVE \E k \in 1..(i - 1) : q[k] = y
    <3>1. PICK k \in 1..Len(q) : q[k] = y
      BY DEF Lists
    <3>2. y \in S /\ <<y, q[i]>> \in R
      OBVIOUS
    <3>3. k # i
      BY <2>1, <3>1, <3>2
    <3>4. ~(i < k)
      <4>1. ASSUME i < k PROVE <<q[i], y>> \in R
        BY <3>1, <4>1 DEF Lists
      <4>2. <<q[i], y>> \notin R
        BY <2>1, <3>2 DEF Orders
      <4> QED BY <4>1, <4>2
    <3>5. k \in 1..(i - 1)
      BY <3>3, <3>4
    <3> QED BY <3>1, <3>5
  <2> HIDE DEF T
  <2>4. f \in [1..(i - 1) -> T]
    BY <2>2
  <2>5. \A y \in T : \E k \in 1..(i - 1) : f[k] = y
    BY <2>3
  <2>6. \A k, l \in 1..(i - 1) : f[k] = f[l] => k = l
    BY <1>2
  <2> HIDE DEF f
  <2>7. ExistsBijection(1..(i - 1), T)
    BY <2>4, <2>5, <2>6 DEF ExistsBijection, Bijection, Injection, IsInjective, Surjection
  <2>8. i - 1 \in Nat
    OBVIOUS
  <2>9. Cardinality(T) = i - 1
    BY <2>7, <2>8, FS_CountingElements
  <2> QED BY <2>9 DEF Rank, T
<1>4. Len(q) = Cardinality(S)
  <2> DEFINE f == [k \in 1..Len(q) |-> q[k]]
  <2>1. f \in [1..Len(q) -> S] /\ (\A k, l \in 1..Len(q) : f[k] = f[l] => k = l)
    BY <1>1, <1>2
  <2>2. \A x \in S : \E k \in 1..Len(q) : f[k] = x
    BY DEF Lists
  <2> HIDE DEF f
  <2>3. ExistsBijection(1..Len(q), S)
    BY <2>1, <2>2 DEF ExistsBijection, Bijection, Injection, IsInjective, Surjection
  <2> QED BY <1>1, <2>3, FS_CountingElements
<1> QED BY <1>3, <1>4

\* There is one such sequence.
LEMMA OneSequence ==
  ASSUME NEW S, NEW R, IsFiniteSet(S), Orders(R, S), NEW q, Lists(q, S, R)
  PROVE  q = InSequence(S, R)
<1> DEFINE s == InSequence(S, R)
           n == Cardinality(S)
<1>1. /\ Lists(s, S, R) /\ Len(s) = n
      /\ \A i \in 1..n : Rank(S, R, s[i]) = i - 1
  BY SequenceLists
<1>2. Len(q) = n /\ \A i \in 1..n : Rank(S, R, q[i]) = i - 1
  BY ListedRank
<1>3. s \in Seq(S) /\ q \in Seq(S)
  BY <1>1 DEF Lists
<1> HIDE DEF s, n
<1>4. ASSUME NEW i \in 1..n PROVE q[i] = s[i]
  <2>1. q[i] \in S /\ s[i] \in S
    BY <1>1, <1>2, <1>3
  <2> QED BY <1>1, <1>2, <2>1, RanksAreAll
<1>5. q = s
  BY <1>1, <1>2, <1>3, <1>4
<1> QED BY <1>5 DEF s

\* One more element, before all that are listed.
LEMMA PutFirst ==
  ASSUME NEW A, NEW R, NEW s, Lists(s, A, R), NEW x, \A a \in A : <<x, a>> \in R
  PROVE  Lists(<<x>> \o s, A \cup {x}, R)
<1> DEFINE q == <<x>> \o s
           B == A \cup {x}
<1>1. /\ s \in Seq(A) /\ \A a \in A : \E i \in 1..Len(s) : s[i] = a
      /\ \A i, j \in 1..Len(s) : i < j => <<s[i], s[j]>> \in R
  BY DEF Lists
<1>2. s \in Seq(B) /\ <<x>> \in Seq(B) /\ Len(<<x>>) = 1 /\ <<x>>[1] = x
  BY <1>1
<1>3. Len(s) \in Nat
  BY <1>1
<1> HIDE DEF B
<1>4. /\ q \in Seq(B) /\ Len(q) = Len(s) + 1
      /\ q[1] = x /\ \A i \in 1..Len(s) : q[i + 1] = s[i]
  BY <1>2, <1>3
<1> HIDE DEF q
<1>5. ASSUME NEW b \in B PROVE \E i \in 1..Len(q) : q[i] = b
  <2>1. CASE b \in A
    <3>1. PICK i \in 1..Len(s) : s[i] = b
      BY <1>1, <2>1
    <3>2. i + 1 \in 1..Len(q) /\ q[i + 1] = b
      BY <1>3, <1>4, <3>1
    <3> QED BY <3>2
  <2>2. CASE b \notin A
    <3>1. b = x /\ 1 \in 1..Len(q)
      BY <1>3, <1>4, <1>5, <2>2 DEF B
    <3> QED BY <1>4, <3>1
  <2> QED BY <2>1, <2>2
<1>6. ASSUME NEW i \in 1..Len(q), NEW j \in 1..Len(q), i < j PROVE <<q[i], q[j]>> \in R
  <2>1. PICK k \in 1..Len(s) : j = k + 1
    <3>1. j - 1 \in 1..Len(s) /\ (j - 1) + 1 = j
      BY <1>3, <1>4, <1>6
    <3> QED BY <3>1
  <2>2. q[j] = s[k] /\ s[k] \in A
    <3>1. q[j] = s[k]
      BY <1>4, <2>1
    <3>2. s[k] \in A
      BY <1>1
    <3> QED BY <3>1, <3>2
  <2>3. CASE i = 1
    BY <1>4, <2>2, <2>3
  <2>4. CASE i # 1
    <3>1. PICK l \in 1..Len(s) : i = l + 1 /\ l < k
      <4>1. i - 1 \in 1..Len(s) /\ (i - 1) + 1 = i /\ i - 1 < k
        BY <1>3, <1>4, <1>6, <2>1, <2>4
      <4> QED BY <4>1
    <3>2. q[i] = s[l]
      BY <1>4, <3>1
    <3> QED BY <1>1, <2>2, <3>1, <3>2
  <2> QED BY <2>3, <2>4
<1>7. Lists(q, B, R)
  BY <1>4, <1>5, <1>6 DEF Lists
<1> QED BY <1>7 DEF q, B

\* From some place on.
LEMMA ListedRest ==
  ASSUME NEW A, NEW R, NEW s, Lists(s, A, R), NEW j \in 1..(Len(s) + 1)
  PROVE  Lists(SubSeq(s, j, Len(s)), {s[k] : k \in j..Len(s)}, R)
<1> DEFINE q == SubSeq(s, j, Len(s))
           B == {s[k] : k \in j..Len(s)}
<1>1. /\ s \in Seq(A) /\ \A i, k \in 1..Len(s) : i < k => <<s[i], s[k]>> \in R
  BY DEF Lists
<1>2. Len(s) \in Nat /\ j \in Nat
  BY <1>1
<1>3. q \in Seq(A) /\ Len(q) = Len(s) - j + 1 /\ \A i \in 1..(Len(s) - j + 1) : q[i] = s[j + i - 1]
  BY <1>1, <1>2
<1> HIDE DEF q
<1>4. \A i \in 1..Len(q) : j + i - 1 \in j..Len(s) /\ j + i - 1 \in 1..Len(s) /\ q[i] = s[j + i - 1]
  BY <1>2, <1>3
<1>5. \A i \in 1..Len(q) : q[i] \in B
  BY <1>4
<1>6. q \in Seq(B)
  <2>1. Len(q) \in Nat /\ q = [i \in 1..Len(q) |-> q[i]]
    BY <1>3
  <2> HIDE DEF B
  <2> QED BY <1>5, <2>1
<1>7. ASSUME NEW b \in B PROVE \E i \in 1..Len(q) : q[i] = b
  <2>1. PICK k \in j..Len(s) : b = s[k]
    OBVIOUS
  <2>2. k - j + 1 \in 1..Len(q) /\ j + (k - j + 1) - 1 = k
    BY <1>2, <1>3, <2>1
  <2> QED BY <1>4, <2>1, <2>2
<1>8. ASSUME NEW i \in 1..Len(q), NEW k \in 1..Len(q), i < k PROVE <<q[i], q[k]>> \in R
  <2>1. j + i - 1 < j + k - 1
    BY <1>2, <1>3, <1>8
  <2> QED BY <1>1, <1>4, <2>1
<1> HIDE DEF B
<1>9. Lists(q, B, R)
  BY <1>6, <1>7, <1>8 DEF Lists
<1> QED BY <1>9 DEF q, B

-----------------------------------------------------------------------------
(* Numbers.                                                                *)

LEMMA NumbersOrdered ==
  ASSUME NEW S \in SUBSET Int
  PROVE  Orders({p \in S \X S : p[1] < p[2]}, S)
<1> DEFINE R == {p \in S \X S : p[1] < p[2]}
<1>1. \A x, y \in S : <<x, y>> \in R <=> x < y
  OBVIOUS
<1> HIDE DEF R
<1>2. Orders(R, S)
  BY <1>1 DEF Orders
<1> QED BY <1>2 DEF R

LEMMA IncreasingLists ==
  ASSUME NEW S \in SUBSET Int, IsFiniteSet(S)
  PROVE  /\ Increasing(S) \in Seq(S) /\ Len(Increasing(S)) = Cardinality(S)
         /\ \A x \in S : \E i \in 1..Len(Increasing(S)) : Increasing(S)[i] = x
         /\ \A i, j \in 1..Len(Increasing(S)) : i < j => Increasing(S)[i] < Increasing(S)[j]
<1> DEFINE R == {p \in S \X S : p[1] < p[2]}
<1>1. \A x, y : <<x, y>> \in R => x < y
  OBVIOUS
<1>2. Increasing(S) = InSequence(S, R)
  BY DEF Increasing
<1>3. Orders(R, S)
  BY NumbersOrdered
<1> HIDE DEF R
<1>4. Lists(Increasing(S), S, R) /\ Len(Increasing(S)) = Cardinality(S)
  BY <1>2, <1>3, SequenceLists
<1> QED BY <1>1, <1>4 DEF Lists

LEMMA OneIncreasing ==
  ASSUME NEW S \in SUBSET Int, IsFiniteSet(S), NEW q \in Seq(S),
         \A x \in S : \E i \in 1..Len(q) : q[i] = x,
         \A i, j \in 1..Len(q) : i < j => q[i] < q[j]
  PROVE  q = Increasing(S)
<1> DEFINE R == {p \in S \X S : p[1] < p[2]}
<1>1. \A x, y \in S : <<x, y>> \in R <=> x < y
  OBVIOUS
<1>2. Increasing(S) = InSequence(S, R)
  BY DEF Increasing
<1>3. Orders(R, S)
  BY NumbersOrdered
<1> HIDE DEF R
<1>4. ASSUME NEW i \in 1..Len(q), NEW j \in 1..Len(q), i < j
      PROVE  <<q[i], q[j]>> \in R
  <2>1. q[i] \in S /\ q[j] \in S /\ q[i] < q[j]
    BY <1>4
  <2> QED BY <1>1, <2>1
<1>5. Lists(q, S, R)
  BY <1>4 DEF Lists
<1> QED BY <1>2, <1>3, <1>5, OneSequence

\* What a concatenation holds.
LEMMA Concatenated ==
  ASSUME NEW S, NEW s \in Seq(S), NEW t \in Seq(S)
  PROVE  /\ s \o t \in Seq(S) /\ Len(s \o t) = Len(s) + Len(t)
         /\ \A i \in 1..Len(s) : (s \o t)[i] = s[i]
         /\ \A i \in 1..Len(t) : (s \o t)[Len(s) + i] = t[i]
<1>1. s \o t \in Seq(S) /\ Len(s \o t) = Len(s) + Len(t) /\ Len(s) \in Nat /\ Len(t) \in Nat
  OBVIOUS
<1>2. ASSUME NEW i \in 1..Len(s) PROVE (s \o t)[i] = s[i]
  BY <1>1
<1>3. ASSUME NEW i \in 1..Len(t) PROVE (s \o t)[Len(s) + i] = t[i]
  BY <1>1
<1> QED BY <1>1, <1>2, <1>3

\* Numbers, and then greater ones.
LEMMA IncreasingJoined ==
  ASSUME NEW A \in SUBSET Int, NEW B \in SUBSET Int, IsFiniteSet(A), IsFiniteSet(B),
         \A a \in A, b \in B : a < b
  PROVE  Increasing(A \cup B) = Increasing(A) \o Increasing(B)
<1> DEFINE s == Increasing(A)
           t == Increasing(B)
           q == s \o t
<1>1. /\ s \in Seq(A) /\ \A x \in A : \E i \in 1..Len(s) : s[i] = x
      /\ \A i, j \in 1..Len(s) : i < j => s[i] < s[j]
  BY IncreasingLists
<1>2. /\ t \in Seq(B) /\ \A x \in B : \E i \in 1..Len(t) : t[i] = x
      /\ \A i, j \in 1..Len(t) : i < j => t[i] < t[j]
  BY IncreasingLists
<1> HIDE DEF s, t
<1>3. s \in Seq(A \cup B) /\ t \in Seq(A \cup B)
  BY <1>1, <1>2
<1>4. /\ q \in Seq(A \cup B) /\ Len(q) = Len(s) + Len(t)
      /\ \A i \in 1..Len(s) : q[i] = s[i]
      /\ \A i \in 1..Len(t) : q[Len(s) + i] = t[i]
  BY <1>3, Concatenated
<1>5. Len(s) \in Nat /\ Len(t) \in Nat
  BY <1>1, <1>2
<1> HIDE DEF q
<1>6. ASSUME NEW x \in A \cup B PROVE \E i \in 1..Len(q) : q[i] = x
  <2>1. CASE x \in A
    <3>1. PICK i \in 1..Len(s) : s[i] = x
      BY <1>1, <2>1
    <3>2. i \in 1..Len(q) /\ q[i] = x
      BY <1>4, <1>5, <3>1
    <3> QED BY <3>2
  <2>2. CASE x \in B
    <3>1. PICK i \in 1..Len(t) : t[i] = x
      BY <1>2, <2>2
    <3>2. Len(s) + i \in 1..Len(q) /\ q[Len(s) + i] = x
      BY <1>4, <1>5, <3>1
    <3> QED BY <3>2
  <2> QED BY <2>1, <2>2
<1>7. ASSUME NEW i \in 1..Len(q) PROVE
        \/ i \in 1..Len(s) /\ q[i] = s[i] /\ s[i] \in A
        \/ i - Len(s) \in 1..Len(t) /\ q[i] = t[i - Len(s)] /\ t[i - Len(s)] \in B
  <2>1. CASE i <= Len(s)
    BY <1>1, <1>4, <1>5, <2>1
  <2>2. CASE i > Len(s)
    <3> DEFINE k == i - Len(s)
    <3>1. k \in 1..Len(t) /\ i = Len(s) + k
      BY <1>4, <1>5, <2>2
    <3> HIDE DEF k
    <3>2. q[i] = t[k] /\ t[k] \in B
      BY <1>2, <1>4, <3>1
    <3> QED BY <3>1, <3>2 DEF k
  <2> QED BY <1>4, <1>5, <2>1, <2>2
<1>8. ASSUME NEW i \in 1..Len(q), NEW j \in 1..Len(q), i < j
      PROVE  q[i] < q[j]
  <2>1. CASE i \in 1..Len(s) /\ j \in 1..Len(s)
    BY <1>1, <1>4, <1>8, <2>1
  <2>2. CASE q[i] \in A /\ q[j] \in B
    BY <2>2
  <2>3. CASE i - Len(s) \in 1..Len(t) /\ j - Len(s) \in 1..Len(t)
    <3>1. q[i] = t[i - Len(s)] /\ q[j] = t[j - Len(s)]
      BY <1>5, <1>7, <2>3
    <3>2. i - Len(s) < j - Len(s)
      BY <1>5, <1>8
    <3> QED BY <1>2, <2>3, <3>1, <3>2
  <2>4. CASE i - Len(s) \in 1..Len(t) /\ j \in 1..Len(s)
    BY <1>5, <1>8, <2>4
  <2> QED BY <1>7, <2>1, <2>2, <2>3, <2>4
<1>9. IsFiniteSet(A \cup B) /\ A \cup B \in SUBSET Int
  BY FS_Union
<1>10. q = Increasing(A \cup B)
  BY <1>4, <1>6, <1>8, <1>9, OneIncreasing
<1> QED BY <1>10 DEF q, s, t

\* What is left of numbers in sequence when those below b go.
LEMMA IncreasingDropped ==
  ASSUME NEW A \in SUBSET Int, IsFiniteSet(A), NEW b \in Int
  PROVE  LET s == Increasing(A)
             gone == Cardinality({i \in DOMAIN s : s[i] < b})
             rest == {a \in A : a >= b}
         IN  /\ SubSeq(s, gone + 1, Len(s)) = Increasing(rest)
             /\ gone \in 0..Len(s)
             /\ \A i \in 1..Len(s) : s[i] >= b <=> i > gone
<1> DEFINE low == {a \in A : a < b}
           rest == {a \in A : a >= b}
           s == Increasing(A)
           l == Increasing(low)
           r == Increasing(rest)
           G == {i \in DOMAIN s : s[i] < b}
<1>0. \A a \in A : a \in Int
  OBVIOUS
<1>1. /\ low \in SUBSET Int /\ rest \in SUBSET Int /\ low \cup rest = A
      /\ \A x \in low, y \in rest : x < y
  <2>1. \A a \in A : a < b \/ a >= b
    BY <1>0
  <2>2. \A x \in low, y \in rest : x < y
    BY <1>0
  <2> QED BY <1>0, <2>1, <2>2
<1>2. IsFiniteSet(low) /\ IsFiniteSet(rest)
  BY FS_Subset
<1>3. s = l \o r
  <2> HIDE DEF low, rest
  <2> QED BY <1>1, <1>2, IncreasingJoined
<1>4. l \in Seq(low) /\ r \in Seq(rest)
  <2> HIDE DEF low, rest
  <2> QED BY <1>1, <1>2, IncreasingLists
<1>5. l \in Seq(A) /\ r \in Seq(A)
  BY <1>4
<1> HIDE DEF s, l, r
<1>6. /\ s \in Seq(A) /\ Len(s) = Len(l) + Len(r)
      /\ \A i \in 1..Len(l) : s[i] = l[i]
      /\ \A i \in 1..Len(r) : s[Len(l) + i] = r[i]
  BY <1>3, <1>5, Concatenated
<1>7. Len(l) \in Nat /\ Len(r) \in Nat
  BY <1>5
<1>8. ASSUME NEW i \in 1..Len(s)
      PROVE  (i <= Len(l) => s[i] < b) /\ (i > Len(l) => ~(s[i] < b))
  <2>1. CASE i <= Len(l)
    <3>1. s[i] = l[i] /\ l[i] \in low
      BY <1>4, <1>6, <1>7, <2>1
    <3>2. s[i] < b /\ ~(i > Len(l))
      BY <1>7, <2>1, <3>1
    <3> QED BY <3>2
  <2>2. CASE i > Len(l)
    <3> DEFINE k == i - Len(l)
    <3>1. k \in 1..Len(r) /\ i = Len(l) + k
      BY <1>6, <1>7, <2>2
    <3> HIDE DEF k
    <3>2. s[i] = r[k] /\ r[k] \in rest
      BY <1>4, <1>6, <3>1
    <3>3. s[i] \in A /\ s[i] >= b
      BY <3>2
    <3>4. s[i] \in Int
      BY <1>0, <3>3
    <3>5. ~(s[i] < b)
      BY <3>3, <3>4
    <3>6. ~(i <= Len(l))
      BY <1>7, <2>2
    <3> QED BY <3>5, <3>6
  <2>3. i <= Len(l) \/ i > Len(l)
    BY <1>7
  <2> QED BY <2>1, <2>2, <2>3
<1>9. G = 1..Len(l)
  BY <1>6, <1>7, <1>8
<1>10. Cardinality(G) = Len(l)
  <2>1. 1 \in Int /\ Len(l) \in Int
    BY <1>7
  <2>2. Cardinality(1..Len(l)) = IF 1 > Len(l) THEN 0 ELSE Len(l) - 1 + 1
    BY <2>1, FS_Interval
  <2>3. Cardinality(1..Len(l)) = Len(l)
    BY <1>7, <2>2
  <2> QED BY <1>9, <2>3, Zenon
<1>11. SubSeq(s, Len(l) + 1, Len(s)) = r
  <2> DEFINE q == SubSeq(s, Len(l) + 1, Len(s))
  <2>1. /\ q \in Seq(A) /\ Len(q) = Len(r) /\ \A i \in 1..Len(r) : q[i] = s[Len(l) + i]
    BY <1>6, <1>7
  <2> HIDE DEF q
  <2>2. \A i \in 1..Len(r) : q[i] = r[i]
    BY <1>6, <2>1
  <2>3. q = r
    BY <1>5, <2>1, <2>2
  <2> QED BY <2>3 DEF q
<1>12. \A i \in 1..Len(s) : s[i] >= b <=> i > Len(l)
  <2>1. ASSUME NEW i \in 1..Len(s) PROVE s[i] \in Int
    <3>1. s[i] \in A
      BY <1>6
    <3> QED BY <1>0, <3>1
  <2> QED BY <1>7, <1>8, <2>1
<1> HIDE DEF G
<1>13. /\ SubSeq(s, Cardinality(G) + 1, Len(s)) = r
       /\ Cardinality(G) \in 0..Len(s)
       /\ \A i \in 1..Len(s) : s[i] >= b <=> i > Cardinality(G)
  BY <1>6, <1>7, <1>10, <1>11, <1>12
<1> QED BY <1>13 DEF G, s, r
=============================================================================
