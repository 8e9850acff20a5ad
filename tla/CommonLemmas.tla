---------------------------- MODULE CommonLemmas ----------------------------
(***************************************************************************)
(* Facts about numbers and sequences that the proofs of several components *)
(* need, in the form in which they need them.                              *)
(***************************************************************************)
EXTENDS Selections, SequenceTheorems, FiniteSetTheorems, WellFoundedInduction, TLAPS

\* A non-empty set of naturals has a least member: the form in which the
\* proofs use induction.
LEMMA NatMin ==
    ASSUME NEW T, T \subseteq Nat, T # {}
    PROVE  \E x \in T : \A y \in T : x <= y
<1>1. PICK x \in T : \A y \in T : ~ (<<y, x>> \in OpToRel(<, Nat))
  BY NatLessThanWellFounded, WFMin
<1>2. \A y \in T : ~ (y < x)
  BY <1>1 DEF OpToRel
<1>3. \A y \in T : x <= y
  BY <1>2
<1> QED BY <1>3

\* A non-empty set of naturals with an upper bound has a greatest member.
LEMMA NatMax ==
    ASSUME NEW K, K \subseteq Nat, K # {}, NEW m \in Nat, \A k \in K : k <= m
    PROVE  \E x \in K : \A k \in K : k <= x
<1> DEFINE U == {u \in Nat : \A k \in K : k <= u}
<1>1. PICK u \in U : \A v \in U : u <= v
  BY NatMin
<1>2. CASE u \in K
  BY <1>2
<1>3. CASE u \notin K
  <2>0. u \in Nat /\ \A k \in K : k \in Nat /\ k <= u /\ k # u
    BY <1>3
  <2>1. u # 0
    <3>1. PICK k \in K : TRUE
      OBVIOUS
    <3> QED BY <2>0, <3>1
  <2>2. \A k \in K : k <= u - 1
    BY <2>0
  <2>3. u - 1 \in U
    BY <2>1, <2>2
  <2> QED BY <1>1, <2>3
<1> QED BY <1>2, <1>3

\* The length, the domain and the elements of a sequence over S.
LEMMA SeqFacts ==
    ASSUME NEW S, NEW s \in Seq(S)
    PROVE  Len(s) \in Nat /\ DOMAIN s = 1 .. Len(s) /\ \A i \in DOMAIN s : s[i] \in S
<1>1. Len(s) \in Nat /\ DOMAIN s = 1 .. Len(s)
  BY LenProperties
<1>2. s \in [1 .. Len(s) -> S]
  BY LenProperties
<1> QED BY <1>1, <1>2

\* What Append adds: one position, at the end, holding e.
LEMMA AppendFacts ==
    ASSUME NEW S, NEW s \in Seq(S), NEW e \in S
    PROVE  /\ Append(s, e) \in Seq(S) /\ Len(Append(s, e)) = Len(s) + 1
           /\ DOMAIN Append(s, e) = 1 .. Len(s) + 1
           /\ \A i \in 1 .. Len(s) + 1 : Append(s, e)[i] = IF i = Len(s) + 1 THEN e ELSE s[i]
<1> DEFINE t == Append(s, e)
<1>1. /\ t \in Seq(S) /\ Len(t) = Len(s) + 1 /\ Len(s) \in Nat
      /\ \A i \in 1 .. Len(s) : t[i] = s[i]
      /\ t[Len(s) + 1] = e
  BY AppendProperties, LenProperties
<1> HIDE DEF t
<1>2. DOMAIN t = 1 .. Len(s) + 1
  BY <1>1, LenProperties
<1>3. \A i \in 1 .. Len(s) + 1 : t[i] = IF i = Len(s) + 1 THEN e ELSE s[i]
  BY <1>1
<1> QED BY <1>1, <1>2, <1>3 DEF t

\* Every bounded set of naturals has an enumeration in increasing order.
LEMMA IncreasingExists ==
    ASSUME NEW m \in Nat, NEW K \in SUBSET (1 .. m)
    PROVE  \E f \in [1 .. Cardinality(K) -> K] :
             \A i, j \in 1 .. Cardinality(K) : i < j => f[i] < f[j]
<1> DEFINE Enum(J) == \E f \in [1 .. Cardinality(J) -> J] :
                        \A i, j \in 1 .. Cardinality(J) : i < j => f[i] < f[j]
           Bad == {n \in Nat : \E J \in SUBSET (1 .. m) : Cardinality(J) = n /\ ~ Enum(J)}
<1>0. \A J \in SUBSET (1 .. m) : IsFiniteSet(J) /\ Cardinality(J) \in Nat
  <2>1. IsFiniteSet(1 .. m)
    BY FS_Interval
  <2>2. TAKE J \in SUBSET (1 .. m)
  <2>3. IsFiniteSet(J)
    BY <2>1, FS_Subset
  <2> QED BY <2>3, FS_CardinalityType
<1>1. Bad = {}
  <2>1. SUFFICES ASSUME Bad # {} PROVE FALSE
    OBVIOUS
  <2>2. PICK n \in Bad : \A l \in Bad : n <= l
    <3>1. Bad \subseteq Nat
      OBVIOUS
    <3> QED BY <2>1, <3>1, NatMin
  <2>3. PICK J \in SUBSET (1 .. m) : Cardinality(J) = n /\ ~ Enum(J)
    OBVIOUS
  <2>4. J # {}
    <3>1. SUFFICES ASSUME J = {} PROVE Enum(J)
      BY <2>3
    <3>2. Cardinality(J) = 0
      BY <3>1, FS_EmptySet
    <3>3. 1 .. Cardinality(J) = {}
      BY <3>2
    <3>4. [i \in {} |-> i] \in [{} -> J]
      OBVIOUS
    <3> QED BY <3>3, <3>4
  <2>5. PICK x \in J : \A k \in J : k <= x
    <3>1. J \subseteq Nat /\ \A k \in J : k <= m
      OBVIOUS
    <3> QED BY <2>4, <3>1, NatMax
  <2> DEFINE I == J \ {x}
  <2>6. Cardinality(I) = n - 1 /\ n \in Nat \ {0} /\ I \in SUBSET (1 .. m)
    <3>1. Cardinality(I) = Cardinality(J) - 1
      BY <1>0, FS_RemoveElement
    <3>2. Cardinality(J) # 0
      BY <1>0, <2>4, FS_EmptySet
    <3> QED BY <1>0, <2>3, <3>1, <3>2
  <2>7. Enum(I)
    <3>1. n - 1 \notin Bad
      BY <2>2, <2>6
    <3>2. Cardinality(I) \in Nat
      BY <1>0, <2>6
    <3> QED BY <2>6, <3>1, <3>2
  <2>8. PICK f \in [1 .. n - 1 -> I] : \A i, j \in 1 .. n - 1 : i < j => f[i] < f[j]
    BY <2>6, <2>7
  <2> DEFINE g == [i \in 1 .. n |-> IF i = n THEN x ELSE f[i]]
  <2> HIDE DEF I
  <2>9. g \in [1 .. n -> J]
    <3>1. \A i \in 1 .. n : i # n => i \in 1 .. n - 1
      BY <2>6
    <3>2. \A i \in 1 .. n : i # n => f[i] \in J
      BY <3>1, <2>8 DEF I
    <3> QED BY <3>2
  <2>10. \A i, j \in 1 .. n : i < j => g[i] < g[j]
    <3>1. SUFFICES ASSUME NEW i \in 1 .. n, NEW j \in 1 .. n, i < j
                   PROVE  g[i] < g[j]
      OBVIOUS
    <3>2. i \in 1 .. n - 1 /\ g[i] = f[i]
      BY <2>6, <3>1
    <3>3. f[i] \in J /\ f[i] # x
      BY <2>8, <3>2 DEF I
    <3>4. CASE j = n
      <4>1. f[i] <= x /\ f[i] \in Nat /\ x \in Nat
        <5>1. f[i] \in 1 .. m /\ x \in 1 .. m
          BY <3>3
        <5> QED BY <2>5, <3>3, <5>1
      <4> QED BY <3>2, <3>3, <3>4, <4>1
    <3>5. CASE j # n
      <4>1. j \in 1 .. n - 1
        BY <2>6, <3>5
      <4>2. g[j] = f[j]
        BY <3>5
      <4> QED BY <2>8, <3>1, <3>2, <4>1, <4>2
    <3> QED BY <3>4, <3>5
  <2>11. Enum(J)
    <3> HIDE DEF g
    <3> QED BY <2>3, <2>9, <2>10
  <2> QED BY <2>3, <2>11
<1>2. Cardinality(K) \in Nat
  BY <1>0
<1> QED BY <1>1, <1>2

\* The index Increasing(K) gives to n belongs to K, in increasing order.
LEMMA IncreasingProperties ==
    ASSUME NEW m \in Nat, NEW K \in SUBSET (1 .. m)
    PROVE  /\ Cardinality(K) \in Nat
           /\ Increasing(K) \in [1 .. Cardinality(K) -> K]
           /\ \A i, j \in 1 .. Cardinality(K) :
                i < j => Increasing(K)[i] < Increasing(K)[j]
<1>1. IsFiniteSet(1 .. m)
  BY FS_Interval
<1>2. IsFiniteSet(K)
  BY <1>1, FS_Subset
<1>3. Cardinality(K) \in Nat
  BY <1>2, FS_CardinalityType
<1>4. \E f \in [1 .. Cardinality(K) -> K] :
        \A i, j \in 1 .. Cardinality(K) : i < j => f[i] < f[j]
  BY IncreasingExists
<1> QED BY <1>3, <1>4 DEF Increasing

\* The items at the given places: in their order, none left out.
LEMMA AtPlacesProperties ==
    ASSUME NEW S, NEW s \in Seq(S), NEW K \in SUBSET (1 .. Len(s))
    PROVE  LET r == AtPlaces(s, K)
           IN  /\ r \in Seq(S) /\ Cardinality(K) \in Nat
               /\ Len(r) = Cardinality(K) /\ DOMAIN r = 1 .. Cardinality(K)
               /\ Increasing(K) \in [DOMAIN r -> K]
               /\ \A i, j \in DOMAIN r : i < j => Increasing(K)[i] < Increasing(K)[j]
               /\ \A n \in DOMAIN r : r[n] = s[Increasing(K)[n]]
               /\ \A k \in K : \E n \in DOMAIN r : Increasing(K)[n] = k
<1> DEFINE order == Increasing(K)
           r == AtPlaces(s, K)
           N == 1 .. Cardinality(K)
<1>1. Len(s) \in Nat /\ \A i \in 1 .. Len(s) : s[i] \in S
  BY LenProperties, ElementOfSeq
<1>2. r = [n \in N |-> s[order[n]]]
  BY DEF AtPlaces
<1>3. /\ Cardinality(K) \in Nat /\ order \in [N -> K]
      /\ \A i, j \in N : i < j => order[i] < order[j]
  BY <1>1, IncreasingProperties
<1> HIDE DEF r, order
<1>4. r \in [N -> S]
  BY <1>1, <1>2, <1>3
<1>5. r \in Seq(S) /\ DOMAIN r = N
  <2>1. r \in Seq(S)
    BY <1>3, <1>4, SeqDef
  <2> QED BY <1>2, <2>1
<1>6. Len(r) = Cardinality(K)
  BY <1>3, <1>5, LenProperties
<1>7. \A k \in K : \E n \in N : order[n] = k
  <2>1. IsFiniteSet(K)
    <3>1. IsFiniteSet(1 .. Len(s))
      BY <1>1, FS_Interval
    <3> QED BY <3>1, FS_Subset
  <2>2. IsFiniteSet(N) /\ Cardinality(N) = Cardinality(K)
    BY <1>3, FS_Interval
  <2>3. \A i, j \in N : order[i] = order[j] => i = j
    <3> SUFFICES ASSUME NEW i \in N, NEW j \in N, i # j
                 PROVE  order[i] # order[j]
      OBVIOUS
    <3>1. order[i] \in Nat /\ order[j] \in Nat
      <4>1. order[i] \in K /\ order[j] \in K /\ K \subseteq Nat
        BY <1>3
      <4> QED BY <4>1
    <3>2. i < j \/ j < i
      BY <1>3
    <3> QED BY <1>3, <3>1, <3>2
  <2> HIDE DEF N
  <2>4. order \in Injection(N, K)
    BY <1>3, <2>3 DEF Injection, IsInjective
  <2>5. order \in Surjection(N, K)
    BY <2>1, <2>2, <2>4, FS_Injection
  <2> QED BY <2>5 DEF Surjection
<1> QED BY <1>2, <1>3, <1>5, <1>6, <1>7 DEF r, order
=============================================================================
