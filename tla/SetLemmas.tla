----------------------------- MODULE SetLemmas ------------------------------
(***************************************************************************)
(* Facts about sets of numbers and about sequences that the proofs of more *)
(* than one module need.                                                   *)
(***************************************************************************)
EXTENDS Integers, SequencesExt, FiniteSetTheorems, TLAPS

\* A non-empty set of numbers has a least element.
LEMMA Least ==
  ASSUME NEW T \in SUBSET Nat, T # {}
  PROVE  \E x \in T : \A y \in T : x <= y
<1> DEFINE R == OpToRel(<, Nat)
<1>1. \A x, y \in Nat : y < x => <<y, x>> \in R
  BY DEF OpToRel
<1>2. IsWellFoundedOn(R, Nat)
  BY NatLessThanWellFounded
<1> HIDE DEF R
<1>3. \E x \in T : \A y \in T : ~ (<<y, x>> \in R)
  BY <1>2, WFMin
<1>4. PICK x \in T : \A y \in T : ~ (<<y, x>> \in R)
  BY <1>3
<1>5. \A y \in T : x \in Nat /\ y \in Nat /\ ~ (y < x)
  BY <1>1, <1>4
<1>6. \A y \in T : x <= y
  BY <1>5
<1> QED
  BY <1>6

\* A bounded set of numbers has a greatest one, which Max is.
LEMMA Greatest ==
  ASSUME NEW S \in SUBSET Nat, S # {}, NEW n \in Nat, \A x \in S : x <= n
  PROVE  Max(S) \in S /\ \A x \in S : x <= Max(S)
<1> DEFINE T == {n - x : x \in S}
<1>1. T \in SUBSET Nat /\ T # {}
  OBVIOUS
<1>2. PICK d \in T : \A y \in T : d <= y
  BY <1>1, Least
<1>3. PICK m \in S : d = n - m
  OBVIOUS
<1>4. \A x \in S : m >= x
  <2> SUFFICES ASSUME NEW x \in S PROVE m >= x
    OBVIOUS
  <2>1. d <= n - x
    BY <1>2
  <2> QED
    BY <1>3, <2>1
<1>5. \E x \in S : \A y \in S : x >= y
  BY <1>4
<1> HIDE DEF T
<1>6. Max(S) \in S /\ \A x \in S : Max(S) >= x
  BY <1>5 DEF Max
<1> QED
  BY <1>6

\* Positions of a sequence are finitely many.
LEMMA FinitePositions ==
  ASSUME NEW n \in Nat, NEW T \in SUBSET (1..n)
  PROVE  IsFiniteSet(T) /\ Cardinality(T) \in Nat
<1>1. IsFiniteSet(1..n)
  BY FS_Interval
<1>2. IsFiniteSet(T)
  BY <1>1, FS_Subset
<1> QED
  BY <1>2, FS_CardinalityType

\* Min is the least number of a set.
LEMMA LeastIsMin ==
  ASSUME NEW S \in SUBSET Nat, S # {}
  PROVE  Min(S) \in S /\ \A x \in S : Min(S) <= x
<1>1. \E x \in S : \A y \in S : x =< y
  BY Least
<1> QED
  BY <1>1 DEF Min

\* A sequence is one of its elements.
LEMMA OwnElements ==
  ASSUME NEW S, NEW s \in Seq(S)
  PROVE  s \in Seq(Range(s))
<1>1. s = [i \in 1..Len(s) |-> s[i]]
  OBVIOUS
<1>2. \A i \in 1..Len(s) : s[i] \in Range(s)
  BY DEF Range
<1> QED
  BY <1>1, <1>2

\* A sequence that is continued keeps its elements.
LEMMA Continued ==
  ASSUME NEW s, s \in Seq(Range(s)), NEW t, t \in Seq(Range(t))
  PROVE  /\ s \o t \in Seq(Range(s \o t))
         /\ Len(s \o t) = Len(s) + Len(t)
         /\ DOMAIN (s \o t) = 1..(Len(s) + Len(t))
         /\ \A i \in DOMAIN s : (s \o t)[i] = s[i]
         /\ \A i \in DOMAIN t : (s \o t)[Len(s) + i] = t[i]
<1> DEFINE S == Range(s) \cup Range(t)
<1>1. s \in Seq(S) /\ t \in Seq(S)
  OBVIOUS
<1> HIDE DEF S
<1>2. /\ s \o t \in Seq(S) /\ Len(s \o t) = Len(s) + Len(t)
      /\ \A i \in DOMAIN s : (s \o t)[i] = s[i]
      /\ \A i \in DOMAIN t : (s \o t)[Len(s) + i] = t[i]
  BY <1>1
<1>3. s \o t \in Seq(Range(s \o t))
  BY <1>2, OwnElements
<1> QED
  BY <1>1, <1>2, <1>3

\* So does one that gets one element more.
LEMMA Appended ==
  ASSUME NEW s, s \in Seq(Range(s)), NEW x
  PROVE  /\ Append(s, x) \in Seq(Range(Append(s, x)))
         /\ Len(Append(s, x)) = Len(s) + 1
         /\ DOMAIN Append(s, x) = 1..(Len(s) + 1)
         /\ \A i \in DOMAIN s : Append(s, x)[i] = s[i]
         /\ Append(s, x)[Len(s) + 1] = x
<1> DEFINE S == Range(s) \cup {x}
<1>1. s \in Seq(S) /\ x \in S
  OBVIOUS
<1> HIDE DEF S
<1>2. /\ Append(s, x) \in Seq(S) /\ Len(Append(s, x)) = Len(s) + 1
      /\ \A i \in DOMAIN s : Append(s, x)[i] = s[i]
      /\ Append(s, x)[Len(s) + 1] = x
  BY <1>1
<1>3. Append(s, x) \in Seq(Range(Append(s, x)))
  BY <1>2, OwnElements
<1> QED
  BY <1>1, <1>2, <1>3

\* The sum of no numbers is zero.
LEMMA EmptySum ==
  ASSUME NEW f, DOMAIN f = {}
  PROVE  SumFunction(f) = 0
<1> DEFINE Step(g) == [s \in SUBSET {} |->
                         IF s = {} THEN 0
                         ELSE f[CHOOSE x \in s : TRUE] + g[s \ {CHOOSE x \in s : TRUE}]]
           iter == CHOOSE g : g = Step(g)
<1>1. iter[{}] = 0
  <2> DEFINE zero == [s \in SUBSET {} |-> 0]
  <2>1. zero = Step(zero)
    OBVIOUS
  <2>2. iter = Step(iter)
    <3> HIDE DEF zero, Step
    <3> QED
      BY <2>1, Zenon
  <2> QED
    BY <2>2
<1>2. SumFunction(f) = iter[{}]
  BY Zenon
  DEF SumFunction, FoldFunction, SumFunctionOnSet, FoldFunctionOnSet, MapThenFoldSet
<1> QED
  BY <1>1, <1>2

\* A sequence in which every element of a finite set stands once.
LEMMA Arrangement ==
  ASSUME NEW S, IsFiniteSet(S), NEW s \in SetToSeqs(S)
  PROVE  /\ s \in Seq(S) /\ Len(s) = Cardinality(S)
         /\ \A i, j \in DOMAIN s : i # j => s[i] # s[j]
         /\ \A x \in S : \E i \in DOMAIN s : s[i] = x
<1> DEFINE D == 1..Cardinality(S)
<1>1. Cardinality(S) \in Nat
  BY FS_CardinalityType
<1>2. s \in [D -> S] /\ \A i, j \in D : i # j => s[i] # s[j]
  BY DEF SetToSeqs
<1>3. s \in Seq(S) /\ Len(s) = Cardinality(S) /\ DOMAIN s = D
  BY <1>1, <1>2
<1>4. IsFiniteSet(D) /\ Cardinality(D) = Cardinality(S)
  BY <1>1, FS_Interval
<1>5. s \in Injection(D, S)
  BY <1>2 DEF Injection, IsInjective
<1>6. s \in Surjection(D, S)
  BY <1>4, <1>5, FS_Injection
<1>7. \A x \in S : \E i \in D : s[i] = x
  BY <1>6 DEF Surjection
<1> QED
  BY <1>2, <1>3, <1>7

\* Counted up to each of them, the members of a finite set of positions have the
\* numbers from one to as many as they are.
LEMMA Ranked ==
  ASSUME NEW n \in Nat, NEW T \in SUBSET (1..n)
  PROVE  /\ Cardinality(T) \in Nat
         /\ \A i \in 1..Cardinality(T) : \E k \in T : Cardinality({j \in T : j <= k}) = i
         /\ \A k \in T : Cardinality({j \in T : j <= k}) \in 1..Cardinality(T)
         /\ \A k, l \in T : Cardinality({j \in T : j <= k}) = Cardinality({j \in T : j <= l})
                              => k = l
<1> DEFINE upto(k) == {j \in T : j <= k}
           rank == [k \in T |-> Cardinality(upto(k))]
<1>1. IsFiniteSet(T) /\ Cardinality(T) \in Nat
  BY FinitePositions
<1>2. ASSUME NEW k \in T PROVE rank[k] \in 1..Cardinality(T)
  <2>1. upto(k) \in SUBSET T /\ k \in upto(k)
    OBVIOUS
  <2>2. IsFiniteSet(upto(k)) /\ Cardinality(upto(k)) <= Cardinality(T)
    BY <1>1, <2>1, FS_Subset
  <2>3. Cardinality(upto(k)) \in Nat /\ Cardinality(upto(k)) # 0
    BY <2>1, <2>2, FS_CardinalityType, FS_EmptySet
  <2> HIDE DEF upto
  <2> QED BY <1>1, <2>2, <2>3
<1>3. ASSUME NEW k \in T, NEW l \in T, rank[k] = rank[l] PROVE k = l
  <2>1. \A x, y \in T : x < y => Cardinality(upto(x)) # Cardinality(upto(y))
    <3> SUFFICES ASSUME NEW x \in T, NEW y \in T, x < y, Cardinality(upto(x)) = Cardinality(upto(y))
                 PROVE  FALSE
      OBVIOUS
    <3>0. T \subseteq Int
      OBVIOUS
    <3>1. upto(x) \in SUBSET upto(y) /\ upto(y) \in SUBSET T /\ y \in upto(y) /\ y \notin upto(x)
      <4>1. \A z \in T : z <= x => z <= y
        BY <3>0
      <4>2. y <= y /\ ~(y <= x)
        BY <3>0
      <4> QED BY <4>1, <4>2
    <3>2. IsFiniteSet(upto(y))
      BY <1>1, <3>1, FS_Subset
    <3> HIDE DEF upto
    <3>3. upto(x) = upto(y)
      BY <3>1, <3>2, FS_Subset
    <3> QED BY <3>1, <3>3
  <2>2. k < l \/ l < k \/ k = l
    OBVIOUS
  <2>3. rank[k] = Cardinality(upto(k)) /\ rank[l] = Cardinality(upto(l))
    OBVIOUS
  <2> HIDE DEF upto, rank
  <2> QED BY <1>3, <2>1, <2>2, <2>3
<1>4. \A i \in 1..Cardinality(T) : \E k \in T : rank[k] = i
  <2> DEFINE N == 1..Cardinality(T)
  <2>1. IsFiniteSet(N) /\ Cardinality(N) = Cardinality(T)
    BY <1>1, FS_Interval
  <2> HIDE DEF N
  <2>2. rank \in [T -> N]
    BY <1>2 DEF N
  <2>3. rank \in Injection(T, N)
    <3> HIDE DEF rank
    <3>1. \A k, l \in T : rank[k] = rank[l] => k = l
      BY <1>3
    <3>2. DOMAIN rank = T
      BY <2>2
    <3>3. IsInjective(rank)
      BY <3>1, <3>2 DEF IsInjective
    <3> QED BY <2>2, <3>3 DEF Injection
  <2> HIDE DEF rank
  <2>4. rank \in Surjection(T, N)
    BY <2>1, <2>3, FS_Injection
  <2> QED BY <2>4 DEF Surjection, N
<1> QED BY <1>1, <1>2, <1>3, <1>4
=============================================================================
