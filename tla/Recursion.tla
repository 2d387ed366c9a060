------------------------------- MODULE Recursion -------------------------------
(***************************************************************************)
(* Induction over the natural numbers stated with sets, so that a proof    *)
(* can instantiate it, and from it that a function defined by recursion    *)
(* on 0..n exists; and the places of the elements of a finite set in an    *)
(* order of them.                                                          *)
(***************************************************************************)
EXTENDS Integers, FiniteSetTheorems, TLAPS

LEMMA Least ==
  ASSUME NEW S \in SUBSET Nat, S # {}
  PROVE  \E m \in S : \A x \in S : m <= x
<1> DEFINE Below(m) == 0 .. m-1
           T == {Below(m) : m \in S}
<1>1. IsWellFoundedOn(StrictSubsetOrdering(Nat), FiniteSubsetsOf(Nat))
  BY FS_StrictSubsetOrderingWellFounded
<1>2. T \subseteq FiniteSubsetsOf(Nat)
  <2>1. \A m \in S : IsFiniteSet(Below(m))
    BY FS_Interval
  <2>2. \A m \in S : Below(m) \in SUBSET Nat
    OBVIOUS
  <2> HIDE DEF Below
  <2> QED
    BY <2>1, <2>2 DEF FiniteSubsetsOf
<1>3. T # {}
  OBVIOUS
<1>4. PICK B \in T : \A y \in T : <<y, B>> \notin StrictSubsetOrdering(Nat)
  <2> HIDE DEF T
  <2> QED
    BY <1>1, <1>2, <1>3, WFMin
<1>5. PICK m \in S : B = Below(m)
  OBVIOUS
<1>6. ASSUME NEW x \in S, x < m PROVE FALSE
  <2>1. Below(x) \subseteq Below(m) /\ x \in Below(m) /\ x \notin Below(x)
    BY <1>6
  <2>2. <<Below(x), Below(m)>> \in StrictSubsetOrdering(Nat)
    BY <2>1 DEF StrictSubsetOrdering
  <2> QED
    BY <1>4, <1>5, <2>2
<1> QED
  BY <1>6

LEMMA Induction ==
  ASSUME NEW S, NEW n \in Nat,
         0 \in S, \A i \in 0..n-1 : i \in S => i+1 \in S
  PROVE  0..n \subseteq S
<1> SUFFICES ASSUME ~(0..n \subseteq S) PROVE FALSE
  OBVIOUS
<1> DEFINE Bad == {i \in 0..n : i \notin S}
<1>1. Bad \in SUBSET Nat /\ Bad # {}
  OBVIOUS
<1>2. PICK m \in Bad : \A x \in Bad : m <= x
  BY <1>1, Least
<1>3. m # 0 /\ m-1 \in 0..n-1 /\ m-1 \notin Bad
  BY <1>2
<1> QED
  BY <1>3

(* A finite set of natural numbers has a greatest element. *)
LEMMA Greatest ==
  ASSUME NEW S \in SUBSET Nat, S # {}, NEW n \in Nat, \A x \in S : x <= n
  PROVE  \E m \in S : \A x \in S : x <= m
<1> DEFINE U == {u \in Nat : \A x \in S : x <= u}
<1>1. PICK u \in U : \A v \in U : u <= v
  BY Least
<1>2. u \in S
  <2> SUFFICES ASSUME u \notin S PROVE FALSE
    OBVIOUS
  <2>1. u \in Nat /\ \A x \in S : x \in Nat /\ x <= u /\ x # u
    OBVIOUS
  <2> PICK x \in S : TRUE
    OBVIOUS
  <2>2. u > 0 /\ \A y \in S : y <= u-1
    BY <2>1
  <2>3. u-1 \in U
    BY <2>1, <2>2
  <2> QED
    BY <1>1, <2>2, <2>3
<1> QED
  BY <1>2

LEMMA Iterates ==
  ASSUME NEW V, NEW x \in V, NEW n \in Nat, NEW step \in [1..n -> [V -> V]]
  PROVE  \E h \in [0..n -> V] :
           h[0] = x /\ \A i \in 1..n : h[i] = step[i][h[i-1]]
<1> DEFINE Good(k, h) == h[0] = x /\ \A i \in 1..k : h[i] = step[i][h[i-1]]
           S == {k \in 0..n : \E h \in [0..k -> V] : Good(k, h)}
<1>1. 0 \in S
  <2> DEFINE h == [i \in 0..0 |-> x]
  <2>1. h \in [0..0 -> V] /\ Good(0, h)
    OBVIOUS
  <2>2. \E g \in [0..0 -> V] : Good(0, g)
    <3> HIDE DEF Good, h
    <3> QED
      BY <2>1
  <2> HIDE DEF Good
  <2> QED
    BY <2>2
<1>2. ASSUME NEW k \in 0..n-1, k \in S PROVE k+1 \in S
  <2>1. PICK h \in [0..k -> V] : Good(k, h)
    BY <1>2
  <2> DEFINE e == [i \in 0..k+1 |-> IF i = k+1 THEN step[k+1][h[k]] ELSE h[i]]
  <2>2. e \in [0..k+1 -> V]
    OBVIOUS
  <2>3. Good(k+1, e)
    BY <2>1
  <2>4. \E g \in [0..k+1 -> V] : Good(k+1, g)
    <3> HIDE DEF Good, e
    <3> QED
      BY <2>2, <2>3
  <2> HIDE DEF Good, e
  <2> QED
    BY <2>4
<1>3. 0..n \subseteq S
  <2> HIDE DEF S
  <2> QED
    BY <1>1, <1>2, Induction
<1> QED
  BY <1>3

-----------------------------------------------------------------------------
StrictOrder(R, S) ==
  /\ \A x \in S : <<x, x>> \notin R
  /\ \A x, y \in S : x = y \/ <<x, y>> \in R \/ <<y, x>> \in R
  /\ \A x, y, z \in S : <<x, y>> \in R /\ <<y, z>> \in R => <<x, z>> \in R

(* The place of x in S: how many elements do not come after it. *)
Nth(R, S, x) == Cardinality({y \in S : <<x, y>> \notin R})

LEMMA Numbering ==
  ASSUME NEW S, IsFiniteSet(S), NEW R, StrictOrder(R, S)
  PROVE  /\ Cardinality(S) \in Nat
         /\ \A x \in S : Nth(R, S, x) \in 1..Cardinality(S)
         /\ \A x, y \in S : <<x, y>> \in R => Nth(R, S, x) < Nth(R, S, y)
         /\ \A x, y \in S : Nth(R, S, x) = Nth(R, S, y) => x = y
         /\ \A k \in 1..Cardinality(S) : \E x \in S : Nth(R, S, x) = k
<1> DEFINE UpTo(x) == {y \in S : <<x, y>> \notin R}
<1>1. Cardinality(S) \in Nat
  BY FS_CardinalityType
<1>2. ASSUME NEW x \in S
      PROVE  IsFiniteSet(UpTo(x)) /\ Cardinality(UpTo(x)) \in 1..Cardinality(S)
  <2>1. UpTo(x) \in SUBSET S /\ x \in UpTo(x)
    BY DEF StrictOrder
  <2>2. IsFiniteSet(UpTo(x)) /\ Cardinality(UpTo(x)) <= Cardinality(S)
    BY <2>1, FS_Subset
  <2>3. Cardinality(UpTo(x)) \in Nat /\ Cardinality(UpTo(x)) # 0
    <3> HIDE DEF UpTo
    <3> QED
      BY <2>1, <2>2, FS_CardinalityType, FS_EmptySet
  <2> QED
    BY <1>1, <2>2, <2>3
<1>3. ASSUME NEW x \in S, NEW y \in S, <<x, y>> \in R
      PROVE  Cardinality(UpTo(x)) < Cardinality(UpTo(y))
  <2>1. UpTo(x) \in SUBSET UpTo(y)
    BY <1>3 DEF StrictOrder
  <2>2. y \in UpTo(y) /\ y \notin UpTo(x)
    BY <1>3 DEF StrictOrder
  <2>3. UpTo(x) # UpTo(y)
    BY <2>2
  <2>4. /\ Cardinality(UpTo(x)) <= Cardinality(UpTo(y))
        /\ Cardinality(UpTo(x)) # Cardinality(UpTo(y))
    <3> HIDE DEF UpTo
    <3> QED
      BY <1>2, <2>1, <2>3, FS_Subset
  <2> HIDE DEF UpTo
  <2> QED
    BY <1>2, <2>4
<1>4. ASSUME NEW x \in S, NEW y \in S, Cardinality(UpTo(x)) = Cardinality(UpTo(y))
      PROVE  x = y
  <2> SUFFICES ASSUME x # y PROVE FALSE
    OBVIOUS
  <2>1. <<x, y>> \in R \/ <<y, x>> \in R
    BY DEF StrictOrder
  <2> HIDE DEF UpTo
  <2> QED
    BY <1>2, <1>3, <1>4, <2>1
<1> DEFINE h == [x \in S |-> Cardinality(UpTo(x))]
<1>5. h \in Injection(S, 1..Cardinality(S))
  <2>1. h \in [S -> 1..Cardinality(S)]
    BY <1>2
  <2>2. \A x, y \in S : h[x] = h[y] => x = y
    <3> HIDE DEF UpTo
    <3> QED
      BY <1>4
  <2> HIDE DEF h
  <2> QED
    BY <2>1, <2>2 DEF Injection, IsInjective
<1>6. IsFiniteSet(1..Cardinality(S)) /\ Cardinality(1..Cardinality(S)) = Cardinality(S)
  BY <1>1, FS_Interval
<1>7. h \in Surjection(S, 1..Cardinality(S))
  <2> HIDE DEF h
  <2> QED
    BY <1>5, <1>6, FS_Injection
<1>8. \A k \in 1..Cardinality(S) : \E x \in S : Cardinality(UpTo(x)) = k
  <2>1. \A k \in 1..Cardinality(S) : \E x \in S : h[x] = k
    <3> HIDE DEF h
    <3> QED
      BY <1>7 DEF Surjection
  <2> QED
    BY <2>1
<1> HIDE DEF h
<1> QED
  BY <1>1, <1>2, <1>3, <1>4, <1>8 DEF Nth
================================================================================
