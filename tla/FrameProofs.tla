------------------------------ MODULE FrameProofs ------------------------------
(***************************************************************************)
(* Proofs about module Frame, for functions of any size: that the words of *)
(* a function stay apart, and where the arguments of a variadic call are,  *)
(* so that va_arg finds them.                                              *)
(***************************************************************************)
EXTENDS Frame, Recursion

-----------------------------------------------------------------------------
(* The table of conventions, and the maximum of a set. *)
LEMMA Conventions ==
  ASSUME NEW g
  PROVE  /\ g.target = "x86_64" =>
              /\ T(g).nregs = 9 /\ T(g).ncaller = 4 /\ T(g).nargregs = 6
              /\ T(g).named = 4 /\ T(g).from = 5 /\ T(g).grain = 1 /\ T(g).align = 2
              /\ T(g).reserve = 9 /\ T(g).list = 3 /\ T(g).area = 9
              /\ T(g).listSize = 3 /\ T(g).areaSize = 6
         /\ g.target = "x86" =>
              /\ T(g).nregs = 3 /\ T(g).ncaller = 0 /\ T(g).nargregs = 0
              /\ T(g).named = 0 /\ T(g).from = 0 /\ T(g).grain = 4 /\ T(g).align = 4
              /\ T(g).reserve = 0 /\ T(g).list = 0 /\ T(g).area = 0
              /\ T(g).listSize = 0 /\ T(g).areaSize = 0
         /\ g.target = "arm64" =>
              /\ T(g).nregs = 8 /\ T(g).ncaller = 3 /\ T(g).nargregs = 8
              /\ T(g).named = 3 /\ T(g).from = 4 /\ T(g).grain = 2 /\ T(g).align = 2
              /\ T(g).reserve = 16 /\ T(g).list = 4 /\ T(g).area = 8
              /\ T(g).listSize = 4 /\ T(g).areaSize = 8
         /\ g.target = "riscv" =>
              /\ T(g).nregs = 9 /\ T(g).ncaller = 4 /\ T(g).nargregs = 8
              /\ T(g).named = 4 /\ T(g).from = 4 /\ T(g).grain = 2 /\ T(g).align = 2
              /\ T(g).reserve = 16 /\ T(g).list = 4 /\ T(g).area = 8
              /\ T(g).listSize = 4 /\ T(g).areaSize = 8
         /\ g.target = "arm" =>
              /\ T(g).nregs = 8 /\ T(g).ncaller = 0 /\ T(g).nargregs = 4
              /\ T(g).named = 0 /\ T(g).from = 0 /\ T(g).grain = 2 /\ T(g).align = 1
              /\ T(g).reserve = 8 /\ T(g).list = 4 /\ T(g).area = 8
              /\ T(g).listSize = 3 /\ T(g).areaSize = 4
  BY DEF T, Target

LEMMA KnownTarget ==
  ASSUME NEW g, WellFormed(g)
  PROVE  g.target \in {"x86_64", "x86", "arm64", "riscv", "arm"}
  BY DEF WellFormed, Target

LEMMA MaxIs ==
  ASSUME NEW S \in SUBSET Int, NEW m \in S, \A x \in S : x <= m
  PROVE  Max(S) = m
<1>1. \E x \in S : \A y \in S : x >= y
  OBVIOUS
<1>2. Max(S) \in S /\ \A y \in S : Max(S) >= y
  BY <1>1, Zenon DEF Max
<1>3. Max(S) \in Int /\ m \in Int /\ Max(S) >= m /\ Max(S) <= m
  BY <1>2
<1> HIDE DEF Max
<1> QED
  BY <1>3

(* Every vreg has a slot below Slots. *)
LEMMA SlotsBound ==
  ASSUME NEW g, WellFormed(g)
  PROVE  /\ Slots(g) \in Nat \ {0}
         /\ \A v \in Vregs(g) : v \in Nat /\ v < Slots(g)
<1> DEFINE S == Vregs(g) \cup {0}
           m == IF g.nparams > 0 THEN ParamBase + g.nparams - 1
                ELSE IF g.locals > 0 THEN g.locals - 1 ELSE 0
<1>1. ParamBase \in Nat /\ g.locals \in 0..ParamBase /\ g.nparams \in Nat
  BY FrameAssumption DEF WellFormed
<1>2. /\ m \in S /\ m \in Nat
      /\ \A x \in S : x \in Nat /\ x <= m
  BY <1>1 DEF Vregs, Locals, Params
<1>3. Max(S) = m
  <2> HIDE DEF m, S
  <2> QED
    BY <1>2, MaxIs
<1> QED
  <2> HIDE DEF m
  <2> QED
    BY <1>2, <1>3 DEF Slots

(* What is saved is part of the pool. *)
LEMMA SavedInPool ==
  ASSUME NEW g, WellFormed(g)
  PROVE  /\ Regs(g) \subseteq 0..8 /\ Used(g) \subseteq Regs(g)
         /\ Saved(g) \subseteq Regs(g)
         /\ g.target \in {"x86", "riscv", "arm"} =>
              \A r \in Used(g) : r >= T(g).ncaller => r \in Saved(g)
<1>1. Used(g) \subseteq Regs(g)
  BY DEF WellFormed, Used
<1>2. Regs(g) \subseteq 0..8
  BY KnownTarget, Conventions DEF Regs
<1>3. Saved(g) \subseteq Regs(g)
  BY <1>1, KnownTarget, Conventions DEF Saved, Regs
<1>4. ASSUME g.target \in {"x86", "riscv", "arm"}, NEW r \in Used(g), r >= T(g).ncaller
      PROVE  r \in Saved(g)
  <2>1. r \in Int
    BY <1>1, <1>2
  <2>2. CASE g.target = "arm"
    BY <1>1, <2>2 DEF Saved
  <2>3. CASE g.target \in {"x86", "riscv"}
    <3>1. T(g).named = T(g).from /\ T(g).from = T(g).ncaller /\ T(g).named \in Int
      BY <2>3, Conventions
    <3> QED
      BY <1>4, <2>1, <2>3, <3>1 DEF Saved
  <2> QED
    BY <1>4, <2>2, <2>3
<1> QED
  BY <1>1, <1>2, <1>3, <1>4

(* Rank numbers what is saved from 1 on. *)
LEMMA Ranks ==
  ASSUME NEW g, WellFormed(g)
  PROVE  /\ NSaved(g) \in 0..9
         /\ \A r \in Saved(g) : Rank(g, r) \in 1..NSaved(g)
         /\ \A r, q \in Saved(g) : r < q => Rank(g, r) < Rank(g, q)
         /\ \A i \in 1..NSaved(g) : \E r \in Saved(g) : Rank(g, r) = i
<1> DEFINE S == Saved(g)
           UpTo(r) == {s \in S : s <= r}
<1>1. S \subseteq 0..8
  BY SavedInPool
<1>2. IsFiniteSet(S) /\ Cardinality(S) \in 0..9
  <2>1. S \in SUBSET Nat /\ \A r \in S : r <= 8
    BY <1>1
  <2> HIDE DEF S
  <2>2. IsFiniteSet(S) /\ Cardinality(S) <= 9
    BY <2>1, FS_BoundedSetOfNaturals
  <2> QED
    BY <2>2, FS_CardinalityType
<1>3. ASSUME NEW r \in S
      PROVE  IsFiniteSet(UpTo(r)) /\ Cardinality(UpTo(r)) \in 1..Cardinality(S)
  <2>1. UpTo(r) \in SUBSET S /\ r \in UpTo(r)
    BY <1>1
  <2>2. IsFiniteSet(UpTo(r)) /\ Cardinality(UpTo(r)) <= Cardinality(S)
    BY <1>2, <2>1, FS_Subset
  <2>3. Cardinality(UpTo(r)) \in Nat /\ Cardinality(UpTo(r)) # 0
    <3> HIDE DEF UpTo
    <3> QED
      BY <2>1, <2>2, FS_CardinalityType, FS_EmptySet
  <2> QED
    BY <1>2, <2>2, <2>3
<1>4. ASSUME NEW r \in S, NEW q \in S, r < q
      PROVE  Cardinality(UpTo(r)) < Cardinality(UpTo(q))
  <2>1. UpTo(r) \in SUBSET UpTo(q) /\ q \in UpTo(q) /\ q \notin UpTo(r)
    BY <1>1, <1>4
  <2>2. UpTo(r) # UpTo(q)
    BY <2>1
  <2>3. /\ Cardinality(UpTo(r)) <= Cardinality(UpTo(q))
        /\ Cardinality(UpTo(r)) # Cardinality(UpTo(q))
    <3> HIDE DEF UpTo
    <3> QED
      BY <1>3, <2>1, <2>2, FS_Subset
  <2> HIDE DEF UpTo
  <2> QED
    BY <1>3, <2>3
<1> DEFINE h == [r \in S |-> Cardinality(UpTo(r))]
<1>5. h \in Injection(S, 1..Cardinality(S))
  <2>1. h \in [S -> 1..Cardinality(S)]
    BY <1>3
  <2>2. \A r, q \in S : h[r] = h[q] => r = q
    <3>1. ASSUME NEW r \in S, NEW q \in S, h[r] = h[q], r # q PROVE FALSE
      <4>1. r < q \/ q < r
        BY <1>1, <3>1
      <4> HIDE DEF UpTo
      <4>2. Cardinality(UpTo(r)) \in Nat /\ Cardinality(UpTo(q)) \in Nat
        BY <1>2, <1>3
      <4> QED
        BY <1>4, <3>1, <4>1, <4>2
    <3> QED
      BY <3>1
  <2> HIDE DEF h
  <2> QED
    BY <2>1, <2>2 DEF Injection, IsInjective
<1>6. IsFiniteSet(1..Cardinality(S)) /\ Cardinality(1..Cardinality(S)) = Cardinality(S)
  BY <1>2, FS_Interval
<1>7. h \in Surjection(S, 1..Cardinality(S))
  <2> HIDE DEF h, S
  <2> QED
    BY <1>5, <1>6, FS_Injection
<1>8. \A i \in 1..Cardinality(S) : \E r \in S : Cardinality(UpTo(r)) = i
  <2>1. \A i \in 1..Cardinality(S) : \E r \in S : h[r] = i
    <3> HIDE DEF h, S
    <3> QED
      BY <1>7 DEF Surjection
  <2> QED
    BY <2>1
<1> HIDE DEF h
<1> QED
  BY <1>2, <1>3, <1>4, <1>8 DEF Rank, NSaved

LEMMA RankOnce ==
  ASSUME NEW g, WellFormed(g), NEW r \in Saved(g), NEW q \in Saved(g), r # q
  PROVE  Rank(g, r) # Rank(g, q)
<1>1. r \in Int /\ q \in Int
  BY SavedInPool
<1>2. Rank(g, r) \in Int /\ Rank(g, q) \in Int
  BY Ranks
<1>3. r < q \/ q < r
  BY <1>1
<1> QED
  BY <1>2, <1>3, Ranks

-----------------------------------------------------------------------------
(* Sizes. *)
LEMMA RoundUpBounds ==
  ASSUME NEW x \in Nat, NEW m \in {1, 2, 4}
  PROVE  RoundUp(x, m) \in Nat /\ x <= RoundUp(x, m)
<1>1. CASE m = 1
  BY <1>1 DEF RoundUp
<1>2. CASE m = 2
  BY <1>2 DEF RoundUp
<1>3. CASE m = 4
  BY <1>3 DEF RoundUp
<1> QED
  BY <1>1, <1>2, <1>3

(* The allocas lie one after the other. *)
LEMMA SumsGrow ==
  ASSUME NEW g, WellFormed(g)
  PROVE  LET n == Len(g.allocas) IN
         /\ n \in Nat /\ DOMAIN g.allocas = 1..n
         /\ \A i \in 1..n : g.allocas[i] \in Nat
         /\ Sums(g)[0] = 0
         /\ \A i \in 0..n : Sums(g)[i] \in Nat
         /\ \A i \in 1..n : Sums(g)[i-1] + g.allocas[i] <= Sums(g)[i]
         /\ \A i, j \in 0..n : i <= j => Sums(g)[i] <= Sums(g)[j]
<1> DEFINE n == Len(g.allocas)
           size(i) == RoundUp(g.allocas[i], T(g).grain)
           step == [i \in 1..n |-> [v \in Nat |-> v + size(i)]]
<1>1. /\ n \in Nat /\ DOMAIN g.allocas = 1..n
      /\ \A i \in 1..n : g.allocas[i] \in Nat
  BY DEF WellFormed
<1>2. T(g).grain \in {1, 2, 4}
  BY KnownTarget, Conventions
<1>3. \A i \in 1..n : size(i) \in Nat /\ g.allocas[i] <= size(i)
  BY <1>1, <1>2, RoundUpBounds
<1> HIDE DEF size
<1> DEFINE Step(s) == \A i \in 1..n : s[i] = s[i-1] + size(i)
<1>5. PICK h \in [0..n -> Nat] : h[0] = 0 /\ Step(h)
  <2>1. \A i \in 1..n, v \in Nat : step[i][v] = v + size(i)
    OBVIOUS
  <2> HIDE DEF step
  <2>3. \E h \in [0..n -> Nat] : h[0] = 0 /\ \A i \in 1..n : h[i] = step[i][h[i-1]]
    <3> DEFINE V == Nat
               zero == 0
    <3>1. zero \in V /\ n \in Nat
      BY <1>1
    <3>2. step \in [1..n -> [V -> V]]
      BY <1>3 DEF step
    <3>3. \E h \in [0..n -> V] : h[0] = zero /\ \A i \in 1..n : h[i] = step[i][h[i-1]]
      <4> HIDE DEF n, V, zero
      <4> QED
        BY <3>1, <3>2, Iterates
    <3> QED
      BY <3>3
  <2>4. PICK h \in [0..n -> Nat] : h[0] = 0 /\ \A i \in 1..n : h[i] = step[i][h[i-1]]
    BY <2>3
  <2>5. \A i \in 1..n : h[i-1] \in Nat
    BY <1>1
  <2>6. Step(h)
    BY <2>1, <2>4, <2>5
  <2> HIDE DEF Step
  <2> QED
    BY <2>4, <2>6
<1> HIDE DEF step
<1> DEFINE Rec(sum) == sum = [i \in 0..n |-> IF i = 0 THEN 0 ELSE sum[i-1] + size(i)]
<1>7. Rec(h)
  BY <1>1, <1>5
<1>8. Sums(g) = CHOOSE sum : Rec(sum)
  BY DEF Sums, size
<1>9. Rec(Sums(g))
  <2> HIDE DEF Rec
  <2> QED
    BY <1>7, <1>8
<1> DEFINE s == Sums(g)
<1> HIDE DEF s
<1>10. s[0] = 0 /\ Step(s)
  <2>1. s = [i \in 0..n |-> IF i = 0 THEN 0 ELSE s[i-1] + size(i)]
    BY <1>9 DEF s
  <2> HIDE DEF n
  <2> QED
    BY <1>1, <2>1
<1> HIDE DEF Rec
<1> DEFINE Fine == {i \in 0..n : \A j \in 0..i : s[j] \in Nat /\ s[j] <= s[i]}
<1>11. 0..n \subseteq Fine
  <2>1. 0 \in Fine
    BY <1>1, <1>10
  <2>2. ASSUME NEW i \in 0..n-1, i \in Fine PROVE i+1 \in Fine
    <3>1. s[i+1] = s[i] + size(i+1) /\ size(i+1) \in Nat /\ s[i] \in Nat
      BY <1>1, <1>3, <1>10, <2>2
    <3>2. \A j \in 0..i : s[j] \in Nat /\ s[j] <= s[i]
      BY <2>2
    <3>3. \A j \in 0..i+1 : j \in 0..i \/ j = i+1
      OBVIOUS
    <3> QED
      BY <1>1, <3>1, <3>2, <3>3
  <2> HIDE DEF Fine
  <2> QED
    BY <1>1, <2>1, <2>2, Induction
<1>12. /\ \A i \in 0..n : s[i] \in Nat
       /\ \A i, j \in 0..n : i <= j => s[i] <= s[j]
  <2>1. \A i \in 0..n : \A j \in 0..i : s[j] \in Nat /\ s[j] <= s[i]
    BY <1>11
  <2> HIDE DEF n
  <2> QED
    BY <1>1, <2>1
<1>13. \A i \in 1..n : s[i-1] + g.allocas[i] <= s[i]
  BY <1>1, <1>3, <1>10, <1>12
<1> HIDE DEF Step
<1> QED
  BY <1>1, <1>10, <1>12, <1>13 DEF s

LEMMA Sizes ==
  ASSUME NEW g, WellFormed(g)
  PROVE  /\ Pushes(g) \in Nat /\ Base(g) \in Nat /\ Reserved(g) \in Nat
         /\ \A i \in 0..Len(g.allocas) :
              Pred(g, i) \in Nat /\ Base(g) + Reserved(g) <= Pred(g, i) /\ Pred(g, i) <= Total(g)
         /\ g.allocas = <<>> => Total(g) = Base(g) + Reserved(g)
         /\ FrameSize(g) \in Nat /\ Total(g) <= FrameSize(g)
         /\ g.target = "arm" => FrameSize(g) = Total(g) + 1
<1> DEFINE n == Len(g.allocas)
<1>1. NSaved(g) \in Nat /\ Slots(g) \in Nat
  BY Ranks, SlotsBound
<1>2. Pushes(g) \in Nat
  BY <1>1 DEF Pushes
<1>3. Base(g) \in Nat
  BY <1>1 DEF Base
<1>4. Reserved(g) \in Nat
  BY KnownTarget, Conventions DEF Reserved
<1>5. \A i \in 0..n : Pred(g, i) \in Nat /\ Base(g) + Reserved(g) <= Pred(g, i) /\ Pred(g, i) <= Total(g)
  <2>1. n \in Nat /\ n \in 0..n /\ \A i \in 0..n : i <= n
    BY SumsGrow
  <2>2. /\ \A i \in 0..n : Sums(g)[i] \in Nat
        /\ \A i, j \in 0..n : i <= j => Sums(g)[i] <= Sums(g)[j]
    BY SumsGrow
  <2>3. \A i \in 0..n : Sums(g)[i] <= Sums(g)[n]
    BY <2>1, <2>2
  <2> QED
    BY <1>3, <1>4, <2>1, <2>2, <2>3 DEF Pred, Total
<1>6. ASSUME g.allocas = <<>> PROVE Total(g) = Base(g) + Reserved(g)
  <2>1. Len(g.allocas) = 0 /\ Sums(g)[0] = 0
    BY <1>6, SumsGrow
  <2> QED
    BY <1>3, <1>4, <2>1 DEF Total, Pred
<1>7. Total(g) \in Nat
  BY <1>5, SumsGrow DEF Total
<1>8. FrameSize(g) \in Nat /\ Total(g) <= FrameSize(g)
  <2>1. CASE g.target = "arm"
    BY <1>7, <2>1 DEF FrameSize
  <2>2. CASE g.target = "arm64"
    <3> DEFINE f == RoundUp(Total(g), 2)
    <3>1. f \in Nat /\ Total(g) <= f
      BY <1>7, RoundUpBounds
    <3> HIDE DEF f
    <3>2. Max({f, 2}) \in Nat /\ f <= Max({f, 2})
      <4>1. CASE f <= 2
        <5>1. {f, 2} \in SUBSET Int /\ 2 \in {f, 2} /\ \A x \in {f, 2} : x <= 2
          BY <3>1, <4>1
        <5>2. Max({f, 2}) = 2
          BY <5>1, MaxIs
        <5> QED
          BY <4>1, <5>2
      <4>2. CASE f > 2
        <5>1. {f, 2} \in SUBSET Int /\ f \in {f, 2} /\ \A x \in {f, 2} : x <= f
          BY <3>1, <4>2
        <5>2. Max({f, 2}) = f
          BY <5>1, MaxIs
        <5> QED
          BY <3>1, <5>2
      <4> QED
        BY <3>1, <4>1, <4>2
    <3> QED
      BY <1>7, <2>2, <3>1, <3>2 DEF FrameSize, f
  <2>3. CASE g.target \in {"x86_64", "x86", "riscv"}
    <3>1. T(g).align \in {1, 2, 4}
      BY <2>3, Conventions
    <3> QED
      BY <1>7, <2>3, <3>1, RoundUpBounds DEF FrameSize
  <2> QED
    BY <2>1, <2>2, <2>3, KnownTarget
<1>9. g.target = "arm" => FrameSize(g) = Total(g) + 1
  BY DEF FrameSize
<1> QED
  BY <1>2, <1>3, <1>4, <1>5, <1>6, <1>8, <1>9

-----------------------------------------------------------------------------
(* Where things are.  Offsets from one end of the frame to the other: a    *)
(* word of a vreg, of the list, of the area and of an alloca.              *)
LEMMA Kinds ==
  ASSUME NEW g, WellFormed(g), NEW w \in Owned(g)
  PROVE  \/ \E v \in Vregs(g) : w = Vreg(v)
         \/ g.vararg /\ \E k \in 0..T(g).listSize-1 : w = <<"list", k, 0>>
         \/ g.vararg /\ \E k \in 0..T(g).areaSize-1 : w = <<"area", k, 0>>
         \/ \E i \in 1..Len(g.allocas) : \E k \in 0..g.allocas[i]-1 : w = <<"alloca", k, i>>
<1>1. CASE w \in {Vreg(v) : v \in Vregs(g)}
  BY <1>1
<1>2. CASE w \in List(g)
  BY <1>2 DEF List, Words
<1>3. CASE w \in Area(g)
  BY <1>3 DEF Area, Words
<1>4. CASE w \in UNION {Alloca(g, i) : i \in DOMAIN g.allocas}
  <2>1. DOMAIN g.allocas = 1..Len(g.allocas)
    BY SumsGrow
  <2> QED
    BY <1>4, <2>1 DEF Alloca
<1> QED
  BY <1>1, <1>2, <1>3, <1>4 DEF Owned

LEMMA Addresses ==
  ASSUME NEW g, WellFormed(g)
  PROVE  /\ \A v : Address(g, Vreg(v)) = Slot(g, v)
         /\ \A k : Address(g, <<"list", k, 0>>) = At(g, Base(g) + T(g).list) + k
         /\ \A k : Address(g, <<"area", k, 0>>) = At(g, Base(g) + T(g).area) + k
         /\ \A k, i : Address(g, <<"alloca", k, i>>) = At(g, Pred(g, i)) + k
  BY DEF Address, Vreg

(* The frames addressed downwards: first the slots, then what is reserved, *)
(* then the allocas one below the other.                                   *)
LEMMA DownBands ==
  ASSUME NEW g, WellFormed(g), Down(g)
  PROVE  /\ StackPointer(g) \in Int /\ StackPointer(g) <= -1 - Total(g)
         /\ Slots(g) <= Base(g)
         /\ \A v \in Vregs(g) : /\ Address(g, Vreg(v)) = -2 - v
                               /\ v \in Nat /\ v < Slots(g)
         /\ g.vararg =>
              /\ \A k \in 0..T(g).listSize-1 :
                   /\ Address(g, <<"list", k, 0>>) = -4 - Base(g) + k
                   /\ k \in 0..2 /\ Reserved(g) = 9
              /\ \A k \in 0..T(g).areaSize-1 :
                   /\ Address(g, <<"area", k, 0>>) = -10 - Base(g) + k
                   /\ k \in 0..5 /\ Reserved(g) = 9
         /\ \A i \in 1..Len(g.allocas) : \A k \in 0..g.allocas[i]-1 :
              /\ Address(g, <<"alloca", k, i>>) = -1 - Pred(g, i) + k
              /\ Pred(g, i-1) + k < Pred(g, i) /\ k \in Nat
<1>1. /\ g.target = "x86_64" => NSaved(g) \in Nat /\ StackPointer(g) = -1 - FrameSize(g) - NSaved(g)
      /\ g.target = "x86" => NSaved(g) \in Nat /\ StackPointer(g) = -1 - FrameSize(g)
  BY Ranks DEF StackPointer
<1>2. g.target \in {"x86_64", "x86"}
  BY DEF Down
<1>3. FrameSize(g) \in Nat /\ Total(g) <= FrameSize(g) /\ Total(g) \in Nat
  <2>1. Len(g.allocas) \in 0..Len(g.allocas)
    BY SumsGrow
  <2> QED
    BY <2>1, Sizes DEF Total
<1>4. StackPointer(g) \in Int /\ StackPointer(g) <= -1 - Total(g)
  BY <1>1, <1>2, <1>3
<1>5. Slots(g) \in Nat /\ Slots(g) <= Base(g)
  <2>1. CASE g.target = "x86_64"
    BY <2>1, SlotsBound DEF Base
  <2>2. CASE g.target = "x86"
    BY <1>1, <2>2, SlotsBound DEF Base
  <2> QED
    BY <1>2, <2>1, <2>2
<1>6. \A off : At(g, off) = -1 - off
  BY DEF At, FramePointer
<1>7. Base(g) \in Nat
  BY Sizes
<1>8. ASSUME NEW v \in Vregs(g)
      PROVE  Address(g, Vreg(v)) = -2 - v /\ v \in Nat /\ v < Slots(g)
  <2>1. v \in Nat /\ v < Slots(g)
    BY SlotsBound
  <2>2. Address(g, Vreg(v)) = -1 - (v + 1)
    BY <1>6, Addresses DEF Slot
  <2> QED
    BY <2>1, <2>2
<1>9. ASSUME g.vararg, NEW k \in 0..T(g).listSize-1
      PROVE  Address(g, <<"list", k, 0>>) = -4 - Base(g) + k /\ k \in 0..2 /\ Reserved(g) = 9
  <2>1. g.target = "x86_64"
    BY <1>2, <1>9, Conventions
  <2>2. Address(g, <<"list", k, 0>>) = -1 - (Base(g) + T(g).list) + k
    BY <1>6, Addresses
  <2> QED
    BY <1>7, <1>9, <2>1, <2>2, Conventions DEF Reserved
<1>10. ASSUME g.vararg, NEW k \in 0..T(g).areaSize-1
       PROVE  Address(g, <<"area", k, 0>>) = -10 - Base(g) + k /\ k \in 0..5 /\ Reserved(g) = 9
  <2>1. g.target = "x86_64"
    BY <1>2, <1>10, Conventions
  <2>2. Address(g, <<"area", k, 0>>) = -1 - (Base(g) + T(g).area) + k
    BY <1>6, Addresses
  <2> QED
    BY <1>7, <1>10, <2>1, <2>2, Conventions DEF Reserved
<1>11. ASSUME NEW i \in 1..Len(g.allocas), NEW k \in 0..g.allocas[i]-1
       PROVE  /\ Address(g, <<"alloca", k, i>>) = -1 - Pred(g, i) + k
              /\ Pred(g, i-1) + k < Pred(g, i) /\ k \in Nat
  <2>1. /\ Sums(g)[i-1] \in Nat /\ Sums(g)[i] \in Nat
        /\ Sums(g)[i-1] + g.allocas[i] <= Sums(g)[i] /\ g.allocas[i] \in Nat
    BY SumsGrow
  <2>2. Reserved(g) \in Nat
    BY Sizes
  <2>3. k \in Nat /\ k < g.allocas[i]
    BY <2>1
  <2>4. Address(g, <<"alloca", k, i>>) = -1 - Pred(g, i) + k
    BY <1>6, Addresses
  <2>5. Pred(g, i-1) + k < Pred(g, i)
    <3> DEFINE c == Base(g) + Reserved(g)
               a == Sums(g)[i-1]
               b == Sums(g)[i]
               d == g.allocas[i]
    <3>1. c \in Nat
      BY <1>7, <2>2
    <3>3. a \in Nat /\ b \in Nat /\ d \in Nat /\ a + d <= b /\ k \in Nat /\ k < d
      BY <2>1, <2>3
    <3>2. Pred(g, i-1) = c + a /\ Pred(g, i) = c + b
      BY DEF Pred
    <3> HIDE DEF a, b, c, d
    <3> QED
      BY <3>1, <3>2, <3>3
  <2> QED
    BY <2>3, <2>4, <2>5
<1> QED
  BY <1>4, <1>5, <1>8, <1>9, <1>10, <1>11

(* The frames addressed upwards, without allocas; the list and the area    *)
(* end below End words from the stack pointer.                             *)
End(g) == IF g.vararg THEN Base(g) + (IF g.target = "arm" THEN 12 ELSE 16) ELSE Base(g)
LEMMA UpBands ==
  ASSUME NEW g, WellFormed(g), ~Down(g), g.allocas = <<>>
  PROVE  /\ StackPointer(g) \in Int
         /\ g.target = "arm64" => StackPointer(g) + End(g) <= -2 - 2 * Pushes(g)
         /\ g.target = "riscv" => StackPointer(g) + End(g) <= 0
         /\ g.target = "arm"   => StackPointer(g) + End(g) <= -6 /\ StackPointer(g) + Base(g) <= -10
         /\ Slots(g) <= Base(g) /\ Slots(g) \in Nat /\ Base(g) \in Nat
         /\ \A v \in Vregs(g) : /\ Address(g, Vreg(v)) = StackPointer(g) + v
                               /\ v \in Nat /\ v < Slots(g)
         /\ \A k \in 0..T(g).listSize-1 :
              /\ Address(g, <<"list", k, 0>>) = StackPointer(g) + Base(g) + 4 + k
              /\ k \in 0..3
         /\ \A k \in 0..T(g).areaSize-1 :
              /\ Address(g, <<"area", k, 0>>) = StackPointer(g) + Base(g) + 8 + k
              /\ k \in 0..7 /\ (g.vararg => Base(g) + 8 + k < End(g))
<1>1. g.target \in {"arm64", "riscv", "arm"}
  BY KnownTarget DEF Down
<1>2. /\ Base(g) \in Nat /\ Reserved(g) \in Nat /\ FrameSize(g) \in Nat /\ Pushes(g) \in Nat
      /\ Base(g) + Reserved(g) <= FrameSize(g)
      /\ g.target = "arm" => Base(g) + Reserved(g) + 1 <= FrameSize(g)
  BY Sizes
<1>3. Reserved(g) = IF ~g.vararg THEN 0 ELSE IF g.target = "arm" THEN 8 ELSE 16
  BY <1>1, Conventions DEF Reserved
<1>4. /\ g.target = "arm64" => StackPointer(g) = -2 - FrameSize(g) - 2 * Pushes(g)
      /\ g.target = "riscv" => StackPointer(g) = -FrameSize(g)
      /\ g.target = "arm"   => StackPointer(g) = -9 - FrameSize(g)
  BY DEF StackPointer
<1>5. Slots(g) <= Base(g) /\ Slots(g) \in Nat
  <2>1. NSaved(g) \in Nat /\ Slots(g) \in Nat
    BY Ranks, SlotsBound
  <2> QED
    BY <1>1, <2>1 DEF Base
<1>6. StackPointer(g) \in Int
  BY <1>1, <1>2, <1>4
<1>7. \A off : At(g, off) = StackPointer(g) + off
  BY DEF At
<1>8. ASSUME NEW v \in Vregs(g)
      PROVE  Address(g, Vreg(v)) = StackPointer(g) + v /\ v \in Nat /\ v < Slots(g)
  BY <1>7, SlotsBound, Addresses DEF Slot
<1>9. T(g).list = 4 /\ T(g).area = 8 /\ T(g).listSize \in {3, 4}
  BY <1>1, Conventions
<1>10. T(g).areaSize = IF g.target = "arm" THEN 4 ELSE 8
  BY <1>1, Conventions
<1>11. ASSUME NEW k \in 0..T(g).listSize-1
       PROVE  Address(g, <<"list", k, 0>>) = StackPointer(g) + Base(g) + 4 + k /\ k \in 0..3
  <2>1. Address(g, <<"list", k, 0>>) = StackPointer(g) + (Base(g) + T(g).list) + k
    BY <1>7, Addresses
  <2> QED
    BY <1>2, <1>6, <1>9, <2>1
<1>12. ASSUME NEW k \in 0..T(g).areaSize-1
       PROVE  /\ Address(g, <<"area", k, 0>>) = StackPointer(g) + Base(g) + 8 + k
              /\ k \in 0..7 /\ (g.vararg => Base(g) + 8 + k < End(g))
  <2>1. Address(g, <<"area", k, 0>>) = StackPointer(g) + (Base(g) + T(g).area) + k
    BY <1>7, Addresses
  <2> QED
    <3>1. k \in IF g.target = "arm" THEN 0..3 ELSE 0..7
      BY <1>10
    <3>2. Address(g, <<"area", k, 0>>) = StackPointer(g) + Base(g) + 8 + k
      BY <1>2, <1>6, <1>9, <2>1, <3>1
    <3>3. g.vararg => Base(g) + 8 + k < End(g)
      BY <1>2, <3>1 DEF End
    <3> QED
      BY <3>1, <3>2, <3>3
<1>13. /\ g.target = "arm64" => StackPointer(g) + End(g) <= -2 - 2 * Pushes(g)
       /\ g.target = "riscv" => StackPointer(g) + End(g) <= 0
       /\ g.target = "arm" => StackPointer(g) + End(g) <= -6 /\ StackPointer(g) + Base(g) <= -10
  BY <1>2, <1>3, <1>4 DEF End
<1> QED
  BY <1>2, <1>5, <1>6, <1>8, <1>11, <1>12, <1>13

(* No two words of a function share an address, and all of them lie        *)
(* between the stack pointer and what the caller owns.                     *)
LEMMA WordsInFrame ==
  ASSUME NEW g, WellFormed(g), ObjectsApart(g), NEW w \in Owned(g)
  PROVE  /\ Address(g, w) \in Int /\ StackPointer(g) \in Int
         /\ StackPointer(g) <= Address(g, w) /\ Address(g, w) < 0
<1>1. CASE Down(g)
  <2>1. StackPointer(g) \in Int /\ StackPointer(g) <= -1 - Total(g) /\ Slots(g) <= Base(g)
    BY <1>1, DownBands
  <2>2. /\ Base(g) \in Nat /\ Reserved(g) \in Nat /\ Slots(g) \in Nat
        /\ Base(g) + Reserved(g) <= Total(g) /\ Total(g) \in Nat
    <3>1. Len(g.allocas) \in 0..Len(g.allocas)
      BY SumsGrow
    <3> QED
      BY <3>1, Sizes, SlotsBound DEF Total
  <2>3. ASSUME NEW v \in Vregs(g), w = Vreg(v)
        PROVE  Address(g, w) \in Int /\ -1 - Total(g) <= Address(g, w) /\ Address(g, w) < 0
    BY <1>1, <2>1, <2>2, <2>3, DownBands
  <2>4. ASSUME g.vararg, NEW k \in 0..T(g).listSize-1, w = <<"list", k, 0>>
        PROVE  Address(g, w) \in Int /\ -1 - Total(g) <= Address(g, w) /\ Address(g, w) < 0
    BY <1>1, <2>1, <2>2, <2>4, DownBands
  <2>5. ASSUME g.vararg, NEW k \in 0..T(g).areaSize-1, w = <<"area", k, 0>>
        PROVE  Address(g, w) \in Int /\ -1 - Total(g) <= Address(g, w) /\ Address(g, w) < 0
    BY <1>1, <2>1, <2>2, <2>5, DownBands
  <2>6. ASSUME NEW i \in 1..Len(g.allocas), NEW k \in 0..g.allocas[i]-1, w = <<"alloca", k, i>>
        PROVE  Address(g, w) \in Int /\ -1 - Total(g) <= Address(g, w) /\ Address(g, w) < 0
    <3>1. /\ Address(g, w) = -1 - Pred(g, i) + k
          /\ Pred(g, i-1) + k < Pred(g, i) /\ k \in Nat
      BY <1>1, <2>6, DownBands
    <3>2. i \in 0..Len(g.allocas) /\ i-1 \in 0..Len(g.allocas)
      BY SumsGrow
    <3>3. Pred(g, i) \in Nat /\ Pred(g, i) <= Total(g) /\ Pred(g, i-1) \in Nat
      BY <3>2, Sizes
    <3> QED
      BY <2>2, <3>1, <3>3
  <2>7. Address(g, w) \in Int /\ -1 - Total(g) <= Address(g, w) /\ Address(g, w) < 0
    BY <2>3, <2>4, <2>5, <2>6, Kinds
  <2> QED
    BY <2>1, <2>2, <2>7
<1>2. CASE ~Down(g)
  <2>1. g.allocas = <<>> /\ Len(g.allocas) = 0
    BY <1>2 DEF ObjectsApart
  <2>2. StackPointer(g) \in Int /\ StackPointer(g) + End(g) <= 0 /\ End(g) \in Nat
    <3>1. Base(g) \in Nat /\ Pushes(g) \in Nat
      BY Sizes
    <3>2. End(g) \in Nat
      BY <3>1 DEF End
    <3> QED
      BY <1>2, <2>1, <3>1, <3>2, UpBands, KnownTarget DEF Down
  <2>3. Slots(g) <= Base(g) /\ Slots(g) \in Nat /\ Base(g) \in Nat /\ Base(g) <= End(g)
    <3>1. Slots(g) <= Base(g) /\ Slots(g) \in Nat /\ Base(g) \in Nat
      BY <1>2, <2>1, UpBands
    <3> QED
      BY <3>1 DEF End
  <2>4. g.vararg => Base(g) + 12 <= End(g)
    BY <2>3 DEF End
  <2>5. ASSUME NEW v \in Vregs(g), w = Vreg(v)
        PROVE  Address(g, w) \in Int /\ StackPointer(g) <= Address(g, w) /\ Address(g, w) < 0
    <3>1. Address(g, w) = StackPointer(g) + v /\ v \in Nat /\ v < Slots(g)
      BY <1>2, <2>1, <2>5, UpBands
    <3> QED
      BY <2>2, <2>3, <3>1
  <2>6. ASSUME g.vararg, NEW k \in 0..T(g).listSize-1, w = <<"list", k, 0>>
        PROVE  Address(g, w) \in Int /\ StackPointer(g) <= Address(g, w) /\ Address(g, w) < 0
    <3>1. Address(g, w) = StackPointer(g) + Base(g) + 4 + k /\ k \in 0..3
      BY <1>2, <2>1, <2>6, UpBands
    <3> QED
      BY <2>2, <2>3, <2>4, <2>6, <3>1
  <2>7. ASSUME g.vararg, NEW k \in 0..T(g).areaSize-1, w = <<"area", k, 0>>
        PROVE  Address(g, w) \in Int /\ StackPointer(g) <= Address(g, w) /\ Address(g, w) < 0
    <3>1. Address(g, w) = StackPointer(g) + Base(g) + 8 + k /\ Base(g) + 8 + k < End(g) /\ k \in Nat
      BY <1>2, <2>1, <2>7, UpBands
    <3> QED
      BY <2>2, <2>3, <2>7, <3>1
  <2> QED
    BY <2>1, <2>2, <2>5, <2>6, <2>7, Kinds
<1> QED
  BY <1>1, <1>2

LEMMA DownApart ==
  ASSUME NEW g, WellFormed(g), Down(g), NEW w \in Owned(g), NEW x \in Owned(g),
         Address(g, w) = Address(g, x)
  PROVE  w = x
<1> DEFINE A(u) == Address(g, u)
           B == Base(g)
           n == Len(g.allocas)
<1>1. B \in Nat /\ Slots(g) <= B /\ Slots(g) \in Nat
  BY DownBands, Sizes, SlotsBound
<1>2. \A v \in Vregs(g) : A(Vreg(v)) = -2 - v /\ v \in Nat /\ A(Vreg(v)) \in Int /\ A(Vreg(v)) >= -1 - B
  BY <1>1, DownBands
<1>3. g.vararg => \A k \in 0..T(g).listSize-1 :
                    /\ A(<<"list", k, 0>>) = -4 - B + k
                    /\ k \in 0..2 /\ Reserved(g) = 9
  BY <1>1, DownBands
<1>4. g.vararg => \A k \in 0..T(g).areaSize-1 :
                    /\ A(<<"area", k, 0>>) = -10 - B + k
                    /\ k \in 0..5 /\ Reserved(g) = 9
  BY <1>1, DownBands
<1>5. /\ n \in Nat
      /\ \A i \in 0..n : Pred(g, i) \in Nat /\ Pred(g, i) >= B + Reserved(g)
      /\ Reserved(g) \in Nat
  BY Sizes, SumsGrow
<1>6. \A i, j \in 0..n : i <= j => Pred(g, i) <= Pred(g, j)
  <2>1. /\ \A i \in 0..n : Sums(g)[i] \in Nat
        /\ \A i, j \in 0..n : i <= j => Sums(g)[i] <= Sums(g)[j]
    BY SumsGrow
  <2> QED
    BY <1>1, <1>5, <2>1 DEF Pred
<1>7. \A i \in 1..n : \A k \in 0..g.allocas[i]-1 :
        /\ A(<<"alloca", k, i>>) = -1 - Pred(g, i) + k
        /\ k \in Nat /\ Pred(g, i-1) + k < Pred(g, i)
        /\ A(<<"alloca", k, i>>) <= -2 - B - Reserved(g)
  <2> TAKE i \in 1..n
  <2> TAKE k \in 0..g.allocas[i]-1
  <2>1. /\ A(<<"alloca", k, i>>) = -1 - Pred(g, i) + k
        /\ k \in Nat /\ Pred(g, i-1) + k < Pred(g, i)
    BY DownBands
  <2>2. i \in 0..n /\ i-1 \in 0..n
    BY <1>5
  <2>3. Pred(g, i) \in Nat /\ Pred(g, i-1) \in Nat /\ Pred(g, i-1) >= B + Reserved(g)
    BY <1>5, <2>2
  <2> QED
    BY <1>1, <1>5, <2>1, <2>3
<1> DEFINE IsVreg(u) == \E v \in Vregs(g) : u = Vreg(v)
           IsList(u) == g.vararg /\ \E k \in 0..T(g).listSize-1 : u = <<"list", k, 0>>
           IsArea(u) == g.vararg /\ \E k \in 0..T(g).areaSize-1 : u = <<"area", k, 0>>
           IsAlloca(u) == \E i \in 1..n : \E k \in 0..g.allocas[i]-1 : u = <<"alloca", k, i>>
<1>8. \A u \in Owned(g) : IsVreg(u) \/ IsList(u) \/ IsArea(u) \/ IsAlloca(u)
  BY Kinds
<1>9. A(w) = A(x)
  OBVIOUS
<1> HIDE DEF A, B, n
<1>a. \A u : IsVreg(u) => A(u) \in Int /\ A(u) >= -1 - B
  BY <1>2
<1>b. \A u : IsList(u) => A(u) \in Int /\ A(u) >= -4 - B /\ A(u) <= -2 - B /\ Reserved(g) = 9
  BY <1>1, <1>3
<1>c. \A u : IsArea(u) => A(u) \in Int /\ A(u) >= -10 - B /\ A(u) <= -5 - B /\ Reserved(g) = 9
  BY <1>1, <1>4
<1>d. \A u : IsAlloca(u) => A(u) \in Int /\ A(u) <= -2 - B - Reserved(g)
  <2> SUFFICES ASSUME NEW i \in 1..n, NEW k \in 0..g.allocas[i]-1
               PROVE  LET u == <<"alloca", k, i>> IN A(u) \in Int /\ A(u) <= -2 - B - Reserved(g)
    OBVIOUS
  <2>1. i \in 0..n
    BY <1>5
  <2> QED
    BY <1>5, <1>7, <2>1
<1>10. CASE IsVreg(w)
  <2>1. IsVreg(x)
    <3> HIDE DEF IsVreg, IsList, IsArea, IsAlloca
    <3> QED
      BY <1>1, <1>5, <1>8, <1>9, <1>a, <1>b, <1>c, <1>d, <1>10
  <2> QED
    BY <1>2, <1>9, <1>10, <2>1
<1>12. CASE IsList(w)
  <2>1. IsList(x)
    <3> HIDE DEF IsVreg, IsList, IsArea, IsAlloca
    <3> QED
      BY <1>1, <1>5, <1>8, <1>9, <1>a, <1>b, <1>c, <1>d, <1>12
  <2> QED
    BY <1>1, <1>3, <1>9, <1>12, <2>1
<1>13. CASE IsArea(w)
  <2>1. IsArea(x)
    <3> HIDE DEF IsVreg, IsList, IsArea, IsAlloca
    <3> QED
      BY <1>1, <1>5, <1>8, <1>9, <1>a, <1>b, <1>c, <1>d, <1>13
  <2> QED
    BY <1>1, <1>4, <1>9, <1>13, <2>1
<1>11. CASE IsAlloca(w)
  <2> PICK i \in 1..n : \E k \in 0..g.allocas[i]-1 : w = <<"alloca", k, i>>
    BY <1>11
  <2>1. PICK k \in 0..g.allocas[i]-1 : w = <<"alloca", k, i>>
    OBVIOUS
  <2>2. /\ A(w) = -1 - Pred(g, i) + k /\ k \in Nat /\ Pred(g, i-1) + k < Pred(g, i)
        /\ Pred(g, i) \in Nat
    BY <1>5, <1>7, <2>1
  <2>3. IsAlloca(x)
    <3> HIDE DEF IsVreg, IsList, IsArea, IsAlloca
    <3> QED
      BY <1>1, <1>5, <1>8, <1>9, <1>a, <1>b, <1>c, <1>d, <1>11
  <2> PICK j \in 1..n : \E m \in 0..g.allocas[j]-1 : x = <<"alloca", m, j>>
    BY <2>3
  <2>4. PICK m \in 0..g.allocas[j]-1 : x = <<"alloca", m, j>>
    OBVIOUS
  <2>5. /\ A(x) = -1 - Pred(g, j) + m /\ m \in Nat /\ Pred(g, j-1) + m < Pred(g, j)
        /\ Pred(g, j) \in Nat
    BY <1>5, <1>7, <2>4
  <2>7. ~(i < j) /\ ~(j < i)
    <3>1. i \in 0..n /\ j \in 0..n /\ i-1 \in 0..n /\ j-1 \in 0..n
      BY <1>5
    <3>2. Pred(g, i-1) \in Nat /\ Pred(g, j-1) \in Nat
      BY <1>5, <3>1
    <3>3. i < j => Pred(g, i) <= Pred(g, j-1)
      BY <1>5, <1>6, <3>1
    <3>4. j < i => Pred(g, j) <= Pred(g, i-1)
      BY <1>5, <1>6, <3>1
    <3> QED
      BY <2>2, <2>5, <1>9, <3>2, <3>3, <3>4
  <2> QED
    BY <1>5, <2>1, <2>2, <2>4, <2>5, <1>9, <2>7
<1> QED
  BY <1>8, <1>10, <1>11, <1>12, <1>13

LEMMA UpApart ==
  ASSUME NEW g, WellFormed(g), ~Down(g), g.allocas = <<>>,
         NEW w \in Owned(g), NEW x \in Owned(g), Address(g, w) = Address(g, x)
  PROVE  w = x
<1> DEFINE A(u) == Address(g, u)
           S == StackPointer(g)
           B == Base(g)
<1>1. S \in Int /\ B \in Nat /\ Slots(g) <= B /\ Slots(g) \in Nat
  BY UpBands
<1>2. \A v \in Vregs(g) : A(Vreg(v)) = S + v /\ v \in Nat /\ v < B
  BY <1>1, UpBands
<1>3. \A k \in 0..T(g).listSize-1 : A(<<"list", k, 0>>) = S + B + 4 + k /\ k \in 0..3
  BY UpBands
<1>4. \A k \in 0..T(g).areaSize-1 : A(<<"area", k, 0>>) = S + B + 8 + k /\ k \in 0..7
  BY UpBands
<1>5. \A u \in Owned(g) :
        \/ \E v \in Vregs(g) : u = Vreg(v)
        \/ \E k \in 0..T(g).listSize-1 : u = <<"list", k, 0>>
        \/ \E k \in 0..T(g).areaSize-1 : u = <<"area", k, 0>>
  <2>1. Len(g.allocas) = 0
    OBVIOUS
  <2> QED
    BY <2>1, Kinds
<1>6. A(w) = A(x)
  OBVIOUS
<1> HIDE DEF A, S, B
<1>7. CASE \E v \in Vregs(g) : w = Vreg(v)
  <2>1. A(w) \in Int /\ A(w) < S + B
    BY <1>1, <1>2, <1>7
  <2>2. \E v \in Vregs(g) : x = Vreg(v)
    BY <1>1, <1>3, <1>4, <1>5, <1>6, <2>1
  <2> QED
    BY <1>1, <1>2, <1>6, <1>7, <2>2
<1>8. CASE \E k \in 0..T(g).listSize-1 : w = <<"list", k, 0>>
  <2>1. \E k \in 0..T(g).listSize-1 : x = <<"list", k, 0>>
    BY <1>1, <1>2, <1>3, <1>4, <1>5, <1>6, <1>8
  <2> QED
    BY <1>1, <1>3, <1>6, <1>8, <2>1
<1>9. CASE \E k \in 0..T(g).areaSize-1 : w = <<"area", k, 0>>
  <2>1. \E k \in 0..T(g).areaSize-1 : x = <<"area", k, 0>>
    BY <1>1, <1>2, <1>3, <1>4, <1>5, <1>6, <1>9
  <2> QED
    BY <1>1, <1>4, <1>6, <1>9, <2>1
<1> QED
  BY <1>5, <1>7, <1>8, <1>9

LEMMA WordsApart ==
  ASSUME NEW g, WellFormed(g), ObjectsApart(g), NEW w \in Owned(g), NEW x \in Owned(g),
         Address(g, w) = Address(g, x)
  PROVE  w = x
  BY DownApart, UpApart DEF ObjectsApart

LEMMA StackBelow ==
  ASSUME NEW g, WellFormed(g)
  PROVE  StackPointer(g) \in Int /\ StackPointer(g) <= 0
<1>1. FrameSize(g) \in Nat /\ Pushes(g) \in Nat /\ NSaved(g) \in Nat
  BY Sizes, Ranks
<1> QED
  BY <1>1, KnownTarget DEF StackPointer

(* Where the prologue puts what it saves: in the frame of the function. *)
StoredLinks(g) == IF Down(g) THEN {Fp} ELSE Links(g)
LEMMA SavedInFrame ==
  ASSUME NEW g, WellFormed(g), ObjectsApart(g)
  PROVE  /\ \A r \in Saved(g) : /\ SavedAt(g, r) \in Int
                               /\ StackPointer(g) <= SavedAt(g, r) /\ SavedAt(g, r) < 0
         /\ \A l \in StoredLinks(g) : /\ LinkAt(g, l) \in Int
                                     /\ StackPointer(g) <= LinkAt(g, l) /\ LinkAt(g, l) < 0
<1> DEFINE In(a) == a \in Int /\ StackPointer(g) <= a /\ a < 0
<1>1. /\ FrameSize(g) \in Nat /\ Pushes(g) \in Nat /\ Base(g) \in Nat
      /\ Base(g) <= FrameSize(g)
  <2>1. Len(g.allocas) \in 0..Len(g.allocas)
    BY SumsGrow
  <2>2. /\ FrameSize(g) \in Nat /\ Pushes(g) \in Nat /\ Base(g) \in Nat /\ Reserved(g) \in Nat
        /\ Total(g) \in Nat /\ Base(g) + Reserved(g) <= Total(g) /\ Total(g) <= FrameSize(g)
    BY <2>1, Sizes DEF Total
  <2> QED
    BY <2>2
<1>2. /\ NSaved(g) \in Nat
      /\ \A r \in Saved(g) : Rank(g, r) \in Nat /\ 1 <= Rank(g, r) /\ Rank(g, r) <= NSaved(g)
  BY Ranks
<1>3. Slots(g) \in Nat
  BY SlotsBound
<1>4. CASE g.target = "x86_64"
  <2>1. StackPointer(g) = -1 - FrameSize(g) - NSaved(g) /\ Down(g)
    BY <1>4 DEF StackPointer, Down
  <2>2. \A r \in Saved(g) : SavedAt(g, r) = -1 - FrameSize(g) - Rank(g, r)
    BY <1>4 DEF SavedAt
  <2>3. StoredLinks(g) = {Fp} /\ LinkAt(g, Fp) = -1
    BY <1>4 DEF StoredLinks, LinkAt, Down
  <2>4. \A r \in Saved(g) : In(SavedAt(g, r))
    BY <1>1, <1>2, <2>1, <2>2
  <2>5. In(LinkAt(g, Fp))
    BY <1>1, <1>2, <2>1, <2>3
  <2> QED
    BY <2>3, <2>4, <2>5
<1>5. CASE g.target = "x86"
  <2>1. StackPointer(g) = -1 - FrameSize(g) /\ Down(g) /\ Base(g) = Slots(g) + NSaved(g)
    BY <1>5 DEF StackPointer, Down, Base
  <2>2. \A r \in Saved(g) : SavedAt(g, r) = -1 - (Slots(g) + Rank(g, r))
    BY <1>5, <2>1 DEF SavedAt, At, FramePointer
  <2>3. StoredLinks(g) = {Fp} /\ LinkAt(g, Fp) = -1
    BY <1>5 DEF StoredLinks, LinkAt, Down
  <2>4. ASSUME NEW r \in Saved(g) PROVE In(SavedAt(g, r))
    <3> DEFINE A == SavedAt(g, r)
               R == Rank(g, r)
               K == NSaved(g)
               S == Slots(g)
               B == Base(g)
               F == FrameSize(g)
               P == StackPointer(g)
    <3>1. R \in Nat /\ 1 <= R /\ R <= K /\ K \in Nat /\ S \in Nat /\ B <= F /\ F \in Nat
      BY <1>1, <1>2, <1>3
    <3>2. P = -1 - F /\ B = S + K /\ A = -1 - (S + R)
      BY <2>1, <2>2
    <3> HIDE DEF A, R, K, S, B, F, P
    <3>3. A \in Int /\ P <= A /\ A < 0
      BY <3>1, <3>2
    <3> QED
      BY <3>3 DEF A, P
  <2>5. In(LinkAt(g, Fp))
    BY <1>1, <2>1, <2>3
  <2> QED
    BY <2>3, <2>4, <2>5
<1>6. CASE g.target = "arm64"
  <2>1. StackPointer(g) = -2 - FrameSize(g) - 2 * Pushes(g) /\ ~Down(g)
    BY <1>6 DEF StackPointer, Down
  <2>2. StoredLinks(g) = {Fp, Ra} /\ LinkAt(g, Fp) = -2 /\ LinkAt(g, Ra) = -1
    BY <1>6, <2>1 DEF StoredLinks, Links, LinkAt, Fp, Ra
  <2>3. ASSUME NEW r \in Saved(g) PROVE In(SavedAt(g, r))
    <3>1. Pushes(g) = IF NSaved(g) <= 1 THEN NSaved(g) ELSE NSaved(g) - 1
      BY DEF Pushes
    <3>2. CASE Rank(g, r) <= 2
      <4>1. Max({Rank(g, r) - 1, 1}) = 1
        <5>1. /\ {Rank(g, r) - 1, 1} \in SUBSET Int /\ 1 \in {Rank(g, r) - 1, 1}
              /\ \A x \in {Rank(g, r) - 1, 1} : x <= 1
          BY <1>2, <3>2
        <5> QED
          BY <5>1, MaxIs
      <4>2. SavedAt(g, r) \in {-4 - FrameSize(g), -3 - FrameSize(g)}
        BY <1>1, <1>6, <4>1 DEF SavedAt
      <4>3. Pushes(g) >= 1
        BY <1>2, <3>1
      <4> QED
        BY <1>1, <2>1, <4>2, <4>3
    <3>3. CASE Rank(g, r) > 2
      <4>1. Max({Rank(g, r) - 1, 1}) = Rank(g, r) - 1
        <5>1. /\ {Rank(g, r) - 1, 1} \in SUBSET Int /\ Rank(g, r) - 1 \in {Rank(g, r) - 1, 1}
              /\ \A x \in {Rank(g, r) - 1, 1} : x <= Rank(g, r) - 1
          BY <1>2, <3>3
        <5> QED
          BY <5>1, MaxIs
      <4>2. SavedAt(g, r) = -2 - FrameSize(g) - 2 * (Rank(g, r) - 1)
        BY <1>6, <3>3, <4>1 DEF SavedAt
      <4>3. Pushes(g) >= Rank(g, r) - 1
        BY <1>2, <3>1
      <4> QED
        BY <1>1, <1>2, <2>1, <4>2, <4>3
    <3> QED
      BY <1>2, <3>2, <3>3
  <2>4. In(-2) /\ In(-1)
    BY <1>1, <2>1
  <2> QED
    BY <2>2, <2>3, <2>4
<1>7. CASE g.target = "riscv"
  <2>1. /\ StackPointer(g) = -FrameSize(g) /\ ~Down(g)
        /\ Base(g) = Slots(g) + 1 + NSaved(g)
    BY <1>7 DEF StackPointer, Down, Base
  <2>2. \A r \in Saved(g) : SavedAt(g, r) = StackPointer(g) + (Slots(g) + Rank(g, r))
    BY <1>7, <2>1 DEF SavedAt, At
  <2>3. StoredLinks(g) = {Ra} /\ LinkAt(g, Ra) = StackPointer(g) + Slots(g)
    BY <1>7, <2>1 DEF StoredLinks, Links, LinkAt, At
  <2>4. ASSUME NEW r \in Saved(g) PROVE In(SavedAt(g, r))
    <3> DEFINE A == SavedAt(g, r)
               R == Rank(g, r)
               K == NSaved(g)
               S == Slots(g)
               B == Base(g)
               F == FrameSize(g)
               P == StackPointer(g)
    <3>1. R \in Nat /\ 1 <= R /\ R <= K /\ K \in Nat /\ S \in Nat /\ B <= F /\ F \in Nat
      BY <1>1, <1>2, <1>3
    <3>2. P = -F /\ B = S + 1 + K /\ A = P + (S + R)
      BY <2>1, <2>2
    <3> HIDE DEF A, R, K, S, B, F, P
    <3>3. A \in Int /\ P <= A /\ A < 0
      BY <3>1, <3>2
    <3> QED
      BY <3>3 DEF A, P
  <2>5. In(LinkAt(g, Ra))
    <3> DEFINE A == LinkAt(g, Ra)
               K == NSaved(g)
               S == Slots(g)
               B == Base(g)
               F == FrameSize(g)
               P == StackPointer(g)
    <3>1. K \in Nat /\ S \in Nat /\ B <= F /\ F \in Nat
      BY <1>1, <1>2, <1>3
    <3>2. P = -F /\ B = S + 1 + K /\ A = P + S
      BY <2>1, <2>3
    <3> HIDE DEF A, K, S, B, F, P
    <3>3. A \in Int /\ P <= A /\ A < 0
      BY <3>1, <3>2
    <3> QED
      BY <3>3 DEF A, P
  <2> QED
    BY <2>3, <2>4, <2>5
<1>8. CASE g.target = "arm"
  <2>1. StackPointer(g) = -9 - FrameSize(g) /\ ~Down(g)
    BY <1>8 DEF StackPointer, Down
  <2>2. \A r \in Saved(g) : SavedAt(g, r) = -9 + r /\ r \in 0..7
    <3>1. Saved(g) \subseteq 0..7
      BY <1>8, SavedInPool, Conventions DEF Regs
    <3> QED
      BY <1>8, <3>1 DEF SavedAt
  <2>3. StoredLinks(g) = {Ra} /\ LinkAt(g, Ra) = -1
    BY <1>8, <2>1 DEF StoredLinks, Links, LinkAt
  <2>4. \A r \in Saved(g) : In(SavedAt(g, r))
    BY <1>1, <2>1, <2>2
  <2>5. In(LinkAt(g, Ra))
    BY <1>1, <2>1, <2>3
  <2> QED
    BY <2>3, <2>4, <2>5
<1> QED
  BY <1>4, <1>5, <1>6, <1>7, <1>8, KnownTarget

LEMMA DownMissFp ==
  ASSUME NEW g, WellFormed(g), Down(g), NEW w \in Owned(g)
  PROVE  Address(g, w) # -1
<1>1. Base(g) \in Nat /\ Slots(g) \in Nat
  BY Sizes, SlotsBound
<1>2. CASE \E v \in Vregs(g) : w = Vreg(v)
  BY <1>2, DownBands
<1>3. CASE g.vararg /\ \E k \in 0..T(g).listSize-1 : w = <<"list", k, 0>>
  BY <1>1, <1>3, DownBands
<1>4. CASE g.vararg /\ \E k \in 0..T(g).areaSize-1 : w = <<"area", k, 0>>
  BY <1>1, <1>4, DownBands
<1>5. CASE \E i \in 1..Len(g.allocas) : \E k \in 0..g.allocas[i]-1 : w = <<"alloca", k, i>>
  <2> PICK i \in 1..Len(g.allocas) : \E k \in 0..g.allocas[i]-1 : w = <<"alloca", k, i>>
    BY <1>5
  <2>1. PICK k \in 0..g.allocas[i]-1 : w = <<"alloca", k, i>>
    OBVIOUS
  <2>2. /\ Address(g, w) = -1 - Pred(g, i) + k
        /\ Pred(g, i-1) + k < Pred(g, i) /\ k \in Nat
    BY <2>1, DownBands
  <2>3. i \in 0..Len(g.allocas) /\ i-1 \in 0..Len(g.allocas)
    BY SumsGrow
  <2>4. Pred(g, i) \in Nat /\ Pred(g, i-1) \in Nat
    BY <2>3, Sizes
  <2> QED
    BY <2>2, <2>4
<1> QED
  BY <1>2, <1>3, <1>4, <1>5, Kinds

LEMMA UpBelowEnd ==
  ASSUME NEW g, WellFormed(g), ~Down(g), g.allocas = <<>>, NEW w \in Owned(g)
  PROVE  Address(g, w) \in Int /\ Address(g, w) < StackPointer(g) + End(g)
<1>1. /\ StackPointer(g) \in Int /\ Slots(g) <= Base(g) /\ Slots(g) \in Nat /\ Base(g) \in Nat
  BY UpBands
<1>2. Base(g) <= End(g) /\ End(g) \in Nat /\ (g.vararg => Base(g) + 12 <= End(g))
  BY <1>1 DEF End
<1>3. CASE \E v \in Vregs(g) : w = Vreg(v)
  BY <1>1, <1>2, <1>3, UpBands
<1>4. ASSUME g.vararg, NEW k \in 0..T(g).listSize-1, w = <<"list", k, 0>>
      PROVE  Address(g, w) \in Int /\ Address(g, w) < StackPointer(g) + End(g)
  <2>1. Address(g, w) = StackPointer(g) + Base(g) + 4 + k /\ k \in 0..3
    BY <1>4, UpBands
  <2> QED
    BY <1>1, <1>2, <1>4, <2>1
<1>5. ASSUME g.vararg, NEW k \in 0..T(g).areaSize-1, w = <<"area", k, 0>>
      PROVE  Address(g, w) \in Int /\ Address(g, w) < StackPointer(g) + End(g)
  <2>1. Address(g, w) = StackPointer(g) + Base(g) + 8 + k /\ Base(g) + 8 + k < End(g) /\ k \in 0..7
    BY <1>5, UpBands
  <2> QED
    BY <1>1, <1>2, <1>5, <2>1
<1>6. Len(g.allocas) = 0
  OBVIOUS
<1> QED
  BY <1>3, <1>4, <1>5, <1>6, Kinds

LEMMA NothingSaved ==
  ASSUME NEW g, WellFormed(g), SavesKept(g), g.target \in {"x86_64", "arm64"}
  PROVE  Saved(g) = {}
<1>1. T(g).ncaller < T(g).from /\ T(g).ncaller \in Int /\ T(g).from \in Int
  BY Conventions
<1>2. \A r \in Used(g) : r \in Int /\ r < T(g).ncaller
  BY SavedInPool DEF SavesKept
<1>3. {q \in Used(g) : q >= T(g).from} = {}
  BY <1>1, <1>2
<1> QED
  BY <1>3 DEF Saved

(* Where the prologue puts a register no other store goes, and there the   *)
(* epilogue looks for it.                                                  *)
LEMMA SavedApart ==
  ASSUME NEW g, WellFormed(g), ObjectsApart(g), SavesKept(g)
  PROVE  /\ \A r \in Saved(g) :
              /\ RestoredFrom(g, r) = SavedAt(g, r)
              /\ \A q \in Saved(g) : q # r => SavedAt(g, q) # SavedAt(g, r)
              /\ \A l \in StoredLinks(g) : LinkAt(g, l) # SavedAt(g, r)
              /\ \A w \in Owned(g) : Address(g, w) # SavedAt(g, r)
         /\ \A l \in StoredLinks(g) : \A w \in Owned(g) : Address(g, w) # LinkAt(g, l)
         /\ \A l, m \in StoredLinks(g) : l # m => LinkAt(g, l) # LinkAt(g, m)
<1>1. /\ NSaved(g) \in Nat
      /\ \A r \in Saved(g) : Rank(g, r) \in Nat /\ 1 <= Rank(g, r) /\ Rank(g, r) <= NSaved(g)
  BY Ranks
<1>2. \A r, q \in Saved(g) : r # q => Rank(g, r) # Rank(g, q)
  BY RankOnce
<1>3. Slots(g) \in Nat
  BY SlotsBound
<1>4. CASE g.target = "x86_64"
  <2>1. Saved(g) = {} /\ StoredLinks(g) = {Fp} /\ LinkAt(g, Fp) = -1 /\ Down(g)
    BY <1>4, NothingSaved DEF StoredLinks, LinkAt, Down
  <2>2. \A w \in Owned(g) : Address(g, w) # -1
    BY <2>1, DownMissFp
  <2> QED
    BY <2>1, <2>2
<1>5. CASE g.target = "x86"
  <2>1. StoredLinks(g) = {Fp} /\ LinkAt(g, Fp) = -1 /\ Down(g) /\ Base(g) = Slots(g) + NSaved(g)
    BY <1>5 DEF StoredLinks, LinkAt, Down, Base
  <2>2. \A w \in Owned(g) : Address(g, w) # -1
    BY <2>1, DownMissFp
  <2>3. \A r \in Saved(g) : SavedAt(g, r) = -1 - Slots(g) - Rank(g, r)
    <3> TAKE r \in Saved(g)
    <3>1. SavedAt(g, r) = -1 - (Slots(g) + Rank(g, r))
      BY <1>5, <2>1 DEF SavedAt, At, FramePointer
    <3> QED
      BY <1>1, <1>3, <3>1
  <2>4. ASSUME NEW r \in Saved(g), NEW w \in Owned(g) PROVE Address(g, w) # SavedAt(g, r)
    <3>1. CASE \E v \in Vregs(g) : w = Vreg(v)
      BY <1>1, <1>3, <2>1, <2>3, <3>1, DownBands
    <3>2. CASE \E i \in 1..Len(g.allocas) : \E k \in 0..g.allocas[i]-1 : w = <<"alloca", k, i>>
      <4> PICK i \in 1..Len(g.allocas) : \E k \in 0..g.allocas[i]-1 : w = <<"alloca", k, i>>
        BY <3>2
      <4>1. PICK k \in 0..g.allocas[i]-1 : w = <<"alloca", k, i>>
        OBVIOUS
      <4>2. /\ Address(g, w) = -1 - Pred(g, i) + k
            /\ Pred(g, i-1) + k < Pred(g, i) /\ k \in Nat
        BY <2>1, <4>1, DownBands
      <4>3. i \in 0..Len(g.allocas) /\ i-1 \in 0..Len(g.allocas)
        BY SumsGrow
      <4>4. /\ Pred(g, i) \in Nat /\ Pred(g, i-1) \in Nat /\ Base(g) + Reserved(g) <= Pred(g, i-1)
            /\ Reserved(g) \in Nat /\ Base(g) \in Nat
        BY <4>3, Sizes
      <4>5. Address(g, w) < -1 - Base(g) /\ Address(g, w) \in Int
        BY <4>2, <4>4
      <4>6. SavedAt(g, r) >= -1 - Base(g) /\ SavedAt(g, r) \in Int
        BY <1>1, <1>3, <2>1, <2>3
      <4> QED
        BY <4>4, <4>5, <4>6
    <3>3. T(g).listSize = 0 /\ T(g).areaSize = 0
      BY <1>5, Conventions
    <3> QED
      BY <3>1, <3>2, <3>3, Kinds
  <2>5. ASSUME NEW r \in Saved(g) PROVE RestoredFrom(g, r) = SavedAt(g, r)
    <3>1. Saved(g) = Used(g) /\ Used(g) \subseteq Regs(g) /\ Regs(g) = 0..2
      <4>1. T(g).named = 0 /\ T(g).from = 0 /\ Regs(g) = 0..2
        BY <1>5, Conventions DEF Regs
      <4>2. Used(g) \subseteq 0..2
        BY <4>1, SavedInPool
      <4> QED
        BY <1>5, <4>1, <4>2 DEF Saved
    <3>2. {s \in Saved(g) : s <= r} = 0..r
      BY <1>5, <3>1 DEF SavesKept
    <3>3. r \in Nat
      BY <3>1
    <3>4. Rank(g, r) = r + 1
      <4>1. \A a, b \in Int : Cardinality(a..b) = IF a > b THEN 0 ELSE b - a + 1
        BY FS_Interval
      <4>2. Cardinality(0..r) = IF 0 > r THEN 0 ELSE r - 0 + 1
        BY <3>3, <4>1
      <4>3. Cardinality(0..r) = r + 1
        BY <3>3, <4>2
      <4>4. Rank(g, r) = Cardinality(0..r)
        BY <3>2, Zenon DEF Rank
      <4> QED
        BY <4>3, <4>4
    <3>5. RestoredFrom(g, r) = -1 - (Slots(g) + r + 1)
      BY <1>5, <2>1 DEF RestoredFrom, At, FramePointer
    <3> QED
      BY <1>3, <2>3, <3>3, <3>4, <3>5
  <2>6. \A r \in Saved(g) : SavedAt(g, r) # -1
    BY <1>1, <1>3, <2>3
  <2>7. \A r, q \in Saved(g) : q # r => SavedAt(g, q) # SavedAt(g, r)
    BY <1>1, <1>2, <1>3, <2>3
  <2> QED
    BY <2>1, <2>2, <2>4, <2>5, <2>6, <2>7
<1>6. CASE g.target = "arm64"
  <2>1. Saved(g) = {} /\ ~Down(g) /\ g.allocas = <<>>
    BY <1>6, NothingSaved DEF Down, ObjectsApart
  <2>2. StoredLinks(g) = {Fp, Ra} /\ LinkAt(g, Fp) = -2 /\ LinkAt(g, Ra) = -1
    BY <1>6, <2>1 DEF StoredLinks, Links, LinkAt, Fp, Ra, Down
  <2>3. StackPointer(g) + End(g) <= -2 /\ StackPointer(g) \in Int /\ End(g) \in Nat
    <3>1. Pushes(g) \in Nat /\ Base(g) \in Nat
      BY Sizes
    <3>2. End(g) \in Nat
      BY <3>1 DEF End
    <3> QED
      BY <1>6, <2>1, <3>1, <3>2, UpBands
  <2>4. \A w \in Owned(g) : Address(g, w) \in Int /\ Address(g, w) < StackPointer(g) + End(g)
    BY <2>1, UpBelowEnd
  <2> QED
    BY <2>1, <2>2, <2>3, <2>4
<1>7. CASE g.target = "riscv"
  <2>1. ~Down(g) /\ g.allocas = <<>> /\ Base(g) = Slots(g) + 1 + NSaved(g)
    BY <1>7 DEF Down, ObjectsApart, Base
  <2>2. StackPointer(g) \in Int
    BY <2>1, UpBands
  <2>3. \A r \in Saved(g) : SavedAt(g, r) = StackPointer(g) + (Slots(g) + Rank(g, r))
    BY <1>7, <2>1 DEF SavedAt, At
  <2>4. StoredLinks(g) = {Ra} /\ LinkAt(g, Ra) = StackPointer(g) + Slots(g)
    BY <1>7, <2>1 DEF StoredLinks, Links, LinkAt, At, Down
  <2>5. ASSUME NEW w \in Owned(g)
        PROVE  /\ Address(g, w) \in Int
               /\ \/ Address(g, w) < StackPointer(g) + Slots(g)
                  \/ Address(g, w) > StackPointer(g) + Slots(g) + NSaved(g)
    <3>1. CASE \E v \in Vregs(g) : w = Vreg(v)
      BY <1>3, <2>1, <2>2, <3>1, UpBands
    <3>2. CASE \E k \in 0..T(g).listSize-1 : w = <<"list", k, 0>>
      <4>1. PICK k \in 0..T(g).listSize-1 : w = <<"list", k, 0>>
        BY <3>2
      <4>2. Address(g, w) = StackPointer(g) + Base(g) + 4 + k /\ k \in 0..3
        BY <2>1, <4>1, UpBands
      <4> QED
        BY <1>1, <1>3, <2>1, <2>2, <4>2
    <3>3. CASE \E k \in 0..T(g).areaSize-1 : w = <<"area", k, 0>>
      <4>1. PICK k \in 0..T(g).areaSize-1 : w = <<"area", k, 0>>
        BY <3>3
      <4>2. Address(g, w) = StackPointer(g) + Base(g) + 8 + k /\ k \in 0..7
        BY <2>1, <4>1, UpBands
      <4> QED
        BY <1>1, <1>3, <2>1, <2>2, <4>2
    <3>4. Len(g.allocas) = 0
      BY <2>1
    <3> QED
      BY <3>1, <3>2, <3>3, <3>4, Kinds
  <2>6. \A r \in Saved(g) : RestoredFrom(g, r) = SavedAt(g, r)
    BY <1>7 DEF RestoredFrom
  <2>7. \A r \in Saved(g) : /\ SavedAt(g, r) \in Int
                           /\ SavedAt(g, r) > StackPointer(g) + Slots(g)
                           /\ SavedAt(g, r) <= StackPointer(g) + Slots(g) + NSaved(g)
    BY <1>1, <1>3, <2>2, <2>3
  <2>8. \A r, q \in Saved(g) : q # r => SavedAt(g, q) # SavedAt(g, r)
    BY <1>1, <1>2, <1>3, <2>2, <2>3
  <2>9. \A r \in Saved(g), w \in Owned(g) : Address(g, w) # SavedAt(g, r)
    BY <1>1, <1>3, <2>2, <2>5, <2>7
  <2>10. \A w \in Owned(g) : Address(g, w) # LinkAt(g, Ra)
    BY <1>1, <1>3, <2>2, <2>4, <2>5
  <2>11. \A r \in Saved(g) : LinkAt(g, Ra) # SavedAt(g, r)
    BY <1>3, <2>2, <2>4, <2>7
  <2> QED
    BY <2>4, <2>6, <2>8, <2>9, <2>10, <2>11
<1>8. CASE g.target = "arm"
  <2>1. ~Down(g) /\ g.allocas = <<>> /\ ~g.vararg
    BY <1>8 DEF Down, ObjectsApart, SavesKept, WellFormed
  <2>2. \A r \in Saved(g) : SavedAt(g, r) = -9 + r /\ r \in 0..7 /\ RestoredFrom(g, r) = SavedAt(g, r)
    <3>1. Saved(g) \subseteq 0..7
      BY <1>8, SavedInPool, Conventions DEF Regs
    <3> QED
      BY <1>8, <3>1 DEF SavedAt, RestoredFrom
  <2>3. StoredLinks(g) = {Ra} /\ LinkAt(g, Ra) = -1
    BY <1>8, <2>1 DEF StoredLinks, Links, LinkAt, Down
  <2>4. \A w \in Owned(g) : Address(g, w) \in Int /\ Address(g, w) < -9
    <3>1. End(g) \in Nat /\ StackPointer(g) \in Int /\ StackPointer(g) + End(g) <= -10
      BY <1>8, <2>1, UpBands DEF End
    <3>2. \A w \in Owned(g) : Address(g, w) \in Int /\ Address(g, w) < StackPointer(g) + End(g)
      BY <2>1, UpBelowEnd
    <3> QED
      BY <3>1, <3>2
  <2> QED
    BY <2>2, <2>3, <2>4
<1> QED
  BY <1>4, <1>5, <1>6, <1>7, <1>8, KnownTarget

-----------------------------------------------------------------------------
(* Reading and writing.  A word is held in its register or at its address. *)
Held(g, M, R, w) == IF InReg(g, w) THEN R[g.reg[w[2]]] ELSE M[Address(g, w)]

LEMMA InTheFrame ==
  ASSUME NEW g, g \in Functions, ObjectsApart(g), NEW w \in Owned(g)
  PROVE  Address(g, w) \in Watched(g) /\ Address(g, w) \notin CallersFrame(g)
<1>1. WellFormed(g) /\ Above \in Nat /\ Below \in Nat /\ g.nparams \in Nat
  BY FrameAssumption DEF WellFormed
<1> QED
  BY <1>1, WordsInFrame DEF Watched, CallersFrame

LEMMA InPoolOnly ==
  ASSUME NEW g, WellFormed(g), NEW w \in Owned(g), InReg(g, w)
  PROVE  /\ \E v \in Vregs(g) : w = Vreg(v)
         /\ g.reg[w[2]] \in Used(g) /\ g.reg[w[2]] \in Regs(g)
         /\ \A u \in Owned(g) : InReg(g, u) /\ g.reg[u[2]] = g.reg[w[2]] => u = w
<1>1. \A u \in Owned(g) : InReg(g, u) => \E v \in Vregs(g) : u = Vreg(v)
  BY Kinds DEF InReg
<1>2. PICK v \in Vregs(g) : w = Vreg(v)
  BY <1>1
<1>3. w[2] = v /\ g.reg[v] # InMemory
  BY <1>2 DEF Vreg, InReg
<1>4. g.reg[v] \in Used(g)
  BY <1>3 DEF Used
<1>5. g.reg[v] \in Regs(g)
  BY <1>4, SavedInPool
<1>6. ASSUME NEW u \in Owned(g), InReg(g, u), g.reg[u[2]] = g.reg[w[2]]
      PROVE  u = w
  <2>1. PICK t \in Vregs(g) : u = Vreg(t)
    BY <1>1, <1>6
  <2>2. u[2] = t
    BY <2>1 DEF Vreg
  <2>3. v = t
    BY <1>3, <1>6, <2>2 DEF WellFormed
  <2> QED
    BY <1>2, <2>1, <2>3
<1> QED
  BY <1>2, <1>3, <1>4, <1>5, <1>6

LEMMA PutHolds ==
  ASSUME fn \in Functions, ObjectsApart(fn), NEW w \in Owned(fn), NEW x,
         NEW M, DOMAIN M = Watched(fn),
         NEW R, DOMAIN R = Regs(fn) \cup {Fp, Ra}
  PROVE  /\ DOMAIN InPlace(M, w, x) = Watched(fn)
         /\ DOMAIN InPool(R, w, x) = Regs(fn) \cup {Fp, Ra}
         /\ Held(fn, InPlace(M, w, x), InPool(R, w, x), w) = x
         /\ \A u \in Owned(fn) :
              u # w => Held(fn, InPlace(M, w, x), InPool(R, w, x), u) = Held(fn, M, R, u)
         /\ \A a \in Watched(fn) : a # Address(fn, w) => InPlace(M, w, x)[a] = M[a]
         /\ \A r \in Regs(fn) \cup {Fp, Ra} :
              /\ r \notin Used(fn) => InPool(R, w, x)[r] = R[r]
              /\ InPool(R, w, x)[r] \in {R[r], x}
<1>1. WellFormed(fn)
  BY FrameAssumption
<1>2. CASE InReg(fn, w)
  <2>1. InPlace(M, w, x) = M /\ InPool(R, w, x) = [R EXCEPT ![fn.reg[w[2]]] = x]
    BY <1>2 DEF InPlace, InPool
  <2>2. fn.reg[w[2]] \in Used(fn) /\ fn.reg[w[2]] \in Regs(fn)
    BY <1>1, <1>2, InPoolOnly
  <2>3. \A u \in Owned(fn) : u # w /\ InReg(fn, u) => /\ fn.reg[u[2]] # fn.reg[w[2]]
                                                     /\ fn.reg[u[2]] \in Regs(fn)
    BY <1>1, <1>2, InPoolOnly
  <2> QED
    BY <1>2, <2>1, <2>2, <2>3 DEF Held
<1>3. CASE ~InReg(fn, w)
  <2>1. InPlace(M, w, x) = [M EXCEPT ![Address(fn, w)] = x] /\ InPool(R, w, x) = R
    BY <1>3 DEF InPlace, InPool
  <2>2. \A u \in Owned(fn) : Address(fn, u) \in Watched(fn)
    BY InTheFrame
  <2>3. \A u \in Owned(fn) : u # w => Address(fn, u) # Address(fn, w)
    BY <1>1, WordsApart
  <2> QED
    BY <1>3, <2>1, <2>2, <2>3 DEF Held
<1> QED
  BY <1>2, <1>3

(* What a sequence of stores leaves at an address that at most one of them *)
(* is to.                                                                  *)
LEMMA WrittenAt ==
  ASSUME NEW M, NEW n \in Nat, NEW st, DOMAIN st = 1..n
  PROVE  /\ DOMAIN Written(M, st) = DOMAIN M
         /\ \A a \in DOMAIN M :
              /\ (\A k \in 1..n : st[k].to # a) => Written(M, st)[a] = M[a]
              /\ \A k \in 1..n : st[k].to = a /\ (\A j \in 1..n : j # k => st[j].to # a)
                   => Written(M, st)[a] = st[k].value
<1> DEFINE K(a) == {k \in DOMAIN st : st[k].to = a}
<1>1. Written(M, st) = [a \in DOMAIN M |-> IF K(a) = {} THEN M[a] ELSE st[Max(K(a))].value]
  BY DEF Written
<1>2. ASSUME NEW a \in DOMAIN M, \A k \in 1..n : st[k].to # a
      PROVE  Written(M, st)[a] = M[a]
  <2>1. K(a) = {}
    BY <1>2
  <2> HIDE DEF K
  <2> QED
    BY <1>1, <2>1
<1>3. ASSUME NEW a \in DOMAIN M, NEW k \in 1..n, st[k].to = a,
             \A j \in 1..n : j # k => st[j].to # a
      PROVE  Written(M, st)[a] = st[k].value
  <2>1. K(a) = {k}
    BY <1>3
  <2>2. Max({k}) = k
    <3>1. {k} \in SUBSET Int /\ k \in {k} /\ \A x \in {k} : x <= k
      OBVIOUS
    <3> QED
      BY <3>1, MaxIs
  <2> HIDE DEF K
  <2> QED
    BY <1>1, <2>1, <2>2
<1> QED
  BY <1>1, <1>2, <1>3

(* The four sequences of stores of the prologue. *)
LEMMA LinksWritten ==
  ASSUME fn \in Functions, ObjectsApart(fn), NEW M, DOMAIN M = Watched(fn)
  PROVE  LET W == Written(M, LinkStores(fn)) IN
         /\ DOMAIN W = Watched(fn)
         /\ \A a \in Watched(fn) : (\A l \in StoredLinks(fn) : a # LinkAt(fn, l)) => W[a] = M[a]
         /\ SavesKept(fn) => \A l \in StoredLinks(fn) : W[LinkAt(fn, l)] = regs[l]
<1> DEFINE st == LinkStores(fn)
           to(l) == LinkAt(fn, l)
<1>1. WellFormed(fn) /\ Below \in Nat /\ Above \in Nat /\ fn.nparams \in Nat
  BY FrameAssumption DEF WellFormed
<1>2. \A l \in StoredLinks(fn) : to(l) \in Watched(fn)
  BY <1>1, SavedInFrame, StackBelow DEF Watched
<1>3. CASE fn.target = "arm64"
  <2> DEFINE n == 2
             W == Written(M, st)
  <2>1. /\ StoredLinks(fn) = {Fp, Ra} /\ DOMAIN st = 1..n
        /\ st[1].to = to(Fp) /\ st[1].value = regs[Fp]
        /\ st[2].to = to(Ra) /\ st[2].value = regs[Ra]
    BY <1>3 DEF StoredLinks, Links, LinkStores, Down, Store
  <2>2. to(Fp) = -2 /\ to(Ra) = -1
    BY <1>3 DEF LinkAt, Down, Fp, Ra
  <2>3. n \in Nat /\ 1 \in 1..n /\ 2 \in 1..n /\ \A k \in 1..n : k = 1 \/ k = 2
    OBVIOUS
  <2> HIDE DEF st, to, n
  <2>4. DOMAIN W = Watched(fn)
    BY <2>1, <2>3, WrittenAt
  <2>5. ASSUME NEW a \in Watched(fn), \A l \in StoredLinks(fn) : a # to(l) PROVE W[a] = M[a]
    <3>1. \A k \in 1..n : st[k].to # a
      BY <2>1, <2>3, <2>5
    <3> QED
      BY <2>1, <2>3, <3>1, WrittenAt
  <2>6. ASSUME NEW k \in 1..n PROVE W[st[k].to] = st[k].value
    <3>1. st[k].to \in Watched(fn)
      BY <1>2, <2>1, <2>3
    <3>2. \A j \in 1..n : j # k => st[j].to # st[k].to
      BY <2>1, <2>2, <2>3
    <3> QED
      BY <2>1, <2>3, <3>1, <3>2, WrittenAt
  <2>7. W[to(Fp)] = regs[Fp] /\ W[to(Ra)] = regs[Ra]
    BY <2>1, <2>3, <2>6
  <2> QED
    BY <2>1, <2>4, <2>5, <2>7 DEF st, to
<1>4. ASSUME NEW l, StoredLinks(fn) = {l}, st = <<Store(to(l), regs[l])>>
      PROVE  /\ DOMAIN Written(M, st) = Watched(fn)
             /\ \A a \in Watched(fn) : a # to(l) => Written(M, st)[a] = M[a]
             /\ Written(M, st)[to(l)] = regs[l]
  <2> DEFINE n == 1
  <2>1. DOMAIN st = 1..n /\ st[1].to = to(l) /\ st[1].value = regs[l]
    BY <1>4 DEF Store
  <2>2. n \in Nat /\ 1 \in 1..n /\ \A k \in 1..n : k = 1
    OBVIOUS
  <2> HIDE DEF st, to, n
  <2>3. ASSUME NEW a \in Watched(fn), a # to(l) PROVE Written(M, st)[a] = M[a]
    <3>1. \A k \in 1..n : st[k].to # a
      BY <2>1, <2>2, <2>3
    <3> QED
      BY <2>1, <2>2, <3>1, WrittenAt
  <2>4. to(l) \in Watched(fn)
    BY <1>2, <1>4
  <2> QED
    BY <2>1, <2>2, <2>3, <2>4, WrittenAt
<1>5. CASE fn.target \in {"x86_64", "x86"}
  <2>1. StoredLinks(fn) = {Fp} /\ st = <<Store(to(Fp), regs[Fp])>>
    BY <1>5 DEF StoredLinks, LinkStores, Down
  <2> HIDE DEF st, to
  <2> QED
    BY <1>4, <2>1 DEF st, to
<1>6. CASE fn.target \in {"riscv", "arm"}
  <2>1. StoredLinks(fn) = {Ra} /\ st = <<Store(to(Ra), regs[Ra])>>
    BY <1>6 DEF StoredLinks, Links, LinkStores, Down
  <2> HIDE DEF st, to
  <2> QED
    BY <1>4, <2>1 DEF st, to
<1> QED
  BY <1>1, <1>3, <1>5, <1>6, KnownTarget

LEMMA RegsWritten ==
  ASSUME fn \in Functions, ObjectsApart(fn), NEW M, DOMAIN M = Watched(fn)
  PROVE  LET W == Written(M, RegStores(fn)) IN
         /\ DOMAIN W = Watched(fn)
         /\ \A a \in Watched(fn) : (\A r \in Saved(fn) : a # SavedAt(fn, r)) => W[a] = M[a]
         /\ SavesKept(fn) => \A r \in Saved(fn) : W[SavedAt(fn, r)] = regs[r]
<1> DEFINE st == RegStores(fn)
           nth(i) == CHOOSE s \in Saved(fn) : Rank(fn, s) = i
           n == NSaved(fn)
<1>1. WellFormed(fn) /\ Below \in Nat /\ Above \in Nat /\ fn.nparams \in Nat
  BY FrameAssumption DEF WellFormed
<1>2. n \in Nat /\ DOMAIN st = 1..n
  BY <1>1, Ranks DEF RegStores
<1>3. \A i \in 1..n : st[i].to = SavedAt(fn, nth(i)) /\ st[i].value = regs[nth(i)]
  BY DEF RegStores, Store
<1>4. \A i \in 1..n : nth(i) \in Saved(fn) /\ Rank(fn, nth(i)) = i
  BY <1>1, Ranks
<1>5. \A r \in Saved(fn) : Rank(fn, r) \in 1..n /\ nth(Rank(fn, r)) = r
  <2>1. \A r \in Saved(fn) : Rank(fn, r) \in 1..n
    BY <1>1, Ranks
  <2>2. \A r, q \in Saved(fn) : Rank(fn, r) = Rank(fn, q) => r = q
    BY <1>1, RankOnce
  <2> HIDE DEF nth, n
  <2> QED
    BY <1>4, <2>1, <2>2
<1> HIDE DEF st, nth, n
<1>6. DOMAIN Written(M, st) = Watched(fn)
  BY <1>2, WrittenAt
<1>7. ASSUME NEW a \in Watched(fn), \A r \in Saved(fn) : a # SavedAt(fn, r)
      PROVE  Written(M, st)[a] = M[a]
  <2>1. \A k \in 1..n : st[k].to # a
    BY <1>3, <1>4, <1>7
  <2> QED
    BY <1>2, <2>1, WrittenAt
<1>8. ASSUME SavesKept(fn), NEW r \in Saved(fn)
      PROVE  Written(M, st)[SavedAt(fn, r)] = regs[r]
  <2>1. SavedAt(fn, r) \in Watched(fn)
    BY <1>1, SavedInFrame, StackBelow DEF Watched
  <2>2. PICK k \in 1..n : nth(k) = r
    BY <1>5
  <2>3. st[k].to = SavedAt(fn, r) /\ st[k].value = regs[r]
    BY <1>3, <2>2
  <2>4. ASSUME NEW j \in 1..n, j # k PROVE st[j].to # SavedAt(fn, r)
    <3>1. nth(j) \in Saved(fn) /\ nth(j) # r
      BY <1>4, <2>2, <2>4
    <3> QED
      BY <1>1, <1>3, <1>8, <3>1, SavedApart
  <2> QED
    BY <1>2, <2>1, <2>3, <2>4, WrittenAt
<1> QED
  BY <1>6, <1>7, <1>8 DEF st

LEMMA ParamsWritten ==
  ASSUME fn \in Functions, ObjectsApart(fn), NEW M, DOMAIN M = Watched(fn)
  PROVE  LET W == Written(M, ParamStores(fn)) IN
         /\ DOMAIN W = Watched(fn)
         /\ \A a \in Watched(fn) :
              (\A v \in Params(fn) : a # Address(fn, Vreg(v))) => W[a] = M[a]
         /\ \A p \in 0..fn.nparams-1 : W[Address(fn, Vreg(ParamBase + p))] = Incoming(fn, p)
<1> DEFINE st == ParamStores(fn)
           n == fn.nparams
<1>1. WellFormed(fn) /\ n \in Nat /\ ParamBase \in Nat
  BY FrameAssumption DEF WellFormed
<1>2. DOMAIN st = 1..n
  BY DEF ParamStores
<1>3. \A i \in 1..n : /\ st[i].to = Address(fn, Vreg(ParamBase + i - 1))
                     /\ st[i].value = Incoming(fn, i - 1)
  BY <1>1, Addresses DEF ParamStores, Store
<1>4. \A p \in 0..n-1 : /\ ParamBase + p \in Params(fn)
                       /\ Vreg(ParamBase + p) \in Owned(fn)
                       /\ p+1 \in 1..n
  BY <1>1 DEF Params, Vregs, Owned
<1>5. \A i \in 1..n : i-1 \in 0..n-1 /\ ParamBase + i - 1 = ParamBase + (i-1)
  BY <1>1
<1> HIDE DEF st, n
<1>6. DOMAIN Written(M, st) = Watched(fn)
  BY <1>1, <1>2, WrittenAt
<1>7. ASSUME NEW a \in Watched(fn), \A v \in Params(fn) : a # Address(fn, Vreg(v))
      PROVE  Written(M, st)[a] = M[a]
  <2>1. \A k \in 1..n : st[k].to # a
    BY <1>3, <1>4, <1>5, <1>7
  <2> QED
    BY <1>1, <1>2, <2>1, WrittenAt
<1>8. ASSUME NEW p \in 0..n-1
      PROVE  Written(M, st)[Address(fn, Vreg(ParamBase + p))] = Incoming(fn, p)
  <2> DEFINE w == Vreg(ParamBase + p)
  <2>1. Address(fn, w) \in Watched(fn)
    BY <1>4, InTheFrame
  <2>2. p+1 \in 1..n /\ st[p+1].to = Address(fn, w) /\ st[p+1].value = Incoming(fn, p)
    <3>1. ParamBase + (p+1) - 1 = ParamBase + p /\ (p+1) - 1 = p
      BY <1>1
    <3> QED
      BY <1>3, <1>4, <3>1
  <2>3. ASSUME NEW j \in 1..n, j # p+1 PROVE st[j].to # Address(fn, w)
    <3>1. ParamBase + j - 1 # ParamBase + p
      BY <1>1, <2>3
    <3>2. Vreg(ParamBase + j - 1) # w /\ Vreg(ParamBase + j - 1) \in Owned(fn)
      BY <1>4, <1>5, <3>1 DEF Vreg
    <3> QED
      BY <1>1, <1>3, <1>4, <3>2, WordsApart
  <2> HIDE DEF w
  <2> QED
    BY <1>1, <1>2, <2>1, <2>2, <2>3, WrittenAt DEF w
<1> QED
  BY <1>6, <1>7, <1>8 DEF st, n

LEMMA AreaWritten ==
  ASSUME fn \in Functions, ObjectsApart(fn), NEW M, DOMAIN M = Watched(fn)
  PROVE  LET W == Written(M, AreaStores(fn)) IN
         /\ DOMAIN W = Watched(fn)
         /\ \A a \in Watched(fn) : (\A w \in Area(fn) : a # Address(fn, w)) => W[a] = M[a]
         /\ \A w \in Area(fn) : W[Address(fn, w)] = w
<1> DEFINE st == AreaStores(fn)
           n == IF fn.vararg THEN T(fn).areaSize ELSE 0
           word(i) == <<"area", i - 1, 0>>
<1>1. WellFormed(fn) /\ n \in Nat
  BY FrameAssumption, KnownTarget, Conventions
<1>2. DOMAIN st = 1..n
  BY <1>1 DEF AreaStores, Fill
<1>3. \A i \in 1..n : st[i].to = Address(fn, word(i)) /\ st[i].value = word(i)
  BY DEF AreaStores, Fill, Store
<1>4. \A i \in 1..n : word(i) \in Area(fn)
  BY <1>1 DEF Area, Words
<1>5. \A w \in Area(fn) : \E i \in 1..n : w = word(i)
  <2> SUFFICES ASSUME fn.vararg, NEW k \in 0..n-1 PROVE \E i \in 1..n : <<"area", k, 0>> = word(i)
    BY DEF Area, Words
  <2>1. k+1 \in 1..n /\ (k+1) - 1 = k
    BY <1>1
  <2> QED
    BY <2>1
<1>6. Area(fn) \subseteq Owned(fn)
  BY DEF Owned
<1>7. \A i, j \in 1..n : i # j => word(i) # word(j)
  BY <1>1
<1> HIDE DEF st, n, word
<1>8. DOMAIN Written(M, st) = Watched(fn)
  BY <1>1, <1>2, WrittenAt
<1>9. ASSUME NEW a \in Watched(fn), \A w \in Area(fn) : a # Address(fn, w)
      PROVE  Written(M, st)[a] = M[a]
  <2>1. \A k \in 1..n : st[k].to # a
    BY <1>3, <1>4, <1>9
  <2> QED
    BY <1>1, <1>2, <2>1, WrittenAt
<1>10. ASSUME NEW w \in Area(fn) PROVE Written(M, st)[Address(fn, w)] = w
  <2>1. Address(fn, w) \in Watched(fn)
    BY <1>6, InTheFrame
  <2>2. PICK k \in 1..n : w = word(k)
    BY <1>5
  <2>3. \A j \in 1..n : j # k => st[j].to # Address(fn, w)
    BY <1>1, <1>3, <1>4, <1>6, <1>7, <2>2, WordsApart
  <2> QED
    BY <1>1, <1>2, <1>3, <2>1, <2>2, <2>3, WrittenAt
<1> QED
  BY <1>8, <1>9, <1>10 DEF st

LEMMA PrologueWrites ==
  ASSUME fn \in Functions, ObjectsApart(fn), DOMAIN mem = Watched(fn)
  PROVE  LET W == PrologueMemory(fn) IN
         /\ DOMAIN W = Watched(fn)
         /\ \A a \in CallersFrame(fn) : W[a] = mem[a]
         /\ \A p \in 0..fn.nparams-1 : W[Address(fn, Vreg(ParamBase + p))] = Incoming(fn, p)
         /\ \A w \in Area(fn) : W[Address(fn, w)] = w
         /\ SavesKept(fn) =>
              /\ \A r \in Saved(fn) : W[SavedAt(fn, r)] = regs[r]
              /\ \A l \in StoredLinks(fn) : W[LinkAt(fn, l)] = regs[l]
<1> DEFINE Links1 == Written(mem, LinkStores(fn))
           Saved1 == Written(Links1, RegStores(fn))
           P(M) == Written(M, ParamStores(fn))
           Q(M) == Written(M, AreaStores(fn))
           W == PrologueMemory(fn)
           ParamAt(p) == Address(fn, Vreg(ParamBase + p))
<1>1. WellFormed(fn) /\ Above \in Nat /\ Below \in Nat /\ fn.nparams \in Nat /\ ParamBase \in Nat
  BY FrameAssumption DEF WellFormed
<1>2. W = IF fn.target \in {"riscv", "arm"} THEN P(Q(Saved1)) ELSE Q(P(Saved1))
  BY DEF PrologueMemory
<1>3. /\ DOMAIN Links1 = Watched(fn)
      /\ \A a \in Watched(fn) : (\A l \in StoredLinks(fn) : a # LinkAt(fn, l)) => Links1[a] = mem[a]
      /\ SavesKept(fn) => \A l \in StoredLinks(fn) : Links1[LinkAt(fn, l)] = regs[l]
  BY LinksWritten
<1>4. /\ DOMAIN Saved1 = Watched(fn)
      /\ \A a \in Watched(fn) : (\A r \in Saved(fn) : a # SavedAt(fn, r)) => Saved1[a] = Links1[a]
      /\ SavesKept(fn) => \A r \in Saved(fn) : Saved1[SavedAt(fn, r)] = regs[r]
  <2> HIDE DEF Links1
  <2> QED
    BY <1>3, RegsWritten
<1>5. ASSUME NEW M, DOMAIN M = Watched(fn)
      PROVE  /\ DOMAIN P(M) = Watched(fn)
             /\ \A a \in Watched(fn) :
                  (\A v \in Params(fn) : a # Address(fn, Vreg(v))) => P(M)[a] = M[a]
             /\ \A p \in 0..fn.nparams-1 : P(M)[ParamAt(p)] = Incoming(fn, p)
  BY <1>5, ParamsWritten
<1>6. ASSUME NEW M, DOMAIN M = Watched(fn)
      PROVE  /\ DOMAIN Q(M) = Watched(fn)
             /\ \A a \in Watched(fn) : (\A w \in Area(fn) : a # Address(fn, w)) => Q(M)[a] = M[a]
             /\ \A w \in Area(fn) : Q(M)[Address(fn, w)] = w
  BY <1>6, AreaWritten
<1>7. \A v \in Params(fn) : Vreg(v) \in Owned(fn)
  BY DEF Owned, Vregs
<1>8. \A w \in Area(fn) : w \in Owned(fn)
  BY DEF Owned
<1>9. \A v \in Params(fn), w \in Area(fn) : Address(fn, Vreg(v)) # Address(fn, w)
  <2>1. \A v \in Params(fn), w \in Area(fn) : Vreg(v) # w
    BY DEF Vreg, Area, Words
  <2> QED
    BY <1>1, <1>7, <1>8, <2>1, WordsApart
<1>10. \A p \in 0..fn.nparams-1 : ParamBase + p \in Params(fn)
  BY <1>1 DEF Params
<1>11. \A w \in Owned(fn) : Address(fn, w) \in Watched(fn) /\ Address(fn, w) \notin CallersFrame(fn)
  BY InTheFrame
<1> HIDE DEF Links1, Saved1, P, Q, W
<1>12. /\ DOMAIN W = Watched(fn)
       /\ \A a \in Watched(fn) : (\A w \in Owned(fn) : a # Address(fn, w)) => W[a] = Saved1[a]
       /\ \A p \in 0..fn.nparams-1 : W[ParamAt(p)] = Incoming(fn, p)
       /\ \A w \in Area(fn) : W[Address(fn, w)] = w
  <2>1. CASE fn.target \in {"riscv", "arm"}
    <3> DEFINE M == Q(Saved1)
    <3>1. /\ W = P(M) /\ DOMAIN M = Watched(fn)
          /\ \A a \in Watched(fn) : (\A w \in Area(fn) : a # Address(fn, w)) => M[a] = Saved1[a]
          /\ \A w \in Area(fn) : M[Address(fn, w)] = w
      BY <1>2, <1>4, <1>6, <2>1
    <3> HIDE DEF M
    <3> QED
      BY <1>5, <1>7, <1>8, <1>9, <1>11, <3>1
  <2>2. CASE fn.target \notin {"riscv", "arm"}
    <3> DEFINE M == P(Saved1)
    <3>1. /\ W = Q(M) /\ DOMAIN M = Watched(fn)
          /\ \A a \in Watched(fn) :
               (\A v \in Params(fn) : a # Address(fn, Vreg(v))) => M[a] = Saved1[a]
          /\ \A p \in 0..fn.nparams-1 : M[ParamAt(p)] = Incoming(fn, p)
      BY <1>2, <1>4, <1>5, <2>2
    <3> HIDE DEF M
    <3> QED
      BY <1>6, <1>7, <1>8, <1>9, <1>10, <1>11, <3>1
  <2> QED
    BY <2>1, <2>2
<1>13. ASSUME NEW a \in CallersFrame(fn) PROVE W[a] = mem[a]
  <2>1. a \in Int /\ a >= 0 /\ a \in Watched(fn)
    <3>1. StackPointer(fn) \in Int /\ StackPointer(fn) <= 0
      BY <1>1, StackBelow
    <3> QED
      BY <1>1, <3>1 DEF CallersFrame, Watched
  <2>2. \A w \in Owned(fn) : a # Address(fn, w)
    BY <1>11
  <2>3. (\A r \in Saved(fn) : a # SavedAt(fn, r)) /\ (\A l \in StoredLinks(fn) : a # LinkAt(fn, l))
    BY <1>1, <2>1, SavedInFrame
  <2> QED
    BY <1>3, <1>4, <1>12, <2>1, <2>2, <2>3
<1>14. ASSUME SavesKept(fn), NEW r \in Saved(fn) PROVE W[SavedAt(fn, r)] = regs[r]
  <2>1. SavedAt(fn, r) \in Watched(fn)
    BY <1>1, StackBelow, SavedInFrame DEF Watched
  <2>2. \A w \in Owned(fn) : SavedAt(fn, r) # Address(fn, w)
    BY <1>1, <1>14, SavedApart
  <2> QED
    BY <1>4, <1>12, <1>14, <2>1, <2>2
<1>15. ASSUME SavesKept(fn), NEW l \in StoredLinks(fn) PROVE W[LinkAt(fn, l)] = regs[l]
  <2>1. LinkAt(fn, l) \in Watched(fn)
    BY <1>1, StackBelow, SavedInFrame DEF Watched
  <2>2. \A w \in Owned(fn) : LinkAt(fn, l) # Address(fn, w)
    BY <1>1, <1>15, SavedApart
  <2>3. \A r \in Saved(fn) : LinkAt(fn, l) # SavedAt(fn, r)
    BY <1>1, <1>15, SavedApart
  <2> QED
    BY <1>3, <1>4, <1>12, <1>15, <2>1, <2>2, <2>3
<1> QED
  BY <1>12, <1>13, <1>14, <1>15 DEF W

-----------------------------------------------------------------------------
(* The inductive invariant.  M, R, L and n stand for memory, registers, the *)
(* words written and the number of arguments taken.                        *)
Shape ==
  /\ fn \in Functions /\ pc \in {"entry", "body", "returned"}
  /\ DOMAIN mem = Watched(fn) /\ DOMAIN regs = Regs(fn) \cup {Fp, Ra}
  /\ live \subseteq Owned(fn)
  /\ \E X : taken \in Seq(X)

Fresh ==
  /\ \A a \in CallersFrame(fn) : mem[a] = CallersWord(fn, a)
  /\ \A r \in DOMAIN regs : regs[r] = <<"reg", r, 0>>
  /\ live = {} /\ taken = <<>>

(* The caller's frame is whole, and every word holds what was put there. *)
Sound(g, M, R, L) ==
  /\ \A a \in CallersFrame(g) : M[a] = CallersWord(g, a)
  /\ Area(g) \subseteq L
  /\ \A w \in L : Name(Held(g, M, R, w)) = w

(* Once va_start has run, ListVreg knows where the list is. *)
ListAfter(g, n) == ListAt(g) + (IF g.target = "x86" THEN n ELSE 0)
ListKnown(g, M, R, L, n) ==
  g.vararg /\ Vreg(ListVreg) \in L =>
    List(g) \subseteq L /\ Held(g, M, R, Vreg(ListVreg))[3] = ListAfter(g, n)

(* What the epilogue will read is what the caller had in its registers, and *)
(* what it will not read is still in them.                                 *)
SavesHeld(g, M, R) ==
  /\ \A r \in Saved(g) : M[SavedAt(g, r)] = <<"reg", r, 0>>
  /\ \A l \in StoredLinks(g) : M[LinkAt(g, l)] = <<"reg", l, 0>>
  /\ \A r \in (CalleeSaved(g) \ Saved(g)) \ Links(g) : R[r] = <<"reg", r, 0>>
RegsNamed(g, R) ==
  \A r \in DOMAIN R : Name(R[r]) \in Owned(g) \cup {<<"reg", q, 0>> : q \in Regs(g) \cup {Fp, Ra}}

Body(g, M, R, L, n) ==
  /\ Sound(g, M, R, L) /\ ListKnown(g, M, R, L, n)
  /\ SavesKept(g) => SavesHeld(g, M, R) /\ RegsNamed(g, R)

IInv ==
  /\ Shape
  /\ pc = "entry" => Fresh
  /\ ObjectsApart(fn) =>
       /\ CallersFrameKept
       /\ pc = "body" => Body(fn, mem, regs, live, Len(taken))
       /\ pc = "returned" /\ SavesKept(fn) => RegsNamed(fn, regs) /\ CalleeSavedRestored

-----------------------------------------------------------------------------
LEMMA Names ==
  ASSUME NEW g, WellFormed(g)
  PROVE  /\ \A w \in Owned(g) : Name(w) = w
         /\ \A v, n : Name(<<"vreg", v, n>>) = <<"vreg", v, 0>>
         /\ \A k, n : Name(<<"list", k, n>>) = <<"list", k, 0>>
         /\ \A r : Name(<<"reg", r, 0>>) = <<"reg", r, 0>>
<1>1. \A v, n : Name(<<"vreg", v, n>>) = <<"vreg", v, 0>>
  BY DEF Name
<1>2. \A k, n : Name(<<"list", k, n>>) = <<"list", k, 0>>
  BY DEF Name
<1>3. \A k, i : Name(<<"area", k, i>>) = <<"area", k, i>>
  BY DEF Name
<1>4. \A k, i : Name(<<"alloca", k, i>>) = <<"alloca", k, i>>
  BY DEF Name
<1>5. \A r : Name(<<"reg", r, 0>>) = <<"reg", r, 0>>
  BY DEF Name
<1>6. ASSUME NEW w \in Owned(g) PROVE Name(w) = w
  <2>1. CASE \E v \in Vregs(g) : w = Vreg(v)
    BY <1>1, <2>1 DEF Vreg
  <2>2. CASE \E k \in 0..T(g).listSize-1 : w = <<"list", k, 0>>
    BY <1>2, <2>2
  <2>3. CASE \E k \in 0..T(g).areaSize-1 : w = <<"area", k, 0>>
    BY <1>3, <2>3
  <2>4. CASE \E i \in 1..Len(g.allocas) : \E k \in 0..g.allocas[i]-1 : w = <<"alloca", k, i>>
    BY <1>4, <2>4
  <2> QED
    BY <2>1, <2>2, <2>3, <2>4, Kinds
<1> QED
  BY <1>1, <1>2, <1>5, <1>6

LEMMA CallersWatched ==
  ASSUME NEW g, g \in Functions
  PROVE  CallersFrame(g) \subseteq Watched(g)
<1>1. WellFormed(g) /\ Above \in Nat /\ Below \in Nat /\ g.nparams \in Nat
  BY FrameAssumption DEF WellFormed
<1> QED
  BY <1>1, StackBelow DEF CallersFrame, Watched

(* A register the caller relies on and the prologue does not save is none  *)
(* the function uses.                                                      *)
LEMMA UnsavedUnused ==
  ASSUME NEW g, WellFormed(g), SavesKept(g), NEW r \in CalleeSaved(g) \ Saved(g)
  PROVE  r \in Regs(g) \cup {Fp, Ra} /\ r \notin Used(g)
<1>1. r \in Regs(g) \cup {Fp, Ra}
  BY DEF CalleeSaved
<1>2. ASSUME r \in Used(g) PROVE FALSE
  <2>1. Used(g) \subseteq Regs(g) /\ Regs(g) \subseteq 0..8
    BY SavedInPool
  <2>2. r \in Regs(g) /\ r \in Int /\ r # Fp /\ r # Ra
    BY <1>2, <2>1 DEF Fp, Ra
  <2>3. r >= T(g).ncaller
    BY <2>2 DEF CalleeSaved
  <2>4. CASE g.target \in {"x86_64", "arm64"}
    <3>1. r < T(g).ncaller /\ T(g).ncaller \in Int
      BY <1>2, <2>4, Conventions DEF SavesKept
    <3> QED
      BY <2>2, <2>3, <3>1
  <2>5. CASE g.target \in {"x86", "riscv", "arm"}
    BY <1>2, <2>3, <2>5, SavedInPool
  <2> QED
    BY <2>4, <2>5, KnownTarget
<1> QED
  BY <1>1, <1>2

(* To put a word anywhere leaves everything else as it was. *)
LEMMA PutSound ==
  ASSUME fn \in Functions, ObjectsApart(fn),
         NEW M, DOMAIN M = Watched(fn),
         NEW R, DOMAIN R = Regs(fn) \cup {Fp, Ra},
         NEW L, L \subseteq Owned(fn), Sound(fn, M, R, L),
         NEW w \in Owned(fn), NEW x, Name(x) = w
  PROVE  Sound(fn, InPlace(M, w, x), InPool(R, w, x), L \cup {w})
<1> DEFINE N == InPlace(M, w, x)
           Q == InPool(R, w, x)
<1>1. /\ Held(fn, N, Q, w) = x
      /\ \A u \in Owned(fn) : u # w => Held(fn, N, Q, u) = Held(fn, M, R, u)
      /\ \A a \in Watched(fn) : a # Address(fn, w) => N[a] = M[a]
  BY PutHolds
<1>2. \A a \in CallersFrame(fn) : a \in Watched(fn) /\ a # Address(fn, w)
  BY CallersWatched, InTheFrame
<1> HIDE DEF N, Q
<1>3. \A a \in CallersFrame(fn) : N[a] = CallersWord(fn, a)
  BY <1>1, <1>2 DEF Sound
<1>4. \A u \in L \cup {w} : Name(Held(fn, N, Q, u)) = u
  BY <1>1 DEF Sound
<1> QED
  BY <1>3, <1>4 DEF Sound, N, Q

LEMMA PutSaves ==
  ASSUME fn \in Functions, ObjectsApart(fn), SavesKept(fn),
         NEW M, DOMAIN M = Watched(fn),
         NEW R, DOMAIN R = Regs(fn) \cup {Fp, Ra},
         SavesHeld(fn, M, R), RegsNamed(fn, R),
         NEW w \in Owned(fn), NEW x, Name(x) = w
  PROVE  /\ SavesHeld(fn, InPlace(M, w, x), InPool(R, w, x))
         /\ RegsNamed(fn, InPool(R, w, x))
<1> DEFINE N == InPlace(M, w, x)
           Q == InPool(R, w, x)
<1>0. WellFormed(fn) /\ Above \in Nat /\ Below \in Nat /\ fn.nparams \in Nat
  BY FrameAssumption DEF WellFormed
<1>1. /\ DOMAIN Q = Regs(fn) \cup {Fp, Ra}
      /\ \A a \in Watched(fn) : a # Address(fn, w) => N[a] = M[a]
      /\ \A r \in Regs(fn) \cup {Fp, Ra} :
              /\ r \notin Used(fn) => Q[r] = R[r]
              /\ Q[r] \in {R[r], x}
  BY PutHolds
<1>2. \A r \in Saved(fn) : SavedAt(fn, r) \in Watched(fn) /\ SavedAt(fn, r) # Address(fn, w)
  BY <1>0, SavedInFrame, SavedApart, StackBelow DEF Watched
<1>3. \A l \in StoredLinks(fn) : LinkAt(fn, l) \in Watched(fn) /\ LinkAt(fn, l) # Address(fn, w)
  BY <1>0, SavedInFrame, SavedApart, StackBelow DEF Watched
<1>4. ASSUME NEW r \in (CalleeSaved(fn) \ Saved(fn)) \ Links(fn)
      PROVE  r \in Regs(fn) \cup {Fp, Ra} /\ r \notin Used(fn)
  BY <1>0, UnsavedUnused
<1> HIDE DEF N, Q
<1>5. SavesHeld(fn, N, Q)
  BY <1>1, <1>2, <1>3, <1>4 DEF SavesHeld
<1>6. RegsNamed(fn, Q)
  BY <1>1 DEF RegsNamed
<1> QED
  BY <1>5, <1>6 DEF N, Q

LEMMA PutBody ==
  ASSUME fn \in Functions, ObjectsApart(fn),
         NEW M, DOMAIN M = Watched(fn),
         NEW R, DOMAIN R = Regs(fn) \cup {Fp, Ra},
         NEW L, L \subseteq Owned(fn), NEW n, Body(fn, M, R, L, n),
         NEW w \in Owned(fn), NEW x, Name(x) = w, fn.vararg => w # Vreg(ListVreg)
  PROVE  Body(fn, InPlace(M, w, x), InPool(R, w, x), L \cup {w}, n)
<1> DEFINE N == InPlace(M, w, x)
           Q == InPool(R, w, x)
<1>1. Sound(fn, N, Q, L \cup {w})
  BY PutSound DEF Body
<1>2. SavesKept(fn) => SavesHeld(fn, N, Q) /\ RegsNamed(fn, Q)
  BY PutSaves DEF Body
<1>3. \A u \in Owned(fn) : u # w => Held(fn, N, Q, u) = Held(fn, M, R, u)
  BY PutHolds
<1> HIDE DEF N, Q
<1>4. ListKnown(fn, N, Q, L \cup {w}, n)
  BY <1>3 DEF ListKnown, Body
<1> QED
  BY <1>1, <1>2, <1>4 DEF Body, N, Q

LEMMA ListBody ==
  ASSUME fn \in Functions, ObjectsApart(fn), fn.vararg,
         NEW M, DOMAIN M = Watched(fn),
         NEW R, DOMAIN R = Regs(fn) \cup {Fp, Ra},
         NEW L, L \subseteq Owned(fn), List(fn) \subseteq L, NEW n, Body(fn, M, R, L, n),
         NEW x, Name(x) = Vreg(ListVreg), NEW m, x[3] = ListAfter(fn, m)
  PROVE  LET w == Vreg(ListVreg)
         IN  Body(fn, InPlace(M, w, x), InPool(R, w, x), L \cup {w}, m)
<1> DEFINE w == Vreg(ListVreg)
           N == InPlace(M, w, x)
           Q == InPool(R, w, x)
<1>0. w \in Owned(fn)
  BY FrameAssumption DEF WellFormed, Owned, Vregs
<1>1. Sound(fn, N, Q, L \cup {w})
  BY <1>0, PutSound DEF Body
<1>2. SavesKept(fn) => SavesHeld(fn, N, Q) /\ RegsNamed(fn, Q)
  BY <1>0, PutSaves DEF Body
<1>3. Held(fn, N, Q, w) = x
  BY <1>0, PutHolds
<1> HIDE DEF N, Q
<1>4. ListKnown(fn, N, Q, L \cup {w}, m)
  BY <1>3 DEF ListKnown
<1> QED
  BY <1>1, <1>2, <1>4 DEF Body, N, Q

(* The register va_arg of x86_64 goes by way of. *)
Scratched(R, x) == [R EXCEPT ![Rbx] = x]
LEMMA ScratchBody ==
  ASSUME fn \in Functions, Rbx \notin Used(fn), ~SavesKept(fn),
         NEW M, NEW R, DOMAIN R = Regs(fn) \cup {Fp, Ra},
         NEW L, L \subseteq Owned(fn), NEW n, Body(fn, M, R, L, n), NEW x
  PROVE  Body(fn, M, Scratched(R, x), L, n)
<1> DEFINE Q == Scratched(R, x)
<1>1. \A u \in Owned(fn) : Held(fn, M, Q, u) = Held(fn, M, R, u)
  <2> TAKE u \in Owned(fn)
  <2>1. CASE InReg(fn, u)
    <3>1. fn.reg[u[2]] # Rbx /\ fn.reg[u[2]] \in Regs(fn)
      BY <2>1, InPoolOnly, FrameAssumption
    <3> QED
      BY <2>1, <3>1 DEF Held, Scratched
  <2>2. CASE ~InReg(fn, u)
    BY <2>2 DEF Held
  <2> QED
    BY <2>1, <2>2
<1> HIDE DEF Q
<1>2. Sound(fn, M, Q, L)
  BY <1>1 DEF Sound, Body
<1>3. ListKnown(fn, M, Q, L, n)
  BY <1>1 DEF ListKnown, Body
<1> QED
  BY <1>2, <1>3 DEF Body, Q

-----------------------------------------------------------------------------
LEMMA InitIInv == Init => IInv
<1> SUFFICES ASSUME Init PROVE IInv
  OBVIOUS
<1>1. fn \in Functions /\ WellFormed(fn)
  BY FrameAssumption DEF Init
<1>2. Shape
  <2>1. taken \in Seq({})
    BY DEF Init
  <2> QED
    BY <2>1 DEF Init, Shape
<1>3. Fresh
  <2>1. \A a \in CallersFrame(fn) : a \in Watched(fn) /\ a >= 0
    BY <1>1, CallersWatched DEF CallersFrame
  <2> QED
    BY <2>1 DEF Init, Fresh
<1> QED
  BY <1>2, <1>3 DEF Init, IInv, Fresh, CallersFrameKept

(* What a step of the body has to show. *)
LEMMA BodyStep ==
  ASSUME IInv, pc = "body", UNCHANGED <<fn, pc>>,
         DOMAIN mem' = Watched(fn), DOMAIN regs' = Regs(fn) \cup {Fp, Ra},
         live' \subseteq Owned(fn), \E X : taken' \in Seq(X),
         ObjectsApart(fn) => Body(fn, mem', regs', live', Len(taken'))
  PROVE  IInv'
<1>1. Shape'
  BY DEF IInv, Shape
<1>2. (ObjectsApart(fn) => CallersFrameKept)'
  BY DEF CallersFrameKept, Body, Sound
<1>3. (ObjectsApart(fn) => Body(fn, mem, regs, live, Len(taken)))'
  OBVIOUS
<1> QED
  BY <1>1, <1>2, <1>3 DEF IInv

(* Whatever happens, no address and no register comes or goes. *)
LEMMA SameDomains ==
  ASSUME NEW M, NEW R, NEW w, NEW x
  PROVE  DOMAIN InPlace(M, w, x) = DOMAIN M /\ DOMAIN InPool(R, w, x) = DOMAIN R
  BY DEF InPlace, InPool

LEMMA DefineIInv == ASSUME IInv, Define PROVE IInv'
<1>1. PICK v \in IF fn.vararg THEN Others(fn) ELSE Locals(fn) :
             Put(Vreg(v)) /\ live' = live \cup {Vreg(v)}
  BY DEF Define
<1> DEFINE w == Vreg(v)
<1>2. fn \in Functions /\ WellFormed(fn) /\ pc = "body" /\ UNCHANGED <<fn, pc, taken>>
  BY FrameAssumption DEF IInv, Shape, Define
<1>3. w \in Owned(fn)
  BY <1>1 DEF Others, Owned, Vregs
<1>4. fn.vararg => w # Vreg(ListVreg)
  BY DEF Others, Vreg
<1>5. Name(w) = w
  BY <1>2, <1>3, Names
<1> HIDE DEF w
<1>6. /\ DOMAIN mem = Watched(fn) /\ DOMAIN regs = Regs(fn) \cup {Fp, Ra}
      /\ live \subseteq Owned(fn) /\ \E X : taken \in Seq(X)
      /\ ObjectsApart(fn) => Body(fn, mem, regs, live, Len(taken))
  BY <1>2 DEF IInv, Shape
<1>7. mem' = InPlace(mem, w, w) /\ regs' = InPool(regs, w, w) /\ live' = live \cup {w}
  BY <1>1 DEF Put, w
<1>8. ObjectsApart(fn) => Body(fn, mem', regs', live', Len(taken'))
  BY <1>2, <1>3, <1>4, <1>5, <1>6, <1>7, PutBody
<1> QED
  BY <1>2, <1>3, <1>6, <1>7, <1>8, SameDomains, BodyStep

LEMMA StoreObjectIInv == ASSUME IInv, StoreObject PROVE IInv'
<1> PICK i \in DOMAIN fn.allocas : \E w \in Alloca(fn, i) : Put(w) /\ live' = live \cup {w}
  BY DEF StoreObject
<1>1. PICK w \in Alloca(fn, i) : Put(w) /\ live' = live \cup {w}
  OBVIOUS
<1>2. fn \in Functions /\ WellFormed(fn) /\ pc = "body" /\ UNCHANGED <<fn, pc, taken>>
  BY FrameAssumption DEF IInv, Shape, StoreObject
<1>3. w \in Owned(fn)
  BY <1>1 DEF Owned
<1>4. w # Vreg(ListVreg)
  BY DEF Alloca, Vreg
<1>5. Name(w) = w
  BY <1>2, <1>3, Names
<1>6. /\ DOMAIN mem = Watched(fn) /\ DOMAIN regs = Regs(fn) \cup {Fp, Ra}
      /\ live \subseteq Owned(fn) /\ \E X : taken \in Seq(X)
      /\ ObjectsApart(fn) => Body(fn, mem, regs, live, Len(taken))
  BY <1>2 DEF IInv, Shape
<1>7. mem' = InPlace(mem, w, w) /\ regs' = InPool(regs, w, w) /\ live' = live \cup {w}
  BY <1>1 DEF Put
<1>8. ObjectsApart(fn) => Body(fn, mem', regs', live', Len(taken'))
  BY <1>2, <1>3, <1>4, <1>5, <1>6, <1>7, PutBody
<1> QED
  BY <1>2, <1>3, <1>6, <1>7, <1>8, SameDomains, BodyStep

(* The call instruction of x86_64 and x86 left the return address there.   *)
LEMMA ReturnAddress ==
  ASSUME NEW g, WellFormed(g), Down(g)
  PROVE  0 \in CallersFrame(g) /\ CallersWord(g, 0) = <<"reg", Ra, 0>>
<1>1. g.nparams \in Nat /\ Above \in Nat /\ T(g).nargregs \in Nat
  BY FrameAssumption, KnownTarget, Conventions DEF WellFormed
<1>2. ~\E p \in T(g).nargregs .. g.nparams-1 : StackParam(g, p) = 0
  BY <1>1 DEF StackParam
<1> QED
  BY <1>1, <1>2 DEF CallersFrame, CallersWord

(* The parameters the registers do not pass are where the caller put them. *)
LEMMA ParamsArrive ==
  ASSUME IInv, pc = "entry", NEW p \in 0..fn.nparams-1
  PROVE  Incoming(fn, p) = Vreg(ParamBase + p)
<1>1. /\ fn \in Functions /\ WellFormed(fn) /\ Above \in Nat /\ ParamBase \in Nat
      /\ fn.nparams \in Nat
  BY FrameAssumption DEF IInv, Shape, WellFormed
<1>2. T(fn).nargregs \in Nat
  BY <1>1, KnownTarget, Conventions
<1>3. CASE p < T(fn).nargregs
  BY <1>3 DEF Incoming
<1>4. CASE ~(p < T(fn).nargregs)
  <2> DEFINE a == StackParam(fn, p)
             Here(q) == q \in T(fn).nargregs .. fn.nparams-1 /\ StackParam(fn, q) = a
  <2>1. Here(p)
    BY <1>1, <1>2, <1>4
  <2>2. \A q : Here(q) => q = p
    BY <1>1, <1>2 DEF StackParam
  <2>3. a \in CallersFrame(fn)
    BY <1>1, <1>2, <1>4 DEF StackParam, CallersFrame
  <2>4. (CHOOSE q \in T(fn).nargregs .. fn.nparams-1 : StackParam(fn, q) = a) = p
    <3> HIDE DEF a
    <3> QED
      BY <2>1, <2>2
  <2>5. CallersWord(fn, a) = Vreg(ParamBase + p)
    BY <2>1, <2>4 DEF CallersWord
  <2>6. mem[a] = CallersWord(fn, a)
    BY <2>3 DEF IInv, Fresh
  <2> QED
    BY <1>4, <2>5, <2>6 DEF Incoming
<1> QED
  BY <1>3, <1>4

LEMMA PrologueIInv == ASSUME IInv, Prologue PROVE IInv'
<1>1. /\ fn \in Functions /\ WellFormed(fn) /\ ParamBase \in Nat /\ fn.nparams \in Nat
      /\ fn.locals \in 0..ParamBase
  BY FrameAssumption DEF IInv, Shape, WellFormed
<1>2. /\ pc = "entry" /\ pc' = "body" /\ fn' = fn /\ taken' = taken
      /\ mem' = PrologueMemory(fn)
      /\ live' = {Vreg(v) : v \in Params(fn)} \cup Area(fn)
  BY DEF Prologue
<1>3. /\ DOMAIN mem = Watched(fn) /\ DOMAIN regs = Regs(fn) \cup {Fp, Ra}
      /\ \A a \in CallersFrame(fn) : mem[a] = CallersWord(fn, a)
      /\ \A r \in DOMAIN regs : regs[r] = <<"reg", r, 0>>
      /\ taken = <<>>
  BY <1>2 DEF IInv, Shape, Fresh
<1> DEFINE P(r) == {v \in Params(fn) : fn.reg[v] = r}
<1>4. /\ DOMAIN regs' = DOMAIN regs
      /\ \A r \in DOMAIN regs : regs'[r] = IF P(r) = {} THEN regs[r] ELSE mem'[Slot(fn, Max(P(r)))]
  BY DEF Prologue
<1>5. \A v \in Params(fn) : v \in Int /\ v \in Vregs(fn) /\ Vreg(v) \in Owned(fn)
  BY <1>1 DEF Params, Vregs, Owned
<1>6. \A v \in Params(fn) : \A r \in Regs(fn) : fn.reg[v] = r => P(r) = {v}
  <2>1. \A r \in Regs(fn) : r # InMemory
    BY <1>1, SavedInPool DEF InMemory
  <2>2. \A v, w \in Vregs(fn) : v # w /\ fn.reg[v] # InMemory => fn.reg[v] # fn.reg[w]
    BY <1>1 DEF WellFormed
  <2> QED
    BY <1>5, <2>1, <2>2
<1>7. \A r \in DOMAIN regs : r \notin Used(fn) => P(r) = {}
  <2>1. \A r \in DOMAIN regs : r # InMemory
    BY <1>1, <1>3, SavedInPool DEF InMemory, Fp, Ra
  <2> QED
    BY <1>5, <2>1 DEF Used
<1>8. Shape'
  <2>1. DOMAIN mem' = DOMAIN mem
    BY <1>2 DEF PrologueMemory, Written
  <2>2. live' \subseteq Owned(fn)
    BY <1>2, <1>5 DEF Owned
  <2>3. \E X : taken' \in Seq(X)
    BY <1>2 DEF IInv, Shape
  <2> QED
    BY <1>1, <1>2, <1>3, <1>4, <2>1, <2>2, <2>3 DEF Shape
<1>9. ASSUME ObjectsApart(fn) PROVE CallersFrameKept' /\ Body(fn, mem', regs', live', Len(taken'))
  <2>1. /\ \A a \in CallersFrame(fn) : mem'[a] = mem[a]
        /\ \A p \in 0..fn.nparams-1 : mem'[Address(fn, Vreg(ParamBase + p))] = Incoming(fn, p)
        /\ \A w \in Area(fn) : mem'[Address(fn, w)] = w
        /\ SavesKept(fn) =>
             /\ \A r \in Saved(fn) : mem'[SavedAt(fn, r)] = regs[r]
             /\ \A l \in StoredLinks(fn) : mem'[LinkAt(fn, l)] = regs[l]
    BY <1>1, <1>2, <1>3, <1>9, PrologueWrites
  <2>2. \A v \in Params(fn) : mem'[Address(fn, Vreg(v))] = Vreg(v)
    <3> SUFFICES ASSUME NEW p \in 0..fn.nparams-1
                 PROVE  mem'[Address(fn, Vreg(ParamBase + p))] = Vreg(ParamBase + p)
      BY DEF Params
    <3> QED
      BY <1>2, <2>1, ParamsArrive
  <2>3. \A r \in DOMAIN regs :
          \/ r \notin Used(fn) /\ regs'[r] = regs[r]
          \/ P(r) = {} /\ regs'[r] = regs[r]
          \/ \E v \in Params(fn) : P(r) = {v} /\ regs'[r] = Vreg(v)
    <3> TAKE r \in DOMAIN regs
    <3>1. CASE P(r) = {}
      BY <1>4, <3>1
    <3>2. CASE P(r) # {}
      <4>1. PICK v \in Params(fn) : fn.reg[v] = r
        BY <3>2
      <4>2. P(r) = {v}
        BY <1>3, <1>6, <1>7, <3>2, <4>1, SavedInPool, <1>1
      <4>3. Max({v}) = v
        <5>1. {v} \in SUBSET Int /\ v \in {v} /\ \A x \in {v} : x <= v
          BY <1>5
        <5> QED
          BY <5>1, MaxIs
      <4>4. Slot(fn, v) = Address(fn, Vreg(v))
        BY <1>1, Addresses
      <4> HIDE DEF P
      <4> QED
        BY <1>4, <2>2, <4>2, <4>3, <4>4
    <3> QED
      BY <3>1, <3>2
  <2>4. CallersFrameKept'
    BY <1>2, <1>3, <2>1 DEF CallersFrameKept
  <2>5. Sound(fn, mem', regs', live')
    <3>1. ASSUME NEW w \in Area(fn) PROVE Name(Held(fn, mem', regs', w)) = w
      <4>1. ~InReg(fn, w) /\ w \in Owned(fn)
        BY DEF Area, Words, InReg, Owned
      <4> QED
        BY <1>1, <2>1, <4>1, Names DEF Held
    <3>2. ASSUME NEW v \in Params(fn) PROVE Name(Held(fn, mem', regs', Vreg(v))) = Vreg(v)
      <4>1. Name(Vreg(v)) = Vreg(v)
        BY <1>1, <1>5, Names
      <4>2. CASE InReg(fn, Vreg(v))
        <5>1. Vreg(v)[2] = v
          BY DEF Vreg
        <5>2. fn.reg[v] \in Regs(fn) /\ fn.reg[v] \in Used(fn)
          BY <1>1, <1>5, <4>2, <5>1, InPoolOnly
        <5>3. P(fn.reg[v]) = {v}
          BY <1>6, <5>2
        <5>4. regs'[fn.reg[v]] = Vreg(v)
          <6> HIDE DEF P
          <6> QED
            BY <1>3, <2>3, <5>2, <5>3
        <5> QED
          BY <4>1, <4>2, <5>1, <5>4 DEF Held
      <4>3. CASE ~InReg(fn, Vreg(v))
        BY <2>2, <4>1, <4>3 DEF Held
      <4> QED
        BY <4>2, <4>3
    <3> QED
      BY <1>2, <1>3, <2>1, <3>1, <3>2 DEF Sound
  <2>6. ListKnown(fn, mem', regs', live', Len(taken'))
    <3>1. ASSUME fn.vararg PROVE Vreg(ListVreg) \notin live'
      <4>1. ListVreg \in 0..fn.locals-1
        BY <1>1, <3>1 DEF WellFormed, Locals
      <4>2. ListVreg \notin Params(fn)
        BY <1>1, <4>1 DEF Params
      <4> QED
        BY <1>2, <4>2 DEF Vreg, Area, Words
    <3> QED
      BY <3>1 DEF ListKnown
  <2>7. ASSUME SavesKept(fn) PROVE SavesHeld(fn, mem', regs') /\ RegsNamed(fn, regs')
    <3>1. Saved(fn) \subseteq DOMAIN regs /\ StoredLinks(fn) \subseteq DOMAIN regs
      BY <1>1, <1>3, SavedInPool DEF StoredLinks, Links
    <3>2. \A r \in (CalleeSaved(fn) \ Saved(fn)) \ Links(fn) : r \in DOMAIN regs /\ r \notin Used(fn)
      BY <1>1, <1>3, <2>7, UnsavedUnused
    <3>3. \A r \in (CalleeSaved(fn) \ Saved(fn)) \ Links(fn) : regs'[r] = <<"reg", r, 0>>
      BY <1>3, <1>4, <1>7, <3>2
    <3>4. SavesHeld(fn, mem', regs')
      BY <1>3, <2>1, <2>7, <3>1, <3>3 DEF SavesHeld
    <3>5. \A r \in DOMAIN regs' : regs'[r] = <<"reg", r, 0>> \/ \E v \in Params(fn) : regs'[r] = Vreg(v)
      BY <1>3, <1>4, <2>3
    <3>6. RegsNamed(fn, regs')
      <4>1. \A r : Name(<<"reg", r, 0>>) = <<"reg", r, 0>>
        BY <1>1, Names
      <4>2. \A v \in Params(fn) : Name(Vreg(v)) = Vreg(v) /\ Vreg(v) \in Owned(fn)
        BY <1>1, <1>5, Names
      <4>3. \A r \in DOMAIN regs' : r \in Regs(fn) \cup {Fp, Ra}
        BY <1>3, <1>4
      <4> QED
        BY <3>5, <4>1, <4>2, <4>3 DEF RegsNamed
    <3> QED
      BY <3>4, <3>6
  <2> QED
    BY <2>4, <2>5, <2>6, <2>7 DEF Body
<1> QED
  BY <1>2, <1>8, <1>9 DEF IInv

LEMMA RetIInv == ASSUME IInv, Ret PROVE IInv'
<1>1. fn \in Functions /\ WellFormed(fn)
  BY FrameAssumption DEF IInv, Shape
<1>2. /\ pc = "body" /\ pc' = "returned"
      /\ UNCHANGED <<fn, mem, live, taken>>
      /\ regs' = [r \in DOMAIN regs |->
                    CASE r \in Saved(fn) -> mem[RestoredFrom(fn, r)]
                      [] r \in Links(fn) -> mem[LinkAt(fn, r)]
                      [] OTHER           -> regs[r]]
  BY DEF Ret
<1>3. Shape'
  BY <1>2 DEF IInv, Shape
<1>4. ObjectsApart(fn) => CallersFrameKept'
  BY <1>2 DEF IInv, CallersFrameKept
<1>5. ASSUME ObjectsApart(fn), SavesKept(fn) PROVE RegsNamed(fn, regs') /\ CalleeSavedRestored'
  <2>1. SavesHeld(fn, mem, regs) /\ RegsNamed(fn, regs) /\ CallersFrameKept
    BY <1>2, <1>5 DEF IInv, Body
  <2>2. DOMAIN regs = Regs(fn) \cup {Fp, Ra} /\ Saved(fn) \subseteq Regs(fn) /\ Regs(fn) \subseteq 0..8
    BY <1>1, SavedInPool DEF IInv, Shape
  <2>3. \A r \in Saved(fn) : r \notin Links(fn)
    BY <2>2 DEF Links, Fp, Ra
  <2>4. ASSUME NEW r \in Saved(fn) PROVE regs'[r] = <<"reg", r, 0>>
    <3>1. mem[RestoredFrom(fn, r)] = <<"reg", r, 0>>
      BY <1>1, <1>5, <2>1, SavedApart DEF SavesHeld
    <3> QED
      BY <1>2, <2>2, <2>3, <3>1
  <2>5. ASSUME NEW r \in Links(fn) PROVE regs'[r] = <<"reg", r, 0>> /\ r \in {Fp, Ra}
    <3>1. r \in {Fp, Ra} /\ r \notin Saved(fn)
      BY <2>3 DEF Links
    <3>2. mem[LinkAt(fn, r)] = <<"reg", r, 0>>
      <4>1. CASE r \in StoredLinks(fn)
        BY <2>1, <4>1 DEF SavesHeld
      <4>2. CASE r \notin StoredLinks(fn)
        <5>1. Down(fn) /\ r = Ra /\ LinkAt(fn, r) = 0
          BY <3>1, <4>2 DEF StoredLinks, LinkAt, Down, Fp, Ra
        <5>2. mem[0] = <<"reg", Ra, 0>>
          BY <1>1, <2>1, <5>1, ReturnAddress DEF CallersFrameKept
        <5> QED
          BY <5>1, <5>2
      <4> QED
        BY <4>1, <4>2
    <3> QED
      BY <1>2, <2>2, <3>1, <3>2
  <2>6. ASSUME NEW r \in DOMAIN regs, r \notin Saved(fn), r \notin Links(fn) PROVE regs'[r] = regs[r]
    BY <1>2, <2>6
  <2>7. RegsNamed(fn, regs')
    <3>1. \A r \in DOMAIN regs : Name(<<"reg", r, 0>>) = <<"reg", r, 0>>
      BY <1>1, Names
    <3>2. DOMAIN regs' = DOMAIN regs
      BY <1>2
    <3> QED
      BY <2>1, <2>2, <2>4, <2>5, <2>6, <3>1, <3>2 DEF RegsNamed
  <2>8. \A r \in CalleeSaved(fn) : regs'[r] = <<"reg", r, 0>>
    <3> TAKE r \in CalleeSaved(fn)
    <3>1. r \in DOMAIN regs
      BY <2>2 DEF CalleeSaved
    <3>2. r \notin Saved(fn) /\ r \notin Links(fn) => regs[r] = <<"reg", r, 0>>
      BY <2>1 DEF SavesHeld
    <3> QED
      BY <2>4, <2>5, <2>6, <3>1, <3>2
  <2> QED
    BY <1>2, <2>7, <2>8 DEF CalleeSavedRestored
<1> QED
  BY <1>2, <1>3, <1>4, <1>5 DEF IInv

-----------------------------------------------------------------------------
(* The words of the list, one after the other from ListAt. *)
LEMMA ListWords ==
  ASSUME NEW g, WellFormed(g), g.vararg
  PROVE  /\ T(g).listSize \in Nat
         /\ g.target = "x86" => T(g).listSize = 0
         /\ ListAt(g) \in Int
         /\ g.target # "x86" =>
              \A k \in 0..T(g).listSize-1 : ListAt(g) + k = Address(g, <<"list", k, 0>>)
         /\ \A k \in 0..T(g).listSize-1 : <<"list", k, 0>> \in List(g) /\ <<"list", k, 0>> \in Owned(g)
         /\ \A w \in List(g) : \E k \in 0..T(g).listSize-1 : w = <<"list", k, 0>>
<1>1. T(g).listSize \in Nat /\ (g.target = "x86" => T(g).listSize = 0)
  BY KnownTarget, Conventions
<1>2. At(g, Base(g) + T(g).list) \in Int
  <2>1. StackPointer(g) \in Int /\ Base(g) \in Nat /\ T(g).list \in Nat
    BY StackBelow, Sizes, KnownTarget, Conventions
  <2> QED
    BY <2>1 DEF At, FramePointer
<1>3. ListAt(g) \in Int
  <2>1. CASE g.target = "x86"
    BY <2>1 DEF ListAt, FramePointer, WellFormed
  <2>2. CASE g.target # "x86"
    <3> DEFINE a == At(g, Base(g) + T(g).list)
    <3>1. ListAt(g) = a + 0
      BY <2>2, Addresses DEF ListAt
    <3> HIDE DEF a
    <3>2. a \in Int
      BY <1>2 DEF a
    <3> QED
      BY <3>1, <3>2
  <2> QED
    BY <2>1, <2>2
<1>4. ASSUME g.target # "x86", NEW k \in 0..T(g).listSize-1
      PROVE  ListAt(g) + k = Address(g, <<"list", k, 0>>)
  <2> DEFINE a == At(g, Base(g) + T(g).list)
  <2>1. Address(g, <<"list", k, 0>>) = a + k /\ Address(g, <<"list", 0, 0>>) = a + 0
    BY Addresses
  <2>2. ListAt(g) = Address(g, <<"list", 0, 0>>)
    BY <1>4 DEF ListAt
  <2>3. k \in Int /\ a \in Int
    BY <1>2
  <2> HIDE DEF a
  <2> QED
    BY <2>1, <2>2, <2>3
<1>5. \A k \in 0..T(g).listSize-1 : <<"list", k, 0>> \in List(g) /\ <<"list", k, 0>> \in Owned(g)
  BY DEF Owned, List, Words
<1>6. \A w \in List(g) : \E k \in 0..T(g).listSize-1 : w = <<"list", k, 0>>
  BY DEF List, Words
<1> QED
  BY <1>1, <1>3, <1>4, <1>5, <1>6

(* The stores of va_start to the list. *)
FieldsFit(g, F) == DOMAIN F = 1..T(g).listSize
ListStores(g, F) == [k \in DOMAIN F |-> Store(ListAt(g) + k - 1, <<"list", k - 1, F[k]>>)]

LEMMA ListWritten ==
  ASSUME fn \in Functions, ObjectsApart(fn), fn.vararg,
         NEW M, DOMAIN M = Watched(fn), NEW F, FieldsFit(fn, F)
  PROVE  LET W == Written(M, ListStores(fn, F)) IN
         /\ DOMAIN W = Watched(fn)
         /\ \A a \in Watched(fn) : (\A w \in List(fn) : a # Address(fn, w)) => W[a] = M[a]
         /\ \A k \in 0..T(fn).listSize-1 :
              W[Address(fn, <<"list", k, 0>>)] = <<"list", k, F[k+1]>>
<1> DEFINE st == ListStores(fn, F)
           n == T(fn).listSize
           word(i) == <<"list", i - 1, 0>>
<1>1. WellFormed(fn) /\ n \in Nat
  BY FrameAssumption, ListWords
<1>2. DOMAIN st = 1..n
  BY DEF ListStores, FieldsFit
<1>3. ASSUME NEW i \in 1..n PROVE st[i].to = Address(fn, word(i)) /\ st[i].value = <<"list", i - 1, F[i]>>
  <2>1. i-1 \in 0..n-1 /\ n # 0
    BY <1>1
  <2>2. ListAt(fn) + (i-1) = Address(fn, word(i)) /\ ListAt(fn) \in Int
    BY <1>1, <2>1, ListWords
  <2>3. ListAt(fn) + i - 1 = ListAt(fn) + (i-1)
    BY <1>1, <2>2
  <2> QED
    BY <2>2, <2>3 DEF ListStores, Store, FieldsFit
<1>4. \A i \in 1..n : word(i) \in List(fn) /\ word(i) \in Owned(fn)
  <2> TAKE i \in 1..n
  <2>1. i-1 \in 0..n-1
    BY <1>1
  <2> QED
    BY <1>1, <2>1, ListWords
<1>5. \A i, j \in 1..n : i # j => word(i) # word(j)
  BY <1>1
<1> HIDE DEF st
<1>6. DOMAIN Written(M, st) = Watched(fn)
  BY <1>1, <1>2, WrittenAt
<1>7. ASSUME NEW a \in Watched(fn), \A w \in List(fn) : a # Address(fn, w)
      PROVE  Written(M, st)[a] = M[a]
  <2>1. \A k \in 1..n : st[k].to # a
    BY <1>3, <1>4, <1>7
  <2> HIDE DEF n
  <2> QED
    BY <1>1, <1>2, <2>1, WrittenAt
<1>8. ASSUME NEW k \in 0..n-1
      PROVE  Written(M, st)[Address(fn, <<"list", k, 0>>)] = <<"list", k, F[k+1]>>
  <2>1. k+1 \in 1..n /\ (k+1) - 1 = k
    BY <1>1
  <2>2. word(k+1) = <<"list", k, 0>>
    BY <2>1
  <2>3. Address(fn, word(k+1)) \in Watched(fn)
    BY <1>4, <2>1, InTheFrame
  <2>4. st[k+1].to = Address(fn, word(k+1)) /\ st[k+1].value = <<"list", k, F[k+1]>>
    BY <1>3, <2>1
  <2>5. \A j \in 1..n : j # k+1 => st[j].to # Address(fn, word(k+1))
    <3> HIDE DEF word, n
    <3> QED
      BY <1>1, <1>3, <1>4, <1>5, <2>1, WordsApart
  <2> HIDE DEF word, n
  <2>6. Written(M, st)[Address(fn, word(k+1))] = st[k+1].value
    BY <1>1, <1>2, <2>1, <2>3, <2>4, <2>5, WrittenAt
  <2> QED
    BY <2>2, <2>4, <2>6
<1> QED
  BY <1>6, <1>7, <1>8 DEF st

LEMMA ListWrittenBody ==
  ASSUME fn \in Functions, ObjectsApart(fn), fn.vararg,
         NEW M, DOMAIN M = Watched(fn),
         NEW R, DOMAIN R = Regs(fn) \cup {Fp, Ra},
         NEW L, L \subseteq Owned(fn), NEW n, Body(fn, M, R, L, n),
         NEW F, FieldsFit(fn, F)
  PROVE  Body(fn, Written(M, ListStores(fn, F)), R, L \cup List(fn), n)
<1> DEFINE W == Written(M, ListStores(fn, F))
<1>1. WellFormed(fn)
  BY FrameAssumption
<1>2. /\ DOMAIN W = Watched(fn)
      /\ \A a \in Watched(fn) : (\A w \in List(fn) : a # Address(fn, w)) => W[a] = M[a]
      /\ \A k \in 0..T(fn).listSize-1 :
           W[Address(fn, <<"list", k, 0>>)] = <<"list", k, F[k+1]>>
  <2> HIDE DEF ListStores
  <2> QED
    BY ListWritten
<1>3. \A w \in List(fn) : w \in Owned(fn) /\ ~InReg(fn, w) /\ w # Vreg(ListVreg)
  BY <1>1, ListWords DEF InReg, Vreg
<1> HIDE DEF W
<1>4. ASSUME NEW u \in Owned(fn) \ List(fn) PROVE Held(fn, W, R, u) = Held(fn, M, R, u)
  <2>1. Address(fn, u) \in Watched(fn)
    BY InTheFrame
  <2>2. \A w \in List(fn) : Address(fn, u) # Address(fn, w)
    BY <1>1, <1>3, WordsApart
  <2> QED
    BY <1>2, <2>1, <2>2 DEF Held
<1>5. ASSUME NEW w \in List(fn) PROVE Name(Held(fn, W, R, w)) = w
  <2> PICK k \in 0..T(fn).listSize-1 : w = <<"list", k, 0>>
    BY <1>1, ListWords
  <2>1. Held(fn, W, R, w) = <<"list", k, F[k+1]>>
    BY <1>2, <1>3 DEF Held
  <2> QED
    BY <1>1, <2>1, Names
<1>6. \A a \in CallersFrame(fn) : a \in Watched(fn) /\ \A w \in List(fn) : a # Address(fn, w)
  BY <1>3, CallersWatched, InTheFrame
<1>7. Sound(fn, W, R, L \cup List(fn))
  BY <1>2, <1>4, <1>5, <1>6 DEF Sound, Body
<1>8. ListKnown(fn, W, R, L \cup List(fn), n)
  <2>1. Vreg(ListVreg) \notin List(fn)
    BY <1>3
  <2> QED
    BY <1>4, <2>1 DEF ListKnown, Body
<1>9. ASSUME SavesKept(fn) PROVE SavesHeld(fn, W, R) /\ RegsNamed(fn, R)
  <2>1. Below \in Nat /\ Above \in Nat /\ fn.nparams \in Nat
    BY <1>1, FrameAssumption DEF WellFormed
  <2>2. \A r \in Saved(fn) : SavedAt(fn, r) \in Watched(fn) /\ \A w \in List(fn) : SavedAt(fn, r) # Address(fn, w)
    BY <1>1, <1>3, <1>9, <2>1, SavedInFrame, SavedApart, StackBelow DEF Watched
  <2>3. \A l \in StoredLinks(fn) : LinkAt(fn, l) \in Watched(fn) /\ \A w \in List(fn) : LinkAt(fn, l) # Address(fn, w)
    BY <1>1, <1>3, <1>9, <2>1, SavedInFrame, SavedApart, StackBelow DEF Watched
  <2> QED
    BY <1>2, <1>9, <2>2, <2>3 DEF SavesHeld, Body
<1> QED
  BY <1>7, <1>8, <1>9 DEF Body, W

LEMMA FieldsOfList ==
  ASSUME NEW g, WellFormed(g)
  PROVE  FieldsFit(g, Fields(g))
<1> USE DEF FieldsFit
<1>1. CASE g.target = "x86_64"
  BY <1>1, Conventions DEF Fields, ListX86_64
<1>2. CASE g.target = "x86"
  BY <1>2, Conventions DEF Fields
<1>3. CASE g.target = "arm64"
  BY <1>3, Conventions DEF Fields, ListArm64
<1>4. CASE g.target = "riscv"
  BY <1>4, Conventions DEF Fields, ListRiscv
<1>5. CASE g.target = "arm"
  BY <1>5, Conventions DEF Fields, ListArm
<1> QED
  BY <1>1, <1>2, <1>3, <1>4, <1>5, KnownTarget

LEMMA VaStartIInv == ASSUME IInv, VaStart PROVE IInv'
<1> DEFINE x == <<"vreg", ListVreg, ListAt(fn)>>
           W == Written(mem, ListStores(fn, Fields(fn)))
           L == live \cup List(fn)
           w == Vreg(ListVreg)
<1>1. /\ fn \in Functions /\ WellFormed(fn) /\ pc = "body" /\ fn.vararg
      /\ UNCHANGED <<fn, pc>> /\ live' = L \cup {w} /\ taken' = <<>>
  BY FrameAssumption DEF IInv, Shape, VaStart
<1>2. mem' = InPlace(W, x, x) /\ regs' = InPool(regs, x, x)
  BY DEF VaStart, StartsList, ListStores
<1>3. mem' = InPlace(W, w, x) /\ regs' = InPool(regs, w, x)
  <2>1. x[1] = w[1] /\ x[2] = w[2]
    BY DEF Vreg
  <2> HIDE DEF x, w, W
  <2> QED
    BY <1>2, <2>1 DEF InPlace, InPool, InReg, Address
<1>4. /\ DOMAIN mem = Watched(fn) /\ DOMAIN regs = Regs(fn) \cup {Fp, Ra}
      /\ live \subseteq Owned(fn)
      /\ ObjectsApart(fn) => Body(fn, mem, regs, live, Len(taken))
  BY <1>1 DEF IInv, Shape
<1>5. L \subseteq Owned(fn) /\ w \in Owned(fn) /\ List(fn) \subseteq L
  BY <1>1, <1>4 DEF Owned, WellFormed, Vregs
<1>6. DOMAIN W = Watched(fn)
  BY <1>4 DEF Written
<1>7. ASSUME ObjectsApart(fn) PROVE Body(fn, mem', regs', live', Len(taken'))
  <2>1. Body(fn, W, regs, L, Len(taken))
    BY <1>1, <1>4, <1>7, FieldsOfList, ListWrittenBody
  <2>2. Name(x) = w
    BY <1>1, Names DEF Vreg
  <2>3. x[3] = ListAfter(fn, 0)
    BY <1>1, ListWords DEF ListAfter
  <2>4. Len(taken') = 0
    BY <1>1
  <2> HIDE DEF x, W, L
  <2> QED
    BY <1>1, <1>3, <1>4, <1>5, <1>6, <1>7, <2>1, <2>2, <2>3, <2>4, ListBody
<1>8. \E X : taken' \in Seq(X)
  <2>1. taken' \in Seq({})
    BY <1>1
  <2> QED
    BY <2>1
<1> HIDE DEF x, W, L, w
<1> QED
  BY <1>1, <1>3, <1>4, <1>5, <1>6, <1>7, <1>8, SameDomains, BodyStep

-----------------------------------------------------------------------------
(* What va_arg does before it puts what it found: the list steps on. *)
ListTo(list, F, s) ==
  IF s = 0 THEN <<"vreg", ListVreg, list + 1>> ELSE <<"list", s - 1, F[s] + 1>>
Stepped(M, list, F, s) ==
  IF s = 0 THEN InPlace(M, ListTo(list, F, s), ListTo(list, F, s))
           ELSE [M EXCEPT ![list + s - 1] = ListTo(list, F, s)]
Touched(R, list, F, s, x) ==
  CASE fn.target = "x86"    -> InPool(R, ListTo(list, F, s), ListTo(list, F, s))
    [] fn.target = "x86_64" -> Scratched(R, x)
    [] OTHER                -> R
StepFits(g, s) == IF g.target = "x86" THEN s = 0 ELSE s \in 1..T(g).listSize

LEMMA TakeStep ==
  ASSUME NEW g, WellFormed(g), NEW list, NEW F
  PROVE  StepFits(g, Take(g, list, F).step)
<1> USE DEF StepFits
<1>1. CASE g.target = "x86_64"
  BY <1>1, Conventions DEF Take, TakeX86_64
<1>2. CASE g.target = "x86"
  BY <1>2 DEF Take, TakeX86
<1>3. CASE g.target = "arm64"
  BY <1>3, Conventions DEF Take, TakeArm64
<1>4. CASE g.target = "riscv"
  BY <1>4, Conventions DEF Take, TakeRiscv
<1>5. CASE g.target = "arm"
  BY <1>5, Conventions DEF Take, TakeArm
<1> QED
  BY <1>1, <1>2, <1>3, <1>4, <1>5, KnownTarget

(* The word of the list that va_arg writes. *)
ListWord(s) == IF s = 0 THEN Vreg(ListVreg) ELSE <<"list", s - 1, 0>>
LEMMA SteppedPut ==
  ASSUME WellFormed(fn), fn.vararg, NEW n \in Nat, NEW list, list = ListAfter(fn, n),
         NEW F, NEW s, StepFits(fn, s), NEW M, NEW R, NEW x
  PROVE  LET to == ListTo(list, F, s) IN
         /\ Stepped(M, list, F, s) = InPlace(M, ListWord(s), to)
         /\ Touched(R, list, F, s, x) =
              IF fn.target = "x86_64" THEN Scratched(InPool(R, ListWord(s), to), x)
                                      ELSE InPool(R, ListWord(s), to)
         /\ Name(to) = ListWord(s)
         /\ fn.target = "x86" => to[3] = ListAfter(fn, n + 1)
<1> DEFINE to == ListTo(list, F, s)
           w == ListWord(s)
<1>1. CASE fn.target = "x86"
  <2>1. s = 0 /\ to = <<"vreg", ListVreg, list + 1>> /\ w = <<"vreg", ListVreg, 0>>
    BY <1>1 DEF ListTo, ListWord, Vreg, StepFits
  <2>2. to[1] = w[1] /\ to[2] = w[2]
    BY <2>1
  <2>3. Stepped(M, list, F, s) = InPlace(M, to, to) /\ Touched(R, list, F, s, x) = InPool(R, to, to)
    BY <1>1, <2>1 DEF Stepped, Touched
  <2>4. to[3] = ListAfter(fn, n + 1)
    BY <1>1, <2>1, ListWords DEF ListAfter
  <2>5. Name(to) = w
    BY <2>1, Names
  <2> HIDE DEF to, w
  <2>6. InPlace(M, to, to) = InPlace(M, w, to) /\ InPool(R, to, to) = InPool(R, w, to)
    BY <2>2 DEF InPlace, InPool, InReg, Address
  <2> QED
    BY <1>1, <2>3, <2>4, <2>5, <2>6 DEF to, w
<1>2. CASE fn.target # "x86"
  <2>1. /\ s \in 1..T(fn).listSize /\ s # 0 /\ s-1 \in 0..T(fn).listSize-1
        /\ T(fn).listSize \in Nat
    BY <1>2, ListWords DEF StepFits
  <2>2. to = <<"list", s - 1, F[s] + 1>> /\ w = <<"list", s - 1, 0>>
    BY <2>1 DEF ListTo, ListWord
  <2>3. ~InReg(fn, w)
    BY <2>2 DEF InReg
  <2>4. list + s - 1 = Address(fn, w)
    <3>1. list = ListAt(fn) /\ ListAt(fn) \in Int
      BY <1>2, ListWords DEF ListAfter
    <3>2. ListAt(fn) + (s-1) = Address(fn, w)
      BY <1>2, <2>1, <2>2, ListWords
    <3> QED
      BY <2>1, <3>1, <3>2
  <2>5. Name(to) = w
    BY <2>2, Names
  <2> HIDE DEF to, w
  <2>6. Stepped(M, list, F, s) = InPlace(M, w, to)
    BY <2>1, <2>3, <2>4 DEF Stepped, InPlace, to
  <2>7. InPool(R, w, to) = R
    BY <2>3 DEF InPool
  <2>8. Touched(R, list, F, s, x) = IF fn.target = "x86_64" THEN Scratched(R, x) ELSE R
    BY <1>2 DEF Touched
  <2> QED
    BY <1>2, <2>5, <2>6, <2>7, <2>8 DEF to, w
<1> QED
  BY <1>1, <1>2

LEMMA SteppedBody ==
  ASSUME fn \in Functions, ObjectsApart(fn), fn.vararg, fn.takes > 0,
         NEW M, DOMAIN M = Watched(fn),
         NEW R, DOMAIN R = Regs(fn) \cup {Fp, Ra},
         NEW L, L \subseteq Owned(fn), Vreg(ListVreg) \in L,
         NEW n \in Nat, Body(fn, M, R, L, n),
         NEW list, list = ListAfter(fn, n), NEW F, NEW s, StepFits(fn, s), NEW x
  PROVE  Body(fn, Stepped(M, list, F, s), Touched(R, list, F, s, x), L, n + 1)
<1> DEFINE to == ListTo(list, F, s)
           w == ListWord(s)
           N == InPlace(M, w, to)
           Q == InPool(R, w, to)
<1>1. WellFormed(fn)
  BY FrameAssumption
<1>2. /\ Stepped(M, list, F, s) = N
      /\ Touched(R, list, F, s, x) = IF fn.target = "x86_64" THEN Scratched(Q, x) ELSE Q
      /\ Name(to) = w
      /\ fn.target = "x86" => to[3] = ListAfter(fn, n + 1)
  BY <1>1, SteppedPut
<1>3. List(fn) \subseteq L
  BY DEF Body, ListKnown
<1>4. CASE fn.target = "x86"
  <2>1. w = Vreg(ListVreg)
    BY <1>4 DEF ListWord, StepFits
  <2>2. Body(fn, N, Q, L \cup {w}, n + 1)
    <3> HIDE DEF to
    <3> QED
      BY <1>2, <1>3, <1>4, <2>1, ListBody
  <2>3. L \cup {w} = L
    BY <2>1
  <2> HIDE DEF N, Q, w
  <2> QED
    BY <1>2, <1>4, <2>2, <2>3
<1>5. CASE fn.target # "x86"
  <2>1. s \in 1..T(fn).listSize /\ s # 0 /\ s-1 \in 0..T(fn).listSize-1
    BY <1>1, <1>5, ListWords DEF StepFits
  <2>2. w = <<"list", s - 1, 0>>
    BY <2>1 DEF ListWord
  <2>3. w \in Owned(fn) /\ w \in L /\ w # Vreg(ListVreg)
    BY <1>1, <1>3, <2>1, <2>2, ListWords DEF Vreg
  <2>4. Body(fn, N, Q, L \cup {w}, n)
    <3> HIDE DEF to, w
    <3> QED
      BY <1>2, <2>3, PutBody
  <2>5. L \cup {w} = L
    BY <2>3
  <2>6. DOMAIN Q = Regs(fn) \cup {Fp, Ra}
    BY SameDomains
  <2> HIDE DEF N, Q, w
  <2>7. Body(fn, N, Q, L, n)
    BY <2>4, <2>5
  <2>8. Body(fn, N, Touched(R, list, F, s, x), L, n)
    <3>1. CASE fn.target = "x86_64"
      <4>1. Rbx \notin Used(fn) /\ ~SavesKept(fn)
        BY <3>1, <1>1 DEF ObjectsApart, SavesKept
      <4> QED
        BY <1>2, <2>6, <2>7, <3>1, <4>1, ScratchBody
    <3>2. CASE fn.target # "x86_64"
      BY <1>2, <2>7, <3>2
    <3> QED
      BY <3>1, <3>2
  <2>9. ListAfter(fn, n) = ListAfter(fn, n + 1)
    BY <1>5 DEF ListAfter
  <2> QED
    BY <1>2, <2>8, <2>9 DEF Body, ListKnown
<1> QED
  BY <1>4, <1>5

LEMMA VaArgIInv == ASSUME IInv, VaArg PROVE IInv'
<1> DEFINE list == Content(Vreg(ListVreg))[3]
           F == Loaded(list)
           next == Take(fn, list, F)
           n == Len(taken)
           M == Stepped(mem, list, F, next.step)
           R == Touched(regs, list, F, next.step, Read(next.at))
<1>1. /\ fn \in Functions /\ WellFormed(fn) /\ pc = "body"
      /\ UNCHANGED <<fn, pc>> /\ Vreg(ListVreg) \in live /\ n < fn.takes
  BY FrameAssumption DEF IInv, Shape, VaArg
<1>2. PICK v \in Others(fn) : /\ TakesFrom(list, F, next, Vreg(v))
                             /\ live' = live \cup {Vreg(v)}
  BY DEF VaArg
<1> DEFINE w == Vreg(v)
<1>3. /\ taken' = Append(taken, Read(next.at))
      /\ mem' = InPlace(M, w, w) /\ regs' = InPool(R, w, w)
  BY <1>2 DEF TakesFrom, Stepped, Touched, ListTo, Scratched
<1>4. /\ DOMAIN mem = Watched(fn) /\ DOMAIN regs = Regs(fn) \cup {Fp, Ra}
      /\ live \subseteq Owned(fn)
      /\ ObjectsApart(fn) => Body(fn, mem, regs, live, n)
  BY <1>1 DEF IInv, Shape
<1>5. PICK X : taken \in Seq(X)
  BY DEF IInv, Shape
<1>6. n \in Nat /\ fn.takes \in Nat /\ fn.takes > 0 /\ fn.vararg
  <2>1. n \in Nat /\ fn.takes \in Nat
    BY <1>1, <1>5 DEF WellFormed
  <2> QED
    BY <1>1, <2>1 DEF WellFormed
<1>7. (\E Y : taken' \in Seq(Y)) /\ Len(taken') = n + 1
  <2> DEFINE y == Read(next.at)
  <2>1. taken' = Append(taken, y)
    BY <1>3
  <2> HIDE DEF y
  <2>2. taken \in Seq(X \cup {y})
    BY <1>5
  <2>3. Append(taken, y) \in Seq(X \cup {y}) /\ Len(Append(taken, y)) = n + 1
    BY <2>2
  <2> QED
    BY <2>1, <2>3
<1>8. w \in Owned(fn) /\ w # Vreg(ListVreg) /\ Name(w) = w
  <2>1. w \in Owned(fn) /\ w # Vreg(ListVreg)
    BY <1>2 DEF Others, Owned, Vregs, Vreg
  <2> QED
    BY <1>1, <2>1, Names
<1>9. DOMAIN M = Watched(fn) /\ DOMAIN R = Regs(fn) \cup {Fp, Ra}
  BY <1>4, SameDomains DEF Stepped, Touched, Scratched
<1>10. live' = live \cup {w}
  BY <1>2
<1>11. ASSUME ObjectsApart(fn) PROVE Body(fn, mem', regs', live', Len(taken'))
  <2>1. list = ListAfter(fn, n)
    BY <1>1, <1>4, <1>6, <1>11 DEF Body, ListKnown, Held, Content
  <2>2. StepFits(fn, next.step)
    BY <1>1, TakeStep
  <2>3. Body(fn, M, R, live, n + 1)
    <3> HIDE DEF list, F, next, n
    <3> QED
      BY <1>1, <1>4, <1>6, <1>11, <2>1, <2>2, SteppedBody
  <2> HIDE DEF list, F, next, n, M, R, w
  <2> QED
    BY <1>1, <1>3, <1>4, <1>7, <1>8, <1>9, <1>10, <1>11, <2>3, PutBody
<1> HIDE DEF list, F, next, n, M, R, w
<1> QED
  BY <1>1, <1>3, <1>4, <1>7, <1>8, <1>9, <1>10, <1>11, SameDomains, BodyStep

-----------------------------------------------------------------------------
LEMMA StutterIInv == ASSUME IInv, UNCHANGED vars PROVE IInv'
<1>1. UNCHANGED <<fn, pc, mem, regs, live, taken>>
  BY DEF vars
<1>2. Shape'
  BY <1>1 DEF IInv, Shape
<1>3. (pc = "entry" => Fresh)'
  BY <1>1 DEF IInv, Fresh
<1>4. (ObjectsApart(fn) =>
         /\ CallersFrameKept
         /\ pc = "body" => Body(fn, mem, regs, live, Len(taken))
         /\ pc = "returned" /\ SavesKept(fn) => RegsNamed(fn, regs) /\ CalleeSavedRestored)'
  BY <1>1 DEF IInv, CallersFrameKept, CalleeSavedRestored
<1> QED
  BY <1>2, <1>3, <1>4 DEF IInv

(* The invariant holds in every state a function of any size goes through. *)
THEOREM FrameInvariance == Spec => []IInv
<1>1. IInv /\ [Next]_vars => IInv'
  <2> SUFFICES ASSUME IInv, [Next]_vars PROVE IInv'
    OBVIOUS
  <2>1. CASE Prologue
    BY <2>1, PrologueIInv
  <2>2. CASE Define
    BY <2>2, DefineIInv
  <2>3. CASE StoreObject
    BY <2>3, StoreObjectIInv
  <2>4. CASE VaStart
    BY <2>4, VaStartIInv
  <2>5. CASE VaArg
    BY <2>5, VaArgIInv
  <2>6. CASE Ret
    BY <2>6, RetIInv
  <2>7. CASE UNCHANGED vars
    BY <2>7, StutterIInv
  <2> QED
    BY <2>1, <2>2, <2>3, <2>4, <2>5, <2>6, <2>7 DEF Next
<1> QED
  BY <1>1, InitIInv, PTL DEF Spec

(* Where the objects of a function are apart, whatever it does and in any   *)
(* order, each of its words keeps what was last put there, and none is     *)
(* below the stack pointer.                                                *)
THEOREM ObjectsAreKept == Spec => [](ObjectsApart(fn) => ObjectsKeep)
<1>1. IInv => (ObjectsApart(fn) => ObjectsKeep)
  <2> SUFFICES ASSUME IInv, ObjectsApart(fn), pc = "body", NEW w \in live
               PROVE  InFrame(w) /\ Name(Content(w)) = w
    BY DEF ObjectsKeep
  <2>1. fn \in Functions /\ WellFormed(fn) /\ w \in Owned(fn)
    BY FrameAssumption DEF IInv, Shape
  <2>2. InFrame(w)
    BY <2>1, WordsInFrame DEF InFrame
  <2>3. Name(Held(fn, mem, regs, w)) = w
    BY DEF IInv, Body, Sound
  <2> QED
    BY <2>2, <2>3 DEF Held, Content
<1> QED
  BY <1>1, FrameInvariance, PTL

(* Nor does it write a word of its caller's frame. *)
THEOREM CallersFrameIsKept == Spec => [](ObjectsApart(fn) => CallersFrameKept)
<1>1. IInv => (ObjectsApart(fn) => CallersFrameKept)
  BY DEF IInv
<1> QED
  BY <1>1, FrameInvariance, PTL

(* Where a target saves what it should and finds it again, the caller gets  *)
(* its registers back, and control returns to it.                          *)
THEOREM CalleeSavedAreRestored ==
  Spec => [](ObjectsApart(fn) /\ SavesKept(fn) => CalleeSavedRestored)
<1>1. IInv => (ObjectsApart(fn) /\ SavesKept(fn) => CalleeSavedRestored)
  BY DEF IInv, CalleeSavedRestored
<1> QED
  BY <1>1, FrameInvariance, PTL

(* No register is ever loaded from a word nobody wrote. *)
THEOREM FrameTypes == Spec => [](ObjectsApart(fn) /\ SavesKept(fn) => TypeOK)
<1>1. IInv => (ObjectsApart(fn) /\ SavesKept(fn) => TypeOK)
  <2> SUFFICES ASSUME IInv, ObjectsApart(fn), SavesKept(fn) PROVE TypeOK
    OBVIOUS
  <2>1. Shape /\ WellFormed(fn)
    BY FrameAssumption DEF IInv, Shape
  <2>2. RegsNamed(fn, regs)
    <3>1. CASE pc = "entry"
      <4>1. \A r : Name(<<"reg", r, 0>>) = <<"reg", r, 0>>
        BY <2>1, Names
      <4> QED
        BY <2>1, <3>1, <4>1 DEF IInv, Shape, Fresh, RegsNamed
    <3>2. CASE pc = "body"
      BY <3>2 DEF IInv, Body
    <3>3. CASE pc = "returned"
      BY <3>3 DEF IInv
    <3> QED
      BY <2>1, <3>1, <3>2, <3>3 DEF Shape
  <2> QED
    BY <2>1, <2>2 DEF Shape, RegsNamed, TypeOK
<1> QED
  BY <1>1, FrameInvariance, PTL

-----------------------------------------------------------------------------
(* Where the arguments of a variadic call are, and that va_arg finds them. *)

(* What the fields of the list say when argument p is the next. *)
AtArgument(g, F, p) ==
  CASE g.target = "x86_64" -> /\ F[3] = AreaAt(g)
                              /\ IF p < 6 THEN F[1] = p /\ F[2] = 1 ELSE F[1] = 6 /\ F[2] = p - 5
    [] g.target = "x86"    -> TRUE
    [] g.target = "arm64"  -> F[2] = AreaAt(g) + 8 /\ F[4] = p - 8
    [] g.target = "riscv"  -> /\ F[2] = AreaAt(g) + 8
                              /\ IF p < 8 THEN F[4] = p - 8 /\ F[3] = 0 ELSE F[4] = 0 /\ F[3] = p - 8
    [] g.target = "arm"    -> /\ F[2] = AreaAt(g) + 4
                              /\ IF p < 4 THEN F[1] = AreaAt(g) + p /\ F[3] = 0
                                          ELSE F[1] = AreaAt(g) + 4 /\ F[3] = p - 4

FieldAddress(g, k) == Address(g, <<"list", k - 1, 0>>)
FieldsIn(g, M) == [k \in 1..T(g).listSize |-> M[FieldAddress(g, k)][3]]
Ordered(g, tk) == \A i \in DOMAIN tk : tk[i] = Argument(g, g.nparams + i - 1)
Position(g, M, L, n) ==
  g.takes > 0 /\ Vreg(ListVreg) \in L => AtArgument(g, FieldsIn(g, M), g.nparams + n)

(* The inductive invariant, with the one above. *)
Found ==
  ObjectsApart(fn) /\ ListStartsRight(fn) =>
    /\ Ordered(fn, taken)
    /\ pc = "body" => Position(fn, mem, live, Len(taken))

-----------------------------------------------------------------------------
LEMMA MinIs ==
  ASSUME NEW S \in SUBSET Int, NEW m \in S, \A x \in S : m <= x
  PROVE  Min(S) = m
<1>1. \A n \in S : (\A x \in S : n <= x) => n = m
  OBVIOUS
<1> QED
  BY <1>1 DEF Min

LEMMA AreaPlaced ==
  ASSUME NEW g, WellFormed(g)
  PROVE  /\ AreaAt(g) \in Int
         /\ \A k \in Nat : Address(g, <<"area", k, 0>>) = AreaAt(g) + k
<1> DEFINE a == At(g, Base(g) + T(g).area)
<1>1. a \in Int
  <2>1. StackPointer(g) \in Int /\ Base(g) \in Nat /\ T(g).area \in Nat
    BY StackBelow, Sizes, KnownTarget, Conventions
  <2> QED
    BY <2>1 DEF At, FramePointer
<1>2. AreaAt(g) = a + 0 /\ \A k : Address(g, <<"area", k, 0>>) = a + k
  BY Addresses DEF AreaAt
<1> HIDE DEF a
<1> QED
  BY <1>1, <1>2

(* The first argument of the list is the first that is not named. *)
LEMMA StartsRight ==
  ASSUME NEW g, WellFormed(g), ListStartsRight(g), g.takes > 0
  PROVE  AtArgument(g, Fields(g), g.nparams)
<1>1. g.nparams \in Nat /\ AreaAt(g) \in Int
  BY AreaPlaced DEF WellFormed
<1>2. CASE g.target = "x86_64"
  <2>1. g.nparams <= 6
    BY <1>2, Conventions DEF ListStartsRight
  <2>2. Min({g.nparams, 6}) = g.nparams
    <3>1. {g.nparams, 6} \in SUBSET Int /\ g.nparams \in {g.nparams, 6}
          /\ \A x \in {g.nparams, 6} : g.nparams <= x
      BY <1>1, <2>1
    <3> QED
      BY <3>1, MinIs
  <2> QED
    BY <1>1, <1>2, <2>1, <2>2 DEF Fields, ListX86_64, AtArgument, FramePointer
<1>3. CASE g.target = "x86"
  BY <1>3 DEF AtArgument
<1>4. CASE g.target = "arm64"
  BY <1>1, <1>4 DEF Fields, ListArm64, AtArgument
<1>5. CASE g.target = "riscv"
  <2>1. g.nparams <= 8
    BY <1>5, Conventions DEF ListStartsRight
  <2>2. StackPointer(g) + FrameSize(g) = 0
    <3>1. FrameSize(g) \in Nat
      BY Sizes
    <3> QED
      BY <1>5, <3>1 DEF StackPointer
  <2> QED
    BY <1>1, <1>5, <2>1, <2>2 DEF Fields, ListRiscv, AtArgument
<1>6. CASE g.target = "arm"
  <2>1. g.nparams <= 4
    BY <1>6, Conventions DEF ListStartsRight
  <2>2. StackPointer(g) + FrameSize(g) + 9 = 0
    <3>1. FrameSize(g) \in Nat
      BY Sizes
    <3> QED
      BY <1>6, <3>1 DEF StackPointer
  <2> QED
    BY <1>1, <1>6, <2>1, <2>2 DEF Fields, ListArm, AtArgument
<1> QED
  BY <1>2, <1>3, <1>4, <1>5, <1>6, KnownTarget

(* Where va_arg looks for an argument, and what the list says after. *)
Advances(g, F, G, s) ==
  \A k \in 1..T(g).listSize : G[k] = IF k = s THEN F[k] + 1 ELSE F[k]
LEMMA TakesNext ==
  ASSUME NEW g, WellFormed(g), NEW p \in Nat, NEW F, AtArgument(g, F, p),
         g.target = "arm64" => p < 8,
         NEW list, g.target = "x86" => list = p + 1
  PROVE  /\ Take(g, list, F).at =
              IF p < T(g).nargregs THEN AreaAt(g) + p ELSE StackParam(g, p)
         /\ \A G : Advances(g, F, G, Take(g, list, F).step) => AtArgument(g, G, p + 1)
<1>1. AreaAt(g) \in Int
  BY AreaPlaced
<1>2. CASE g.target = "x86_64"
  <2>1. T(g).nargregs = 6 /\ T(g).listSize = 3 /\ Down(g)
    BY <1>2, Conventions DEF Down
  <2>2. /\ F[3] = AreaAt(g)
        /\ IF p < 6 THEN F[1] = p /\ F[2] = 1 ELSE F[1] = 6 /\ F[2] = p - 5
    BY <1>2 DEF AtArgument
  <2>3. Take(g, list, F) = IF p < 6 THEN [at |-> F[3] + F[1], step |-> 1]
                                    ELSE [at |-> F[2], step |-> 2]
    BY <1>2, <2>2 DEF Take, TakeX86_64
  <2>4. Take(g, list, F).at = IF p < 6 THEN AreaAt(g) + p ELSE StackParam(g, p)
    BY <1>1, <2>1, <2>2, <2>3 DEF StackParam
  <2>5. ASSUME NEW G, Advances(g, F, G, Take(g, list, F).step) PROVE AtArgument(g, G, p + 1)
    <3>1. Take(g, list, F).step = IF p < 6 THEN 1 ELSE 2
      BY <2>3
    <3>2. /\ G[3] = F[3]
          /\ G[1] = IF p < 6 THEN F[1] + 1 ELSE F[1]
          /\ G[2] = IF p < 6 THEN F[2] ELSE F[2] + 1
      BY <2>1, <2>5, <3>1 DEF Advances
    <3> QED
      BY <1>2, <2>2, <3>2 DEF AtArgument
  <2> QED
    BY <2>1, <2>4, <2>5
<1>3. CASE g.target = "x86"
  <2>1. T(g).nargregs = 0 /\ Down(g)
    BY <1>3, Conventions DEF Down
  <2> QED
    BY <1>3, <2>1 DEF AtArgument, Take, TakeX86, StackParam
<1>4. CASE g.target = "arm64"
  <2>1. T(g).nargregs = 8 /\ T(g).listSize = 4 /\ p < 8
    BY <1>4, Conventions
  <2>2. F[2] = AreaAt(g) + 8 /\ F[4] = p - 8
    BY <1>4 DEF AtArgument
  <2>3. Take(g, list, F) = [at |-> F[2] + F[4], step |-> 4]
    BY <1>4, <2>1, <2>2 DEF Take, TakeArm64
  <2>4. Take(g, list, F).at = AreaAt(g) + p
    BY <1>1, <2>2, <2>3
  <2>5. ASSUME NEW G, Advances(g, F, G, Take(g, list, F).step) PROVE AtArgument(g, G, p + 1)
    <3>1. Take(g, list, F).step = 4
      BY <2>3
    <3>2. G[2] = F[2] /\ G[4] = F[4] + 1
      BY <2>1, <2>5, <3>1 DEF Advances
    <3> QED
      BY <1>4, <2>2, <3>2 DEF AtArgument
  <2> QED
    BY <2>1, <2>4, <2>5
<1>5. CASE g.target = "riscv"
  <2>1. T(g).nargregs = 8 /\ T(g).listSize = 4 /\ ~Down(g)
    BY <1>5, Conventions DEF Down
  <2>2. /\ F[2] = AreaAt(g) + 8
        /\ IF p < 8 THEN F[4] = p - 8 /\ F[3] = 0 ELSE F[4] = 0 /\ F[3] = p - 8
    BY <1>5 DEF AtArgument
  <2>3. Take(g, list, F) = IF p < 8 THEN [at |-> F[2] + F[4], step |-> 4]
                                    ELSE [at |-> F[3], step |-> 3]
    BY <1>5, <2>2 DEF Take, TakeRiscv
  <2>4. Take(g, list, F).at = IF p < 8 THEN AreaAt(g) + p ELSE StackParam(g, p)
    BY <1>1, <2>1, <2>2, <2>3 DEF StackParam
  <2>5. ASSUME NEW G, Advances(g, F, G, Take(g, list, F).step) PROVE AtArgument(g, G, p + 1)
    <3>1. Take(g, list, F).step = IF p < 8 THEN 4 ELSE 3
      BY <2>3
    <3>2. /\ G[2] = F[2]
          /\ G[4] = IF p < 8 THEN F[4] + 1 ELSE F[4]
          /\ G[3] = IF p < 8 THEN F[3] ELSE F[3] + 1
      BY <2>1, <2>5, <3>1 DEF Advances
    <3> QED
      BY <1>5, <2>2, <3>2 DEF AtArgument
  <2> QED
    BY <2>1, <2>4, <2>5
<1>6. CASE g.target = "arm"
  <2>1. T(g).nargregs = 4 /\ T(g).listSize = 3 /\ ~Down(g)
    BY <1>6, Conventions DEF Down
  <2>2. /\ F[2] = AreaAt(g) + 4
        /\ IF p < 4 THEN F[1] = AreaAt(g) + p /\ F[3] = 0
                    ELSE F[1] = AreaAt(g) + 4 /\ F[3] = p - 4
    BY <1>6 DEF AtArgument
  <2>3. Take(g, list, F) = IF p < 4 THEN [at |-> F[1], step |-> 1]
                                    ELSE [at |-> F[3], step |-> 3]
    BY <1>1, <1>6, <2>2 DEF Take, TakeArm
  <2>4. Take(g, list, F).at = IF p < 4 THEN AreaAt(g) + p ELSE StackParam(g, p)
    BY <1>1, <2>1, <2>2, <2>3 DEF StackParam
  <2>5. ASSUME NEW G, Advances(g, F, G, Take(g, list, F).step) PROVE AtArgument(g, G, p + 1)
    <3>1. Take(g, list, F).step = IF p < 4 THEN 1 ELSE 3
      BY <2>3
    <3>2. /\ G[2] = F[2]
          /\ G[1] = IF p < 4 THEN F[1] + 1 ELSE F[1]
          /\ G[3] = IF p < 4 THEN F[3] ELSE F[3] + 1
      BY <2>1, <2>5, <3>1 DEF Advances
    <3> QED
      BY <1>1, <1>6, <2>2, <3>2 DEF AtArgument
  <2> QED
    BY <2>1, <2>4, <2>5
<1> QED
  BY <1>2, <1>3, <1>4, <1>5, <1>6, KnownTarget

-----------------------------------------------------------------------------
(* The argument is there: in the save area, or in the caller's frame past   *)
(* the parameters that have names.                                         *)
LEMMA InSaveArea ==
  ASSUME IInv, ObjectsApart(fn), pc = "body", fn.vararg,
         NEW p \in Nat, p < T(fn).nargregs
  PROVE  Read(AreaAt(fn) + p) = Argument(fn, p)
<1> DEFINE w == <<"area", p, 0>>
<1>1. fn \in Functions /\ WellFormed(fn) /\ DOMAIN mem = Watched(fn)
  BY FrameAssumption DEF IInv, Shape
<1>2. T(fn).areaSize = T(fn).nargregs /\ T(fn).nargregs \in Nat
  BY <1>1, KnownTarget, Conventions
<1>3. w \in Area(fn) /\ w \in Owned(fn)
  BY <1>2 DEF Area, Words, Owned
<1>4. AreaAt(fn) + p = Address(fn, w)
  BY <1>1, AreaPlaced
<1>5. Address(fn, w) \in DOMAIN mem
  BY <1>1, <1>3, InTheFrame
<1>6. ~InReg(fn, w)
  BY DEF InReg
<1>7. Name(mem[Address(fn, w)]) = w
  BY <1>3, <1>6 DEF IInv, Body, Sound, Held
<1>8. \A x : Name(x) = w => x = w
  <2> TAKE x
  <2> HAVE Name(x) = w
  <2>1. CASE x[1] \in {"list", "vreg"}
    <3>1. w = [x EXCEPT ![3] = 0]
      BY <2>1 DEF Name
    <3>2. DOMAIN w = DOMAIN x /\ 1 \in DOMAIN w
      BY <3>1
    <3>3. w[1] = x[1]
      BY <3>1, <3>2
    <3> QED
      BY <2>1, <3>3
  <2>2. CASE x[1] \notin {"list", "vreg"}
    BY <2>2 DEF Name
  <2> QED
    BY <2>1, <2>2
<1> HIDE DEF w
<1>9. Read(AreaAt(fn) + p) = w
  BY <1>4, <1>5, <1>7, <1>8 DEF Read
<1> QED
  BY <1>9 DEF Argument, w

LEMMA InCallersFrame ==
  ASSUME IInv, ObjectsApart(fn),
         NEW p \in Nat, fn.nparams <= p, T(fn).nargregs <= p
  PROVE  Read(StackParam(fn, p)) = Argument(fn, p)
<1> DEFINE a == StackParam(fn, p)
<1>1. /\ fn \in Functions /\ WellFormed(fn) /\ DOMAIN mem = Watched(fn)
      /\ Above \in Nat /\ Below \in Nat /\ fn.nparams \in Nat
  BY FrameAssumption DEF IInv, Shape, WellFormed
<1>2. T(fn).nargregs \in Nat
  BY <1>1, KnownTarget, Conventions
<1>3. a \in Nat /\ (Down(fn) => a # 0)
  BY <1>2 DEF StackParam
<1>4. \A q \in T(fn).nargregs .. fn.nparams-1 : StackParam(fn, q) # a
  BY <1>1, <1>2 DEF StackParam
<1> HIDE DEF a
<1>5. CallersWord(fn, a) = Cell(a)
  BY <1>3, <1>4 DEF CallersWord
<1>6. ASSUME a \in DOMAIN mem PROVE mem[a] = Cell(a)
  <2>1. a \in CallersFrame(fn)
    BY <1>1, <1>3, <1>6, StackBelow DEF Watched, CallersFrame
  <2> QED
    BY <1>5, <2>1 DEF IInv, CallersFrameKept
<1>7. Read(a) = Cell(a)
  BY <1>6 DEF Read
<1> QED
  BY <1>2, <1>7 DEF Argument, a

-----------------------------------------------------------------------------
(* The words of the list. *)
LEMMA FieldAddresses ==
  ASSUME fn \in Functions, ObjectsApart(fn), fn.vararg
  PROVE  \A k \in 1..T(fn).listSize :
           LET w == <<"list", k - 1, 0>> IN
           /\ w \in List(fn) /\ w \in Owned(fn) /\ ~InReg(fn, w)
           /\ Address(fn, w) = FieldAddress(fn, k) /\ FieldAddress(fn, k) \in Watched(fn)
           /\ \A v : Vreg(v) # w
<1> TAKE k \in 1..T(fn).listSize
<1> DEFINE w == <<"list", k - 1, 0>>
<1>1. WellFormed(fn) /\ T(fn).listSize \in Nat
  BY FrameAssumption, ListWords
<1>2. k-1 \in 0..T(fn).listSize-1
  BY <1>1
<1>3. w \in List(fn) /\ w \in Owned(fn)
  BY <1>1, <1>2, ListWords
<1>4. ~InReg(fn, w) /\ \A v : Vreg(v) # w
  BY DEF InReg, Vreg
<1> HIDE DEF w
<1>5. Address(fn, w) \in Watched(fn)
  BY <1>3, InTheFrame
<1>6. Address(fn, w) = FieldAddress(fn, k)
  BY DEF w, FieldAddress
<1> QED
  BY <1>3, <1>4, <1>5, <1>6 DEF w

(* To put any other word leaves the list as it is. *)
LEMMA FieldsStay ==
  ASSUME fn \in Functions, ObjectsApart(fn), fn.vararg,
         NEW M, DOMAIN M = Watched(fn),
         NEW w \in Owned(fn), w \notin List(fn), NEW x
  PROVE  FieldsIn(fn, InPlace(M, w, x)) = FieldsIn(fn, M)
<1> DEFINE n == T(fn).listSize
<1>1. WellFormed(fn)
  BY FrameAssumption
<1>2. ASSUME NEW k \in 1..n
      PROVE  InPlace(M, w, x)[FieldAddress(fn, k)] = M[FieldAddress(fn, k)]
  <2> DEFINE u == <<"list", k - 1, 0>>
  <2>1. u \in List(fn) /\ u \in Owned(fn) /\ Address(fn, u) = FieldAddress(fn, k)
    BY FieldAddresses
  <2> HIDE DEF u
  <2>2. Address(fn, u) # Address(fn, w)
    BY <1>1, <2>1, WordsApart
  <2> QED
    BY <2>1, <2>2 DEF InPlace
<1> QED
  BY <1>2 DEF FieldsIn

(* What va_start writes. *)
LEMMA FieldsStarted ==
  ASSUME fn \in Functions, ObjectsApart(fn), fn.vararg,
         NEW M, DOMAIN M = Watched(fn), NEW F, FieldsFit(fn, F)
  PROVE  \A k \in 1..T(fn).listSize : FieldsIn(fn, Written(M, ListStores(fn, F)))[k] = F[k]
<1> DEFINE W == Written(M, ListStores(fn, F))
<1>1. WellFormed(fn) /\ T(fn).listSize \in Nat
  BY FrameAssumption, ListWords
<1>2. \A k \in 0..T(fn).listSize-1 :
           W[Address(fn, <<"list", k, 0>>)] = <<"list", k, F[k+1]>>
  <2>1. /\ fn \in Functions /\ ObjectsApart(fn) /\ fn.vararg
        /\ DOMAIN M = Watched(fn) /\ FieldsFit(fn, F)
    OBVIOUS
  <2> QED
    BY <2>1, ListWritten, ZenonT(60)
<1> HIDE DEF W
<1> TAKE k \in 1..T(fn).listSize
<1>3. k-1 \in 0..T(fn).listSize-1 /\ (k-1) + 1 = k
  BY <1>1
<1>4. W[FieldAddress(fn, k)] = <<"list", k-1, F[k]>>
  BY <1>2, <1>3 DEF FieldAddress
<1>5. FieldsIn(fn, W)[k] = F[k]
  BY <1>4 DEF FieldsIn
<1> QED
  BY <1>5 DEF W

(* What va_arg loads. *)
LEMMA FieldsLoaded ==
  ASSUME fn \in Functions, ObjectsApart(fn), fn.vararg, DOMAIN mem = Watched(fn),
         NEW n \in Nat
  PROVE  Loaded(ListAfter(fn, n)) = FieldsIn(fn, mem)
<1>1. WellFormed(fn) /\ T(fn).listSize \in Nat
  BY FrameAssumption, ListWords
<1>2. ASSUME NEW k \in 1..T(fn).listSize
      PROVE  ListAfter(fn, n) + k - 1 = FieldAddress(fn, k)
  <2>1. k-1 \in 0..T(fn).listSize-1 /\ T(fn).listSize # 0
    BY <1>1
  <2>2. fn.target # "x86"
    BY <1>1, <2>1, ListWords
  <2>3. ListAt(fn) + (k-1) = FieldAddress(fn, k) /\ ListAt(fn) \in Int
    BY <1>1, <2>1, <2>2, ListWords DEF FieldAddress
  <2>4. ListAfter(fn, n) = ListAt(fn) + 0
    BY <2>2 DEF ListAfter
  <2> QED
    BY <2>3, <2>4
<1>3. \A k \in 1..T(fn).listSize : FieldAddress(fn, k) \in DOMAIN mem
  BY FieldAddresses
<1>4. \A k \in 1..T(fn).listSize :
        Read(ListAfter(fn, n) + k - 1) = mem[FieldAddress(fn, k)]
  BY <1>2, <1>3 DEF Read
<1> QED
  BY <1>4 DEF Loaded, FieldsIn

LEMMA SameFields ==
  ASSUME NEW g, WellFormed(g), NEW F, NEW p, AtArgument(g, F, p),
         NEW G, \A k \in 1..T(g).listSize : G[k] = F[k]
  PROVE  AtArgument(g, G, p)
<1>1. CASE g.target = "x86_64"
  <2>1. G[1] = F[1] /\ G[2] = F[2] /\ G[3] = F[3]
    BY <1>1, Conventions
  <2> QED
    BY <1>1, <2>1 DEF AtArgument
<1>2. CASE g.target = "x86"
  BY <1>2 DEF AtArgument
<1>3. CASE g.target \in {"arm64", "riscv"}
  <2>1. G[2] = F[2] /\ G[3] = F[3] /\ G[4] = F[4]
    BY <1>3, Conventions
  <2> QED
    BY <1>3, <2>1 DEF AtArgument
<1>4. CASE g.target = "arm"
  <2>1. G[1] = F[1] /\ G[2] = F[2] /\ G[3] = F[3]
    BY <1>4, Conventions
  <2> QED
    BY <1>4, <2>1 DEF AtArgument
<1> QED
  BY <1>1, <1>2, <1>3, <1>4, KnownTarget

-----------------------------------------------------------------------------
LEMMA InitFound == Init => Found
  BY DEF Init, Found, Ordered

(* To write a word that is none of the list disturbs nothing. *)
LEMMA PutFound ==
  ASSUME IInv, Found, pc = "body", UNCHANGED <<fn, pc, taken>>,
         NEW w \in Owned(fn), w \notin List(fn), fn.vararg => w # Vreg(ListVreg),
         mem' = InPlace(mem, w, w), live' = live \cup {w}
  PROVE  Found'
<1> SUFFICES ASSUME ObjectsApart(fn), ListStartsRight(fn)
             PROVE  Ordered(fn, taken') /\ Position(fn, mem', live', Len(taken'))
  BY DEF Found
<1>1. fn \in Functions /\ WellFormed(fn) /\ DOMAIN mem = Watched(fn)
  BY FrameAssumption DEF IInv, Shape
<1>2. Ordered(fn, taken) /\ Position(fn, mem, live, Len(taken))
  BY DEF Found
<1>3. ASSUME fn.takes > 0, Vreg(ListVreg) \in live'
      PROVE  AtArgument(fn, FieldsIn(fn, mem'), fn.nparams + Len(taken))
  <2>1. fn.vararg /\ Vreg(ListVreg) \in live
    BY <1>1, <1>3 DEF WellFormed
  <2>2. FieldsIn(fn, mem') = FieldsIn(fn, mem)
    BY <1>1, <2>1, FieldsStay
  <2> QED
    BY <1>2, <1>3, <2>1, <2>2 DEF Position
<1> QED
  BY <1>2, <1>3 DEF Position

LEMMA PrologueFound == ASSUME IInv, Found, Prologue PROVE Found'
<1>1. /\ fn \in Functions /\ WellFormed(fn) /\ ParamBase \in Nat
      /\ pc = "entry" /\ pc' = "body" /\ fn' = fn /\ taken' = taken /\ taken = <<>>
      /\ live' = {Vreg(v) : v \in Params(fn)} \cup Area(fn)
  BY FrameAssumption DEF IInv, Shape, Fresh, Prologue
<1>2. ASSUME fn.takes > 0 PROVE Vreg(ListVreg) \notin live'
  <2>1. ListVreg \in 0..fn.locals-1 /\ fn.locals \in 0..ParamBase
    BY <1>1, <1>2 DEF WellFormed, Locals
  <2>2. ListVreg \notin Params(fn)
    BY <1>1, <2>1 DEF Params, WellFormed
  <2> QED
    BY <1>1, <2>2 DEF Vreg, Area, Words
<1> QED
  BY <1>1, <1>2 DEF Found, Ordered, Position

LEMMA DefineFound == ASSUME IInv, Found, Define PROVE Found'
<1>1. PICK v \in IF fn.vararg THEN Others(fn) ELSE Locals(fn) :
             Put(Vreg(v)) /\ live' = live \cup {Vreg(v)}
  BY DEF Define
<1> DEFINE w == Vreg(v)
<1>2. w \in Owned(fn) /\ w \notin List(fn) /\ (fn.vararg => w # Vreg(ListVreg))
  BY <1>1 DEF Others, Owned, Vregs, Vreg, List, Words
<1>3. pc = "body" /\ UNCHANGED <<fn, pc, taken>> /\ mem' = InPlace(mem, w, w) /\ live' = live \cup {w}
  BY <1>1 DEF Define, Put
<1> HIDE DEF w
<1> QED
  BY <1>2, <1>3, PutFound

LEMMA StoreObjectFound == ASSUME IInv, Found, StoreObject PROVE Found'
<1> PICK i \in DOMAIN fn.allocas : \E w \in Alloca(fn, i) : Put(w) /\ live' = live \cup {w}
  BY DEF StoreObject
<1>1. PICK w \in Alloca(fn, i) : Put(w) /\ live' = live \cup {w}
  OBVIOUS
<1>2. w \in Owned(fn) /\ w \notin List(fn) /\ w # Vreg(ListVreg)
  BY <1>1 DEF Alloca, Owned, Vreg, List, Words
<1>3. pc = "body" /\ UNCHANGED <<fn, pc, taken>> /\ mem' = InPlace(mem, w, w) /\ live' = live \cup {w}
  BY <1>1 DEF StoreObject, Put
<1> QED
  BY <1>2, <1>3, PutFound

LEMMA RetFound == ASSUME IInv, Found, Ret PROVE Found'
  BY DEF Ret, Found

LEMMA StutterFound == ASSUME IInv, Found, UNCHANGED vars PROVE Found'
<1>1. UNCHANGED <<fn, pc, mem, regs, live, taken>>
  BY DEF vars
<1> QED
  BY <1>1 DEF Found

LEMMA VaStartFound == ASSUME IInv, Found, VaStart PROVE Found'
<1> DEFINE x == <<"vreg", ListVreg, ListAt(fn)>>
           W == Written(mem, ListStores(fn, Fields(fn)))
           w == Vreg(ListVreg)
<1>1. /\ fn \in Functions /\ WellFormed(fn) /\ pc = "body" /\ fn.vararg
      /\ UNCHANGED <<fn, pc>> /\ taken' = <<>> /\ DOMAIN mem = Watched(fn)
  BY FrameAssumption DEF IInv, Shape, VaStart
<1>2. mem' = InPlace(W, w, x)
  <2>1. mem' = InPlace(W, x, x)
    BY DEF VaStart, StartsList, ListStores
  <2>2. x[1] = w[1] /\ x[2] = w[2]
    BY DEF Vreg
  <2> HIDE DEF x, w, W
  <2> QED
    BY <2>1, <2>2 DEF InPlace, InReg, Address
<1> SUFFICES ASSUME ObjectsApart(fn), ListStartsRight(fn)
             PROVE  Ordered(fn, taken') /\ Position(fn, mem', live', Len(taken'))
  BY <1>1 DEF Found
<1>3. Ordered(fn, taken') /\ Len(taken') = 0
  BY <1>1 DEF Ordered
<1>4. ASSUME fn.takes > 0 PROVE AtArgument(fn, FieldsIn(fn, mem'), fn.nparams + 0)
  <2>1. AtArgument(fn, Fields(fn), fn.nparams + 0)
    <3>1. AtArgument(fn, Fields(fn), fn.nparams)
      BY <1>1, <1>4, StartsRight
    <3>2. fn.nparams + 0 = fn.nparams
      BY <1>1 DEF WellFormed
    <3> QED
      BY <3>1, <3>2
  <2>2. \A k \in 1..T(fn).listSize : FieldsIn(fn, W)[k] = Fields(fn)[k]
    BY <1>1, FieldsOfList, FieldsStarted
  <2>3. FieldsIn(fn, mem') = FieldsIn(fn, W)
    <3>1. DOMAIN W = Watched(fn)
      BY <1>1 DEF Written
    <3>2. w \in Owned(fn) /\ w \notin List(fn)
      BY <1>1 DEF Owned, WellFormed, Vregs, Vreg, List, Words
    <3> HIDE DEF W, w, x
    <3> QED
      BY <1>1, <1>2, <3>1, <3>2, FieldsStay
  <2> HIDE DEF W, w, x
  <2> QED
    BY <1>1, <2>1, <2>2, <2>3, SameFields
<1> QED
  BY <1>3, <1>4 DEF Position

(* What va_arg leaves in the list. *)
LEMMA FieldsStepped ==
  ASSUME fn \in Functions, ObjectsApart(fn), fn.vararg, fn.target # "x86",
         DOMAIN mem = Watched(fn), NEW n \in Nat,
         NEW F, F = FieldsIn(fn, mem), NEW s, StepFits(fn, s)
  PROVE  Advances(fn, F, FieldsIn(fn, Stepped(mem, ListAfter(fn, n), F, s)), s)
<1> DEFINE size == T(fn).listSize
           list == ListAfter(fn, n)
           M == Stepped(mem, list, F, s)
<1>1. WellFormed(fn) /\ size \in Nat
  BY FrameAssumption, ListWords
<1>2. s \in 1..size /\ s # 0
  BY <1>1 DEF StepFits
<1>3. \A k \in 1..size : FieldAddress(fn, k) \in DOMAIN mem
  BY FieldAddresses
<1>4. \A k \in 1..size : k # s => FieldAddress(fn, k) # FieldAddress(fn, s)
  <2> DEFINE word(k) == <<"list", k - 1, 0>>
  <2>1. \A k \in 1..size : word(k) \in Owned(fn) /\ Address(fn, word(k)) = FieldAddress(fn, k)
    BY FieldAddresses
  <2>2. \A k \in 1..size : k # s => word(k) # word(s)
    BY <1>1, <1>2
  <2> HIDE DEF word
  <2> QED
    BY <1>1, <1>2, <2>1, <2>2, WordsApart
<1>5. M = [mem EXCEPT ![FieldAddress(fn, s)] = <<"list", s - 1, F[s] + 1>>]
  <2>1. s-1 \in 0..size-1
    BY <1>1, <1>2
  <2>2. ListAt(fn) + (s-1) = FieldAddress(fn, s) /\ ListAt(fn) \in Int
    BY <1>1, <2>1, ListWords DEF FieldAddress
  <2>3. list + s - 1 = FieldAddress(fn, s)
    BY <1>1, <1>2, <2>2 DEF ListAfter
  <2> HIDE DEF list
  <2> QED
    BY <1>2, <2>3 DEF Stepped, ListTo
<1>6. \A k \in 1..size :
        M[FieldAddress(fn, k)] = IF k = s THEN <<"list", s - 1, F[s] + 1>> ELSE mem[FieldAddress(fn, k)]
  BY <1>3, <1>4, <1>5
<1> HIDE DEF M
<1>7. \A k \in 1..size : FieldsIn(fn, M)[k] = M[FieldAddress(fn, k)][3] /\ F[k] = mem[FieldAddress(fn, k)][3]
  BY DEF FieldsIn
<1>8. \A k \in 1..size : FieldsIn(fn, M)[k] = IF k = s THEN F[k] + 1 ELSE F[k]
  BY <1>6, <1>7
<1> QED
  BY <1>8 DEF Advances, M

LEMMA VaArgFound == ASSUME IInv, Found, VaArg PROVE Found'
<1> DEFINE list == Content(Vreg(ListVreg))[3]
           F == Loaded(list)
           next == Take(fn, list, F)
           n == Len(taken)
           p == fn.nparams + n
           M == Stepped(mem, list, F, next.step)
<1>1. /\ fn \in Functions /\ WellFormed(fn) /\ pc = "body" /\ DOMAIN mem = Watched(fn)
      /\ UNCHANGED <<fn, pc>> /\ Vreg(ListVreg) \in live /\ n < fn.takes
  BY FrameAssumption DEF IInv, Shape, VaArg
<1> SUFFICES ASSUME ObjectsApart(fn), ListStartsRight(fn)
             PROVE  Ordered(fn, taken') /\ Position(fn, mem', live', Len(taken'))
  BY <1>1 DEF Found
<1>2. PICK v \in Others(fn) : /\ TakesFrom(list, F, next, Vreg(v))
                             /\ live' = live \cup {Vreg(v)}
  BY DEF VaArg
<1> DEFINE w == Vreg(v)
<1>3. taken' = Append(taken, Read(next.at)) /\ mem' = InPlace(M, w, w)
  BY <1>2 DEF TakesFrom, Stepped, ListTo
<1>4. PICK X : taken \in Seq(X)
  BY DEF IInv, Shape
<1>5. /\ n \in Nat /\ fn.takes \in Nat /\ fn.takes > 0 /\ fn.vararg /\ fn.nparams \in Nat
      /\ p \in Nat /\ fn.nparams <= p
  <2>1. n \in Nat /\ fn.takes \in Nat /\ fn.nparams \in Nat
    BY <1>1, <1>4 DEF WellFormed
  <2> QED
    BY <1>1, <2>1 DEF WellFormed
<1>6. list = ListAfter(fn, n)
  BY <1>1, <1>5 DEF IInv, Body, ListKnown, Held, Content
<1>7. F = FieldsIn(fn, mem) /\ AtArgument(fn, F, p) /\ Ordered(fn, taken)
  <2>1. F = FieldsIn(fn, mem)
    BY <1>1, <1>5, <1>6, FieldsLoaded
  <2>2. Ordered(fn, taken) /\ Position(fn, mem, live, n)
    BY <1>1 DEF Found
  <2>3. AtArgument(fn, FieldsIn(fn, mem), p)
    BY <1>1, <1>5, <2>2 DEF Position
  <2> QED
    BY <2>1, <2>2, <2>3
<1>8. w \in Owned(fn) /\ w \notin List(fn)
  BY <1>2 DEF Others, Owned, Vregs, Vreg, List, Words
<1>9. /\ next.at = IF p < T(fn).nargregs THEN AreaAt(fn) + p ELSE StackParam(fn, p)
      /\ \A G : Advances(fn, F, G, next.step) => AtArgument(fn, G, p + 1)
  <2>1. fn.target = "arm64" => p < 8
    BY <1>1, <1>5, Conventions DEF ListStartsRight
  <2>2. fn.target = "x86" => list = p + 1
    BY <1>5, <1>6 DEF ListAfter, ListAt, FramePointer
  <2> HIDE DEF list, F, p
  <2> QED
    BY <1>1, <1>5, <1>7, <2>1, <2>2, TakesNext
<1>10. Read(next.at) = Argument(fn, p)
  <2>1. T(fn).nargregs \in Nat
    BY <1>1, KnownTarget, Conventions
  <2> HIDE DEF next, p
  <2>2. CASE p < T(fn).nargregs
    BY <1>1, <1>5, <1>9, <2>2, InSaveArea
  <2>3. CASE ~(p < T(fn).nargregs)
    BY <1>5, <1>9, <2>1, <2>3, InCallersFrame
  <2> QED
    BY <2>2, <2>3
<1>11. Ordered(fn, taken') /\ Len(taken') = n + 1
  <2> DEFINE y == Read(next.at)
             tk == Append(taken, y)
  <2>1. taken' = tk /\ y = Argument(fn, p)
    BY <1>3, <1>10
  <2> HIDE DEF y
  <2>2. Len(tk) = n + 1 /\ DOMAIN tk = 1..n+1 /\ DOMAIN taken = 1..n
    BY <1>4
  <2>3. \A i \in 1..n : tk[i] = taken[i]
    BY <1>4
  <2>4. tk[n+1] = y
    BY <1>4
  <2> HIDE DEF tk, n
  <2>5. \A i \in 1..n+1 : i \in 1..n \/ i = n+1
    BY <1>5
  <2>6. p = fn.nparams + (n+1) - 1
    BY <1>5
  <2> HIDE DEF p
  <2>7. \A i \in 1..n+1 : tk[i] = Argument(fn, fn.nparams + i - 1)
    BY <1>7, <2>1, <2>2, <2>3, <2>4, <2>5, <2>6 DEF Ordered
  <2> QED
    BY <2>1, <2>2, <2>7 DEF Ordered
<1>12. AtArgument(fn, FieldsIn(fn, mem'), p + 1)
  <2>1. CASE fn.target = "x86"
    BY <2>1 DEF AtArgument
  <2>2. CASE fn.target # "x86"
    <3>1. DOMAIN M = Watched(fn)
      BY <1>1, SameDomains DEF Stepped
    <3>2. StepFits(fn, next.step)
      BY <1>1, TakeStep
    <3> HIDE DEF list, F, next, n, w
    <3>3. Advances(fn, F, FieldsIn(fn, M), next.step)
      BY <1>1, <1>5, <1>6, <1>7, <2>2, <3>2, FieldsStepped
    <3> HIDE DEF M
    <3>4. FieldsIn(fn, mem') = FieldsIn(fn, M)
      BY <1>1, <1>3, <1>5, <1>8, <3>1, FieldsStay
    <3> QED
      BY <1>9, <3>3, <3>4
  <2> QED
    BY <2>1, <2>2
<1>13. p + 1 = fn.nparams + Len(taken')
  BY <1>5, <1>11
<1> QED
  BY <1>11, <1>12, <1>13 DEF Position

(* va_arg finds the arguments the parameters do not name, each once and in  *)
(* the order of the call, as many as there are and wherever they are, for  *)
(* every function whose objects are apart and whose list starts right.     *)
THEOREM ArgumentsAreInOrder ==
  Spec => [](ObjectsApart(fn) /\ ListStartsRight(fn) => ArgumentsInOrder)
<1>1. IInv /\ Found /\ [Next]_vars => Found'
  <2> SUFFICES ASSUME IInv, Found, [Next]_vars PROVE Found'
    OBVIOUS
  <2>1. CASE Prologue
    BY <2>1, PrologueFound
  <2>2. CASE Define
    BY <2>2, DefineFound
  <2>3. CASE StoreObject
    BY <2>3, StoreObjectFound
  <2>4. CASE VaStart
    BY <2>4, VaStartFound
  <2>5. CASE VaArg
    BY <2>5, VaArgFound
  <2>6. CASE Ret
    BY <2>6, RetFound
  <2>7. CASE UNCHANGED vars
    BY <2>7, StutterFound
  <2> QED
    BY <2>1, <2>2, <2>3, <2>4, <2>5, <2>6, <2>7 DEF Next
<1>2. Found => (ObjectsApart(fn) /\ ListStartsRight(fn) => ArgumentsInOrder)
  BY DEF Found, Ordered, ArgumentsInOrder
<1> QED
  BY <1>1, <1>2, InitFound, FrameInvariance, PTL DEF Spec
=============================================================================
