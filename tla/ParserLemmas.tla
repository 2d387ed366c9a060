----------------------------- MODULE ParserLemmas -----------------------------
(***************************************************************************)
(* Lemmas for the proofs about module Parser: sequences, the cursor in the *)
(* words of a file, operands, types and their layouts; the invariant the   *)
(* proofs use, and what each kind of statement does to it.                 *)
(***************************************************************************)
EXTENDS Language, Recursion, SequenceTheorems

-----------------------------------------------------------------------------
(* Sequences. *)
LEMMA SeqIs ==
  ASSUME NEW S, NEW s \in Seq(S)
  PROVE  /\ IsSeq(s) /\ Len(s) \in Nat /\ DOMAIN s = 1..Len(s)
         /\ s = [i \in 1..Len(s) |-> s[i]]
         /\ \A i \in 1..Len(s) : s[i] \in S
<1>1. Len(s) \in Nat /\ DOMAIN s = 1..Len(s) /\ s = [i \in 1..Len(s) |-> s[i]] /\ \A i \in 1..Len(s) : s[i] \in S
  OBVIOUS
<1>2. s \in Seq(ToSet(s))
  <2>1. s \in [1..Len(s) -> ToSet(s)]
    BY <1>1 DEF ToSet
  <2> QED
    BY <1>1, <2>1
<1> QED
  BY <1>1, <1>2 DEF IsSeq

LEMMA FunctionIsSeq ==
  ASSUME NEW n \in Nat, NEW f, f = [i \in 1..n |-> f[i]]
  PROVE  IsSeq(f) /\ Len(f) = n /\ DOMAIN f = 1..n
<1>1. f \in [1..n -> ToSet(f)]
  BY DEF ToSet
<1>2. f \in Seq(ToSet(f))
  BY <1>1
<1> QED
  BY <1>2 DEF IsSeq

LEMMA SameSeq ==
  ASSUME NEW s, NEW u, IsSeq(s), IsSeq(u), Len(s) = Len(u), \A i \in 1..Len(s) : s[i] = u[i]
  PROVE  s = u
<1>1. /\ s = [i \in 1..Len(s) |-> s[i]] /\ u = [i \in 1..Len(u) |-> u[i]]
  BY SeqIs DEF IsSeq
<1> QED
  BY <1>1

LEMMA ConcatIs ==
  ASSUME NEW s, NEW u, IsSeq(s), IsSeq(u)
  PROVE  /\ IsSeq(s \o u) /\ Len(s \o u) = Len(s) + Len(u)
         /\ \A i \in 1..Len(s) : (s \o u)[i] = s[i]
         /\ \A i \in 1..Len(u) : (s \o u)[Len(s) + i] = u[i]
<1> DEFINE S == ToSet(s) \cup ToSet(u)
<1>1. s \in Seq(S) /\ u \in Seq(S)
  <2>1. s \in Seq(ToSet(s)) /\ u \in Seq(ToSet(u)) /\ ToSet(s) \subseteq S /\ ToSet(u) \subseteq S
    BY DEF IsSeq
  <2> HIDE DEF S
  <2> QED
    BY <2>1
<1> HIDE DEF S
<1>2. s \o u \in Seq(S)
  BY <1>1
<1>3. Len(s \o u) = Len(s) + Len(u) /\ \A i \in 1..Len(s) : (s \o u)[i] = s[i]
  BY <1>1
<1>4. \A i \in 1..Len(u) : (s \o u)[Len(s) + i] = u[i]
  BY <1>1
<1>5. IsSeq(s \o u)
  BY <1>2, SeqIs
<1> QED
  BY <1>3, <1>4, <1>5

LEMMA Associates ==
  ASSUME NEW s, NEW u, NEW v, IsSeq(s), IsSeq(u), IsSeq(v),
         NEW a, a = s \o u, NEW b, b = u \o v
  PROVE  a \o v = s \o b
<1> DEFINE x == a \o v
           y == s \o b
<1>0. Len(s) \in Nat /\ Len(u) \in Nat /\ Len(v) \in Nat
  BY SeqIs DEF IsSeq
<1>1. /\ IsSeq(a) /\ Len(a) = Len(s) + Len(u)
      /\ \A i \in 1..Len(s) : a[i] = s[i]
      /\ \A i \in 1..Len(u) : a[Len(s) + i] = u[i]
  BY ConcatIs
<1>2. /\ IsSeq(b) /\ Len(b) = Len(u) + Len(v)
      /\ \A i \in 1..Len(u) : b[i] = u[i]
      /\ \A i \in 1..Len(v) : b[Len(u) + i] = v[i]
  BY ConcatIs
<1>3. /\ IsSeq(x) /\ Len(x) = Len(a) + Len(v)
      /\ \A i \in 1..Len(a) : x[i] = a[i]
      /\ \A i \in 1..Len(v) : x[Len(a) + i] = v[i]
  BY <1>1, ConcatIs
<1>4. /\ IsSeq(y) /\ Len(y) = Len(s) + Len(b)
      /\ \A i \in 1..Len(s) : y[i] = s[i]
      /\ \A i \in 1..Len(b) : y[Len(s) + i] = b[i]
  BY <1>2, ConcatIs
<1> HIDE DEF x, y
<1>5. Len(x) = Len(y)
  BY <1>0, <1>1, <1>2, <1>3, <1>4
<1>6. ASSUME NEW i \in 1..Len(x) PROVE x[i] = y[i]
  <2>1. CASE i <= Len(s)
    BY <2>1, <1>0, <1>1, <1>3, <1>4
  <2>2. CASE i > Len(s) /\ i <= Len(s) + Len(u)
    <3>1. PICK k \in 1..Len(u) : i = Len(s) + k
      <4>1. i - Len(s) \in 1..Len(u) /\ i = Len(s) + (i - Len(s))
        BY <2>2, <1>0, <1>1, <1>3
      <4> QED
        BY <4>1
    <3>2. Len(s) + k \in 1..Len(a) /\ k \in 1..Len(b)
      BY <3>1, <1>0, <1>1, <1>2
    <3>3. x[i] = u[k]
      BY <3>1, <3>2, <1>1, <1>3
    <3>4. y[i] = u[k]
      BY <3>1, <3>2, <1>2, <1>4
    <3> QED
      BY <3>3, <3>4
  <2>3. CASE i > Len(s) + Len(u)
    <3>1. PICK k \in 1..Len(v) : i = Len(s) + Len(u) + k
      <4>1. i - (Len(s) + Len(u)) \in 1..Len(v) /\ i = Len(s) + Len(u) + (i - (Len(s) + Len(u)))
        BY <2>3, <1>0, <1>1, <1>3
      <4> QED
        BY <4>1
    <3>2. Len(u) + k \in 1..Len(b) /\ x[i] = v[k]
      BY <3>1, <1>0, <1>1, <1>2, <1>3
    <3>3. y[Len(s) + (Len(u) + k)] = b[Len(u) + k] /\ b[Len(u) + k] = v[k]
      BY <3>1, <3>2, <1>2, <1>4
    <3> QED
      BY <3>1, <3>2, <3>3, <1>0
  <2> QED
    BY <2>1, <2>2, <2>3, <1>0, <1>3
<1>7. x = y
  BY <1>3, <1>4, <1>5, <1>6, SameSeq
<1> QED
  BY <1>7 DEF x, y

LEMMA AppendIs ==
  ASSUME NEW s, NEW e, IsSeq(s)
  PROVE  /\ IsSeq(Append(s, e)) /\ Len(Append(s, e)) = Len(s) + 1 /\ Append(s, e) = s \o <<e>>
         /\ \A i \in 1..Len(s) : Append(s, e)[i] = s[i]
         /\ Append(s, e)[Len(s) + 1] = e
<1> DEFINE S == ToSet(s) \cup {e}
<1>1. s \in Seq(S) /\ e \in S
  <2>1. s \in Seq(ToSet(s)) /\ ToSet(s) \subseteq S
    BY DEF IsSeq
  <2> HIDE DEF S
  <2> QED
    BY <2>1 DEF S
<1> HIDE DEF S
<1>2. Append(s, e) \in Seq(S) /\ s \o <<e>> \in Seq(S)
  BY <1>1
<1>3. /\ Len(Append(s, e)) = Len(s) + 1
      /\ \A i \in 1..Len(s) : Append(s, e)[i] = s[i]
      /\ Append(s, e)[Len(s) + 1] = e
  BY <1>1
<1>4. IsSeq(<<e>>) /\ Len(<<e>>) = 1 /\ <<e>>[1] = e
  BY SeqIs, <<e>> \in Seq({e})
<1>5. Append(s, e) = s \o <<e>>
  <2> DEFINE a == Append(s, e)
             b == s \o <<e>>
  <2>1. IsSeq(a) /\ IsSeq(b)
    BY <1>2, SeqIs
  <2>2. /\ Len(b) = Len(s) + 1 /\ \A i \in 1..Len(s) : b[i] = s[i]
        /\ b[Len(s) + 1] = e
    <3>1. /\ Len(b) = Len(s) + Len(<<e>>)
          /\ \A i \in 1..Len(s) : b[i] = s[i]
          /\ \A i \in 1..Len(<<e>>) : b[Len(s) + i] = <<e>>[i]
      BY <1>4, ConcatIs
    <3> HIDE DEF b
    <3> QED
      BY <3>1, <1>4
  <2>3. Len(s) \in Nat
    BY <1>1
  <2>4. Len(a) = Len(s) + 1 /\ a[Len(s) + 1] = e /\ \A i \in 1..Len(s) : a[i] = s[i]
    BY <1>3
  <2> HIDE DEF a, b
  <2>5. \A i \in 1..Len(a) : a[i] = b[i]
    BY <2>2, <2>3, <2>4
  <2>6. a = b
    BY <2>1, <2>2, <2>4, <2>5, SameSeq
  <2> QED
    BY <2>6 DEF a, b
<1> QED
  BY <1>2, <1>3, <1>5, SeqIs

-----------------------------------------------------------------------------
(* FlattenSeq.  What it has put together of the first i sequences is h[i]. *)
IsFlat(s, h) ==
  /\ h[0] = <<>> /\ DOMAIN h = 0..Len(s)
  /\ \A i \in 1..Len(s) : h[i] = h[i-1] \o s[i]

Parts(U) == Seq(Seq(U))

LEMMA FlatExists ==
  ASSUME NEW U, NEW s \in Parts(U)
  PROVE  \E h \in [0..Len(s) -> Seq(U)] : IsFlat(s, h)
<1> DEFINE n == Len(s)
           V == Seq(U)
           step == [i \in 1..n |-> [v \in Seq(U) |-> v \o s[i]]]
<1>1. n \in Nat /\ <<>> \in Seq(U) /\ \A i \in 1..n : s[i] \in Seq(U)
  BY DEF Parts
<1>2. step \in [1..n -> [Seq(U) -> Seq(U)]]
  <2>1. ASSUME NEW i \in 1..n PROVE [v \in Seq(U) |-> v \o s[i]] \in [Seq(U) -> Seq(U)]
    <3>1. \A v \in Seq(U) : v \o s[i] \in Seq(U)
      BY <1>1
    <3> QED
      BY <3>1
  <2> QED
    BY <2>1
<1>3. \A i \in 1..n : \A v \in Seq(U) : step[i][v] = v \o s[i]
  OBVIOUS
<1> HIDE DEF step
<1>4. PICK h \in [0..n -> V] : h[0] = <<>> /\ \A i \in 1..n : h[i] = step[i][h[i-1]]
  <2> DEFINE x == <<>>
  <2>0. n \in Nat
    BY <1>1
  <2>1. step \in [1..n -> [V -> V]]
    BY <1>2
  <2>2. x \in V
    BY <1>1
  <2> HIDE DEF n, V, x
  <2>3. \E h \in [0..n -> V] : h[0] = x /\ \A i \in 1..n : h[i] = step[i][h[i-1]]
    BY <2>0, <2>1, <2>2, Iterates, Z3
  <2> QED
    BY <2>3 DEF x
<1>5. \A i \in 1..n : h[i] = h[i-1] \o s[i]
  <2>1. \A i \in 1..n : i-1 \in 0..n
    BY <1>1
  <2> QED
    BY <1>3, <1>4, <2>1
<1> QED
  BY <1>4, <1>5 DEF IsFlat

LEMMA FlatIs ==
  ASSUME NEW U, NEW s \in Seq(Seq(U)), NEW h, IsFlat(s, h)
  PROVE  FlattenSeq(s) = h[Len(s)]
<1> DEFINE n == Len(s)
           Rec(g) == g = [i \in 1..n |-> IF i = 1 THEN s[i] ELSE g[i-1] \o s[i]]
           e == CHOOSE g : Rec(g)
<1>1. n \in Nat /\ \A i \in 1..n : s[i] \in Seq(U)
  OBVIOUS
<1>2. CASE n = 0
  BY <1>2 DEF FlattenSeq, IsFlat
<1>3. CASE n # 0
  <2>1. FlattenSeq(s) = e[n]
    BY <1>3 DEF FlattenSeq
  <2>2. Rec([i \in 1..n |-> h[i]])
    <3> DEFINE g == [i \in 1..n |-> h[i]]
    <3>1. ASSUME NEW i \in 1..n PROVE g[i] = IF i = 1 THEN s[i] ELSE g[i-1] \o s[i]
      <4>1. h[i] = h[i-1] \o s[i] /\ s[i] \in Seq(U) /\ h[0] = <<>>
        BY <1>1 DEF IsFlat
      <4>2. CASE i = 1
        <5>1. <<>> \o s[i] = s[i] /\ h[i-1] = <<>>
          BY <4>1, <4>2
        <5> QED
          BY <4>1, <4>2, <5>1
      <4>3. CASE i # 1
        <5>1. i-1 \in 1..n
          BY <4>3, <1>1
        <5> QED
          BY <4>1, <4>3, <5>1
      <4> QED
        BY <4>2, <4>3
    <3> QED
      BY <3>1
  <2>3. Rec(e)
    <3> HIDE DEF Rec
    <3> QED
      BY <2>2
  <2> HIDE DEF e
  <2> DEFINE Good == {i \in 0..n : i # 0 => e[i] = h[i]}
  <2>4. 0 \in Good
    BY <1>1
  <2>5. ASSUME NEW i \in 0..n-1, i \in Good PROVE i+1 \in Good
    <3>0. i \in Nat /\ i+1 \in 1..n /\ i+1 \in 0..n /\ (i+1)-1 = i
      BY <1>1
    <3>1. i+1 \in 1..n /\ i+1 \in 0..n /\ (i # 0 => e[i] = h[i]) /\ (i+1)-1 = i
      BY <3>0, <2>5
    <3>2. e[i+1] = IF i+1 = 1 THEN s[i+1] ELSE e[(i+1)-1] \o s[i+1]
      BY <2>3, <3>1
    <3>3. h[i+1] = h[i] \o s[i+1] /\ h[0] = <<>> /\ s[i+1] \in Seq(U)
      BY <3>1, <1>1 DEF IsFlat
    <3>4. e[i+1] = h[i+1]
      <4>1. <<>> \o s[i+1] = s[i+1]
        BY <3>3
      <4>2. CASE i = 0
        <5>1. i+1 = 1 /\ h[i] = <<>>
          BY <3>3, <4>2
        <5>2. e[i+1] = s[i+1] /\ h[i+1] = <<>> \o s[i+1]
          BY <3>2, <3>3, <5>1
        <5> QED
          BY <4>1, <5>2
      <4>3. CASE i # 0
        <5>1. i+1 # 1
          BY <3>0, <4>3
        <5> QED
          BY <3>1, <3>2, <3>3, <4>3, <5>1
      <4> QED
        BY <4>2, <4>3
    <3> QED
      BY <3>1, <3>4
  <2>6. 0..n \subseteq Good
    <3> HIDE DEF Good
    <3> QED
      BY <1>1, <2>4, <2>5, Induction
  <2>7. n \in Good
    BY <1>1, <2>6
  <2> QED
    BY <1>3, <2>1, <2>7
<1> QED
  BY <1>2, <1>3

LEMMA FlattenAppend ==
  ASSUME NEW U, NEW s \in Seq(Seq(U)), NEW e \in Seq(U)
  PROVE  /\ FlattenSeq(s) \in Seq(U)
         /\ FlattenSeq(Append(s, e)) = FlattenSeq(s) \o e
<1> DEFINE u == Append(s, e)
<1>1. u \in Seq(Seq(U)) /\ Len(u) = Len(s) + 1 /\ Len(s) \in Nat /\ u[Len(s) + 1] = e
      /\ \A i \in 1..Len(s) : u[i] = s[i]
  OBVIOUS
<1> HIDE DEF u
<1>2. PICK h \in [0..Len(u) -> Seq(U)] : IsFlat(u, h)
  BY <1>1, FlatExists DEF Parts
<1> DEFINE g == [i \in 0..Len(s) |-> h[i]]
<1>3. IsFlat(s, g)
  <2>1. ASSUME NEW i \in 1..Len(s) PROVE g[i] = g[i-1] \o s[i]
    <3>1. i \in 1..Len(u) /\ i-1 \in 0..Len(s) /\ i \in 0..Len(s)
      BY <1>1
    <3>2. h[i] = h[i-1] \o u[i] /\ u[i] = s[i]
      BY <1>1, <1>2, <3>1 DEF IsFlat
    <3> QED
      BY <3>1, <3>2
  <2>2. g[0] = <<>>
    BY <1>1, <1>2 DEF IsFlat
  <2> QED
    BY <2>1, <2>2 DEF IsFlat
<1>4. FlattenSeq(s) = g[Len(s)] /\ g[Len(s)] = h[Len(s)] /\ h[Len(s)] \in Seq(U)
  <2>1. Len(s) \in 0..Len(u) /\ Len(s) \in 0..Len(s)
    BY <1>1
  <2>2. FlattenSeq(s) = g[Len(s)]
    <3> HIDE DEF g
    <3> QED
      BY <1>3, FlatIs
  <2> QED
    BY <2>1, <2>2, <1>2
<1>5. FlattenSeq(u) = h[Len(u)] /\ h[Len(u)] = h[Len(u) - 1] \o u[Len(u)]
  <2>1. Len(u) \in 1..Len(u)
    BY <1>1
  <2> QED
    BY <1>1, <1>2, <2>1, FlatIs DEF IsFlat
<1>6. Len(u) - 1 = Len(s) /\ u[Len(u)] = e
  BY <1>1
<1> QED
  BY <1>4, <1>5, <1>6 DEF u

LEMMA FlattenEmpty == FlattenSeq(<<>>) = <<>>
BY DEF FlattenSeq
(* The first sequence, or the last, taken out of those put together. *)
LEMMA FlattenLast ==
  ASSUME NEW U, NEW n \in Nat, NEW f \in [1..n+1 -> Seq(U)]
  PROVE  LET g == [i \in 1..n |-> f[i]]
         IN  /\ FlattenSeq(g) \in Seq(U) /\ FlattenSeq(f) \in Seq(U)
             /\ FlattenSeq(f) = FlattenSeq(g) \o f[n+1]
<1> DEFINE g == [i \in 1..n |-> f[i]]
           e == f[n+1]
           V == Seq(U)
<1>0. f \in [1..n+1 -> V]
  OBVIOUS
<1>1. g \in Seq(V) /\ e \in V /\ Len(g) = n /\ Append(g, e) = f
  <2> HIDE DEF V
  <2>1. e \in V /\ g \in [1..n -> V]
    BY <1>0
  <2>2. g \in Seq(V) /\ Len(g) = n
    BY <2>1
  <2>3. IsSeq(g) /\ IsSeq(f) /\ Len(f) = n+1
    <3>1. f = [i \in 1..n+1 |-> f[i]] /\ n+1 \in Nat
      BY <1>0
    <3> QED
      BY <2>2, <3>1, SeqIs, FunctionIsSeq
  <2>4. /\ IsSeq(Append(g, e)) /\ Len(Append(g, e)) = n+1
        /\ \A i \in 1..n : Append(g, e)[i] = g[i]
        /\ Append(g, e)[n+1] = e
    <3>1. IsSeq(g) /\ Len(g) = n
      BY <2>2, <2>3
    <3> HIDE DEF g, e
    <3> QED
      BY <3>1, AppendIs
  <2>5. \A i \in 1..n : g[i] = f[i]
    OBVIOUS
  <2>6. \A i \in 1..n+1 : i \in 1..n \/ i = n+1
    OBVIOUS
  <2>7. \A i \in 1..n+1 : Append(g, e)[i] = f[i]
    <3> HIDE DEF g
    <3> QED
      BY <2>4, <2>5, <2>6
  <2> HIDE DEF g, e
  <2>8. Append(g, e) = f
    BY <2>3, <2>4, <2>7, SameSeq
  <2> QED
    BY <2>1, <2>2, <2>8
<1>2. FlattenSeq(g) \in Seq(U) /\ FlattenSeq(Append(g, e)) = FlattenSeq(g) \o e
  <2>1. g \in Seq(Seq(U)) /\ e \in Seq(U)
    BY <1>1
  <2> HIDE DEF g, e
  <2> QED
    BY <2>1, FlattenAppend
<1>3. FlattenSeq(g) \o e \in Seq(U)
  <2>1. e \in Seq(U)
    BY <1>1
  <2> HIDE DEF g, e
  <2> QED
    BY <1>2, <2>1
<1> QED
  BY <1>1, <1>2, <1>3

LEMMA FlattenFirst ==
  ASSUME NEW U, NEW n \in Nat, NEW f \in [1..n+1 -> Seq(U)]
  PROVE  FlattenSeq(f) = f[1] \o FlattenSeq([i \in 1..n |-> f[i+1]])
<1> DEFINE V == Seq(U)
           Fore(m) == [i \in 1..m |-> f[i]]
           Tails(m) == [i \in 1..m |-> f[i+1]]
           Good == {m \in 0..n : FlattenSeq(Fore(m+1)) = f[1] \o FlattenSeq(Tails(m))}
<1>0. f[1] \in Seq(U) /\ \A m \in 0..n : Fore(m) \in [1..m -> V] /\ Tails(m) \in [1..m -> V]
  <2>1. f \in [1..n+1 -> V] /\ 1 \in 1..n+1
    OBVIOUS
  <2> HIDE DEF V
  <2>2. f[1] \in V /\ \A m \in 0..n : Fore(m) \in [1..m -> V] /\ Tails(m) \in [1..m -> V]
    BY <2>1
  <2> QED
    BY <2>2 DEF V
<1>1. 0 \in Good
  <2>1. Tails(0) = <<>>
    OBVIOUS
  <2>2. Fore(1) \in [1..0+1 -> Seq(U)] /\ Fore(1)[0+1] = f[1] /\ [i \in 1..0 |-> Fore(1)[i]] = <<>>
    <3>1. f \in [1..n+1 -> V] /\ 1 \in 1..n+1
      OBVIOUS
    <3> HIDE DEF V
    <3>2. Fore(1) \in [1..0+1 -> V] /\ Fore(1)[0+1] = f[1] /\ [i \in 1..0 |-> Fore(1)[i]] = <<>>
      BY <3>1
    <3> QED
      BY <3>2 DEF V
  <2>3. FlattenSeq(Fore(1)) = FlattenSeq(<<>>) \o f[1]
    <3> DEFINE a == Fore(1)
    <3>1. a \in [1..0+1 -> Seq(U)] /\ a[0+1] = f[1] /\ [i \in 1..0 |-> a[i]] = <<>>
      BY <2>2
    <3> HIDE DEF a
    <3>2. FlattenSeq(a) = FlattenSeq([i \in 1..0 |-> a[i]]) \o a[0+1]
      BY <3>1, FlattenLast
    <3> QED
      BY <3>1, <3>2 DEF a
  <2>4. <<>> \o f[1] = f[1] /\ f[1] \o <<>> = f[1]
    BY <1>0
  <2> QED
    BY <2>1, <2>3, <2>4, FlattenEmpty
<1>2. ASSUME NEW m \in 0..n-1, m \in Good PROVE m+1 \in Good
  <2>1. m \in Nat /\ m+1 \in Nat /\ m+1 \in 0..n
    OBVIOUS
  <2>2. FlattenSeq(Fore((m+1)+1)) = FlattenSeq(Fore(m+1)) \o f[(m+1)+1] /\ FlattenSeq(Fore(m+1)) \in Seq(U)
        /\ f[(m+1)+1] \in Seq(U)
    <3> DEFINE a == Fore((m+1)+1)
    <3>1. a \in [1..(m+1)+1 -> Seq(U)] /\ a[(m+1)+1] = f[(m+1)+1] /\ [i \in 1..m+1 |-> a[i]] = Fore(m+1)
      <4>1. f \in [1..n+1 -> V] /\ \A i \in 1..(m+1)+1 : i \in 1..n+1
        BY <2>1
      <4> HIDE DEF V
      <4>2. a \in [1..(m+1)+1 -> V]
        BY <4>1
      <4>3. a[(m+1)+1] = f[(m+1)+1] /\ [i \in 1..m+1 |-> a[i]] = Fore(m+1)
        BY <2>1
      <4> QED
        BY <4>2, <4>3 DEF V
    <3> HIDE DEF a
    <3>2. FlattenSeq(a) = FlattenSeq([i \in 1..m+1 |-> a[i]]) \o a[(m+1)+1] /\ FlattenSeq([i \in 1..m+1 |-> a[i]]) \in Seq(U)
      BY <2>1, <3>1, FlattenLast
    <3>3. (m+1)+1 \in 1..n+1
      BY <2>1
    <3> QED
      BY <3>1, <3>2, <3>3 DEF a
  <2>3. FlattenSeq(Tails(m+1)) = FlattenSeq(Tails(m)) \o f[(m+1)+1] /\ FlattenSeq(Tails(m)) \in Seq(U)
    <3> DEFINE a == Tails(m+1)
    <3>1. a \in [1..m+1 -> Seq(U)] /\ a[m+1] = f[(m+1)+1] /\ [i \in 1..m |-> a[i]] = Tails(m)
      <4>1. f \in [1..n+1 -> V] /\ \A i \in 1..m+1 : i+1 \in 1..n+1
        BY <2>1
      <4> HIDE DEF V
      <4>2. a \in [1..m+1 -> V]
        BY <4>1
      <4>3. a[m+1] = f[(m+1)+1] /\ [i \in 1..m |-> a[i]] = Tails(m)
        BY <2>1
      <4> QED
        BY <4>2, <4>3 DEF V
    <3> HIDE DEF a
    <3>2. FlattenSeq(a) = FlattenSeq([i \in 1..m |-> a[i]]) \o a[m+1] /\ FlattenSeq([i \in 1..m |-> a[i]]) \in Seq(U)
      BY <2>1, <3>1, FlattenLast
    <3> QED
      BY <3>1, <3>2 DEF a
  <2>4. FlattenSeq(Fore(m+1)) = f[1] \o FlattenSeq(Tails(m))
    BY <1>2
  <2> HIDE DEF Fore, Tails
  <2>5. (f[1] \o FlattenSeq(Tails(m))) \o f[(m+1)+1] = f[1] \o (FlattenSeq(Tails(m)) \o f[(m+1)+1])
    <3> DEFINE a == f[1]
               b == FlattenSeq(Tails(m))
               c == f[(m+1)+1]
    <3>1. a \in Seq(U) /\ b \in Seq(U) /\ c \in Seq(U)
      BY <1>0, <2>2, <2>3
    <3> HIDE DEF a, b, c
    <3>2. IsSeq(a)
      BY <3>1, SeqIs
    <3>3. IsSeq(b)
      BY <3>1, SeqIs
    <3>4. IsSeq(c)
      BY <3>1, SeqIs
    <3>5. \A x, y : x = a \o b /\ y = b \o c => x \o c = a \o y
      BY <3>2, <3>3, <3>4, Associates
    <3>6. \A x, y : x = f[1] \o b /\ y = b \o f[(m+1)+1] => x \o f[(m+1)+1] = f[1] \o y
      BY <3>5 DEF a, c
    <3> QED
      BY <3>6, Zenon DEF b
  <2> QED
    BY <2>1, <2>2, <2>3, <2>4, <2>5
<1>3. n \in Good
  <2>1. 0..n \subseteq Good
    <3> HIDE DEF Good
    <3> QED
      BY <1>1, <1>2, Induction
  <2>2. n \in 0..n
    OBVIOUS
  <2>3. n \in Good
    <3> HIDE DEF Good
    <3> QED
      BY <2>1, <2>2
  <2> QED
    BY <2>3
<1>4. Fore(n+1) = f
  OBVIOUS
<1> QED
  BY <1>3, <1>4
-----------------------------------------------------------------------------
(* The statements of a conforming file, and what they add. *)
LEMMA StatementsAre ==
  ASSUME NEW t, Conforms(t)
  PROVE  /\ IsSeq(t) /\ Len(t) \in Nat /\ DOMAIN t = 1..Len(t)
         /\ \A j \in 1..Len(t) : /\ Allowed(t, j)
                                 /\ t[j].words \in Seq(Words) /\ Len(t[j].words) \in Nat \ {0}
                                 /\ IsSeq(t[j].means) /\ IsSeq(t[j].types)
<1>1. IsSeq(t) /\ \A j \in DOMAIN t : Allowed(t, j)
  BY DEF Conforms
<1>2. Len(t) \in Nat /\ DOMAIN t = 1..Len(t)
  BY <1>1, SeqIs DEF IsSeq
<1>3. ASSUME NEW j \in 1..Len(t)
      PROVE  /\ Allowed(t, j)
             /\ t[j].words \in Seq(Words) /\ Len(t[j].words) \in Nat \ {0}
             /\ IsSeq(t[j].means) /\ IsSeq(t[j].types)
  <2>1. t[j].words \in Seq(Words) /\ t[j].words # <<>> /\ IsSeq(t[j].means) /\ IsSeq(t[j].types)
    BY <1>1, <1>2 DEF Allowed
  <2>2. Len(t[j].words) \in Nat \ {0}
    <3> DEFINE w == t[j].words
    <3>1. w \in Seq(Words) /\ w # <<>>
      BY <2>1
    <3> HIDE DEF w
    <3>2. Len(w) \in Nat \ {0}
      BY <3>1
    <3> QED
      BY <3>2 DEF w
  <2> QED
    BY <1>1, <1>2, <2>1, <2>2
<1> QED
  BY <1>1, <1>2, <1>3

LEMMA FlattenFrom ==
  ASSUME NEW U, NEW n \in Nat, NEW f \in [1..n -> Seq(U)]
  PROVE  FlattenSeq(f) \in Seq(U)
<1>1. CASE n = 0
  <2>1. f = <<>>
    BY <1>1
  <2>2. FlattenSeq(f) = <<>>
    BY <2>1, FlattenEmpty
  <2>3. <<>> \in Seq(U)
    OBVIOUS
  <2> QED
    BY <2>2, <2>3, Zenon
<1>2. CASE n # 0
  <2>1. n-1 \in Nat /\ (n-1)+1 = n
    BY <1>2
  <2>2. f \in [1..(n-1)+1 -> Seq(U)]
    BY <2>1
  <2> QED
    BY <2>1, <2>2, FlattenLast
<1> QED
  BY <1>1, <1>2

LEMMA WordsFirst ==
  ASSUME NEW t, Conforms(t), NEW j \in 0..Len(t)-1
  PROVE  /\ WordsIn(t, j+1, Len(t)) \in Seq(Words)
         /\ WordsIn(t, j, Len(t)) = t[j+1].words \o WordsIn(t, j+1, Len(t))
<1>1. Len(t) \in Nat /\ \A i \in 1..Len(t) : t[i].words \in Seq(Words)
  BY StatementsAre
<1> DEFINE n == Len(t) - (j+1)
           V == Seq(Words)
           f == [k \in 1..n+1 |-> t[j+k].words]
           g == [k \in 1..n |-> t[(j+1)+k].words]
<1>2. n \in Nat /\ n+1 = Len(t) - j /\ n = Len(t) - (j+1)
  BY <1>1
<1>3. f \in [1..n+1 -> V] /\ g \in [1..n -> V] /\ f[1] = t[j+1].words /\ g = [i \in 1..n |-> f[i+1]]
  <2>1. \A k \in 1..n+1 : j+k \in 1..Len(t)
    BY <1>1
  <2>2. \A k \in 1..n : (j+1)+k \in 1..Len(t) /\ k+1 \in 1..n+1 /\ j+(k+1) = (j+1)+k
    BY <1>1
  <2>3. 1 \in 1..n+1
    BY <1>2
  <2>4. \A i \in 1..Len(t) : t[i].words \in V
    BY <1>1
  <2> HIDE DEF V, n
  <2>5. f \in [1..n+1 -> V] /\ g \in [1..n -> V] /\ f[1] = t[j+1].words
    BY <2>1, <2>2, <2>3, <2>4
  <2>6. \A i \in 1..n : g[i] = f[i+1]
    BY <2>2
  <2> QED
    BY <2>5, <2>6
<1>4. WordsIn(t, j, Len(t)) = FlattenSeq(f) /\ WordsIn(t, j+1, Len(t)) = FlattenSeq(g)
  BY <1>2 DEF WordsIn
<1>5. f \in [1..n+1 -> Seq(Words)] /\ g \in [1..n -> Seq(Words)]
  BY <1>3
<1> HIDE DEF f, g, n, V
<1>6. FlattenSeq(f) = f[1] \o FlattenSeq(g)
  BY <1>2, <1>3, <1>5, FlattenFirst
<1>7. FlattenSeq(g) \in Seq(Words)
  BY <1>2, <1>5, FlattenFrom
<1> QED
  BY <1>3, <1>4, <1>6, <1>7

LEMMA WordsLast ==
  ASSUME NEW t, Conforms(t), NEW j \in 0..Len(t)-1, NEW h \in 0..j
  PROVE  /\ WordsIn(t, h, j) \in Seq(Words)
         /\ WordsIn(t, h, j+1) = WordsIn(t, h, j) \o t[j+1].words
<1>1. Len(t) \in Nat /\ \A i \in 1..Len(t) : t[i].words \in Seq(Words)
  BY StatementsAre
<1> DEFINE n == j - h
           V == Seq(Words)
           f == [k \in 1..n+1 |-> t[h+k].words]
           g == [k \in 1..n |-> t[h+k].words]
<1>2. n \in Nat /\ n+1 = (j+1) - h /\ n = j - h
  BY <1>1
<1>3. f \in [1..n+1 -> V] /\ f[n+1] = t[j+1].words /\ g = [i \in 1..n |-> f[i]]
  <2>1. \A k \in 1..n+1 : h+k \in 1..Len(t)
    BY <1>1
  <2>2. h+(n+1) = j+1 /\ n+1 \in 1..n+1
    BY <1>1
  <2>3. \A i \in 1..Len(t) : t[i].words \in V
    BY <1>1
  <2>4. \A i \in 1..n : i \in 1..n+1
    BY <1>2
  <2> HIDE DEF V, n
  <2> QED
    BY <2>1, <2>2, <2>3, <2>4
<1>4. WordsIn(t, h, j+1) = FlattenSeq(f) /\ WordsIn(t, h, j) = FlattenSeq(g)
  BY <1>2 DEF WordsIn
<1>5. f \in [1..n+1 -> Seq(Words)]
  BY <1>3
<1> HIDE DEF f, g, n, V
<1>6. FlattenSeq([i \in 1..n |-> f[i]]) \in Seq(Words) /\ FlattenSeq(f) = FlattenSeq([i \in 1..n |-> f[i]]) \o f[n+1]
  BY <1>2, <1>5, FlattenLast
<1> QED
  BY <1>3, <1>4, <1>6

LEMMA WordsNone ==
  ASSUME NEW t, NEW j \in Nat
  PROVE  WordsIn(t, j, j) = <<>> /\ MeansIn(t, j, j) = <<>> /\ Known(t, 1) = <<>>
<1>1. \A f : [k \in 1..j-j |-> f[k]] = <<>>
  OBVIOUS
<1>2. [k \in 1..j-j |-> t[j+k].words] = <<>> /\ [k \in 1..j-j |-> t[j+k].means] = <<>> /\ [i \in 1..1-1 |-> t[i].types] = <<>>
  OBVIOUS
<1> QED
  BY <1>2, FlattenEmpty DEF WordsIn, MeansIn, Known

LEMMA MeansLast ==
  ASSUME NEW t, Conforms(t), NEW j \in 0..Len(t)-1, NEW h \in 0..j
  PROVE  /\ IsSeq(MeansIn(t, h, j))
         /\ MeansIn(t, h, j+1) = MeansIn(t, h, j) \o t[j+1].means
<1> DEFINE U == UNION {ToSet(t[i].means) : i \in 1..Len(t)}
<1>1. Len(t) \in Nat /\ \A i \in 1..Len(t) : t[i].means \in Seq(U)
  <2>1. Len(t) \in Nat /\ \A i \in 1..Len(t) : t[i].means \in Seq(ToSet(t[i].means))
    BY StatementsAre DEF IsSeq
  <2>2. \A i \in 1..Len(t) : ToSet(t[i].means) \subseteq U
    OBVIOUS
  <2> HIDE DEF U
  <2> QED
    BY <2>1, <2>2
<1> HIDE DEF U
<1> DEFINE n == j - h
           V == Seq(U)
           f == [k \in 1..n+1 |-> t[h+k].means]
           g == [k \in 1..n |-> t[h+k].means]
<1>2. n \in Nat /\ n+1 = (j+1) - h /\ n = j - h
  BY <1>1
<1>3. f \in [1..n+1 -> V] /\ f[n+1] = t[j+1].means /\ g = [i \in 1..n |-> f[i]]
  <2>1. \A k \in 1..n+1 : h+k \in 1..Len(t)
    BY <1>1
  <2>2. h+(n+1) = j+1 /\ n+1 \in 1..n+1
    BY <1>1
  <2>3. \A i \in 1..Len(t) : t[i].means \in V
    BY <1>1
  <2>4. \A i \in 1..n : i \in 1..n+1
    BY <1>2
  <2> HIDE DEF V, n
  <2> QED
    BY <2>1, <2>2, <2>3, <2>4
<1>4. MeansIn(t, h, j+1) = FlattenSeq(f) /\ MeansIn(t, h, j) = FlattenSeq(g)
  BY <1>2 DEF MeansIn
<1>5. f \in [1..n+1 -> Seq(U)]
  BY <1>3
<1> HIDE DEF f, g, n, V
<1>6. FlattenSeq([i \in 1..n |-> f[i]]) \in Seq(U) /\ FlattenSeq(f) = FlattenSeq([i \in 1..n |-> f[i]]) \o f[n+1]
  BY <1>2, <1>5, FlattenLast
<1> QED
  BY <1>3, <1>4, <1>6, SeqIs

LEMMA KnownLast ==
  ASSUME NEW t, Conforms(t), NEW j \in 1..Len(t)
  PROVE  /\ IsSeq(Known(t, j)) /\ IsSeq(Known(t, j+1))
         /\ Known(t, j+1) = Known(t, j) \o t[j].types
<1> DEFINE U == UNION {ToSet(t[i].types) : i \in 1..Len(t)}
<1>1. Len(t) \in Nat /\ \A i \in 1..Len(t) : t[i].types \in Seq(U)
  <2>1. Len(t) \in Nat /\ \A i \in 1..Len(t) : t[i].types \in Seq(ToSet(t[i].types))
    BY StatementsAre DEF IsSeq
  <2>2. \A i \in 1..Len(t) : ToSet(t[i].types) \subseteq U
    OBVIOUS
  <2> HIDE DEF U
  <2> QED
    BY <2>1, <2>2
<1> HIDE DEF U
<1> DEFINE n == j-1
           V == Seq(U)
           f == [i \in 1..n+1 |-> t[i].types]
           g == [i \in 1..n |-> t[i].types]
<1>2. n \in Nat /\ n+1 = (j+1) - 1 /\ n = j-1
  BY <1>1
<1>3. f \in [1..n+1 -> V] /\ f[n+1] = t[j].types /\ g = [i \in 1..n |-> f[i]]
  <2>1. \A k \in 1..n+1 : k \in 1..Len(t)
    BY <1>1
  <2>2. n+1 = j /\ n+1 \in 1..n+1
    BY <1>1
  <2>3. \A i \in 1..Len(t) : t[i].types \in V
    BY <1>1
  <2>4. \A i \in 1..n : i \in 1..n+1
    BY <1>2
  <2> HIDE DEF V, n
  <2> QED
    BY <2>1, <2>2, <2>3, <2>4
<1>4. Known(t, j+1) = FlattenSeq(f) /\ Known(t, j) = FlattenSeq(g)
  BY <1>2 DEF Known
<1>5. f \in [1..n+1 -> Seq(U)]
  BY <1>3
<1> HIDE DEF f, g, n, V
<1>6. /\ FlattenSeq([i \in 1..n |-> f[i]]) \in Seq(U) /\ FlattenSeq(f) \in Seq(U)
      /\ FlattenSeq(f) = FlattenSeq([i \in 1..n |-> f[i]]) \o f[n+1]
  BY <1>2, <1>5, FlattenLast
<1> QED
  BY <1>3, <1>4, <1>6, SeqIs
-----------------------------------------------------------------------------
(* What is left of the words T after the first c. *)
Drop(T, c) == SubSeq(T, c+1, Len(T))

LEMMA SubSeqIs ==
  ASSUME NEW S, NEW T \in Seq(S), NEW a \in Nat \ {0}, NEW b \in Nat, b <= Len(T), a <= b+1
  PROVE  /\ SubSeq(T, a, b) \in Seq(S) /\ Len(SubSeq(T, a, b)) = b+1-a
         /\ \A i \in 1..b+1-a : SubSeq(T, a, b)[i] = T[a+i-1]
<1>1. Len(T) \in Nat /\ \A i \in a..b : T[i] \in S
  OBVIOUS
<1>2. SubSeq(T, a, b) \in Seq(S)
  BY <1>1, SubSeqProperties
<1>3. Len(SubSeq(T, a, b)) = b+1-a
  BY <1>1
<1>4. \A i \in 1..b+1-a : SubSeq(T, a, b)[i] = T[a+i-1]
  BY <1>1
<1> QED
  BY <1>2, <1>3, <1>4

LEMMA DropIs ==
  ASSUME NEW S, NEW T \in Seq(S), NEW c \in 0..Len(T)
  PROVE  /\ Drop(T, c) \in Seq(S) /\ Len(Drop(T, c)) = Len(T) - c
         /\ \A i \in 1..Len(T)-c : Drop(T, c)[i] = T[c+i]
<1>1. c+1 \in Nat \ {0} /\ Len(T) \in Nat /\ c+1 <= Len(T)+1 /\ Len(T)+1-(c+1) = Len(T)-c
  OBVIOUS
<1>2. /\ Drop(T, c) \in Seq(S) /\ Len(Drop(T, c)) = Len(T)+1-(c+1)
      /\ \A i \in 1..Len(T)+1-(c+1) : Drop(T, c)[i] = T[(c+1)+i-1]
  BY <1>1, SubSeqIs DEF Drop
<1>3. \A i \in 1..Len(T)-c : (c+1)+i-1 = c+i
  BY <1>1
<1> QED
  BY <1>1, <1>2, <1>3

LEMMA DropAll ==
  ASSUME NEW S, NEW T \in Seq(S)
  PROVE  Drop(T, 0) = T /\ Drop(T, Len(T)) = <<>>
<1>1. 0 \in 0..Len(T) /\ Len(T) \in 0..Len(T) /\ Len(T) \in Nat
  OBVIOUS
<1>2. Drop(T, 0) \in Seq(S) /\ Len(Drop(T, 0)) = Len(T) /\ \A i \in 1..Len(T) : Drop(T, 0)[i] = T[i]
  <2>1. /\ Drop(T, 0) \in Seq(S) /\ Len(Drop(T, 0)) = Len(T) - 0
        /\ \A i \in 1..Len(T)-0 : Drop(T, 0)[i] = T[0+i]
    BY <1>1, DropIs
  <2> QED
    BY <1>1, <2>1
<1>3. Drop(T, Len(T)) \in Seq(S) /\ Len(Drop(T, Len(T))) = 0
  <2>1. Drop(T, Len(T)) \in Seq(S) /\ Len(Drop(T, Len(T))) = Len(T) - Len(T)
    BY <1>1, DropIs
  <2> QED
    BY <1>1, <2>1
<1>4. Drop(T, 0) = T
  <2>1. IsSeq(T)
    BY SeqIs
  <2>2. IsSeq(Drop(T, 0))
    BY <1>2, SeqIs
  <2> QED
    BY <1>2, <2>1, <2>2, SameSeq
<1>5. Drop(T, Len(T)) = <<>>
  BY <1>3
<1> QED
  BY <1>4, <1>5

LEMMA DropOne ==
  ASSUME NEW S, NEW T \in Seq(S), NEW c \in 0..Len(T)-1
  PROVE  Drop(T, c) # <<>> /\ Head(Drop(T, c)) = T[c+1] /\ Tail(Drop(T, c)) = Drop(T, c+1)
<1>1. Len(T) \in Nat /\ c \in 0..Len(T) /\ c+1 \in 0..Len(T)
  OBVIOUS
<1>2. /\ Drop(T, c) \in Seq(S) /\ Len(Drop(T, c)) = Len(T) - c
      /\ \A i \in 1..Len(T)-c : Drop(T, c)[i] = T[c+i]
  BY <1>1, DropIs
<1>3. /\ Drop(T, c+1) \in Seq(S) /\ Len(Drop(T, c+1)) = Len(T) - (c+1)
      /\ \A i \in 1..Len(T)-(c+1) : Drop(T, c+1)[i] = T[(c+1)+i]
  BY <1>1, DropIs
<1> DEFINE a == Drop(T, c)
           b == Drop(T, c+1)
<1>4. a \in Seq(S) /\ b \in Seq(S) /\ Len(a) = Len(b) + 1 /\ Len(a) > 0 /\ Len(b) \in Nat
      /\ a[1] = T[c+1] /\ \A i \in 1..Len(b) : a[i+1] = b[i]
  <2>1. 1 \in 1..Len(T)-c /\ \A i \in 1..Len(T)-(c+1) : i+1 \in 1..Len(T)-c /\ c+(i+1) = (c+1)+i
    BY <1>1
  <2>2. a[1] = T[c+1] /\ \A i \in 1..Len(T)-(c+1) : a[i+1] = b[i]
    BY <1>2, <1>3, <2>1
  <2>3. Len(a) = Len(b) + 1 /\ Len(a) > 0 /\ Len(b) \in Nat
    <3>1. Len(a) = Len(T) - c /\ Len(b) = Len(T) - (c+1)
      BY <1>2, <1>3
    <3> HIDE DEF a, b
    <3> QED
      BY <1>1, <3>1
  <2> QED
    BY <1>2, <1>3, <2>2, <2>3
<1> HIDE DEF a, b
<1>5. a # <<>> /\ Head(a) = a[1]
  BY <1>4
<1>6. Tail(a) \in Seq(S) /\ Len(Tail(a)) = Len(b) /\ \A i \in 1..Len(b) : Tail(a)[i] = a[i+1]
  <2>1. /\ Tail(a) \in Seq(S) /\ Len(Tail(a)) = Len(a)-1
        /\ \A i \in 1..Len(Tail(a)) : Tail(a)[i] = a[i+1]
    BY <1>4, <1>5, HeadTailProperties
  <2> QED
    BY <1>4, <2>1
<1>7. Tail(a) = b
  <2>1. IsSeq(Tail(a))
    BY <1>6, SeqIs
  <2>2. IsSeq(b)
    BY <1>4, SeqIs
  <2>3. \A i \in 1..Len(Tail(a)) : Tail(a)[i] = b[i]
    BY <1>4, <1>6
  <2> DEFINE u == Tail(a)
  <2>4. IsSeq(u) /\ Len(u) = Len(b) /\ \A i \in 1..Len(u) : u[i] = b[i]
    BY <1>6, <2>1, <2>3
  <2> HIDE DEF u
  <2>5. u = b
    BY <2>2, <2>4, SameSeq
  <2> QED
    BY <2>5 DEF u
<1> QED
  BY <1>4, <1>5, <1>7 DEF a, b

LEMMA DropMore ==
  ASSUME NEW S, NEW T \in Seq(S), NEW c \in 0..Len(T), NEW i \in 1..Len(T)-c+1
  PROVE  SubSeq(Drop(T, c), i, Len(Drop(T, c))) = Drop(T, c+i-1)
<1> DEFINE a == Drop(T, c)
           d == c+i-1
           b == Drop(T, d)
           u == SubSeq(a, i, Len(a))
<1>1. Len(T) \in Nat /\ d \in 0..Len(T) /\ i \in Nat \ {0} /\ Len(T) - d = Len(T)-c+1-i /\ Len(T)-c \in Nat
  OBVIOUS
<1>2. a \in Seq(S) /\ Len(a) = Len(T) - c /\ \A k \in 1..Len(T)-c : a[k] = T[c+k]
  BY DropIs
<1>3. b \in Seq(S) /\ Len(b) = Len(T) - d /\ \A k \in 1..Len(T)-d : b[k] = T[d+k]
  <2> HIDE DEF d
  <2> QED
    BY <1>1, DropIs
<1> HIDE DEF a, b
<1>4. u \in Seq(S) /\ Len(u) = Len(a)+1-i /\ \A k \in 1..Len(a)+1-i : u[k] = a[i+k-1]
  <2>1. Len(a) \in Nat /\ i <= Len(a)+1
    BY <1>1, <1>2
  <2> QED
    BY <1>1, <1>2, <2>1, SubSeqIs
<1> HIDE DEF u
<1>5. Len(u) = Len(b) /\ \A k \in 1..Len(u) : u[k] = b[k]
  <2>1. Len(u) = Len(b)
    BY <1>1, <1>2, <1>3, <1>4
  <2>2. ASSUME NEW k \in 1..Len(u) PROVE u[k] = b[k]
    <3>1. i+k-1 \in 1..Len(T)-c /\ k \in 1..Len(T)-d /\ c+(i+k-1) = d+k
      BY <1>1, <1>2, <1>4
    <3>2. u[k] = a[i+k-1]
      BY <1>4
    <3>3. a[i+k-1] = T[c+(i+k-1)]
      BY <1>2, <3>1
    <3>4. b[k] = T[d+k]
      BY <1>3, <3>1
    <3> QED
      BY <3>1, <3>2, <3>3, <3>4
  <2> QED
    BY <2>1, <2>2
<1>6. IsSeq(u)
  BY <1>4, SeqIs
<1>7. IsSeq(b)
  BY <1>3, SeqIs
<1>8. u = b
  BY <1>5, <1>6, <1>7, SameSeq
<1> QED
  BY <1>8 DEF u, b, a
-----------------------------------------------------------------------------
(* What reading has gathered: q stands for r, and for r in the middle of a *)
(* statement.  S is the set of the names of the function.                  *)
Opd == [kind : {"vreg", "imm", "fp"}, x : Int]
Sym == [s : STRING, v : Nat]
FpTable == [n : Nat, at : [0..FpMax-1 -> Int]]
Reading == [rest : Seq(Words), syms : Seq(Sym), next : Nat, fp : FpTable, args : Seq(Opd)]

Roomy(S) ==
  S \in SUBSET STRING /\ IsFiniteSet(S) /\ Cardinality(S) <= SymMax /\ Cardinality(S) <= ParamBase

Fine(S, q) ==
  /\ q \in Reading
  /\ \A i, k \in DOMAIN q.syms : i # k => q.syms[i].s # q.syms[k].s /\ q.syms[i].v # q.syms[k].v
  /\ \A i \in DOMAIN q.syms : q.syms[i].v < q.next /\ q.syms[i].s \in S
  /\ Len(q.syms) <= SymMax /\ q.next <= ParamBase
  /\ S # {} => q.next = Len(q.syms)

(* Reading goes on from q to p. *)
Extends(q, p) ==
  /\ Len(q.syms) <= Len(p.syms) /\ \A i \in DOMAIN q.syms : p.syms[i] = q.syms[i]
  /\ q.next <= p.next /\ q.fp.n <= p.fp.n
  /\ p.fp.n <= FpMax => \A i \in 0..q.fp.n-1 : p.fp.at[i] = q.fp.at[i]

(* A name that has been read is in the table. *)
Met(q, w) == w.k = "name" => SymOf(q, w.s) # 0
InTable(q, a) == a.kind = "fp" => a.x \in 0..Min({q.fp.n, FpMax})-1
Holds(q, a, w) ==
  /\ w.k \in {"name", "num", "arg", "int", "flt"}
  /\ Met(q, w) /\ InTable(q, a) /\ ((w.k = "flt" => q.fp.n <= FpMax) => Denotes(q, a, w))

LEMMA MinIs ==
  ASSUME NEW I \in SUBSET Nat, I # {}
  PROVE  Min(I) \in I /\ \A y \in I : Min(I) <= y
<1>1. \E x \in I : \A y \in I : x <= y
  BY Least
<1> QED
  BY <1>1 DEF Min

LEMMA MinOfTwo ==
  ASSUME NEW a \in Int, NEW b \in Int
  PROVE  Min({a, b}) = IF a <= b THEN a ELSE b
<1>1. \E x \in {a, b} : \A y \in {a, b} : x <= y
  OBVIOUS
<1>2. Min({a, b}) \in {a, b} /\ \A y \in {a, b} : Min({a, b}) <= y
  BY <1>1 DEF Min
<1> QED
  BY <1>2

LEMMA MaxOfTwo ==
  ASSUME NEW a \in Int, NEW b \in Int
  PROVE  Max({a, b}) = IF a >= b THEN a ELSE b
<1>1. \E x \in {a, b} : \A y \in {a, b} : x >= y
  OBVIOUS
<1>2. Max({a, b}) \in {a, b} /\ \A y \in {a, b} : Max({a, b}) >= y
  BY <1>1 DEF Max
<1> QED
  BY <1>2

LEMMA SymOfIs ==
  ASSUME NEW q, q.syms \in Seq(Sym), NEW s
  PROVE  /\ SymOf(q, s) \in 0..Len(q.syms)
         /\ SymOf(q, s) # 0 => q.syms[SymOf(q, s)].s = s
         /\ SymOf(q, s) = 0 => \A i \in DOMAIN q.syms : q.syms[i].s # s
<1> DEFINE I == {i \in 1..Len(q.syms) : q.syms[i].s = s}
<1>1. Len(q.syms) \in Nat /\ DOMAIN q.syms = 1..Len(q.syms)
  OBVIOUS
<1>2. SymOf(q, s) = IF I # {} THEN Min(I) ELSE 0
  BY DEF SymOf, SelectInSeq
<1>3. CASE I = {}
  BY <1>1, <1>2, <1>3
<1>4. CASE I # {}
  <2>1. I \in SUBSET Nat
    BY <1>1
  <2>2. Min(I) \in I
    BY <1>4, <2>1, MinIs
  <2> QED
    BY <1>1, <1>2, <1>4, <2>2
<1> QED
  BY <1>3, <1>4

LEMMA SymOfAt ==
  ASSUME NEW S, NEW q, Fine(S, q), NEW i \in 1..Len(q.syms)
  PROVE  SymOf(q, q.syms[i].s) = i
<1>1. q.syms \in Seq(Sym)
  BY DEF Fine, Reading, FpTable
<1>2. DOMAIN q.syms = 1..Len(q.syms) /\ Len(q.syms) \in Nat
  BY <1>1
<1> DEFINE k == SymOf(q, q.syms[i].s)
<1>3. k \in 0..Len(q.syms) /\ (k # 0 => q.syms[k].s = q.syms[i].s) /\ k # 0
  BY <1>1, <1>2, SymOfIs
<1> HIDE DEF k
<1>4. k = i
  BY <1>2, <1>3 DEF Fine
<1> QED
  BY <1>4 DEF k

(* The numbers of vregs that have been read stay, and so do constants. *)
LEMMA NumberStays ==
  ASSUME NEW S, NEW q, NEW p, Fine(S, q), Fine(S, p), Extends(q, p), NEW w, Met(q, w)
  PROVE  Met(p, w) /\ NumberIn(p, w) = NumberIn(q, w)
<1>1. CASE w.k # "name"
  BY <1>1 DEF Met, NumberIn
<1>2. CASE w.k = "name"
  <2>1. q.syms \in Seq(Sym) /\ p.syms \in Seq(Sym)
    BY DEF Fine, Reading, FpTable
  <2> DEFINE i == SymOf(q, w.s)
  <2>2. i \in 1..Len(q.syms) /\ q.syms[i].s = w.s /\ Len(q.syms) <= Len(p.syms) /\ Len(q.syms) \in Nat /\ Len(p.syms) \in Nat
        /\ DOMAIN q.syms = 1..Len(q.syms)
    <3>1. i \in 0..Len(q.syms) /\ (i # 0 => q.syms[i].s = w.s) /\ i # 0
      BY <1>2, <2>1, SymOfIs DEF Met
    <3> HIDE DEF i
    <3> QED
      BY <2>1, <3>1 DEF Extends
  <2>3. p.syms[i] = q.syms[i] /\ i \in 1..Len(p.syms)
    BY <2>2 DEF Extends
  <2>4. SymOf(p, w.s) = i
    <3>1. SymOf(p, p.syms[i].s) = i
      <4> HIDE DEF i
      <4> QED
        BY <2>3, SymOfAt
    <3> QED
      BY <2>2, <2>3, <3>1
  <2> QED
    BY <1>2, <2>2, <2>3, <2>4 DEF Met, NumberIn
<1> QED
  BY <1>1, <1>2

LEMMA HoldsStays ==
  ASSUME NEW S, NEW q, NEW p, Fine(S, q), Fine(S, p), Extends(q, p), NEW a \in Opd, NEW w, Holds(q, a, w)
  PROVE  Holds(p, a, w)
<1>0. FpMax \in Nat \ {0} /\ q.fp.n \in Nat /\ p.fp.n \in Nat
  BY IRAssumption DEF Fine, Reading, FpTable
<1>1. Met(p, w) /\ NumberIn(p, w) = NumberIn(q, w)
  BY NumberStays DEF Holds
<1>2. /\ Min({q.fp.n, FpMax}) = IF q.fp.n <= FpMax THEN q.fp.n ELSE FpMax
      /\ Min({p.fp.n, FpMax}) = IF p.fp.n <= FpMax THEN p.fp.n ELSE FpMax
  BY <1>0, MinOfTwo
<1>3. InTable(p, a)
  <2>1. Min({q.fp.n, FpMax}) <= Min({p.fp.n, FpMax}) /\ Min({q.fp.n, FpMax}) \in Nat /\ Min({p.fp.n, FpMax}) \in Nat
    BY <1>0, <1>2 DEF Extends
  <2> QED
    BY <1>0, <2>1 DEF Holds, InTable
<1>4. ASSUME w.k = "flt" => p.fp.n <= FpMax PROVE Denotes(p, a, w)
  <2>1. (w.k = "flt" => q.fp.n <= FpMax) /\ Denotes(q, a, w)
    BY <1>0, <1>4 DEF Extends, Holds
  <2>2. w.k = "flt" /\ a.kind = "fp" => FpGet(p.fp, a.x) = FpGet(q.fp, a.x)
    <3>1. w.k = "flt" /\ a.kind = "fp" => a.x \in 0..q.fp.n-1
      BY <1>0, <1>2, <2>1 DEF Holds, InTable
    <3> QED
      BY <1>0, <1>4, <3>1 DEF Extends, FpGet
  <2>4. CASE IsVreg(w)
    BY <1>1, <2>1, <2>4 DEF Denotes, IsVreg
  <2>5. CASE w.k = "int"
    BY <2>1, <2>5 DEF Denotes, IsVreg
  <2>6. CASE w.k = "flt"
    BY <2>1, <2>2, <2>6 DEF Denotes, IsVreg
  <2> QED
    BY <2>4, <2>5, <2>6 DEF Holds, IsVreg
<1> QED
  BY <1>1, <1>3, <1>4 DEF Holds

LEMMA ExtendsTransitive ==
  ASSUME NEW S, NEW q, NEW p, NEW o, Fine(S, q), Fine(S, p), Fine(S, o), Extends(q, p), Extends(p, o)
  PROVE  Extends(q, o)
<1>0. /\ FpMax \in Nat \ {0} /\ q.fp.n \in Nat /\ p.fp.n \in Nat /\ o.fp.n \in Nat
      /\ q.next \in Nat /\ p.next \in Nat /\ o.next \in Nat
  BY IRAssumption DEF Fine, Reading, FpTable
<1>1. /\ Len(q.syms) \in Nat /\ DOMAIN q.syms = 1..Len(q.syms)
      /\ Len(p.syms) \in Nat /\ DOMAIN p.syms = 1..Len(p.syms)
      /\ Len(o.syms) \in Nat /\ DOMAIN o.syms = 1..Len(o.syms)
  <2>1. q.syms \in Seq(Sym) /\ p.syms \in Seq(Sym) /\ o.syms \in Seq(Sym)
    BY DEF Fine, Reading, FpTable
  <2> QED
    BY <2>1
<1>2. Len(q.syms) <= Len(o.syms) /\ \A i \in DOMAIN q.syms : o.syms[i] = q.syms[i]
  BY <1>1 DEF Extends
<1>3. q.next <= o.next /\ q.fp.n <= o.fp.n
  BY <1>0 DEF Extends
<1>4. ASSUME o.fp.n <= FpMax, NEW i \in 0..q.fp.n-1 PROVE o.fp.at[i] = q.fp.at[i]
  <2>1. q.fp.n <= p.fp.n /\ p.fp.n <= o.fp.n
    BY DEF Extends
  <2>2. p.fp.n <= FpMax /\ i \in 0..p.fp.n-1
    BY <1>0, <1>4, <2>1
  <2>3. p.fp.at[i] = q.fp.at[i]
    BY <2>2 DEF Extends
  <2>4. o.fp.at[i] = p.fp.at[i]
    BY <1>4, <2>2 DEF Extends
  <2> QED
    BY <2>3, <2>4
<1> QED
  BY <1>2, <1>3, <1>4 DEF Extends

-----------------------------------------------------------------------------
(* The cursor: q has read the first c of the words T, and since the state  *)
(* q0 the operands ws.                                                     *)
Reads(S, T, c, q) == Fine(S, q) /\ c \in 0..Len(T) /\ q.rest = Drop(T, c)

Took(S, T, q0, q, c, ws) ==
  /\ Reads(S, T, c, q) /\ Fine(S, q0) /\ Extends(q0, q)
  /\ IsSeq(ws) /\ Len(q.args) = Len(ws)
  /\ \A i \in 1..Len(ws) : Holds(q, q.args[i], ws[i])

LEMMA FineHas ==
  ASSUME NEW S, NEW q, Fine(S, q)
  PROVE  /\ q.rest \in Seq(Words) /\ q.syms \in Seq(Sym) /\ q.next \in Nat
         /\ q.fp.n \in Nat /\ q.fp.at \in [0..FpMax-1 -> Int] /\ q.args \in Seq(Opd)
         /\ q.fp = [n |-> q.fp.n, at |-> q.fp.at]
         /\ q = [rest |-> q.rest, syms |-> q.syms, next |-> q.next, fp |-> q.fp, args |-> q.args]
         /\ Len(q.syms) \in Nat /\ DOMAIN q.syms = 1..Len(q.syms)
         /\ Len(q.args) \in Nat /\ DOMAIN q.args = 1..Len(q.args)
<1>1. /\ q.rest \in Seq(Words) /\ q.syms \in Seq(Sym) /\ q.next \in Nat
      /\ q.fp.n \in Nat /\ q.fp.at \in [0..FpMax-1 -> Int] /\ q.args \in Seq(Opd)
      /\ q.fp = [n |-> q.fp.n, at |-> q.fp.at]
      /\ q = [rest |-> q.rest, syms |-> q.syms, next |-> q.next, fp |-> q.fp, args |-> q.args]
  BY DEF Fine, Reading, FpTable
<1> QED
  BY <1>1

Rested(q, rest) == [q EXCEPT !.rest = rest]

(* What is in the tables does not depend on the words left and on args. *)
LEMMA SameTables ==
  ASSUME NEW S, NEW q, Fine(S, q), NEW p, p \in Reading, p.syms = q.syms, p.next = q.next, p.fp = q.fp
  PROVE  /\ Fine(S, p) /\ Extends(q, p) /\ Extends(p, q)
         /\ \A s : SymOf(p, s) = SymOf(q, s)
         /\ \A a, w : Holds(p, a, w) = Holds(q, a, w)
         /\ \A w : NumberIn(p, w) = NumberIn(q, w) /\ Met(p, w) = Met(q, w)
<1>3. Fine(S, p)
  BY DEF Fine
<1>4. Extends(q, p) /\ Extends(p, q)
  <2>1. Len(q.syms) \in Nat /\ q.next \in Nat /\ q.fp.n \in Nat
    BY FineHas
  <2> QED
    BY <2>1 DEF Extends
<1>5. \A s : SymOf(p, s) = SymOf(q, s)
  BY DEF SymOf
<1>6. \A w : NumberIn(p, w) = NumberIn(q, w) /\ Met(p, w) = Met(q, w)
  BY <1>5 DEF NumberIn, Met
<1>7. \A a, w : Holds(p, a, w) = Holds(q, a, w)
  BY <1>6 DEF Holds, InTable, Denotes
<1> QED
  BY <1>3, <1>4, <1>5, <1>6, <1>7

LEMMA RestedIs ==
  ASSUME NEW S, NEW q, Fine(S, q), NEW rest \in Seq(Words)
  PROVE  LET p == Rested(q, rest)
         IN  /\ p \in Reading /\ p.rest = rest /\ p.syms = q.syms /\ p.next = q.next /\ p.fp = q.fp /\ p.args = q.args
             /\ Fine(S, p) /\ Extends(q, p) /\ Extends(p, q)
             /\ \A a, w : Holds(p, a, w) = Holds(q, a, w)
<1> DEFINE p == Rested(q, rest)
           R(X, Y, Z, V) == [rest : X, syms : Y, next : Nat, fp : Z, args : V]
<1>1. p \in Reading /\ p.rest = rest /\ p.syms = q.syms /\ p.next = q.next /\ p.fp = q.fp /\ p.args = q.args
  <2>1. ASSUME NEW X, NEW Y, NEW Z, NEW V, q \in R(X, Y, Z, V), rest \in X
        PROVE  p \in R(X, Y, Z, V) /\ p.rest = rest /\ p.syms = q.syms /\ p.next = q.next /\ p.fp = q.fp /\ p.args = q.args
    BY <2>1 DEF Rested
  <2>2. q \in R(Seq(Words), Seq(Sym), FpTable, Seq(Opd))
    BY DEF Fine, Reading, FpTable
  <2>3. p \in R(Seq(Words), Seq(Sym), FpTable, Seq(Opd))
        /\ p.rest = rest /\ p.syms = q.syms /\ p.next = q.next /\ p.fp = q.fp /\ p.args = q.args
    <3> HIDE DEF R, p
    <3> QED
      BY <2>1, <2>2
  <2> QED
    BY <2>3 DEF Reading
<1> HIDE DEF p
<1>2. Fine(S, p) /\ Extends(q, p) /\ Extends(p, q) /\ \A a, w : Holds(p, a, w) = Holds(q, a, w)
  BY <1>1, SameTables
<1> QED
  BY <1>1, <1>2 DEF p

LEMMA PeekIs ==
  ASSUME NEW S, NEW T \in Seq(Words), NEW c, NEW q, Reads(S, T, c, q)
  PROVE  /\ c < Len(T) => Peek(q) = T[c+1] /\ T[c+1] \in Words
         /\ c = Len(T) => Peek(q) = EndOfFile
<1>1. Len(T) \in Nat /\ c \in 0..Len(T) /\ q.rest = Drop(T, c)
  BY DEF Reads
<1>2. CASE c < Len(T)
  <2>1. c \in 0..Len(T)-1 /\ c+1 \in 1..Len(T)
    BY <1>1, <1>2
  <2>2. Drop(T, c) # <<>> /\ Head(Drop(T, c)) = T[c+1]
    BY <2>1, DropOne
  <2> QED
    BY <1>1, <1>2, <2>1, <2>2 DEF Peek
<1>3. CASE c = Len(T)
  <2>1. Drop(T, Len(T)) = <<>>
    BY DropAll
  <2> QED
    BY <1>1, <1>3, <2>1 DEF Peek
<1> QED
  BY <1>1, <1>2, <1>3

LEMMA SkipIs ==
  ASSUME NEW S, NEW T \in Seq(Words), NEW c, NEW q, Reads(S, T, c, q), c < Len(T)
  PROVE  Skip(q) = Rested(q, Drop(T, c+1)) /\ c+1 \in 0..Len(T)
<1>1. Len(T) \in Nat /\ c \in 0..Len(T)-1 /\ q.rest = Drop(T, c)
  BY DEF Reads
<1>2. Drop(T, c) # <<>> /\ Tail(Drop(T, c)) = Drop(T, c+1)
  BY <1>1, DropOne
<1>3. Skip(q) = Rested(q, Drop(T, c+1))
  BY <1>1, <1>2 DEF Skip, Rested
<1> QED
  BY <1>1, <1>3

LEMMA FromThree ==
  ASSUME NEW q, q.rest \in Seq(Words), Len(q.rest) >= 2
  PROVE  From(q, 3) = Skip(Skip(q))
<1> DEFINE x == q.rest
<1>1. x \in Seq(Words) /\ 0 \in 0..Len(x)-1 /\ 1 \in 0..Len(x)-1
  OBVIOUS
<1> HIDE DEF x
<1>2. Drop(x, 0) = x
  BY <1>1, DropAll
<1>3. x # <<>> /\ Tail(x) = Drop(x, 1)
  BY <1>1, <1>2, DropOne
<1>4. Drop(x, 1) # <<>> /\ Tail(Drop(x, 1)) = Drop(x, 2)
  <2>1. Drop(x, 1) # <<>> /\ Tail(Drop(x, 1)) = Drop(x, 1+1)
    BY <1>1, DropOne
  <2> QED
    BY <2>1
<1> DEFINE y == Tail(x)
<1>5. Skip(q) = [q EXCEPT !.rest = y]
  BY <1>3 DEF Skip, x
<1> HIDE DEF y
<1>6. From(q, 3) = [q EXCEPT !.rest = Drop(x, 2)]
  BY DEF From, Drop, x
<1> DEFINE z == Drop(x, 2)
<1> HIDE DEF z
<1>7. [q EXCEPT !.rest = z] = [[q EXCEPT !.rest = y] EXCEPT !.rest = z]
  OBVIOUS
<1>8. [q EXCEPT !.rest = y].rest = y
  OBVIOUS
<1>9. y # <<>> /\ Tail(y) = z
  BY <1>3, <1>4 DEF y, z
<1> DEFINE p == [q EXCEPT !.rest = y]
<1> HIDE DEF p
<1>10. Skip(p) = [p EXCEPT !.rest = z]
  BY <1>8, <1>9 DEF Skip, p
<1> QED
  BY <1>5, <1>6, <1>7, <1>10 DEF p, z

LEMMA TookTo ==
  ASSUME NEW S, NEW T, NEW q0, NEW q, NEW c, NEW ws, Took(S, T, q0, q, c, ws),
         NEW U \in Seq(Words), NEW d \in 0..Len(U)
  PROVE  LET p == Rested(q, Drop(U, d))
         IN  Took(S, U, q0, p, d, ws) /\ p.args = q.args
<1> DEFINE p == Rested(q, Drop(U, d))
<1>1. Fine(S, q) /\ Fine(S, q0) /\ Extends(q0, q)
  BY DEF Took, Reads
<1>2. Drop(U, d) \in Seq(Words)
  BY <1>1, DropIs
<1>4. p.rest = Drop(U, d) /\ p.args = q.args /\ Fine(S, p) /\ Extends(q, p) /\ \A a, w : Holds(p, a, w) = Holds(q, a, w)
  BY <1>1, <1>2, RestedIs
<1> HIDE DEF p
<1>5. Extends(q0, p)
  BY <1>1, <1>4, ExtendsTransitive
<1> QED
  BY <1>1, <1>4, <1>5 DEF Took, Reads, p

LEMMA TookSkip ==
  ASSUME NEW S, NEW T \in Seq(Words), NEW q0, NEW q, NEW c, NEW ws, Took(S, T, q0, q, c, ws), c < Len(T)
  PROVE  Took(S, T, q0, Skip(q), c+1, ws) /\ Skip(q).args = q.args
<1>1. Reads(S, T, c, q)
  BY DEF Took
<1>2. Skip(q) = Rested(q, Drop(T, c+1)) /\ c+1 \in 0..Len(T)
  BY <1>1, SkipIs
<1> QED
  BY <1>2, TookTo

-----------------------------------------------------------------------------
(* An operand. *)
Usable(S, w) ==
  /\ w \in Words /\ IsOperand(w)
  /\ w.k = "name" => w.s \in S
  /\ w.k = "num" => S = {} /\ w.n < ParamBase

LEMMA FpAddedOne ==
  ASSUME NEW fp \in FpTable, NEW d \in Int
  PROVE  LET k == IF fp.n <= FpMax-1 THEN fp.n ELSE FpMax-1
             g == FpAdded(fp, <<d>>)
         IN  /\ FpIndex(fp, 1) = k /\ k \in 0..FpMax-1
             /\ g \in FpTable /\ g.n = fp.n + 1
             /\ \A i \in 0..FpMax-1 : g.at[i] = IF i = k THEN d ELSE fp.at[i]
<1> DEFINE k == IF fp.n <= FpMax-1 THEN fp.n ELSE FpMax-1
           g == FpAdded(fp, <<d>>)
<1>0. FpMax \in Nat \ {0}
  BY IRAssumption
<1>00. fp.n \in Nat /\ fp.at \in [0..FpMax-1 -> Int]
  BY DEF FpTable
<1>1. k \in 0..FpMax-1
  BY <1>0, <1>00
<1>2. FpIndex(fp, 1) = k
  <2>1. Min({fp.n, FpMax-1}) = k
    BY <1>0, <1>00, MinOfTwo
  <2>2. fp.n + 1 - 1 = fp.n
    BY <1>00
  <2> QED
    BY <2>1, <2>2 DEF FpIndex
<1>3. Len(<<d>>) = 1 /\ DOMAIN <<d>> = {1} /\ <<d>>[1] = d
  OBVIOUS
<1>4. Max({1}) = 1
  BY MaxOfTwo, {1} = {1, 1}
<1>5. ASSUME NEW i \in 0..FpMax-1
      PROVE  (LET K == {x \in DOMAIN <<d>> : FpIndex(fp, x) = i}
              IN  IF K = {} THEN fp.at[i] ELSE <<d>>[Max(K)]) = IF i = k THEN d ELSE fp.at[i]
  <2> DEFINE K == {x \in DOMAIN <<d>> : FpIndex(fp, x) = i}
  <2>1. CASE i = k
    <3>1. K = {1}
      BY <1>2, <1>3, <2>1
    <3> QED
      BY <1>3, <1>4, <2>1, <3>1
  <2>2. CASE i # k
    <3>1. K = {}
      BY <1>2, <1>3, <2>2
    <3> QED
      BY <2>2, <3>1
  <2> QED
    BY <2>1, <2>2
<1> HIDE DEF k
<1>6. g.n = fp.n + 1 /\ g.at = [i \in 0..FpMax-1 |-> IF i = k THEN d ELSE fp.at[i]]
      /\ g = [n |-> g.n, at |-> g.at]
  BY <1>3, <1>5 DEF FpAdded
<1> HIDE DEF g
<1>7. g.at \in [0..FpMax-1 -> Int] /\ \A i \in 0..FpMax-1 : g.at[i] = IF i = k THEN d ELSE fp.at[i]
  BY <1>00, <1>6
<1>8. g \in FpTable
  BY <1>00, <1>6, <1>7 DEF FpTable
<1> QED
  BY <1>1, <1>2, <1>6, <1>7, <1>8 DEF g, k

(* A name that is not in the table finds room there. *)
LEMMA RoomLeft ==
  ASSUME NEW S, Roomy(S), NEW q, Fine(S, q), NEW s \in S, SymOf(q, s) = 0
  PROVE  Len(q.syms) < SymMax /\ q.next = Len(q.syms) /\ q.next < ParamBase
<1>1. SymMax \in Nat /\ ParamBase \in Nat /\ Len(q.syms) \in Nat /\ DOMAIN q.syms = 1..Len(q.syms) /\ q.next = Len(q.syms)
  BY ParserAssumption, IRAssumption, FineHas DEF Fine
<1> DEFINE n == Len(q.syms)
           f == [i \in 1..n |-> q.syms[i].s]
<1>2. \A i \in 1..n : q.syms[i].s \in S \ {s}
  <2>1. q.syms \in Seq(Sym)
    BY FineHas
  <2> QED
    BY <1>1, <2>1, SymOfIs DEF Fine
<1>3. f \in [1..n -> S \ {s}] /\ \A i, k \in 1..n : i # k => f[i] # f[k]
  BY <1>1, <1>2 DEF Fine
<1> HIDE DEF f
<1>4. IsFiniteSet(S) /\ Cardinality(S) \in Nat /\ IsFiniteSet(S \ {s}) /\ Cardinality(S \ {s}) = Cardinality(S) - 1
  BY FS_CardinalityType, FS_RemoveElement DEF Roomy
<1>5. IsFiniteSet(1..n) /\ Cardinality(1..n) = n
  BY <1>1, FS_Interval
<1>6. ~(Cardinality(S \ {s}) < Cardinality(1..n))
  <2> SUFFICES ASSUME Cardinality(S \ {s}) < Cardinality(1..n) PROVE FALSE
    OBVIOUS
  <2>1. \E x, y \in 1..n : x # y /\ f[x] = f[y]
    <3> DEFINE A == 1..n
               Less == S \ {s}
    <3>1. IsFiniteSet(A) /\ IsFiniteSet(Less) /\ Cardinality(Less) < Cardinality(A) /\ f \in [A -> Less]
      BY <1>3, <1>4, <1>5
    <3> HIDE DEF A, Less
    <3>2. \E x, y \in A : x # y /\ f[x] = f[y]
      BY <3>1, FS_PigeonHole
    <3> QED
      BY <3>2 DEF A
  <2> QED
    BY <1>3, <2>1
<1>7. Len(q.syms) <= Cardinality(S) - 1
  BY <1>1, <1>4, <1>5, <1>6
<1> QED
  BY <1>1, <1>4, <1>7 DEF Roomy

(* Reading the operand w turns q into p, with a at the end of args.        *)
LEMMA OperandFields ==
  ASSUME NEW S, Roomy(S), NEW q, Fine(S, q), NEW w, Usable(S, w), Peek(q) = w
  PROVE  LET p == Operand(q)
             a == p.args[Len(p.args)]
         IN  /\ p.rest = Skip(q).rest /\ a \in Opd /\ p.args = Append(q.args, a)
             /\ Fine(S, p) /\ Extends(q, p) /\ Holds(p, a, w)
<1> DEFINE p == Operand(q)
           a == p.args[Len(p.args)]
           to(x, b) == [Skip(x) EXCEPT !.args = Append(@, b)]
<1>0. w # Comma /\ w.k \in {"name", "num", "arg", "int", "flt"} /\ ParamBase \in Nat /\ FpMax \in Nat \ {0}
  <2>1. w.k \in {"name", "num", "arg", "int", "flt"}
    BY DEF Usable, IsOperand
  <2>2. w # Comma
    <3>1. Comma.k = "word"
      BY DEF Comma, Word
    <3> QED
      BY <2>1, <3>1
  <2> QED
    BY <2>1, <2>2, IRAssumption
<1>1. SkipIf(q, ",") = q
  BY <1>0 DEF SkipIf, Comma
<1> DEFINE Good(rest, syms, next, fp, b) ==
             /\ p.rest = rest /\ p.syms = syms /\ p.next = next /\ p.fp = fp /\ p.args = Append(q.args, b)
             /\ p = [rest |-> rest, syms |-> syms, next |-> next, fp |-> fp, args |-> Append(q.args, b)]
<1>2. ASSUME NEW x, NEW syms, NEW next, NEW fp, NEW b,
             x = [rest |-> q.rest, syms |-> syms, next |-> next, fp |-> fp, args |-> q.args], p = to(x, b)
      PROVE  Good(Skip(q).rest, syms, next, fp, b)
  <2>1. q.rest \in Seq(Words) /\ q = [rest |-> q.rest, syms |-> q.syms, next |-> q.next, fp |-> q.fp, args |-> q.args]
    BY FineHas
  <2> DEFINE d == q.rest
             e == q.args
  <2>2. x = [rest |-> d, syms |-> syms, next |-> next, fp |-> fp, args |-> e] /\ d = q.rest /\ e = q.args
    BY <1>2
  <2> HIDE DEF d, e
  <2>3. CASE d = <<>>
    <3>1. Skip(x) = x /\ Skip(q) = q
      BY <2>2, <2>3 DEF Skip
    <3>2. p = [rest |-> d, syms |-> syms, next |-> next, fp |-> fp, args |-> Append(e, b)]
      <4> DEFINE y == Skip(x)
      <4>1. y = [rest |-> d, syms |-> syms, next |-> next, fp |-> fp, args |-> e]
        BY <2>2, <3>1
      <4> HIDE DEF y
      <4>2. [y EXCEPT !.args = Append(@, b)] = [rest |-> d, syms |-> syms, next |-> next, fp |-> fp, args |-> Append(e, b)]
        BY <4>1
      <4> QED
        BY <1>2, <4>2 DEF y
    <3> HIDE DEF p
    <3> QED
      BY <2>2, <3>1, <3>2
  <2>4. CASE d # <<>>
    <3>1. Skip(x) = [rest |-> Tail(d), syms |-> syms, next |-> next, fp |-> fp, args |-> e]
      BY <2>2, <2>4 DEF Skip
    <3>2. Skip(q).rest = Tail(d)
      <4>1. Skip(q) = [q EXCEPT !.rest = Tail(q.rest)]
        BY <2>2, <2>4 DEF Skip
      <4> QED
        BY <2>1, <2>2, <4>1
    <3>3. p = [rest |-> Tail(d), syms |-> syms, next |-> next, fp |-> fp, args |-> Append(e, b)]
      <4> DEFINE y == Skip(x)
             z == Tail(d)
      <4>1. y = [rest |-> z, syms |-> syms, next |-> next, fp |-> fp, args |-> e]
        BY <2>2, <3>1
      <4> HIDE DEF y, z
      <4>2. [y EXCEPT !.args = Append(@, b)] = [rest |-> z, syms |-> syms, next |-> next, fp |-> fp, args |-> Append(e, b)]
        BY <4>1
      <4> QED
        BY <1>2, <4>2 DEF y, z
    <3> HIDE DEF p
    <3> QED
      BY <2>2, <3>2, <3>3
  <2> QED
    BY <2>3, <2>4
<1>3. q.rest \in Seq(Words) /\ q.syms \in Seq(Sym) /\ q.next \in Nat /\ q.args \in Seq(Opd) /\ Len(q.args) \in Nat
      /\ q.fp.n \in Nat /\ q.fp.at \in [0..FpMax-1 -> Int] /\ q.fp \in FpTable
      /\ Skip(q).rest \in Seq(Words)
  <2>1. q.fp \in FpTable
    BY DEF Fine, Reading
  <2>2. Skip(q).rest = (IF q.rest = <<>> THEN q.rest ELSE Tail(q.rest))
    <3> DEFINE x == q.rest
    <3>1. q = [rest |-> x, syms |-> q.syms, next |-> q.next, fp |-> q.fp, args |-> q.args]
      BY FineHas
    <3> HIDE DEF x
    <3>2. [q EXCEPT !.rest = Tail(@)].rest = Tail(q.rest)
      BY <3>1
    <3> QED
      BY <3>2 DEF Skip
  <2>3. q.rest \in Seq(Words)
    BY FineHas
  <2>4. Skip(q).rest \in Seq(Words)
    BY <2>2, <2>3
  <2> QED
    BY <2>1, <2>4, FineHas
(* What the new state needs, field by field. *)
<1>4. ASSUME NEW syms \in Seq(Sym), NEW next \in Nat, NEW fp \in FpTable, NEW b \in Opd,
             Good(Skip(q).rest, syms, next, fp, b)
      PROVE  p \in Reading /\ p.args = Append(q.args, b) /\ a = b /\ p.rest = Skip(q).rest
  <2>1. Append(q.args, b) \in Seq(Opd) /\ Append(q.args, b)[Len(Append(q.args, b))] = b
    BY <1>3
  <2> DEFINE args == Append(q.args, b)
             X == Seq(Sym)
             Y == FpTable
             Z == Seq(Words)
             V == Seq(Opd)
             rest == Skip(q).rest
  <2>2. p = [rest |-> rest, syms |-> syms, next |-> next, fp |-> fp, args |-> args]
        /\ rest \in Z /\ syms \in X /\ fp \in Y /\ args \in V
    BY <1>3, <1>4, <2>1
  <2> HIDE DEF args, X, Y, Z, V, rest, p
  <2>3. p \in [rest : Z, syms : X, next : Nat, fp : Y, args : V]
    BY <2>2
  <2>4. p \in Reading
    BY <2>3 DEF Reading, X, Y, Z, V
  <2> QED
    BY <1>4, <2>1, <2>4
<1> HIDE DEF Good
<1>5. \A c : w.k = c => c \in {"name", "num", "arg", "int", "flt"}
  BY <1>0
<1>6. q = [rest |-> q.rest, syms |-> q.syms, next |-> q.next, fp |-> q.fp, args |-> q.args]
  BY FineHas

<1>7. CASE w.k = "arg"
  <2>1. w.n \in Nat
    BY <1>7 DEF Usable, Words
  <2> DEFINE b == Vreg(Param(w.n))
  <2>2. b \in Opd
    BY <1>0, <2>1 DEF Vreg, Param, Opd
  <2>3. p = to(q, b)
    BY <1>1, <1>7 DEF Operand
  <2>4. Good(Skip(q).rest, q.syms, q.next, q.fp, b)
    BY <1>2, <1>6, <2>3
  <2>5. p \in Reading /\ p.args = Append(q.args, b) /\ a = b /\ p.rest = Skip(q).rest
    BY <1>3, <1>4, <2>2, <2>4
  <2>6. p.syms = q.syms /\ p.next = q.next /\ p.fp = q.fp
    BY <2>4 DEF Good
  <2> HIDE DEF p, b, a
  <2>7. Fine(S, p) /\ Extends(q, p)
    BY <2>5, <2>6, SameTables
  <2>8. Holds(p, b, w)
    BY <1>7, <2>1 DEF Holds, Met, InTable, Denotes, IsVreg, NumberIn, b, Vreg
  <2> QED
    BY <2>2, <2>5, <2>7, <2>8 DEF p, a
<1>8. CASE w.k = "int"
  <2>1. AsInt(w.n) = w.n /\ w.n \in Int
    BY <1>8 DEF Usable, IsOperand, Fits, Words
  <2> DEFINE b == Imm(AsInt(w.n))
  <2>2. b = Imm(w.n) /\ b \in Opd
    BY <2>1 DEF Imm, Opd
  <2>3. p = to(q, b)
    BY <1>1, <1>8 DEF Operand
  <2>4. Good(Skip(q).rest, q.syms, q.next, q.fp, b)
    BY <1>2, <1>6, <2>3
  <2>5. p \in Reading /\ p.args = Append(q.args, b) /\ a = b /\ p.rest = Skip(q).rest
    BY <1>3, <1>4, <2>2, <2>4
  <2>6. p.syms = q.syms /\ p.next = q.next /\ p.fp = q.fp
    BY <2>4 DEF Good
  <2> HIDE DEF p, b, a
  <2>7. Fine(S, p) /\ Extends(q, p)
    BY <2>5, <2>6, SameTables
  <2>8. Holds(p, b, w)
    BY <1>8, <2>1, <2>2 DEF Holds, Met, InTable, Denotes, IsVreg, Imm
  <2> QED
    BY <2>2, <2>5, <2>7, <2>8 DEF p, a
<1>9. CASE w.k = "flt"
  <2>1. w.n \in Int
    BY <1>9 DEF Usable, Words
  <2> DEFINE g == FpAdded(q.fp, <<w.n>>)
             k == FpIndex(q.fp, 1)
             b == FpRef(k)
             x == [q EXCEPT !.fp = g]
  <2>2. /\ k = (IF q.fp.n <= FpMax-1 THEN q.fp.n ELSE FpMax-1) /\ k \in 0..FpMax-1
        /\ g \in FpTable /\ g.n = q.fp.n + 1
        /\ \A i \in 0..FpMax-1 : g.at[i] = IF i = k THEN w.n ELSE q.fp.at[i]
    <3> DEFINE fp == q.fp
               d == w.n
    <3>1. fp \in FpTable /\ d \in Int
      BY <1>3, <2>1
    <3>2. \A u \in FpTable, e \in Int :
            LET j == IF u.n <= FpMax-1 THEN u.n ELSE FpMax-1
            IN  /\ FpIndex(u, 1) = j /\ j \in 0..FpMax-1
                /\ FpAdded(u, <<e>>) \in FpTable /\ FpAdded(u, <<e>>).n = u.n + 1
                /\ \A i \in 0..FpMax-1 : FpAdded(u, <<e>>).at[i] = IF i = j THEN e ELSE u.at[i]
      BY FpAddedOne
    <3> HIDE DEF fp, d
    <3>3. /\ FpIndex(fp, 1) = (IF fp.n <= FpMax-1 THEN fp.n ELSE FpMax-1) /\ FpIndex(fp, 1) \in 0..FpMax-1
          /\ FpAdded(fp, <<d>>) \in FpTable /\ FpAdded(fp, <<d>>).n = fp.n + 1
          /\ \A i \in 0..FpMax-1 : FpAdded(fp, <<d>>).at[i] = IF i = FpIndex(fp, 1) THEN d ELSE fp.at[i]
      BY <3>1, <3>2
    <3> QED
      BY <3>3 DEF fp, d
  <2>3. b \in Opd
    BY <1>0, <2>2 DEF FpRef, Opd
  <2>4. Good(Skip(q).rest, q.syms, q.next, g, b)
    <3>1. x = [rest |-> q.rest, syms |-> q.syms, next |-> q.next, fp |-> g, args |-> q.args]
      <4> DEFINE c1 == q.rest
                 c2 == q.syms
                 c3 == q.next
                 c4 == q.fp
                 c5 == q.args
      <4>1. q = [rest |-> c1, syms |-> c2, next |-> c3, fp |-> c4, args |-> c5]
        BY <1>6
      <4> HIDE DEF c1, c2, c3, c4, c5, g
      <4>2. [q EXCEPT !.fp = g] = [rest |-> c1, syms |-> c2, next |-> c3, fp |-> g, args |-> c5]
        BY <4>1
      <4> QED
        BY <4>2 DEF c1, c2, c3, c4, c5
    <3>2. p = to(x, b)
      BY <1>1, <1>9 DEF Operand
    <3> HIDE DEF x, b, g
    <3> QED
      BY <1>2, <3>1, <3>2
  <2>5. p \in Reading /\ p.args = Append(q.args, b) /\ a = b /\ p.rest = Skip(q).rest
    BY <1>3, <1>4, <2>2, <2>3, <2>4
  <2>6. p.syms = q.syms /\ p.next = q.next /\ p.fp = g
    BY <2>4 DEF Good
  <2> HIDE DEF p, a, g, k
  <2>7. Fine(S, p)
    BY <2>5, <2>6 DEF Fine
  <2>8. Extends(q, p)
    <3>1. p.fp.n <= FpMax => \A i \in 0..q.fp.n-1 : p.fp.at[i] = q.fp.at[i]
      <4> DEFINE m == q.fp.n
      <4>1. m \in Nat /\ k = (IF m <= FpMax-1 THEN m ELSE FpMax-1) /\ g.n = m + 1
        BY <1>3, <2>2
      <4>2. \A i \in 0..FpMax-1 : i # k => g.at[i] = q.fp.at[i]
        BY <2>2
      <4> HIDE DEF m
      <4>3. g.n <= FpMax => \A i \in 0..m-1 : i \in 0..FpMax-1 /\ i # k
        BY <1>0, <4>1
      <4>4. g.n <= FpMax => \A i \in 0..m-1 : g.at[i] = q.fp.at[i]
        BY <4>2, <4>3, Zenon
      <4> QED
        BY <2>6, <4>4 DEF m
    <3>2. Len(q.syms) \in Nat
      BY FineHas
    <3> QED
      BY <1>3, <2>2, <2>6, <3>1, <3>2 DEF Extends
  <2>9. Holds(p, b, w)
    <3>1. InTable(p, b)
      <4>1. Min({p.fp.n, FpMax}) = IF p.fp.n <= FpMax THEN p.fp.n ELSE FpMax
        <5>1. p.fp.n \in Int /\ FpMax \in Int
          BY <1>0, <1>3, <2>2, <2>6
        <5> QED
          BY <5>1, MinOfTwo
      <4>2. k \in 0..Min({p.fp.n, FpMax})-1
        BY <1>0, <1>3, <2>2, <2>6, <4>1
      <4> QED
        BY <4>2 DEF InTable, FpRef
    <3>2. p.fp.n <= FpMax => FpGet(p.fp, k) = w.n
      BY <1>0, <1>3, <2>2, <2>6 DEF FpGet
    <3> QED
      BY <1>9, <3>1, <3>2 DEF Holds, Met, Denotes, IsVreg, FpRef
  <2> QED
    BY <2>3, <2>5, <2>7, <2>8, <2>9 DEF p, a
<1>10. CASE w.k = "num"
  <2>1. w.n \in Nat /\ S = {} /\ w.n < ParamBase
    BY <1>10 DEF Usable, Words
  <2> DEFINE next == Max({q.next, w.n + 1})
             b == Vreg(w.n)
             x == [q EXCEPT !.next = next]
  <2>2. next = (IF q.next >= w.n + 1 THEN q.next ELSE w.n + 1) /\ next \in Nat
    <3>1. q.next \in Int /\ w.n + 1 \in Int /\ q.next \in Nat /\ w.n + 1 \in Nat
      BY <1>3, <2>1
    <3>2. next = IF q.next >= w.n + 1 THEN q.next ELSE w.n + 1
      BY <3>1, MaxOfTwo
    <3> QED
      BY <3>1, <3>2
  <2>3. b \in Opd
    BY <2>1 DEF Vreg, Opd
  <2>4. Good(Skip(q).rest, q.syms, next, q.fp, b)
    <3>1. x = [rest |-> q.rest, syms |-> q.syms, next |-> next, fp |-> q.fp, args |-> q.args]
      <4> DEFINE c1 == q.rest
                 c2 == q.syms
                 c3 == q.next
                 c4 == q.fp
                 c5 == q.args
      <4>1. q = [rest |-> c1, syms |-> c2, next |-> c3, fp |-> c4, args |-> c5]
        BY <1>6
      <4> HIDE DEF c1, c2, c3, c4, c5, next
      <4>2. [q EXCEPT !.next = next] = [rest |-> c1, syms |-> c2, next |-> next, fp |-> c4, args |-> c5]
        BY <4>1
      <4> QED
        BY <4>2 DEF c1, c2, c3, c4, c5
    <3>2. p = to(x, b)
      BY <1>1, <1>10 DEF Operand
    <3> HIDE DEF x, b, next
    <3> QED
      BY <1>2, <3>1, <3>2
  <2>5. p \in Reading /\ p.args = Append(q.args, b) /\ a = b /\ p.rest = Skip(q).rest
    BY <1>3, <1>4, <2>2, <2>3, <2>4
  <2>6. p.syms = q.syms /\ p.next = next /\ p.fp = q.fp
    BY <2>4 DEF Good
  <2> HIDE DEF p, a, next
  <2>7. Fine(S, p)
    <3>1. \A i \in DOMAIN q.syms : q.syms[i].v < p.next
      <4>1. \A i \in DOMAIN q.syms : q.syms[i].v \in Nat /\ q.syms[i].v < q.next
        <5>1. q.syms \in Seq(Sym)
          BY <1>3
        <5>2. \A i \in DOMAIN q.syms : q.syms[i] \in Sym
          BY <5>1
        <5> QED
          BY <5>2 DEF Fine, Sym
      <4> QED
        BY <1>3, <2>2, <2>6, <4>1
    <3>2. p.next <= ParamBase
      BY <1>0, <2>1, <2>2, <2>6 DEF Fine
    <3> QED
      BY <2>1, <2>5, <2>6, <3>1, <3>2 DEF Fine
  <2>8. Extends(q, p)
    <3>1. Len(q.syms) \in Nat
      BY FineHas
    <3> QED
      BY <1>3, <2>2, <2>6, <3>1, <2>1 DEF Extends
  <2>9. Holds(p, b, w)
    BY <1>10 DEF Holds, Met, InTable, Denotes, IsVreg, NumberIn, Vreg
  <2> QED
    BY <2>3, <2>5, <2>7, <2>8, <2>9 DEF p, a
<1>11. CASE w.k = "name" /\ SymOf(q, w.s) # 0
  <2> DEFINE v == q.syms[SymOf(q, w.s)].v
             b == Vreg(v)
  <2>1. v \in Nat
    <3>1. SymOf(q, w.s) \in 1..Len(q.syms)
      BY <1>3, <1>11, SymOfIs
    <3>2. q.syms[SymOf(q, w.s)] \in Sym
      BY <1>3, <3>1
    <3> QED
      BY <3>2 DEF Sym
  <2>2. b \in Opd
    BY <2>1 DEF Vreg, Opd
  <2>3. p = to(q, b)
    <3>1. Intern(q, w.s) = <<v, q>>
      BY <1>11 DEF Intern
    <3>2. p = to(Intern(q, w.s)[2], Vreg(Intern(q, w.s)[1]))
      BY <1>1, <1>11 DEF Operand
    <3>3. <<v, q>>[1] = v /\ <<v, q>>[2] = q
      OBVIOUS
    <3> HIDE DEF p
    <3> QED
      BY <3>1, <3>2, <3>3
  <2>4. Good(Skip(q).rest, q.syms, q.next, q.fp, b)
    BY <1>2, <1>6, <2>3
  <2>5. p \in Reading /\ p.args = Append(q.args, b) /\ a = b /\ p.rest = Skip(q).rest
    BY <1>3, <1>4, <2>2, <2>4
  <2>6. p.syms = q.syms /\ p.next = q.next /\ p.fp = q.fp
    BY <2>4 DEF Good
  <2> HIDE DEF p, b, a
  <2>7. Fine(S, p) /\ Extends(q, p) /\ SymOf(p, w.s) = SymOf(q, w.s)
    BY <2>5, <2>6, SameTables
  <2>8. Holds(p, b, w)
    BY <1>11, <2>6, <2>7 DEF Holds, Met, InTable, Denotes, IsVreg, NumberIn, b, Vreg
  <2> QED
    BY <2>2, <2>5, <2>7, <2>8 DEF p, a
<1>12. CASE w.k = "name" /\ SymOf(q, w.s) = 0
  <2>1. w.s \in S /\ w.s \in STRING
    BY <1>12 DEF Usable, Words
  <2>2. Len(q.syms) < SymMax /\ q.next = Len(q.syms) /\ q.next < ParamBase /\ Len(q.syms) \in Nat /\ SymMax \in Nat
        /\ DOMAIN q.syms = 1..Len(q.syms)
    BY <1>12, <2>1, RoomLeft, FineHas, ParserAssumption
  <2> DEFINE e == [s |-> w.s, v |-> q.next]
             syms == Append(q.syms, e)
             next == q.next + 1
             b == Vreg(q.next)
             x == [q EXCEPT !.syms = syms, !.next = next]
  <2>3. b \in Opd /\ next \in Nat /\ e \in Sym /\ e.s = w.s /\ e.v = q.next
    BY <1>3, <2>1 DEF Vreg, Opd, Sym
  <2>4. /\ syms \in Seq(Sym) /\ Len(syms) = Len(q.syms) + 1 /\ DOMAIN syms = 1..Len(q.syms)+1
        /\ \A i \in 1..Len(q.syms) : syms[i] = q.syms[i]
        /\ syms[Len(q.syms)+1] = e
    BY <1>3, <2>2, <2>3
  <2>5. Good(Skip(q).rest, syms, next, q.fp, b)
    <3>1. x = [rest |-> q.rest, syms |-> syms, next |-> next, fp |-> q.fp, args |-> q.args]
      <4> DEFINE c1 == q.rest
                 c2 == q.syms
                 c3 == q.next
                 c4 == q.fp
                 c5 == q.args
      <4>1. q = [rest |-> c1, syms |-> c2, next |-> c3, fp |-> c4, args |-> c5]
        BY <1>6
      <4> HIDE DEF c1, c2, c3, c4, c5, next, syms
      <4>2. [q EXCEPT !.syms = syms] = [rest |-> c1, syms |-> syms, next |-> c3, fp |-> c4, args |-> c5]
        BY <4>1
      <4> DEFINE y == [q EXCEPT !.syms = syms]
      <4>4. [y EXCEPT !.next = next] = [rest |-> c1, syms |-> syms, next |-> next, fp |-> c4, args |-> c5]
        <5>1. y = [rest |-> c1, syms |-> syms, next |-> c3, fp |-> c4, args |-> c5]
          BY <4>2
        <5> HIDE DEF y
        <5> QED
          BY <5>1
      <4>5. [q EXCEPT !.syms = syms, !.next = next] = [y EXCEPT !.next = next]
        BY <4>1
      <4>3. [q EXCEPT !.syms = syms, !.next = next] = [rest |-> c1, syms |-> syms, next |-> next, fp |-> c4, args |-> c5]
        BY <4>4, <4>5
      <4> QED
        BY <4>3 DEF c1, c2, c3, c4, c5
    <3>2. Intern(q, w.s) = <<q.next, x>>
      BY <1>12, <2>2 DEF Intern
    <3>3. p = to(x, b)
      <4>2. p = to(Intern(q, w.s)[2], Vreg(Intern(q, w.s)[1]))
        BY <1>1, <1>12 DEF Operand
      <4>3. <<q.next, x>>[1] = q.next /\ <<q.next, x>>[2] = x
        OBVIOUS
      <4> HIDE DEF p, x
      <4> QED
        BY <3>2, <4>2, <4>3
    <3> HIDE DEF x, b, next, syms
    <3> QED
      BY <1>2, <3>1, <3>3
  <2>6. p \in Reading /\ p.args = Append(q.args, b) /\ a = b /\ p.rest = Skip(q).rest
    <3> HIDE DEF syms, next, b, p, a
    <3> QED
      BY <1>3, <1>4, <2>3, <2>4, <2>5
  <2>7. p.syms = syms /\ p.next = next /\ p.fp = q.fp
    BY <2>5 DEF Good
  <2> HIDE DEF p, a, syms, e
  <2>8. Fine(S, p)
    <3>1. \A i \in 1..Len(q.syms) : q.syms[i].s \in S /\ q.syms[i].v \in Nat /\ q.syms[i].v < q.next /\ q.syms[i].s # w.s
      <4>1. \A i \in 1..Len(q.syms) : q.syms[i] \in Sym
        BY <1>3
      <4>2. \A i \in 1..Len(q.syms) : q.syms[i].s # w.s
        BY <1>3, <1>12, <2>2, SymOfIs
      <4> QED
        BY <2>2, <4>1, <4>2 DEF Fine, Sym
    <3>2. \A i \in 1..Len(q.syms)+1 : i \in 1..Len(q.syms) \/ i = Len(q.syms)+1
      BY <2>2
    <3>3. \A i \in DOMAIN syms : syms[i].v < next /\ syms[i].s \in S
      <4>1. \A i \in 1..Len(q.syms) : q.syms[i].s \in S /\ q.syms[i].v < q.next + 1
        BY <1>3, <3>1
      <4>2. e.v < q.next + 1 /\ e.s \in S
        BY <1>3, <2>1, <2>3
      <4> QED
        BY <2>4, <3>2, <4>1, <4>2
    <3>4. \A i, k \in DOMAIN syms : i # k => syms[i].s # syms[k].s /\ syms[i].v # syms[k].v
      <4>1. \A i, k \in 1..Len(q.syms) : i # k => q.syms[i].s # q.syms[k].s /\ q.syms[i].v # q.syms[k].v
        BY <2>2 DEF Fine
      <4>2. \A i \in 1..Len(q.syms) : q.syms[i].s # e.s /\ q.syms[i].v # e.v
        BY <1>3, <2>3, <3>1
      <4> HIDE DEF next
      <4> QED
        BY <2>4, <3>2, <4>1, <4>2
    <3>5. next = Len(syms) /\ next <= ParamBase /\ Len(syms) <= SymMax
      BY <1>0, <2>2, <2>4
    <3> QED
      BY <2>6, <2>7, <3>3, <3>4, <3>5 DEF Fine
  <2>9. Extends(q, p)
    BY <1>3, <2>2, <2>4, <2>7 DEF Extends
  <2>10. SymOf(p, w.s) = Len(q.syms)+1
    <3>1. Len(q.syms)+1 \in 1..Len(p.syms) /\ p.syms[Len(q.syms)+1].s = w.s
      BY <2>2, <2>3, <2>4, <2>7
    <3> QED
      BY <2>8, <3>1, SymOfAt
  <2>11. Holds(p, b, w)
    <3>1. p.syms[SymOf(p, w.s)].v = q.next /\ SymOf(p, w.s) # 0
      BY <2>2, <2>3, <2>4, <2>7, <2>10
    <3> QED
      BY <1>12, <3>1 DEF Holds, Met, InTable, Denotes, IsVreg, NumberIn, Vreg
  <2> QED
    BY <2>3, <2>6, <2>8, <2>9, <2>11 DEF p, a
<1> QED
  BY <1>0, <1>7, <1>8, <1>9, <1>10, <1>11, <1>12

LEMMA TookOperand ==
  ASSUME NEW S, Roomy(S), NEW T \in Seq(Words), NEW q0, NEW q, NEW c, NEW ws, Took(S, T, q0, q, c, ws),
         c < Len(T), Usable(S, T[c+1])
  PROVE  /\ Took(S, T, q0, Operand(q), c+1, Append(ws, T[c+1]))
         /\ Operand(q).args = Append(q.args, Operand(q).args[Len(Operand(q).args)])
         /\ Extends(q, Operand(q))
<1> DEFINE w == T[c+1]
           p == Operand(q)
           a == p.args[Len(p.args)]
<1>1. Reads(S, T, c, q) /\ Fine(S, q) /\ Fine(S, q0) /\ Extends(q0, q) /\ c \in 0..Len(T) /\ Len(T) \in Nat
      /\ IsSeq(ws) /\ Len(q.args) = Len(ws) /\ \A i \in 1..Len(ws) : Holds(q, q.args[i], ws[i])
  BY DEF Took, Reads
<1>2. Peek(q) = w
  BY <1>1, PeekIs
<1>3. Skip(q).rest = Drop(T, c+1) /\ c+1 \in 0..Len(T)
  <2>1. Skip(q) = Rested(q, Drop(T, c+1)) /\ c+1 \in 0..Len(T)
    BY <1>1, SkipIs
  <2>2. Drop(T, c+1) \in Seq(Words)
    BY <2>1, DropIs
  <2> QED
    BY <1>1, <2>1, <2>2, RestedIs
<1>4. Usable(S, w)
  OBVIOUS
<1>5. /\ p.rest = Skip(q).rest /\ a \in Opd /\ p.args = Append(q.args, a)
      /\ Fine(S, p) /\ Extends(q, p) /\ Holds(p, a, w)
  <2> HIDE DEF w
  <2> QED
    BY <1>1, <1>2, <1>4, OperandFields
<1> HIDE DEF w, p, a
<1>6. Extends(q0, p)
  BY <1>1, <1>5, ExtendsTransitive
<1>7. q.args \in Seq(Opd) /\ Len(q.args) \in Nat /\ DOMAIN q.args = 1..Len(q.args)
  BY <1>1, FineHas
<1>8. /\ IsSeq(Append(ws, w)) /\ Len(Append(ws, w)) = Len(ws) + 1
      /\ \A i \in 1..Len(ws) : Append(ws, w)[i] = ws[i]
      /\ Append(ws, w)[Len(ws) + 1] = w
  BY <1>1, AppendIs
<1>9. /\ Len(p.args) = Len(q.args) + 1
      /\ \A i \in 1..Len(q.args) : p.args[i] = q.args[i]
      /\ p.args[Len(q.args) + 1] = a
  BY <1>5, <1>7
<1>10. ASSUME NEW i \in 1..Len(ws)+1 PROVE Holds(p, p.args[i], Append(ws, w)[i])
  <2>1. CASE i \in 1..Len(ws)
    <3>1. Holds(q, q.args[i], ws[i]) /\ q.args[i] \in Opd
      BY <1>1, <1>7, <2>1
    <3>2. Holds(p, q.args[i], ws[i])
      BY <1>1, <1>5, <3>1, HoldsStays
    <3> QED
      BY <1>1, <1>8, <1>9, <2>1, <3>2
  <2>2. CASE i = Len(ws)+1
    BY <1>1, <1>5, <1>8, <1>9, <2>2
  <2> QED
    BY <1>1, <1>7, <2>1, <2>2
<1>11. Reads(S, T, c+1, p)
  BY <1>3, <1>5 DEF Reads
<1>12. Took(S, T, q0, p, c+1, Append(ws, w))
  BY <1>1, <1>6, <1>8, <1>9, <1>10, <1>11 DEF Took
<1> QED
  BY <1>5, <1>12 DEF p, w, a

(* The same with a comma before it. *)
LEMMA TookSecond ==
  ASSUME NEW S, Roomy(S), NEW T \in Seq(Words), NEW q0, NEW q, NEW c, NEW ws, Took(S, T, q0, q, c, ws),
         c < Len(T), NEW e, e = (IF T[c+1] = Comma THEN c+1 ELSE c), e < Len(T), Usable(S, T[e+1])
  PROVE  Took(S, T, q0, Operand(q), e+1, Append(ws, T[e+1]))
<1>1. CASE T[c+1] # Comma
  BY <1>1, TookOperand
<1>2. CASE T[c+1] = Comma
  <2> DEFINE p == Skip(q)
  <2>0. c \in 0..Len(T) /\ Len(T) \in Nat
    BY DEF Took, Reads
  <2>1. Took(S, T, q0, p, c+1, ws)
    BY TookSkip
  <2>2. Took(S, T, q0, Operand(p), (c+1)+1, Append(ws, T[(c+1)+1]))
    <3> DEFINE d == c+1
    <3>1. e = d /\ Took(S, T, q0, p, d, ws) /\ d < Len(T) /\ Usable(S, T[d+1])
      BY <1>2, <2>1
    <3> HIDE DEF d, p
    <3>2. Took(S, T, q0, Operand(p), d+1, Append(ws, T[d+1]))
      BY <3>1, TookOperand
    <3> QED
      BY <3>2 DEF d
  <2>3. Operand(p) = Operand(q)
    <3>1. SkipIf(q, ",") = p
      <4>1. Peek(q) = Comma
        BY <1>2, PeekIs DEF Took
      <4> QED
        BY <4>1 DEF SkipIf, Comma
    <3>2. SkipIf(p, ",") = p
      <4>1. Reads(S, T, c+1, p) /\ c+1 < Len(T) /\ Usable(S, T[(c+1)+1])
        BY <1>2, <2>1 DEF Took
      <4>2. Peek(p) = T[(c+1)+1]
        <5> HIDE DEF p
        <5> QED
          BY <4>1, PeekIs
      <4>3. Comma.k = "word"
        BY DEF Comma, Word
      <4>4. Peek(p) # Comma
        <5> HIDE DEF p
        <5> QED
          BY <4>1, <4>2, <4>3 DEF Usable, IsOperand
      <4> QED
        BY <4>4 DEF SkipIf, Comma
    <3> HIDE DEF p
    <3> QED
      BY <3>1, <3>2 DEF Operand
  <2> QED
    BY <1>2, <2>2, <2>3
<1> QED
  BY <1>1, <1>2

(* args is emptied between the destination and the operands. *)
Cleared(q) == [q EXCEPT !.args = <<>>]

LEMMA ClearedIs ==
  ASSUME NEW S, NEW q, Fine(S, q)
  PROVE  LET p == Cleared(q)
         IN  /\ p.rest = q.rest /\ p.args = <<>> /\ Fine(S, p) /\ Extends(q, p)
             /\ \A w : NumberIn(p, w) = NumberIn(q, w) /\ Met(p, w) = Met(q, w)
<1> DEFINE p == Cleared(q)
           R(X, Y, Z, V) == [rest : X, syms : Y, next : Nat, fp : Z, args : V]
<1>1. p \in Reading /\ p.rest = q.rest /\ p.syms = q.syms /\ p.next = q.next /\ p.fp = q.fp /\ p.args = <<>>
  <2>1. ASSUME NEW X, NEW Y, NEW Z, NEW V, q \in R(X, Y, Z, V), <<>> \in V
        PROVE  p \in R(X, Y, Z, V) /\ p.rest = q.rest /\ p.syms = q.syms /\ p.next = q.next /\ p.fp = q.fp /\ p.args = <<>>
    BY <2>1 DEF Cleared
  <2>2. q \in R(Seq(Words), Seq(Sym), FpTable, Seq(Opd))
    BY DEF Fine, Reading
  <2>3. p \in R(Seq(Words), Seq(Sym), FpTable, Seq(Opd))
        /\ p.rest = q.rest /\ p.syms = q.syms /\ p.next = q.next /\ p.fp = q.fp /\ p.args = <<>>
    <3>1. <<>> \in Seq(Opd)
      OBVIOUS
    <3> HIDE DEF R, p
    <3> QED
      BY <2>1, <2>2, <3>1
  <2> QED
    BY <2>3 DEF Reading
<1> HIDE DEF p
<1>2. Fine(S, p) /\ Extends(q, p) /\ \A w : NumberIn(p, w) = NumberIn(q, w) /\ Met(p, w) = Met(q, w)
  BY <1>1, SameTables
<1> QED
  BY <1>1, <1>2 DEF p

LEMMA TookCleared ==
  ASSUME NEW S, NEW T, NEW q0, NEW q, NEW c, NEW ws, Took(S, T, q0, q, c, ws)
  PROVE  Took(S, T, q0, Cleared(q), c, <<>>)
<1> DEFINE p == Cleared(q)
<1>1. Fine(S, q) /\ Fine(S, q0) /\ Extends(q0, q)
  BY DEF Took, Reads
<1>2. p.rest = q.rest /\ p.args = <<>> /\ Fine(S, p) /\ Extends(q, p)
  BY <1>1, ClearedIs
<1> HIDE DEF p
<1>3. Extends(q0, p)
  BY <1>1, <1>2, ExtendsTransitive
<1>4. IsSeq(<<>>) /\ Len(<<>>) = 0
  BY SeqIs, <<>> \in Seq({})
<1> QED
  BY <1>1, <1>2, <1>3, <1>4 DEF Took, Reads, p

-----------------------------------------------------------------------------
(* Lists with commas, up to a word that ends them.                         *)
LEMMA SameSubSeq ==
  ASSUME NEW S, NEW T \in Seq(S), NEW U \in Seq(S), NEW a \in Nat \ {0}, NEW b \in Nat, a <= b+1,
         b <= Len(T), b <= Len(U), \A i \in a..b : T[i] = U[i]
  PROVE  SubSeq(T, a, b) = SubSeq(U, a, b)
<1> DEFINE x == SubSeq(T, a, b)
           y == SubSeq(U, a, b)
<1>1. /\ x \in Seq(S) /\ Len(x) = b+1-a /\ \A i \in 1..b+1-a : x[i] = T[a+i-1]
      /\ y \in Seq(S) /\ Len(y) = b+1-a /\ \A i \in 1..b+1-a : y[i] = U[a+i-1]
  BY SubSeqIs
<1>2. \A i \in 1..b+1-a : a+i-1 \in a..b
  OBVIOUS
<1> HIDE DEF x, y
<1>3. IsSeq(x)
  BY <1>1, SeqIs
<1>4. IsSeq(y)
  BY <1>1, SeqIs
<1>5. \A i \in 1..Len(x) : x[i] = y[i]
  BY <1>1, <1>2
<1>6. Len(x) = Len(y)
  BY <1>1
<1>7. x = y
  BY <1>3, <1>4, <1>5, <1>6, SameSeq
<1> QED
  BY <1>7 DEF x, y

(* After the first c words of T, s first stands at the k-th. *)
FirstAt(T, c, s, k) == k \in 1..Len(T)-c /\ T[c+k] = Word(s) /\ \A i \in 1..k-1 : T[c+i] # Word(s)

LEMMA FindIs ==
  ASSUME NEW S, NEW T \in Seq(Words), NEW c \in Nat, NEW q, Reads(S, T, c, q), NEW s, NEW k \in Nat, FirstAt(T, c, s, k)
  PROVE  /\ Find(q, s) = k /\ Before(q, s) \in Seq(Words) /\ Len(Before(q, s)) = k-1
         /\ \A i \in 1..k-1 : Before(q, s)[i] = T[c+i]
<1>0. k \in 1..Len(T)-c /\ T[c+k] = Word(s) /\ \A i \in 1..k-1 : T[c+i] # Word(s)
  BY DEF FirstAt
<1>1. Len(T) \in Nat /\ c \in 0..Len(T) /\ q.rest = Drop(T, c)
  BY DEF Reads
<1> DEFINE a == Drop(T, c)
           I == {i \in 1..Len(a) : a[i] = Word(s)}
<1>2. a \in Seq(Words) /\ Len(a) = Len(T) - c /\ \A i \in 1..Len(T)-c : a[i] = T[c+i]
  BY <1>1, DropIs
<1> HIDE DEF a
<1>3. SelectInSeq(a, LAMBDA w : w = Word(s)) = IF I # {} THEN Min(I) ELSE 0
  BY DEF SelectInSeq
<1>4. k \in I /\ \A i \in I : k <= i
  BY <1>0, <1>1, <1>2
<1>5. Min(I) = k
  <2>1. I \in SUBSET Nat /\ I # {}
    BY <1>1, <1>2, <1>4
  <2>2. Min(I) \in I /\ \A y \in I : Min(I) <= y
    BY <2>1, MinIs
  <2> HIDE DEF I
  <2>3. Min(I) \in Nat /\ k \in Nat /\ Min(I) <= k /\ k <= Min(I)
    BY <1>0, <1>4, <2>1, <2>2
  <2> QED
    BY <2>3
<1>6. Find(q, s) = k
  <2>1. k # 0 /\ q.rest = a
    BY <1>0, <1>1 DEF a
  <2> HIDE DEF I
  <2> QED
    BY <1>3, <1>4, <1>5, <2>1 DEF Find
<1>7. /\ SubSeq(a, 1, k-1) \in Seq(Words) /\ Len(SubSeq(a, 1, k-1)) = k-1
      /\ \A i \in 1..k-1 : SubSeq(a, 1, k-1)[i] = T[c+i]
  <2> DEFINE x == SubSeq(a, 1, k-1)
  <2>1. 1 \in Nat \ {0} /\ k-1 \in Nat /\ k-1 <= Len(a) /\ 1 <= k-1+1 /\ k-1+1-1 = k-1
    BY <1>0, <1>1, <1>2
  <2>2. x \in Seq(Words) /\ Len(x) = k-1 /\ \A i \in 1..k-1 : x[i] = a[1+i-1]
    <3>1. x \in Seq(Words) /\ Len(x) = k-1+1-1 /\ \A i \in 1..k-1+1-1 : x[i] = a[1+i-1]
      BY <1>2, <2>1, SubSeqIs
    <3> QED
      BY <2>1, <3>1
  <2>3. \A i \in 1..k-1 : 1+i-1 = i /\ i \in 1..Len(T)-c
    BY <1>0, <1>1
  <2> HIDE DEF x
  <2>4. \A i \in 1..k-1 : x[i] = T[c+i]
    BY <1>2, <2>2, <2>3
  <2> QED
    BY <2>2, <2>4 DEF x
<1>8. Before(q, s) = SubSeq(a, 1, k-1)
  BY <1>1, <1>6 DEF Before, a
<1> QED
  BY <1>6, <1>7, <1>8

LEMMA ItemsAppend ==
  ASSUME NEW list \in Seq(Words), NEW w \in Words
  PROVE  /\ Items(list) \in Seq(Words)
         /\ Items(Append(list, w)) = IF w = Comma THEN Items(list) ELSE Append(Items(list), w)
<1> DEFINE one(v) == IF v = Comma THEN <<>> ELSE <<v>>
           n == Len(list)
           u == Append(list, w)
           g == [i \in 1..n |-> one(list[i])]
           V == Seq(Words)
<1>1. /\ n \in Nat /\ DOMAIN list = 1..n /\ \A i \in 1..n : list[i] \in Words
      /\ u \in Seq(Words) /\ Len(u) = n+1 /\ DOMAIN u = 1..n+1 /\ u[n+1] = w /\ \A i \in 1..n : u[i] = list[i]
  OBVIOUS
<1>2. \A v \in Words : one(v) \in V
  OBVIOUS
<1> HIDE DEF one
<1>3. g \in Seq(V) /\ Len(g) = n
  <2>1. g \in [1..n -> V]
    <3> HIDE DEF V, n
    <3> QED
      BY <1>1, <1>2
  <2> HIDE DEF V
  <2> QED
    BY <1>1, <2>1
<1>4. Append(g, one(w)) = [i \in DOMAIN u |-> one(u[i])]
  <2> DEFINE h == [i \in 1..n+1 |-> one(u[i])]
             e == one(w)
  <2>1. IsSeq(h) /\ Len(h) = n+1
    <3>1. h = [i \in 1..n+1 |-> h[i]] /\ n+1 \in Nat
      BY <1>1
    <3> HIDE DEF h
    <3> QED
      BY <3>1, FunctionIsSeq
  <2>2. IsSeq(g)
    <3> HIDE DEF g, V
    <3> QED
      BY <1>3, SeqIs
  <2>3. /\ IsSeq(Append(g, e)) /\ Len(Append(g, e)) = n+1
        /\ \A i \in 1..n : Append(g, e)[i] = g[i]
        /\ Append(g, e)[n+1] = e
    <3>1. Len(g) = n
      BY <1>3
    <3> HIDE DEF g, e, n
    <3> QED
      BY <2>2, <3>1, AppendIs
  <2>4. \A i \in 1..n : g[i] = h[i]
    BY <1>1
  <2>5. h[n+1] = e
    BY <1>1
  <2> HIDE DEF g, h, e
  <2>6. \A i \in 1..n+1 : i \in 1..n \/ i = n+1
    BY <1>1
  <2>7. \A i \in 1..Len(h) : Append(g, e)[i] = h[i]
    BY <2>1, <2>3, <2>4, <2>5, <2>6
  <2>8. Append(g, e) = h
    BY <2>1, <2>3, <2>7, SameSeq
  <2> QED
    BY <1>1, <2>8 DEF e, h
<1>5. Items(list) = FlattenSeq(g) /\ Items(u) = FlattenSeq(Append(g, one(w)))
  <2>1. Items(list) = FlattenSeq(g)
    BY <1>1 DEF Items, one, Comma
  <2>2. Items(u) = FlattenSeq([i \in DOMAIN u |-> one(u[i])])
    BY DEF Items, one, Comma
  <2> HIDE DEF g, u
  <2> QED
    BY <1>4, <2>1, <2>2
<1>6. FlattenSeq(g) \in Seq(Words) /\ FlattenSeq(Append(g, one(w))) = FlattenSeq(g) \o one(w)
  <2>1. g \in Seq(Seq(Words)) /\ one(w) \in Seq(Words)
    BY <1>2, <1>3
  <2> HIDE DEF g
  <2> QED
    BY <2>1, FlattenAppend
<1>7. FlattenSeq(g) \o one(w) = IF w = Comma THEN FlattenSeq(g) ELSE Append(FlattenSeq(g), w)
  <2> DEFINE f == FlattenSeq(g)
  <2>1. f \in Seq(Words)
    BY <1>6
  <2> HIDE DEF f
  <2>2. f \o <<>> = f
    BY <2>1
  <2>3. f \o <<w>> = Append(f, w)
    <3>1. IsSeq(f)
      BY <2>1, SeqIs
    <3> QED
      BY <3>1, AppendIs
  <2>4. f \o one(w) = IF w = Comma THEN f ELSE Append(f, w)
    BY <2>2, <2>3 DEF one
  <2> QED
    BY <2>4 DEF f
<1> HIDE DEF g
<1> QED
  BY <1>5, <1>6, <1>7

LEMMA ItemsEmpty == Items(<<>>) = <<>>
<1>1. [i \in DOMAIN <<>> |-> IF <<>>[i] = Word(",") THEN <<>> ELSE <<<<>>[i]>>] = <<>>
  OBVIOUS
<1> QED
  BY <1>1, FlattenEmpty DEF Items

(* How many items the first i words of a list hold, and which. *)
LEMMA ItemsAre ==
  ASSUME NEW list \in Seq(Words)
  PROVE  /\ Items(list) \in Seq(Words)
         /\ \A w \in ToSet(Items(list)) : w # Comma /\ w \in ToSet(list)
         /\ \A w \in ToSet(list) : w # Comma => w \in ToSet(Items(list))
         /\ \A i \in 1..Len(list) :
              /\ Items(SubSeq(list, 1, i)) \in Seq(Words)
              /\ Items(SubSeq(list, 1, i)) = IF list[i] = Comma THEN Items(SubSeq(list, 1, i-1))
                                             ELSE Append(Items(SubSeq(list, 1, i-1)), list[i])
         /\ SubSeq(list, 1, Len(list)) = list /\ Items(SubSeq(list, 1, 0)) = <<>>
<1> DEFINE n == Len(list)
           fore(i) == SubSeq(list, 1, i)
           items(i) == Items(fore(i))
           Good == {i \in 0..n : /\ \A w \in ToSet(items(i)) : w # Comma /\ \E k \in 1..i : w = list[k]
                                 /\ \A k \in 1..i : list[k] # Comma => list[k] \in ToSet(items(i))}
<1>1. n \in Nat /\ \A i \in 1..n : list[i] \in Words
  OBVIOUS
<1>2. \A i \in 0..n : fore(i) \in Seq(Words) /\ Len(fore(i)) = i /\ \A k \in 1..i : fore(i)[k] = list[k]
  <2>1. ASSUME NEW i \in 0..n PROVE fore(i) \in Seq(Words) /\ Len(fore(i)) = i /\ \A k \in 1..i : fore(i)[k] = list[k]
    <3>1. 1 \in Nat \ {0} /\ i \in Nat /\ i <= Len(list) /\ 1 <= i+1 /\ i+1-1 = i /\ \A k \in 1..i : 1+k-1 = k
      BY <1>1
    <3>2. fore(i) \in Seq(Words) /\ Len(fore(i)) = i+1-1 /\ \A k \in 1..i+1-1 : fore(i)[k] = list[1+k-1]
      BY <3>1, SubSeqIs
    <3> HIDE DEF fore
    <3> QED
      BY <3>1, <3>2
  <2> QED
    BY <2>1
<1>3. ASSUME NEW i \in 0..n-1 PROVE fore(i+1) = Append(fore(i), list[i+1])
  <2> DEFINE x == fore(i)
             y == fore(i+1)
             w == list[i+1]
  <2>1. i \in 0..n /\ i+1 \in 0..n /\ i+1 \in 1..n
    BY <1>1
  <2>2. x \in Seq(Words) /\ Len(x) = i /\ \A k \in 1..i : x[k] = list[k]
    BY <1>2, <2>1
  <2>3. y \in Seq(Words) /\ Len(y) = i+1 /\ \A k \in 1..i+1 : y[k] = list[k]
    BY <1>2, <2>1
  <2> HIDE DEF x, y, w
  <2>4. IsSeq(x)
    BY <2>2, SeqIs
  <2>5. IsSeq(y)
    BY <2>3, SeqIs
  <2>6. IsSeq(Append(x, w)) /\ Len(Append(x, w)) = Len(x)+1 /\ Append(x, w)[Len(x)+1] = w
        /\ \A k \in 1..Len(x) : Append(x, w)[k] = x[k]
    BY <2>4, AppendIs
  <2>7. \A k \in 1..Len(y) : k \in 1..i \/ k = i+1
    BY <2>1, <2>3
  <2>8. \A k \in 1..Len(y) : y[k] = Append(x, w)[k]
    BY <2>2, <2>3, <2>6, <2>7 DEF w
  <2>9. y = Append(x, w)
    BY <2>2, <2>3, <2>5, <2>6, <2>8, SameSeq
  <2> QED
    BY <2>9 DEF x, y, w
<1> HIDE DEF fore
<1>4. ASSUME NEW i \in 0..n-1
      PROVE  items(i) \in Seq(Words) /\ items(i+1) = IF list[i+1] = Comma THEN items(i) ELSE Append(items(i), list[i+1])
  <2>1. i \in 0..n /\ i+1 \in 1..n
    BY <1>1
  <2>2. fore(i) \in Seq(Words) /\ list[i+1] \in Words
    BY <1>1, <1>2, <2>1
  <2> QED
    BY <1>3, <2>2, ItemsAppend
<1>5. fore(n) = list
  <2>1. fore(n) \in Seq(Words) /\ Len(fore(n)) = n /\ \A k \in 1..n : fore(n)[k] = list[k]
    BY <1>1, <1>2
  <2>2. IsSeq(list)
    BY SeqIs
  <2>3. IsSeq(fore(n))
    BY <2>1, SeqIs
  <2> DEFINE x == fore(n)
  <2>4. IsSeq(x) /\ Len(x) = Len(list) /\ \A k \in 1..Len(x) : x[k] = list[k]
    BY <2>1, <2>3
  <2> HIDE DEF x
  <2>5. x = list
    BY <2>2, <2>4, SameSeq
  <2> QED
    BY <2>5 DEF x
<1>6. items(0) = <<>>
  <2>1. fore(0) \in Seq(Words) /\ Len(fore(0)) = 0
    BY <1>1, <1>2
  <2>2. fore(0) = <<>>
    BY <2>1
  <2> QED
    BY <2>2, ItemsEmpty
<1>7. \A i \in 0..n : items(i) \in Seq(Words)
  <2>1. n = 0 => items(n) \in Seq(Words)
    <3>1. <<>> \in Seq(Words)
      OBVIOUS
    <3> HIDE DEF items
    <3> QED
      BY <1>6, <3>1
  <2>2. ASSUME n # 0 PROVE items(n) \in Seq(Words)
    <3>1. n-1 \in 0..n-1 /\ (n-1)+1 = n /\ n \in 1..n
      BY <1>1, <2>2
    <3>2. items(n-1) \in Seq(Words) /\ items(n) = (IF list[n] = Comma THEN items(n-1) ELSE Append(items(n-1), list[n])) /\ list[n] \in Words
      BY <1>1, <1>4, <3>1
    <3> HIDE DEF items
    <3> QED
      BY <3>2
  <2>3. \A i \in 0..n : i \in 0..n-1 \/ i = n
    BY <1>1
  <2> QED
    BY <1>4, <2>1, <2>2, <2>3
<1>8. ASSUME NEW i \in 0..n-1, i \in Good PROVE i+1 \in Good
  <2> DEFINE w == list[i+1]
             x == items(i)
             y == items(i+1)
  <2>1. i \in 0..n /\ i+1 \in 0..n /\ i+1 \in 1..n /\ w \in Words /\ \A k \in 1..i+1 : k \in 1..i \/ k = i+1
    BY <1>1
  <2>2. x \in Seq(Words) /\ y = IF w = Comma THEN x ELSE Append(x, w)
    BY <1>4
  <2>3. ToSet(y) = IF w = Comma THEN ToSet(x) ELSE ToSet(x) \cup {w}
    <3> HIDE DEF x, y, w
    <3>1. w # Comma => ToSet(y) = ToSet(x) \cup {w}
      <4>1. w # Comma => DOMAIN y = 1..Len(x)+1 /\ DOMAIN x = 1..Len(x) /\ Len(x) \in Nat /\ y[Len(x)+1] = w /\ \A k \in 1..Len(x) : y[k] = x[k]
        BY <2>1, <2>2
      <4>2. Len(x) \in Nat
        BY <2>2
      <4>3. \A k \in 1..Len(x)+1 : k \in 1..Len(x) \/ k = Len(x)+1
        BY <4>2
      <4>4. 1..Len(x) \subseteq 1..Len(x)+1 /\ Len(x)+1 \in 1..Len(x)+1
        BY <4>2
      <4> QED
        BY <4>1, <4>3, <4>4 DEF ToSet
    <3> QED
      BY <2>2, <3>1
  <2>4. /\ \A v \in ToSet(x) : v # Comma /\ \E k \in 1..i : v = list[k]
        /\ \A k \in 1..i : list[k] # Comma => list[k] \in ToSet(x)
    BY <1>8
  <2>5. \A k \in 1..i : k \in 1..i+1
    BY <1>1
  <2> HIDE DEF x, y
  <2>6. \A v \in ToSet(y) : v # Comma /\ \E k \in 1..i+1 : v = list[k]
    BY <2>1, <2>3, <2>4, <2>5
  <2>7. \A k \in 1..i+1 : list[k] # Comma => list[k] \in ToSet(y)
    BY <2>1, <2>3, <2>4
  <2> QED
    BY <2>1, <2>6, <2>7 DEF y
<1>9. 0 \in Good
  BY <1>1, <1>6 DEF ToSet
<1>10. n \in Good
  <2>1. 0..n \subseteq Good
    <3> HIDE DEF Good
    <3> QED
      BY <1>1, <1>8, <1>9, Induction
  <2>2. n \in 0..n
    BY <1>1
  <2> HIDE DEF Good
  <2> QED
    BY <2>1, <2>2
<1>11. ToSet(list) = {list[k] : k \in 1..n}
  BY DEF ToSet
<1>12. /\ \A w \in ToSet(Items(list)) : w # Comma /\ w \in ToSet(list)
       /\ \A w \in ToSet(list) : w # Comma => w \in ToSet(Items(list))
  BY <1>5, <1>10, <1>11
<1>13. \A i \in 1..n : /\ items(i) \in Seq(Words)
                       /\ items(i) = IF list[i] = Comma THEN items(i-1) ELSE Append(items(i-1), list[i])
  <2>1. ASSUME NEW i \in 1..n PROVE items(i) \in Seq(Words) /\ items(i) = IF list[i] = Comma THEN items(i-1) ELSE Append(items(i-1), list[i])
    <3>1. i-1 \in 0..n-1 /\ (i-1)+1 = i /\ i \in 0..n
      BY <1>1
    <3>2. items((i-1)+1) = IF list[(i-1)+1] = Comma THEN items(i-1) ELSE Append(items(i-1), list[(i-1)+1])
      BY <1>4, <3>1
    <3> HIDE DEF items
    <3> QED
      BY <1>7, <3>1, <3>2
  <2> HIDE DEF items
  <2> QED
    BY <2>1
<1>14. Items(list) \in Seq(Words)
  <2>1. n \in 0..n
    BY <1>1
  <2> QED
    BY <1>5, <1>7, <2>1
<1>15. \A i \in 1..n : /\ Items(fore(i)) \in Seq(Words)
                       /\ Items(fore(i)) = IF list[i] = Comma THEN Items(fore(i-1)) ELSE Append(Items(fore(i-1)), list[i])
  BY <1>13
<1> QED
  BY <1>5, <1>6, <1>12, <1>14, <1>15, Zenon DEF fore

LEMMA ForeIs ==
  ASSUME NEW S, NEW list \in Seq(S)
  PROVE  /\ SubSeq(list, 1, 0) = <<>> /\ SubSeq(list, 1, Len(list)) = list
         /\ \A i \in 0..Len(list)-1 : SubSeq(list, 1, i+1) = Append(SubSeq(list, 1, i), list[i+1])
<1> DEFINE n == Len(list)
           fore(i) == SubSeq(list, 1, i)
<1>1. n \in Nat /\ \A i \in 1..n : list[i] \in S
  OBVIOUS
<1>2. \A i \in 0..n : fore(i) \in Seq(S) /\ Len(fore(i)) = i /\ \A k \in 1..i : fore(i)[k] = list[k]
  <2>1. ASSUME NEW i \in 0..n PROVE fore(i) \in Seq(S) /\ Len(fore(i)) = i /\ \A k \in 1..i : fore(i)[k] = list[k]
    <3>1. 1 \in Nat \ {0} /\ i \in Nat /\ i <= Len(list) /\ 1 <= i+1 /\ i+1-1 = i /\ \A k \in 1..i : 1+k-1 = k
      BY <1>1
    <3>2. fore(i) \in Seq(S) /\ Len(fore(i)) = i+1-1 /\ \A k \in 1..i+1-1 : fore(i)[k] = list[1+k-1]
      BY <3>1, SubSeqIs
    <3> HIDE DEF fore
    <3> QED
      BY <3>1, <3>2
  <2> QED
    BY <2>1
<1>3. ASSUME NEW i \in 0..n-1 PROVE fore(i+1) = Append(fore(i), list[i+1])
  <2> DEFINE x == fore(i)
             y == fore(i+1)
             w == list[i+1]
  <2>1. i \in 0..n /\ i+1 \in 0..n /\ i+1 \in 1..n
    BY <1>1
  <2>2. x \in Seq(S) /\ Len(x) = i /\ \A k \in 1..i : x[k] = list[k]
    BY <1>2, <2>1
  <2>3. y \in Seq(S) /\ Len(y) = i+1 /\ \A k \in 1..i+1 : y[k] = list[k]
    BY <1>2, <2>1
  <2> HIDE DEF x, y, w
  <2>4. IsSeq(x)
    BY <2>2, SeqIs
  <2>5. IsSeq(y)
    BY <2>3, SeqIs
  <2>6. IsSeq(Append(x, w)) /\ Len(Append(x, w)) = Len(x)+1 /\ Append(x, w)[Len(x)+1] = w
        /\ \A k \in 1..Len(x) : Append(x, w)[k] = x[k]
    BY <2>4, AppendIs
  <2>7. \A k \in 1..Len(y) : k \in 1..i \/ k = i+1
    BY <2>1, <2>3
  <2>8. \A k \in 1..Len(y) : y[k] = Append(x, w)[k]
    BY <2>2, <2>3, <2>6, <2>7 DEF w
  <2>9. y = Append(x, w)
    BY <2>2, <2>3, <2>5, <2>6, <2>8, SameSeq
  <2> QED
    BY <2>9 DEF x, y, w
<1> HIDE DEF fore
<1>5. fore(n) = list
  <2>1. fore(n) \in Seq(S) /\ Len(fore(n)) = n /\ \A k \in 1..n : fore(n)[k] = list[k]
    BY <1>1, <1>2
  <2>2. IsSeq(list)
    BY SeqIs
  <2>3. IsSeq(fore(n))
    BY <2>1, SeqIs
  <2> DEFINE x == fore(n)
  <2>4. IsSeq(x) /\ Len(x) = Len(list) /\ \A k \in 1..Len(x) : x[k] = list[k]
    BY <2>1, <2>3
  <2> HIDE DEF x
  <2>5. x = list
    BY <2>2, <2>4, SameSeq
  <2> QED
    BY <2>5 DEF x
<1>6. fore(0) = <<>>
  <2>1. fore(0) \in Seq(S) /\ Len(fore(0)) = 0
    BY <1>1, <1>2
  <2> QED
    BY <2>1
<1> QED
  BY <1>3, <1>5, <1>6 DEF fore

(* The last item ends the list. *)
LEMMA LastItem ==
  ASSUME NEW list \in Seq(Words), Len(list) > 0, list[Len(list)] # Comma, NEW i \in 0..Len(list)-1
  PROVE  Len(Items(SubSeq(list, 1, i))) < Len(Items(list))
<1> DEFINE n == Len(list)
           cnt(k) == Len(Items(SubSeq(list, 1, k)))
           Good == {d \in 0..n-1 : cnt(n-1-d) <= cnt(n-1)}
<1>0. n \in Nat /\ n-1 \in Nat
  OBVIOUS
<1>1. \A k \in 1..n : cnt(k) = (IF list[k] = Comma THEN cnt(k-1) ELSE cnt(k-1)+1)
  <2>1. ASSUME NEW k \in 1..n PROVE cnt(k) = (IF list[k] = Comma THEN cnt(k-1) ELSE cnt(k-1)+1)
    <3> DEFINE x == Items(SubSeq(list, 1, k-1))
               y == Items(SubSeq(list, 1, k))
               w == list[k]
    <3>1. y = IF w = Comma THEN x ELSE Append(x, w)
      BY ItemsAre
    <3>2. x \in Seq(Words)
      <4>1. CASE k = 1
        <5>1. k-1 = 0
          BY <4>1
        <5>2. x = <<>>
          BY <5>1, ItemsAre
        <5>3. <<>> \in Seq(Words)
          OBVIOUS
        <5> HIDE DEF x
        <5> QED
          BY <5>2, <5>3
      <4>2. CASE k # 1
        <5>1. k-1 \in 1..Len(list)
          BY <4>2
        <5> QED
          BY <5>1, ItemsAre
      <4> QED
        BY <4>1, <4>2
    <3>3. w \in Words
      OBVIOUS
    <3> HIDE DEF x, y, w
    <3>4. Len(y) = IF w = Comma THEN Len(x) ELSE Len(x)+1
      BY <3>1, <3>2, <3>3
    <3> QED
      BY <3>4 DEF x, y, w
  <2> HIDE DEF cnt
  <2> QED
    BY <2>1
<1>2. cnt(n) = Len(Items(list))
  BY ItemsAre
<1>3. \A k \in 0..n : cnt(k) \in Nat
  <2>1. cnt(0) = 0
    <3>1. Items(SubSeq(list, 1, 0)) = <<>>
      BY ItemsAre
    <3> QED
      BY <3>1
  <2>2. ASSUME NEW k \in 1..n PROVE cnt(k) \in Nat
    <3> DEFINE x == Items(SubSeq(list, 1, k))
    <3>1. x \in Seq(Words)
      BY ItemsAre
    <3> HIDE DEF x
    <3>2. Len(x) \in Nat
      BY <3>1
    <3> QED
      BY <3>2 DEF x
  <2> HIDE DEF cnt
  <2> QED
    BY <1>0, <2>1, <2>2
<1> HIDE DEF cnt
<1>4. 0 \in Good
  BY <1>0, <1>3
<1>5. ASSUME NEW d \in 0..(n-1)-1, d \in Good PROVE d+1 \in Good
  <2>1. n-1-d \in 1..n /\ (n-1-d)-1 = n-1-(d+1) /\ n-1-(d+1) \in 0..n /\ n-1 \in 0..n /\ n-1-d \in 0..n /\ d+1 \in 0..n-1
    BY <1>0
  <2>2. cnt(n-1-d) = cnt(n-1-(d+1)) \/ cnt(n-1-d) = cnt(n-1-(d+1)) + 1
    BY <1>1, <2>1
  <2>3. cnt(n-1-d) <= cnt(n-1)
    BY <1>5
  <2>4. cnt(n-1-d) \in Nat /\ cnt(n-1-(d+1)) \in Nat /\ cnt(n-1) \in Nat
    BY <1>3, <2>1
  <2>5. cnt(n-1-(d+1)) <= cnt(n-1)
    BY <2>2, <2>3, <2>4
  <2> QED
    BY <2>1, <2>5
<1>6. 0..n-1 \subseteq Good
  <2> HIDE DEF Good
  <2> QED
    BY <1>0, <1>4, <1>5, Induction
<1>7. cnt(i) <= cnt(n-1)
  <2>1. n-1-i \in 0..n-1 /\ n-1-(n-1-i) = i
    BY <1>0
  <2>2. n-1-i \in Good
    <3> HIDE DEF Good
    <3> QED
      BY <1>6, <2>1
  <2>3. cnt(n-1-(n-1-i)) <= cnt(n-1)
    BY <2>2
  <2> QED
    BY <2>1, <2>3
<1>8. cnt(n) = cnt(n-1) + 1
  BY <1>0, <1>1
<1>9. cnt(n-1) \in Nat /\ cnt(i) \in Nat
  BY <1>0, <1>3
<1>10. cnt(i) < cnt(n)
  BY <1>7, <1>8, <1>9
<1> QED
  BY <1>2, <1>10 DEF cnt

Iterable(V, x, n, step) == \E h \in [0..n -> V] : h[0] = x /\ \A i \in 1..n : h[i] = step[i][h[i-1]]

LEMMA AreIterable ==
  ASSUME NEW V, NEW x, x \in V, NEW n, n \in Nat, NEW step, step \in [1..n -> [V -> V]]
  PROVE  Iterable(V, x, n, step)
<1>1. \E h \in [0..n -> V] : h[0] = x /\ \A i \in 1..n : h[i] = step[i][h[i-1]]
  BY Iterates, Z3
<1> QED
  BY <1>1 DEF Iterable

(* The operands of a call, read one after the other. *)
Readings(q, n) == CHOOSE f : f = [i \in 0..n |-> IF i = 0 THEN q ELSE Operand(f[i-1])]
LEMMA ReadingAll ==
  ASSUME NEW S, Roomy(S), NEW list \in Seq(Words), NEW q0, NEW q, Took(S, list, q0, q, 0, <<>>),
         \A i \in 1..Len(list) : Usable(S, list[i]),
         NEW n, n = Len(list), NEW read, read = Readings(q, n)
  PROVE  Took(S, list, q0, read[n], n, list)
<1> DEFINE V == {p \in Reading : Fine(S, p)}
           fore(i) == SubSeq(list, 1, i)
           At(i, p) == Took(S, list, q0, p, i, fore(i))
           step == [i \in 1..n |-> [p \in V |-> IF At(i-1, p) THEN Operand(p) ELSE p]]
           Rec(f) == f = [i \in 0..n |-> IF i = 0 THEN q ELSE Operand(f[i-1])]
<1>0. n \in Nat
  OBVIOUS
<1>1. fore(0) = <<>> /\ fore(n) = list /\ \A i \in 0..n-1 : fore(i+1) = Append(fore(i), list[i+1])
  BY ForeIs
<1> HIDE DEF fore
<1>2. ASSUME NEW i \in 0..n-1, NEW p, At(i, p) PROVE At(i+1, Operand(p))
  <2> DEFINE ws == fore(i)
  <2>1. i < Len(list) /\ Usable(S, list[i+1]) /\ Took(S, list, q0, p, i, ws)
    BY <1>0, <1>2
  <2> HIDE DEF ws
  <2>2. Took(S, list, q0, Operand(p), i+1, Append(ws, list[i+1]))
    BY <2>1, TookOperand
  <2> QED
    BY <1>1, <2>2 DEF ws
<1>3. \A i, p : At(i, p) => p \in V
  BY DEF Took, Reads, Fine
<1>4. At(0, q)
  BY <1>1
<1> HIDE DEF At
<1>5. step \in [1..n -> [V -> V]]
  <2>1. ASSUME NEW i \in 1..n, NEW p \in V PROVE (IF At(i-1, p) THEN Operand(p) ELSE p) \in V
    <3>1. i-1 \in 0..n-1
      BY <1>0
    <3> HIDE DEF V
    <3> QED
      BY <1>2, <1>3, <3>1
  <2> HIDE DEF V
  <2>2. \A i \in 1..n : [p \in V |-> IF At(i-1, p) THEN Operand(p) ELSE p] \in [V -> V]
    BY <2>1
  <2> QED
    BY <2>2
<1>6. PICK h \in [0..n -> V] : h[0] = q /\ \A i \in 1..n : h[i] = step[i][h[i-1]]
  <2>1. q \in V
    BY <1>3, <1>4
  <2> HIDE DEF V, step
  <2>2. Iterable(V, q, n, step)
    BY <1>0, <1>5, <2>1, AreIterable
  <2> QED
    BY <2>2 DEF Iterable
<1>7. \A i \in 1..n : i-1 \in 0..n /\ i-1 \in 0..n-1 /\ (i-1)+1 = i
  BY <1>0
<1>8. \A i \in 1..n : h[i] = IF At(i-1, h[i-1]) THEN Operand(h[i-1]) ELSE h[i-1]
  <2>1. \A i \in 1..n : h[i-1] \in V
    BY <1>6, <1>7
  <2> HIDE DEF V
  <2> QED
    BY <1>6, <2>1
<1> HIDE DEF V, step
<1> DEFINE Good == {i \in 0..n : At(i, h[i])}
<1>9. 0 \in Good
  BY <1>0, <1>4, <1>6
<1>10. ASSUME NEW i \in 0..n-1, i \in Good PROVE i+1 \in Good
  <2>1. i+1 \in 1..n /\ i+1 \in 0..n /\ (i+1)-1 = i
    BY <1>0
  <2>2. h[i+1] = IF At((i+1)-1, h[(i+1)-1]) THEN Operand(h[(i+1)-1]) ELSE h[(i+1)-1]
    BY <1>8, <2>1
  <2>3. At(i, h[i])
    BY <1>10
  <2>4. At(i+1, h[i+1])
    BY <1>2, <2>1, <2>2, <2>3
  <2> QED
    BY <2>1, <2>4
<1>11. \A i \in 0..n : At(i, h[i])
  <2>1. 0..n \subseteq Good
    <3> HIDE DEF Good
    <3> QED
      BY <1>0, <1>9, <1>10, Induction
  <2> QED
    BY <2>1
<1>12. Rec(h)
  <2>1. \A i \in 0..n : h[i] = IF i = 0 THEN q ELSE Operand(h[i-1])
    <3>1. \A i \in 0..n : i = 0 \/ i \in 1..n
      BY <1>0
    <3> QED
      BY <1>6, <1>7, <1>8, <1>11, <3>1
  <2>2. h = [i \in 0..n |-> h[i]]
    BY <1>6
  <2> QED
    BY <2>1, <2>2
<1>13. Rec(read)
  <2>1. read = CHOOSE f : Rec(f)
    BY DEF Readings
  <2> HIDE DEF Rec
  <2> QED
    BY <1>12, <2>1
<1> DEFINE Same == {i \in 0..n : At(i, read[i])}
<1>14. 0 \in Same
  BY <1>0, <1>4, <1>13
<1>15. ASSUME NEW i \in 0..n-1, i \in Same PROVE i+1 \in Same
  <2>1. i+1 \in 0..n /\ i+1 # 0 /\ (i+1)-1 = i
    BY <1>0
  <2>2. read[i+1] = IF i+1 = 0 THEN q ELSE Operand(read[(i+1)-1])
    BY <1>13, <2>1
  <2>3. At(i+1, read[i+1])
    BY <1>2, <1>15, <2>1, <2>2
  <2> QED
    BY <2>1, <2>3
<1>16. At(n, read[n])
  <2>1. 0..n \subseteq Same
    <3> HIDE DEF Same
    <3> QED
      BY <1>0, <1>14, <1>15, Induction
  <2>2. n \in 0..n
    BY <1>0
  <2> QED
    BY <2>1, <2>2
<1> QED
  BY <1>1, <1>16 DEF At

-----------------------------------------------------------------------------
(* Types. *)
GoodType(ty) ==
  /\ SizeOf(ty) \in Nat
  /\ ty.kind = "struct" => ty.align \in {1, 2, 4, 8}
  /\ ty.kind = "array" => ty.elem.kind # "array"
  /\ SoundLayout(ty)

LEMMA WidthIs ==
  /\ DOMAIN Width = {"i8", "i16", "i32", "f32", "i64", "f64", "ptr"}
  /\ \A k \in DOMAIN Width : Width[k] \in {1, 2, 4, 8}
  /\ "struct" \notin DOMAIN Width /\ "array" \notin DOMAIN Width
  /\ "struct" \notin Scalars /\ "array" \notin Scalars
BY DEF Width, Scalars

LEMMA RoundUpIs ==
  ASSUME NEW x \in Nat, NEW a \in {1, 2, 4, 8}
  PROVE  RoundUp(x, a) \in Nat /\ RoundUp(x, a) >= x /\ RoundUp(x, a) % a = 0
<1>1. CASE a = 1
  BY <1>1 DEF RoundUp
<1>2. CASE a = 2
  BY <1>2 DEF RoundUp
<1>3. CASE a = 4
  BY <1>3 DEF RoundUp
<1>4. CASE a = 8
  BY <1>4 DEF RoundUp
<1> QED
  BY <1>1, <1>2, <1>3, <1>4

LEMMA ScalarIsGood ==
  ASSUME NEW k \in Scalars
  PROVE  GoodType(Scalar(k)) /\ Scalar(k).kind = k
<1>1. Scalar(k).kind = k
  BY DEF Scalar
<1>2. k # "struct" /\ k # "array"
  BY WidthIs
<1>3. SizeOf(Scalar(k)) \in Nat
  <2>1. k \in DOMAIN Width => Width[k] \in Nat
    BY WidthIs
  <2>2. ~IsAggregate(Scalar(k))
    BY <1>1, <1>2 DEF IsAggregate
  <2> QED
    BY <1>1, <2>1, <2>2 DEF SizeOf
<1> QED
  BY <1>1, <1>2, <1>3 DEF GoodType, SoundLayout

(* The ends of the fields of a structure. *)
LEMMA LayoutIs ==
  ASSUME NEW n \in Nat, NEW fields, fields = [i \in 1..n |-> fields[i]],
         \A i \in 1..n : SizeOf(fields[i]) \in Nat,
         NEW aligns, aligns = [i \in 1..n |-> aligns[i]], \A i \in 1..n : aligns[i] \in {1, 2, 4, 8},
         \A i \in 1..n : fields[i].kind \in DOMAIN Width => aligns[i] = Width[fields[i].kind]
  PROVE  LET ty == StructOf(fields, aligns)
         IN  /\ ty.kind = "struct" /\ ty.fields = fields /\ ty.size \in Nat
             /\ ty.align \in {1, 2, 4, 8} /\ SoundLayout(ty)
<1> DEFINE step == [i \in 1..n |-> [x \in Nat |-> RoundUp(x, aligns[i]) + SizeOf(fields[i])]]
           Rec(f) == f = [i \in 0..n |-> IF i = 0 THEN 0 ELSE RoundUp(f[i-1], aligns[i]) + SizeOf(fields[i])]
           end == CHOOSE f : Rec(f)
           align == Max({1} \cup ToSet(aligns))
           ty == StructOf(fields, aligns)
<1>1. IsSeq(fields) /\ Len(fields) = n /\ DOMAIN fields = 1..n
  BY FunctionIsSeq
<1>2. IsSeq(aligns) /\ Len(aligns) = n /\ DOMAIN aligns = 1..n
  BY FunctionIsSeq
<1>3. ASSUME NEW i \in 1..n, NEW x \in Nat
      PROVE  RoundUp(x, aligns[i]) + SizeOf(fields[i]) \in Nat
  BY RoundUpIs
<1>4. step \in [1..n -> [Nat -> Nat]]
  <2>1. \A i \in 1..n : [x \in Nat |-> RoundUp(x, aligns[i]) + SizeOf(fields[i])] \in [Nat -> Nat]
    BY <1>3
  <2> QED
    BY <2>1
<1>5. PICK h \in [0..n -> Nat] : h[0] = 0 /\ \A i \in 1..n : h[i] = step[i][h[i-1]]
  <2> HIDE DEF step
  <2>1. Iterable(Nat, 0, n, step)
    BY <1>4, AreIterable
  <2> QED
    BY <2>1 DEF Iterable
<1>6. \A i \in 0..n : i # 0 => i \in 1..n /\ i-1 \in 0..n
  OBVIOUS
<1>7. Rec(h)
  <2>1. \A i \in 0..n : h[i] \in Nat
    BY <1>5
  <2>2. \A i \in 1..n : h[i] = RoundUp(h[i-1], aligns[i]) + SizeOf(fields[i])
    <3>1. \A i \in 1..n : \A x \in Nat : step[i][x] = RoundUp(x, aligns[i]) + SizeOf(fields[i])
      OBVIOUS
    <3>2. \A i \in 1..n : h[i-1] \in Nat
      BY <1>6, <2>1
    <3> HIDE DEF step
    <3> QED
      BY <1>5, <3>1, <3>2
  <2>3. \A i \in 0..n : h[i] = IF i = 0 THEN 0 ELSE RoundUp(h[i-1], aligns[i]) + SizeOf(fields[i])
    BY <1>5, <1>6, <2>2
  <2>4. h = [i \in 0..n |-> h[i]]
    BY <1>5
  <2> HIDE DEF step
  <2> QED
    BY <2>3, <2>4
<1> HIDE DEF step
<1>8. Rec(end)
  <2> HIDE DEF Rec
  <2> QED
    BY <1>7
<1> HIDE DEF end
<1> DEFINE Good == {i \in 0..n : end[i] \in Nat /\ \A k \in 0..i : end[k] \in Nat /\ end[k] <= end[i]}
<1>9. end[0] = 0 /\ \A i \in 1..n : end[i] = RoundUp(end[i-1], aligns[i]) + SizeOf(fields[i])
  <2>1. 0 \in 0..n
    OBVIOUS
  <2>2. end[0] = 0
    BY <1>8, <2>1
  <2>3. ASSUME NEW i \in 1..n PROVE end[i] = RoundUp(end[i-1], aligns[i]) + SizeOf(fields[i])
    <3>1. i \in 0..n /\ i # 0
      OBVIOUS
    <3> QED
      BY <1>8, <3>1
  <2> HIDE DEF Rec
  <2> QED
    BY <2>2, <2>3
<1>10. 0 \in Good
  BY <1>9
<1>11. ASSUME NEW i \in 0..n-1, i \in Good PROVE i+1 \in Good
  <2>1. i+1 \in 1..n /\ (i+1)-1 = i /\ i+1 \in 0..n /\ \A k \in 0..i+1 : k \in 0..i \/ k = i+1
    OBVIOUS
  <2>2. end[i+1] = RoundUp(end[(i+1)-1], aligns[i+1]) + SizeOf(fields[i+1])
    BY <1>9, <2>1
  <2>3. end[i] \in Nat /\ aligns[i+1] \in {1, 2, 4, 8} /\ SizeOf(fields[i+1]) \in Nat
    BY <1>11, <2>1
  <2>4. RoundUp(end[i], aligns[i+1]) \in Nat /\ RoundUp(end[i], aligns[i+1]) >= end[i]
    BY <2>3, RoundUpIs
  <2>5. end[i+1] \in Nat /\ end[i+1] >= end[i]
    BY <2>1, <2>2, <2>3, <2>4
  <2>6. \A k \in 0..i+1 : end[k] \in Nat /\ end[k] <= end[i+1]
    BY <1>11, <2>1, <2>5
  <2> QED
    BY <2>1, <2>5, <2>6
<1>12. \A i \in 0..n : end[i] \in Nat /\ \A k \in 0..i : end[k] <= end[i]
  <2>1. 0..n \subseteq Good
    <3> HIDE DEF Good
    <3> QED
      BY <1>10, <1>11, Induction
  <2> QED
    BY <2>1
<1>13. align \in {1, 2, 4, 8}
  <2> DEFINE M == {1} \cup ToSet(aligns)
  <2>1. M \subseteq {1, 2, 4, 8} /\ M # {}
    BY <1>2 DEF ToSet
  <2>2. \E m \in M : \A x \in M : x <= m
    <3>1. M \in SUBSET Nat /\ 8 \in Nat /\ \A x \in M : x <= 8
      BY <2>1
    <3> HIDE DEF M
    <3> QED
      BY <2>1, <3>1, Greatest
  <2>3. Max(M) \in M
    <3> HIDE DEF M
    <3>1. \E m \in M : \A x \in M : m >= x
      BY <2>1, <2>2
    <3> QED
      BY <3>1 DEF Max
  <2> QED
    BY <2>1, <2>3
<1> HIDE DEF align
<1>14. ty = [kind |-> "struct", fields |-> fields,
             offsets |-> [i \in 1..n |-> RoundUp(end[i-1], aligns[i])],
             size |-> RoundUp(end[n], align), align |-> align]
  BY <1>1 DEF StructOf, end, align
<1> HIDE DEF ty
<1>15. /\ ty.kind = "struct" /\ ty.fields = fields /\ ty.size = RoundUp(end[n], align) /\ ty.align = align
       /\ \A i \in 1..n : ty.offsets[i] = RoundUp(end[i-1], aligns[i])
  BY <1>14
<1>16. ty.size \in Nat /\ ty.size >= end[n]
  <2>1. end[n] \in Nat
    BY <1>12
  <2> QED
    BY <1>13, <1>15, <2>1, RoundUpIs
<1>17. \A i \in 1..n : ty.offsets[i] >= end[i-1] /\ ty.offsets[i] + SizeOf(fields[i]) = end[i]
                       /\ ty.offsets[i] % aligns[i] = 0 /\ ty.offsets[i] \in Nat
  <2>1. ASSUME NEW i \in 1..n
        PROVE  ty.offsets[i] >= end[i-1] /\ ty.offsets[i] + SizeOf(fields[i]) = end[i]
               /\ ty.offsets[i] % aligns[i] = 0 /\ ty.offsets[i] \in Nat
    <3>1. end[i-1] \in Nat /\ aligns[i] \in {1, 2, 4, 8}
      BY <1>6, <1>12
    <3>2. RoundUp(end[i-1], aligns[i]) \in Nat /\ RoundUp(end[i-1], aligns[i]) >= end[i-1]
          /\ RoundUp(end[i-1], aligns[i]) % aligns[i] = 0
      BY <3>1, RoundUpIs
    <3> QED
      BY <1>9, <1>15, <3>2
  <2> QED
    BY <2>1
<1>18. SoundLayout(ty)
  <2>1. ASSUME NEW i \in 1..n
        PROVE  LET past == ty.offsets[i] + SizeOf(fields[i]) IN
                 /\ past <= ty.size
                 /\ \A j \in 1..n : i < j => past <= ty.offsets[j]
                 /\ fields[i].kind \in DOMAIN Width => ty.offsets[i] % Width[fields[i].kind] = 0
    <3>1. ty.offsets[i] + SizeOf(fields[i]) = end[i] /\ end[i] \in Nat /\ end[n] \in Nat /\ end[i] <= end[n]
      BY <1>12, <1>17
    <3>2. end[i] <= ty.size
      BY <1>16, <3>1
    <3>3. ASSUME NEW j \in 1..n, i < j PROVE end[i] <= ty.offsets[j]
      <4>1. j-1 \in 0..n /\ i \in 0..j-1
        BY <3>3
      <4>2. end[j-1] \in Nat /\ end[i] <= end[j-1]
        BY <1>12, <4>1
      <4>3. ty.offsets[j] >= end[j-1] /\ ty.offsets[j] \in Nat
        BY <1>17
      <4> QED
        BY <3>1, <4>2, <4>3
    <3>4. fields[i].kind \in DOMAIN Width => ty.offsets[i] % Width[fields[i].kind] = 0
      BY <1>17
    <3> QED
      BY <3>1, <3>2, <3>3, <3>4
  <2>2. DOMAIN ty.fields = 1..n
    BY <1>1, <1>15
  <2> QED
    BY <1>15, <2>1, <2>2 DEF SoundLayout
<1> QED
  BY <1>13, <1>15, <1>16, <1>18 DEF ty

LEMMA MeantIsGood ==
  ASSUME NEW tys, \A e \in ToSet(tys) : GoodType(e.t), NEW w, IsType(tys, w)
  PROVE  GoodType(Meant(tys, w))
<1>1. CASE w.s \in Scalars
  BY <1>1, ScalarIsGood DEF Meant
<1>2. CASE w.s \notin Scalars
  <2>1. \E e \in ToSet(tys) : e.s = w.s
    BY <1>2 DEF IsType
  <2> QED
    BY <1>2, <2>1 DEF Meant
<1> QED
  BY <1>1, <1>2

Distinct(tys) == \A i, k \in DOMAIN tys : i # k => tys[i].s # tys[k].s
TypesOK(tys)  == IsSeq(tys) /\ Len(tys) <= TypeMax /\ Distinct(tys) /\ \A e \in ToSet(tys) : GoodType(e.t)

LEMMA TypeInIs ==
  ASSUME NEW tys, TypesOK(tys), NEW w, IsType(tys, w)
  PROVE  TypeIn(tys, w) = Meant(tys, w) /\ GoodType(Meant(tys, w))
<1>1. GoodType(Meant(tys, w))
  BY MeantIsGood DEF TypesOK
<1>2. CASE w.s \in Scalars
  BY <1>1, <1>2 DEF TypeIn, Meant, IsType
<1>3. CASE w.s \notin Scalars
  <2>1. Len(tys) \in Nat /\ DOMAIN tys = 1..Len(tys)
    BY SeqIs DEF TypesOK, IsSeq
  <2> DEFINE I == {i \in 1..Len(tys) : tys[i].s = w.s}
             f == SelectInSeq(tys, LAMBDA e : e.s = w.s)
             e == CHOOSE x \in ToSet(tys) : x.s = w.s
  <2>2. f = IF I # {} THEN Min(I) ELSE 0
    BY DEF SelectInSeq
  <2>3. I # {} /\ I \in SUBSET Nat
    BY <1>3, <2>1 DEF IsType, ToSet
  <2>4. f \in I
    <3> HIDE DEF I, f
    <3> QED
      BY <2>2, <2>3, MinIs
  <2>5. e \in ToSet(tys) /\ e.s = w.s
    BY <1>3 DEF IsType
  <2>6. tys[f] = e
    <3> HIDE DEF f, e
    <3>1. PICK k \in 1..Len(tys) : e = tys[k]
      BY <2>1, <2>5 DEF ToSet
    <3> QED
      BY <2>1, <2>4, <2>5, <3>1 DEF TypesOK, Distinct
  <2>7. f # 0
    <3> HIDE DEF f
    <3> QED
      BY <2>1, <2>4
  <2>8. TypeIn(tys, w) = tys[f].t
    BY <1>3, <2>7 DEF TypeIn, IsType
  <2>9. Meant(tys, w) = e.t
    BY <1>3 DEF Meant
  <2> HIDE DEF f, e
  <2> QED
    BY <1>1, <2>6, <2>8, <2>9
<1> QED
  BY <1>1, <1>2, <1>3

LEMMA StructIs ==
  ASSUME NEW n \in Nat, NEW fields, fields = [i \in 1..n |-> fields[i]],
         \A i \in 1..n : GoodType(fields[i]) /\ IsField(fields[i])
  PROVE  /\ ParserStruct(fields) = BuilderStruct(fields) /\ GoodType(BuilderStruct(fields))
         /\ BuilderStruct(fields).kind = "struct" /\ BuilderStruct(fields).fields = fields
<1> DEFINE aligns == [i \in 1..n |-> BuilderAlign(fields[i])]
<1>1. DOMAIN fields = 1..n
  BY FunctionIsSeq
<1>2. ASSUME NEW i \in 1..n
      PROVE  /\ ParserAlign(fields[i]) = BuilderAlign(fields[i]) /\ BuilderAlign(fields[i]) \in {1, 2, 4, 8}
             /\ fields[i].kind \in DOMAIN Width => BuilderAlign(fields[i]) = Width[fields[i].kind]
  <2> DEFINE ty == fields[i]
  <2>1. ty.kind \in DOMAIN Width \cup {"struct", "array"} /\ (ty.kind = "struct" => ty.align \in {1, 2, 4, 8})
    BY DEF IsField, GoodType
  <2> HIDE DEF ty
  <2>2. CASE ty.kind \in DOMAIN Width
    <3>1. ty.kind # "struct" /\ ty.kind # "array" /\ Width[ty.kind] \in {1, 2, 4, 8}
      BY <2>2, WidthIs
    <3>2. \A d : AlignOr(ty, d) = Width[ty.kind]
      BY <2>2, <3>1 DEF AlignOr
    <3> QED
      BY <3>1, <3>2 DEF ParserAlign, BuilderAlign, ty
  <2>3. CASE ty.kind = "struct"
    <3>1. ty.kind \notin DOMAIN Width
      BY <2>3, WidthIs
    <3>2. \A d : AlignOr(ty, d) = ty.align
      BY <2>3, <3>1 DEF AlignOr
    <3> QED
      BY <2>1, <2>3, <3>1, <3>2 DEF ParserAlign, BuilderAlign, ty
  <2>4. CASE ty.kind = "array"
    <3>1. ty.kind \notin DOMAIN Width
      BY <2>4, WidthIs
    <3>2. \A d : AlignOr(ty, d) = 1
      BY <2>4, <3>1 DEF AlignOr
    <3> QED
      BY <2>4, <3>1, <3>2 DEF ParserAlign, BuilderAlign, ty
  <2> QED
    BY <2>1, <2>2, <2>3, <2>4
<1>3. aligns = [i \in DOMAIN fields |-> BuilderAlign(fields[i])] /\ aligns = [i \in DOMAIN fields |-> ParserAlign(fields[i])]
  BY <1>1, <1>2
<1>4. aligns = [i \in 1..n |-> aligns[i]] /\ \A i \in 1..n : aligns[i] = BuilderAlign(fields[i])
  OBVIOUS
<1> HIDE DEF aligns
<1>5. ParserStruct(fields) = StructOf(fields, aligns) /\ BuilderStruct(fields) = StructOf(fields, aligns)
  BY <1>3 DEF ParserStruct, BuilderStruct
<1> DEFINE ty == StructOf(fields, aligns)
<1>6. /\ ty.kind = "struct" /\ ty.fields = fields /\ ty.size \in Nat
      /\ ty.align \in {1, 2, 4, 8} /\ SoundLayout(ty)
  <2>1. \A i \in 1..n : SizeOf(fields[i]) \in Nat
    BY DEF GoodType
  <2>2. \A i \in 1..n : aligns[i] \in {1, 2, 4, 8} /\ (fields[i].kind \in DOMAIN Width => aligns[i] = Width[fields[i].kind])
    BY <1>2, <1>4
  <2> QED
    BY <1>4, <2>1, <2>2, LayoutIs
<1> HIDE DEF ty
<1>7. GoodType(ty)
  BY <1>6 DEF GoodType, SizeOf, IsAggregate
<1> QED
  BY <1>5, <1>6, <1>7 DEF ty

LEMMA ArrayIs ==
  ASSUME NEW elem, GoodType(elem), elem.kind # "array", NEW n \in Nat
  PROVE  ParserArray(elem, n) = BuilderArray(elem, n) /\ GoodType(BuilderArray(elem, n))
<1> DEFINE ty == BuilderArray(elem, n)
<1>1. ParserArray(elem, n) = ty
  BY DEF ParserArray, BuilderArray, ParserElemSize
<1>2. ty.kind = "array" /\ ty.elem = elem /\ ty.size = n * SizeOf(elem)
  BY DEF BuilderArray, ArrayOf
<1> HIDE DEF ty
<1>3. n * SizeOf(elem) \in Nat
  BY DEF GoodType
<1>4. GoodType(ty)
  BY <1>2, <1>3 DEF GoodType, SizeOf, IsAggregate, SoundLayout
<1> QED
  BY <1>1, <1>4 DEF ty

LEMMA StepIs ==
  ASSUME NEW ty, GoodType(ty)
  PROVE  ParserStep(ty) = Stride(ty) /\ (ty.kind # "f64" => ParserAllocaSize(ty) = SizeOf(ty))
BY DEF GoodType, ParserStep, Stride, ParserElemSize, ParserAllocaSize

(* Only a type definition changes the table of types. *)
LEMMA TypesOf ==
  ASSUME NEW t, Conforms(t), NEW j \in 1..Len(t)
  PROVE  \/ t[j].types = <<>>
         \/ (t[j].words[1] = Word("type") /\ TypeDefined(t, j))
<1>1. Allowed(t, j)
  BY StatementsAre
<1>2. CASE t[j].words[1] = Word("type")
  <2>1. Word("type") # Word("func") /\ Word("type") # Word("block") /\ Word("type") # Word("}")
    BY DEF Word
  <2>2. TypeDefined(t, j)
    BY <1>1, <1>2, <2>1 DEF Allowed
  <2> QED
    BY <1>2, <2>2
<1>3. CASE t[j].words[1] # Word("type")
  <2>1. t[j].types = <<>>
    BY <1>1, <1>3 DEF Allowed, FuncHeaded, BlockNamed, Plain, Ignored, Instructed
  <2> QED
    BY <2>1
<1> QED
  BY <1>2, <1>3

LEMMA DefinedIsGood ==
  ASSUME NEW t, Conforms(t), NEW j \in 1..Len(t), TypesOK(Known(t, j)), TypeDefined(t, j)
  PROVE  GoodType(t[j].types[1].t)
<1> DEFINE s == t[j]
           tys == Known(t, j)
<1>1. CASE StructDefined(t, j)
  <2> DEFINE fields == Items(SubSeq(s.words, 5, Len(s.words)-1))
             ts == s.types[1].t.fields
             n == Len(fields)
  <2>1. s.words \in Seq(Words) /\ Len(s.words) >= 5 /\ Len(s.words) \in Nat
    BY <1>1, StatementsAre DEF StructDefined
  <2>2. fields \in Seq(Words)
    <3> DEFINE list == SubSeq(s.words, 5, Len(s.words)-1)
    <3>1. list \in Seq(Words)
      <4>1. 5 \in Nat \ {0} /\ Len(s.words)-1 \in Nat /\ Len(s.words)-1 <= Len(s.words) /\ 5 <= Len(s.words)-1+1
        BY <2>1
      <4> QED
        BY <2>1, <4>1, SubSeqIs
    <3> HIDE DEF list
    <3>2. Items(list) \in Seq(Words)
      BY <3>1, ItemsAre
    <3> QED
      BY <3>2 DEF list
  <2>3. s.types[1].t = BuilderStruct(ts) /\ ts = [i \in DOMAIN fields |-> Meant(tys, fields[i])]
        /\ \A i \in DOMAIN fields : IsType(tys, fields[i]) /\ IsField(ts[i])
    BY <1>1 DEF StructDefined
  <2> HIDE DEF fields, tys
  <2>4. n \in Nat /\ DOMAIN fields = 1..n
    BY <2>2
  <2>5. \A i \in 1..n : GoodType(ts[i]) /\ IsField(ts[i])
    <3>1. \A i \in 1..n : ts[i] = Meant(tys, fields[i]) /\ IsType(tys, fields[i]) /\ IsField(ts[i])
      BY <2>3, <2>4
    <3>2. \A e \in ToSet(tys) : GoodType(e.t)
      BY DEF TypesOK, tys
    <3> HIDE DEF ts
    <3> QED
      BY <3>1, <3>2, MeantIsGood
  <2>6. ts = [i \in 1..n |-> ts[i]]
    BY <2>3, <2>4
  <2>7. GoodType(BuilderStruct(ts))
    <3> HIDE DEF ts, n
    <3> QED
      BY <2>4, <2>5, <2>6, StructIs
  <2> QED
    BY <2>3, <2>7
<1>2. CASE ArrayDefined(t, j)
  <2> DEFINE ty == Meant(tys, s.words[4])
  <2>1. /\ IsType(tys, s.words[4]) /\ ty.kind # "array" /\ s.words[6].n \in Nat
        /\ s.types[1].t = BuilderArray(ty, s.words[6].n)
    BY <1>2 DEF ArrayDefined
  <2>2. GoodType(ty)
    BY <2>1, MeantIsGood DEF TypesOK
  <2> HIDE DEF ty
  <2>3. GoodType(BuilderArray(ty, s.words[6].n))
    BY <2>1, <2>2, ArrayIs
  <2> QED
    BY <2>1, <2>3
<1> QED
  BY <1>1, <1>2 DEF TypeDefined

LEMMA KnownFine ==
  ASSUME NEW t, Conforms(t), NEW j \in 1..Len(t)+1
  PROVE  TypesOK(Known(t, j))
<1> DEFINE n == Len(t)
           Good == {i \in 0..n : TypesOK(Known(t, i+1))}
<1>0. n \in Nat /\ TypeMax \in Nat
  BY StatementsAre, ParserAssumption
<1>1. 0 \in Good
  <2>1. Known(t, 1) = <<>>
    BY WordsNone, 0 \in Nat
  <2>2. IsSeq(<<>>) /\ Len(<<>>) = 0 /\ DOMAIN <<>> = {} /\ ToSet(<<>>) = {}
    <3>1. <<>> \in Seq({}) /\ Len(<<>>) = 0 /\ DOMAIN <<>> = {}
      OBVIOUS
    <3>2. IsSeq(<<>>)
      BY <3>1, SeqIs
    <3> QED
      BY <3>1, <3>2 DEF ToSet
  <2>3. TypesOK(<<>>)
    BY <1>0, <2>2 DEF TypesOK, Distinct
  <2> QED
    BY <1>0, <2>1, <2>3
<1>2. ASSUME NEW i \in 0..n-1, i \in Good PROVE i+1 \in Good
  <2> DEFINE j1 == i+1
             x == Known(t, j1)
             y == Known(t, j1+1)
             new == t[j1].types
  <2>1. j1 \in 1..Len(t) /\ j1 \in 0..n
    BY <1>0
  <2>2. IsSeq(x) /\ IsSeq(y) /\ y = x \o new /\ IsSeq(new)
    <3> HIDE DEF j1
    <3> QED
      BY <2>1, KnownLast, StatementsAre
  <2>3. TypesOK(x)
    BY <1>2
  <2>4. Len(x) \in Nat /\ DOMAIN x = 1..Len(x) /\ DOMAIN y = 1..Len(y)
    <3> HIDE DEF x, y
    <3> QED
      BY <2>2, SeqIs DEF IsSeq
  <2>5. Len(y) = Len(x) + Len(new) /\ (\A k \in 1..Len(x) : y[k] = x[k]) /\ \A k \in 1..Len(new) : y[Len(x)+k] = new[k]
    <3> HIDE DEF x, y, new
    <3> QED
      BY <2>2, ConcatIs
  <2>6. CASE new = <<>>
    <3>1. y = x
      <4> HIDE DEF x, y, new
      <4>1. Len(y) = Len(x)
        BY <2>4, <2>5, <2>6
      <4> QED
        BY <2>2, <2>4, <2>5, <4>1, SameSeq
    <3> QED
      BY <2>1, <2>3, <3>1
  <2>7. CASE t[j1].words[1] = Word("type") /\ TypeDefined(t, j1)
    <3> DEFINE e == new[1]
    <3>1. GoodType(e.t)
      <4> HIDE DEF j1
      <4> QED
        BY <2>1, <2>3, <2>7, DefinedIsGood
    <3>2. Len(new) = 1 /\ Len(x) < TypeMax /\ \A d \in ToSet(x) : d.s # e.s
      <4> DEFINE d == [s |-> t[j1].words[2].s, t |-> t[j1].types[1].t]
      <4>1. new = <<d>> /\ d.s = t[j1].words[2].s /\ Len(x) < TypeMax /\ \A z \in ToSet(x) : z.s # t[j1].words[2].s
        BY <2>7 DEF TypeDefined
      <4> HIDE DEF new, d, x
      <4>2. Len(new) = 1 /\ new[1] = d
        BY <4>1
      <4> QED
        BY <4>1, <4>2
    <3> HIDE DEF x, y, e, new, j1
    <3>3. Len(y) = Len(x) + 1 /\ y[Len(x)+1] = e
      BY <2>5, <3>2 DEF e
    <3>4. \A k \in 1..Len(x)+1 : k \in 1..Len(x) \/ k = Len(x)+1
      BY <2>4
    <3>5. \A d \in ToSet(y) : d \in ToSet(x) \/ d = e
      BY <2>4, <2>5, <3>3, <3>4 DEF ToSet
    <3>6. Distinct(y)
      <4>1. \A k \in 1..Len(x) : y[k].s # e.s
        BY <2>4, <2>5, <3>2 DEF ToSet
      <4> QED
        BY <2>3, <2>4, <2>5, <3>3, <3>4, <4>1 DEF TypesOK, Distinct
    <3>7. Len(y) <= TypeMax
      BY <1>0, <2>4, <3>2, <3>3
    <3>8. TypesOK(y)
      BY <2>2, <2>3, <3>1, <3>5, <3>6, <3>7 DEF TypesOK
    <3> QED
      BY <2>1, <3>8 DEF y, j1
  <2> QED
    <3>1. new = <<>> \/ (t[j1].words[1] = Word("type") /\ TypeDefined(t, j1))
      <4> HIDE DEF j1
      <4> QED
        BY <2>1, TypesOf
    <3> QED
      BY <2>6, <2>7, <3>1
<1>3. 0..n \subseteq Good
  <2> HIDE DEF Good
  <2> QED
    BY <1>0, <1>1, <1>2, Induction
<1>4. j-1 \in 0..n /\ (j-1)+1 = j
  BY <1>0
<1>5. j-1 \in Good
  <2> HIDE DEF Good
  <2> QED
    BY <1>3, <1>4
<1> QED
  BY <1>4, <1>5

-----------------------------------------------------------------------------
(* The inductive invariant.  When the first j statements of t have been    *)
(* read,                                                                   *)
HeadAt(t, j) == Latest(t, j, {"func"})
NamesAt(t, j) == NamesOf(t, HeadAt(t, j))

(* an instruction says what m means, *)
Tells(q, instr, m) ==
  /\ instr = [m EXCEPT !.dst = NumberIn(q, m.dst), !.args = instr.args] /\ Met(q, m.dst)
  /\ instr.args \in Seq(Opd) /\ Len(instr.args) = Len(m.args) /\ DOMAIN m.args = 1..Len(m.args)
  /\ \A a \in 1..Len(m.args) : Holds(q, instr.args[a], m.args[a])

IsFunc(g) ==
  /\ g = [nparams |-> g.nparams, vararg |-> g.vararg, blocks |-> g.blocks] /\ IsSeq(g.blocks)
  /\ \A b \in 1..Len(g.blocks) : /\ g.blocks[b] = [name |-> g.blocks[b].name, instrs |-> g.blocks[b].instrs]
                                 /\ IsSeq(g.blocks[b].instrs)
(* every immediate is in the table, *)
Listed(q, g) == \A i \in 1..Len(CodeOf(g)) : /\ CodeOf(g)[i].args \in Seq(Opd)
                                             /\ \A a \in DOMAIN CodeOf(g)[i].args : InTable(q, CodeOf(g)[i].args[a])
Built(q, fs) == IsSeq(fs) /\ \A g \in 1..Len(fs) : IsFunc(fs[g]) /\ Listed(q, fs[g])

(* F and B are where the next instruction goes, *)
Scope(t, j, fs, f, b) ==
  /\ Outside(t, j) => f = 0 /\ b = 0
  /\ ~Outside(t, j) => f = Len(fs) /\ f > 0 /\ b \in 0..Len(fs[f].blocks)
  /\ InBlock(t, j) => f = Len(fs) /\ f > 0 /\ b = Len(fs[f].blocks) /\ b > 0

(* and the last function is what its statements say. *)
Coded(t, j, q, fs) ==
  LET h == HeadAt(t, j)
      g == fs[Len(fs)]
      m == MeansIn(t, h, j)
  IN  h # 0 => /\ Len(fs) > 0 /\ g.nparams = t[h].params /\ g.vararg = t[h].vararg
               /\ Len(CodeOf(g)) = Len(m) /\ \A i \in 1..Len(m) : Tells(q, CodeOf(g)[i], m[i])

Standing(t, j, q, tys, ns, fs, f, b) ==
  /\ j \in 0..Len(t) /\ Fine(NamesAt(t, j), q)
  /\ \A w \in ToSet(WordsIn(t, HeadAt(t, j), j)) : IsVreg(w) => Usable(NamesAt(t, j), w) /\ Met(q, w)
  /\ tys = Known(t, j+1) /\ ns = Strings(t, j+1)
  /\ Built(q, fs) /\ Scope(t, j, fs, f, b) /\ Coded(t, j, q, fs)

(* After a structure of FieldMax fields its brace is still to be read. *)
Closing(t, j, rest) ==
  /\ j > 0 /\ Len(t[j].words) >= 2 /\ Outside(t, j)
  /\ rest # <<>> /\ Head(rest) = Word("}") /\ Tail(rest) = WordsIn(t, j, Len(t))

Inv ==
  Conforms(text) =>
    \E j \in 0..Len(text) : /\ Standing(text, j, r, types, strings, funcs, F, B)
                            /\ r.rest = WordsIn(text, j, Len(text)) \/ Closing(text, j, r.rest)

-----------------------------------------------------------------------------
(* The latest statement that begins in a certain way.                      *)
LEMMA LatestIs ==
  ASSUME NEW t, NEW hs, NEW j \in Nat
  PROVE  LET begins(i) == t[i].words[1] \in {Word(h) : h \in hs}
         IN  /\ Latest(t, j, hs) \in 0..j /\ (Latest(t, j, hs) # 0 => begins(Latest(t, j, hs)))
             /\ \A i \in 1..j : begins(i) => i <= Latest(t, j, hs)
             /\ j > 0 => Latest(t, j, hs) = IF begins(j) THEN j ELSE Latest(t, j-1, hs)
<1> DEFINE begins(i) == t[i].words[1] \in {Word(h) : h \in hs}
           I(k) == {0} \cup {i \in 1..k : begins(i)}
           last(k) == Latest(t, k, hs)
<1>1. ASSUME NEW k \in Nat PROVE last(k) \in I(k) /\ \A x \in I(k) : x <= last(k)
  <2>1. I(k) \in SUBSET Nat /\ I(k) # {} /\ \A x \in I(k) : x <= k
    OBVIOUS
  <2>2. last(k) = Max(I(k))
    BY DEF Latest
  <2> HIDE DEF I, last
  <2>3. \E m \in I(k) : \A x \in I(k) : m >= x
    <3>1. \E m \in I(k) : \A x \in I(k) : x <= m
      BY <2>1, Greatest
    <3> QED
      BY <2>1, <3>1
  <2>4. Max(I(k)) \in I(k) /\ \A x \in I(k) : Max(I(k)) >= x
    BY <2>3 DEF Max
  <2> QED
    BY <2>1, <2>2, <2>4
<1>2. ASSUME j > 0 PROVE last(j) = IF begins(j) THEN j ELSE last(j-1)
  <2>1. j-1 \in Nat /\ \A i \in 1..j : i \in 1..j-1 \/ i = j
    BY <1>2
  <2>2. \A x : x \in I(j) <=> x \in I(j-1) \/ (x = j /\ begins(j))
    BY <2>1
  <2>3. \A x \in I(j) : x \in Nat /\ x <= j
    OBVIOUS
  <2>4. last(j) \in I(j) /\ \A x \in I(j) : x <= last(j)
    BY <1>1
  <2>5. last(j-1) \in I(j-1) /\ \A x \in I(j-1) : x <= last(j-1)
    BY <1>1, <2>1
  <2> HIDE DEF I, last, begins
  <2> QED
    BY <2>2, <2>3, <2>4, <2>5
<1>3. last(j) \in I(j) /\ \A x \in I(j) : x <= last(j)
  BY <1>1
<1>4. last(j) \in 0..j /\ (last(j) # 0 => begins(last(j))) /\ \A i \in 1..j : begins(i) => i <= last(j)
  <2> HIDE DEF last, begins
  <2> QED
    BY <1>3
<1> QED
  BY <1>2, <1>4

LEMMA HeadStep ==
  ASSUME NEW t, NEW j \in Nat
  PROVE  LET w == t[j+1].words[1]
         IN  /\ HeadAt(t, j) \in 0..j /\ HeadAt(t, 0) = 0 /\ (HeadAt(t, j) # 0 => t[HeadAt(t, j)].words[1] = Word("func"))
             /\ HeadAt(t, j+1) = IF w = Word("func") THEN j+1 ELSE HeadAt(t, j)
             /\ Outside(t, 0) /\ ~InBlock(t, 0)
             /\ Outside(t, j+1) <=> w = Word("}") \/ (w # Word("func") /\ Outside(t, j))
             /\ InBlock(t, j+1) <=> w = Word("block") \/ (w # Word("func") /\ w # Word("}") /\ InBlock(t, j))
<1> DEFINE w == t[j+1].words[1]
           f(k) == Latest(t, k, {"func"})
           o(k) == Latest(t, k, {"func", "}"})
           b(k) == Latest(t, k, {"func", "}", "block"})
<1>0. 0 \in Nat /\ j+1 \in Nat /\ j+1 > 0 /\ (j+1)-1 = j /\ j+1 # 0
  OBVIOUS
<1>1. ASSUME NEW hs
      PROVE  /\ Latest(t, 0, hs) = 0
             /\ Latest(t, j+1, hs) = IF w \in {Word(h) : h \in hs} THEN j+1 ELSE Latest(t, j, hs)
  <2> DEFINE l(k) == Latest(t, k, hs)
             W1 == {Word(h) : h \in hs}
  <2>1. l(0) \in 0..0
    BY <1>0, LatestIs
  <2>2. l(j+1) = IF w \in W1 THEN j+1 ELSE l((j+1)-1)
    BY <1>0, LatestIs
  <2> HIDE DEF l, w, W1
  <2>3. l(0) = 0 /\ l(j+1) = IF w \in W1 THEN j+1 ELSE l(j)
    BY <1>0, <2>1, <2>2
  <2> QED
    BY <2>3 DEF l, w, W1
<1>2. f(0) = 0 /\ o(0) = 0 /\ b(0) = 0
  BY <1>1
<1>3. /\ f(j+1) = IF w \in {Word(h) : h \in {"func"}} THEN j+1 ELSE f(j)
      /\ o(j+1) = IF w \in {Word(h) : h \in {"func", "}"}} THEN j+1 ELSE o(j)
      /\ b(j+1) = IF w \in {Word(h) : h \in {"func", "}", "block"}} THEN j+1 ELSE b(j)
  BY <1>1
<1>4. f(j) \in 0..j /\ (f(j) # 0 => t[f(j)].words[1] \in {Word(h) : h \in {"func"}})
  BY LatestIs
<1>5. w \in {Word(h) : h \in {"func"}} <=> w = Word("func")
  OBVIOUS
<1>6. w \in {Word(h) : h \in {"func", "}"}} <=> w = Word("func") \/ w = Word("}")
  OBVIOUS
<1>7. w \in {Word(h) : h \in {"func", "}", "block"}} <=> w = Word("func") \/ w = Word("}") \/ w = Word("block")
  OBVIOUS
<1>8. Word("func") # Word("}") /\ Word("func") # Word("block") /\ Word("}") # Word("block")
  BY DEF Word
<1>9. /\ Outside(t, 0) /\ ~InBlock(t, 0)
      /\ Outside(t, j) <=> (o(j) = 0 \/ t[o(j)].words[1] = Word("}"))
      /\ Outside(t, j+1) <=> (o(j+1) = 0 \/ t[o(j+1)].words[1] = Word("}"))
      /\ InBlock(t, j) <=> (b(j) # 0 /\ t[b(j)].words[1] = Word("block"))
      /\ InBlock(t, j+1) <=> (b(j+1) # 0 /\ t[b(j+1)].words[1] = Word("block"))
  BY <1>2 DEF Outside, InBlock
<1> HIDE DEF f, o, b
<1>10. Outside(t, j+1) <=> w = Word("}") \/ (w # Word("func") /\ Outside(t, j))
  <2> HIDE DEF w
  <2>1. CASE w = Word("}")
    BY <1>0, <1>3, <1>6, <1>9, <2>1 DEF w
  <2>2. CASE w = Word("func")
    <3>1. o(j+1) = j+1
      BY <1>3, <1>6, <2>2
    <3> QED
      BY <1>0, <1>8, <1>9, <2>2, <3>1 DEF w
  <2>3. CASE w # Word("}") /\ w # Word("func")
    <3>1. o(j+1) = o(j)
      BY <1>0, <1>3, <1>6, <2>3
    <3> QED
      BY <1>9, <2>3, <3>1
  <2> QED
    BY <2>1, <2>2, <2>3
<1>11. InBlock(t, j+1) <=> w = Word("block") \/ (w # Word("func") /\ w # Word("}") /\ InBlock(t, j))
  <2> HIDE DEF w
  <2>1. CASE w = Word("block")
    BY <1>0, <1>3, <1>7, <1>9, <2>1 DEF w
  <2>2. CASE w = Word("func") \/ w = Word("}")
    <3>1. b(j+1) = j+1
      BY <1>3, <1>7, <2>2
    <3> QED
      BY <1>0, <1>8, <1>9, <2>2, <3>1 DEF w
  <2>3. CASE w # Word("}") /\ w # Word("func") /\ w # Word("block")
    <3>1. b(j+1) = b(j)
      BY <1>0, <1>3, <1>7, <2>3
    <3> QED
      BY <1>9, <2>3, <3>1
  <2> QED
    BY <2>1, <2>2, <2>3
<1>12. HeadAt(t, 0) = f(0) /\ HeadAt(t, j) = f(j) /\ HeadAt(t, j+1) = f(j+1)
  BY DEF HeadAt, f
<1>13. f(j) # 0 => t[f(j)].words[1] = Word("func")
  BY <1>4
<1> QED
  BY <1>0, <1>2, <1>3, <1>4, <1>5, <1>9, <1>10, <1>11, <1>12, <1>13

(* The names of a function are few, and its operands are within bounds.    *)
LEMMA FiniteImage ==
  ASSUME NEW S, IsFiniteSet(S), NEW f, f \in [S -> {f[x] : x \in S}]
  PROVE  IsFiniteSet({f[x] : x \in S})
<1> DEFINE T == {f[x] : x \in S}
<1>1. f \in Surjection(S, T)
  BY DEF Surjection
<1> QED
  BY <1>1, FS_Surjection

LEMMA NamesAreFew ==
  ASSUME NEW t, Conforms(t), NEW j \in 0..Len(t)
  PROVE  Roomy(NamesAt(t, j))
<1> DEFINE h == HeadAt(t, j)
           I == {i \in DOMAIN t : Latest(t, i, {"func"}) = h}
           vregs(i) == {w \in ToSet(t[i].words) : IsVreg(w)}
           V == {vregs(i) : i \in I}
           N == {w \in VregsOf(t, h) : w.k = "name"}
<1>1. Len(t) \in Nat /\ DOMAIN t = 1..Len(t) /\ \A i \in 1..Len(t) : t[i].words \in Seq(Words)
  BY StatementsAre
<1>2. h \in 0..Len(t)
  <2>1. j \in Nat
    BY <1>1
  <2>2. HeadAt(t, j) \in 0..j
    BY <2>1, HeadStep
  <2> QED
    BY <1>1, <2>2
<1>3. Countable(t, h)
  BY <1>2 DEF Conforms
<1>4. IsFiniteSet(I)
  <2>1. IsFiniteSet(1..Len(t))
    BY <1>1, FS_Interval
  <2>2. I \in SUBSET (1..Len(t))
    BY <1>1
  <2> HIDE DEF I
  <2> QED
    BY <2>1, <2>2, FS_Subset
<1>5. ASSUME NEW i \in I PROVE IsFiniteSet(vregs(i)) /\ vregs(i) \subseteq Words
  <2> DEFINE s == t[i].words
  <2>1. s \in Seq(Words)
    BY <1>1
  <2> HIDE DEF s
  <2>2. Len(s) \in Nat /\ s \in [1..Len(s) -> Words] /\ DOMAIN s = 1..Len(s)
    BY <2>1
  <2>3. IsFiniteSet({s[k] : k \in 1..Len(s)})
    <3>1. IsFiniteSet(1..Len(s))
      BY <2>2, FS_Interval
    <3>2. s \in [1..Len(s) -> {s[k] : k \in 1..Len(s)}]
      BY <2>2
    <3> QED
      BY <3>1, <3>2, FiniteImage
  <2>4. IsFiniteSet(ToSet(s)) /\ ToSet(s) \subseteq Words
    BY <2>2, <2>3 DEF ToSet
  <2>5. {w \in ToSet(s) : IsVreg(w)} \in SUBSET ToSet(s)
    OBVIOUS
  <2>6. IsFiniteSet({w \in ToSet(s) : IsVreg(w)})
    BY <2>4, <2>5, FS_Subset
  <2> QED
    BY <2>4, <2>6 DEF s
<1>6. IsFiniteSet(V)
  <2> DEFINE f == [i \in I |-> vregs(i)]
  <2>1. f \in [I -> {f[i] : i \in I}] /\ V = {f[i] : i \in I}
    OBVIOUS
  <2> HIDE DEF f, V, I
  <2> QED
    BY <1>4, <2>1, FiniteImage
<1>7. VregsOf(t, h) = UNION V
  BY DEF VregsOf
<1>8. IsFiniteSet(VregsOf(t, h)) /\ VregsOf(t, h) \subseteq Words
  <2>1. \A T \in V : IsFiniteSet(T) /\ T \subseteq Words
    BY <1>5
  <2> HIDE DEF V
  <2>2. IsFiniteSet(UNION V)
    BY <1>6, <2>1, FS_UNION
  <2> QED
    BY <1>7, <2>1, <2>2
<1>9. IsFiniteSet(N) /\ N \subseteq Words
  <2>1. N \in SUBSET VregsOf(t, h)
    OBVIOUS
  <2> HIDE DEF N
  <2> QED
    BY <1>8, <2>1, FS_Subset
<1>10. IsFiniteSet(NamesOf(t, h))
  <2> DEFINE f == [w \in N |-> w.s]
  <2>1. f \in [N -> {f[w] : w \in N}] /\ NamesOf(t, h) = {f[w] : w \in N}
    BY DEF NamesOf
  <2> HIDE DEF f, N
  <2> QED
    BY <1>9, <2>1, FiniteImage
<1>11. NamesOf(t, h) \in SUBSET STRING
  <2>1. \A w \in N : w.s \in STRING
    <3> SUFFICES ASSUME NEW w \in Words, w.k = "name" PROVE w.s \in STRING
      BY <1>9
    <3> QED
      BY DEF Words
  <2> QED
    BY <2>1 DEF NamesOf
<1> QED
  BY <1>3, <1>10, <1>11 DEF Roomy, Countable, NamesAt

LEMMA WordUsable ==
  ASSUME NEW t, Conforms(t), NEW j \in 0..Len(t)-1, NEW i \in 1..Len(t[j+1].words)
  PROVE  LET w == t[j+1].words[i]
         IN  /\ w \in Words
             /\ IsVreg(w) => Usable(NamesAt(t, j+1), w)
             /\ IsOperand(w) => Usable(NamesAt(t, j+1), w)
<1> DEFINE w == t[j+1].words[i]
           h == HeadAt(t, j+1)
<1>1. j+1 \in 1..Len(t) /\ j+1 \in Nat /\ DOMAIN t = 1..Len(t) /\ Len(t) \in Nat
  BY StatementsAre
<1>2. t[j+1].words \in Seq(Words)
  BY <1>1, StatementsAre
<1>3. w \in Words /\ w \in ToSet(t[j+1].words)
  <2> DEFINE s == t[j+1].words
  <2> HIDE DEF s
  <2>1. s \in Seq(Words) => s[i] \in Words /\ s[i] \in ToSet(s)
    <3>1. i \in 1..Len(s)
      BY DEF s
    <3> QED
      BY <3>1 DEF ToSet
  <2> QED
    BY <1>2, <2>1 DEF s
<1>4. h \in 0..j+1
  BY <1>1, HeadStep
<1>5. Countable(t, h)
  <2>1. h \in 0..Len(t)
    BY <1>1, <1>4
  <2> QED
    BY <2>1 DEF Conforms
<1>6. IsVreg(w) => w \in VregsOf(t, h)
  <2>1. Latest(t, j+1, {"func"}) = h
    BY DEF HeadAt
  <2> QED
    BY <1>1, <1>3, <2>1 DEF VregsOf
<1> HIDE DEF w, h
<1>7. ASSUME w.k = "name" PROVE w.s \in NamesOf(t, h)
  BY <1>6, <1>7 DEF NamesOf, IsVreg
<1>8. ASSUME w.k = "num" PROVE NamesOf(t, h) = {} /\ w.n < ParamBase
  BY <1>5, <1>6, <1>8 DEF Countable, IsVreg
<1>9. IsVreg(w) => IsOperand(w)
  BY DEF IsVreg, IsOperand
<1> QED
  BY <1>3, <1>7, <1>8, <1>9 DEF Usable, NamesAt, w, h

-----------------------------------------------------------------------------
(* The code of a function, block after block.                              *)
LEMMA FlattenMore ==
  ASSUME NEW n \in Nat, NEW f, f = [i \in 1..n+1 |-> f[i]], \A i \in 1..n+1 : IsSeq(f[i])
  PROVE  LET g == [i \in 1..n |-> f[i]]
         IN  /\ IsSeq(FlattenSeq(g)) /\ IsSeq(FlattenSeq(f))
             /\ FlattenSeq(f) = FlattenSeq(g) \o f[n+1]
<1> DEFINE U == UNION {ToSet(f[i]) : i \in 1..n+1}
           g == [i \in 1..n |-> f[i]]
<1>1. ASSUME NEW i \in 1..n+1 PROVE f[i] \in Seq(U)
  <2>1. f[i] \in Seq(ToSet(f[i])) /\ ToSet(f[i]) \subseteq U
    BY DEF IsSeq
  <2> HIDE DEF U
  <2> DEFINE x == f[i]
             V == ToSet(x)
  <2> HIDE DEF x, V
  <2>2. x \in Seq(V) /\ V \subseteq U => x \in Seq(U)
    OBVIOUS
  <2> QED
    BY <2>1, <2>2 DEF x, V
<1> HIDE DEF U
<1>2. f \in [1..n+1 -> Seq(U)]
  BY <1>1
<1>3. FlattenSeq(g) \in Seq(U) /\ FlattenSeq(f) \in Seq(U) /\ FlattenSeq(f) = FlattenSeq(g) \o f[n+1]
  BY <1>2, FlattenLast
<1> HIDE DEF g
<1>4. IsSeq(FlattenSeq(g)) /\ IsSeq(FlattenSeq(f))
  BY <1>3, SeqIs
<1> QED
  BY <1>3, <1>4 DEF g

Marker(name) == Instr("block", NoType, NoDst, <<>>, 0, <<name>>)
Unit(blk) == <<Marker(blk.name)>> \o blk.instrs
Units(g, n) == [b \in 1..n |-> Unit(g.blocks[b])]
Upto(g, n)  == FlattenSeq(Units(g, n))

LEMMA UnitIs ==
  ASSUME NEW name, NEW instrs, IsSeq(instrs)
  PROVE  IsSeq(<<Marker(name)>> \o instrs)
<1>1. IsSeq(<<Marker(name)>>)
  <2>1. <<Marker(name)>> \in Seq({Marker(name)})
    OBVIOUS
  <2> QED
    BY <2>1, SeqIs
<1> QED
  BY <1>1, ConcatIs

LEMMA CodeUpto ==
  ASSUME NEW g, IsFunc(g)
  PROVE  /\ Len(g.blocks) \in Nat /\ CodeOf(g) = Upto(g, Len(g.blocks))
         /\ \A n \in 0..Len(g.blocks) : IsSeq(Upto(g, n))
         /\ \A n \in 0..Len(g.blocks)-1 : Upto(g, n+1) = Upto(g, n) \o Unit(g.blocks[n+1])
         /\ Upto(g, 0) = <<>>
<1>1. Len(g.blocks) \in Nat /\ DOMAIN g.blocks = 1..Len(g.blocks)
  BY SeqIs DEF IsFunc, IsSeq
<1>2. CodeOf(g) = Upto(g, Len(g.blocks))
  BY <1>1 DEF CodeOf, Upto, Units, Unit, Marker
<1>3. Upto(g, 0) = <<>>
  <2>1. Units(g, 0) = <<>>
    BY DEF Units
  <2> QED
    BY <2>1, FlattenEmpty DEF Upto
<1>4. ASSUME NEW n \in 0..Len(g.blocks)-1
      PROVE  IsSeq(Upto(g, n)) /\ IsSeq(Upto(g, n+1)) /\ Upto(g, n+1) = Upto(g, n) \o Unit(g.blocks[n+1])
  <2> DEFINE f == Units(g, n+1)
  <2>1. n \in Nat /\ n+1 \in 1..Len(g.blocks) /\ n+1 \in 1..n+1
    BY <1>1
  <2>2. f = [i \in 1..n+1 |-> f[i]] /\ \A i \in 1..n+1 : f[i] = Unit(g.blocks[i])
    BY DEF Units
  <2>3. \A i \in 1..n+1 : IsSeq(f[i])
    <3> SUFFICES ASSUME NEW i \in 1..n+1 PROVE IsSeq(Unit(g.blocks[i]))
      BY <2>2
    <3>1. i \in 1..Len(g.blocks)
      BY <1>1
    <3>2. IsSeq(g.blocks[i].instrs)
      BY <3>1 DEF IsFunc
    <3> QED
      BY <3>2, UnitIs DEF Unit
  <2>4. [i \in 1..n |-> f[i]] = Units(g, n)
    BY <1>1 DEF Units
  <2> HIDE DEF f
  <2>5. /\ IsSeq(FlattenSeq([i \in 1..n |-> f[i]])) /\ IsSeq(FlattenSeq(f))
        /\ FlattenSeq(f) = FlattenSeq([i \in 1..n |-> f[i]]) \o f[n+1]
    BY <2>1, <2>2, <2>3, FlattenMore
  <2>6. FlattenSeq(f) = Upto(g, n+1)
    BY DEF Upto, f
  <2>7. f[n+1] = Unit(g.blocks[n+1])
    BY <2>1, <2>2
  <2> QED
    BY <2>4, <2>5, <2>6, <2>7 DEF Upto
<1>5. IsSeq(<<>>)
  BY SeqIs, <<>> \in Seq({})
<1>6. \A n \in 0..Len(g.blocks) : IsSeq(Upto(g, n))
  <2> SUFFICES ASSUME NEW n \in 0..Len(g.blocks) PROVE IsSeq(Upto(g, n))
    OBVIOUS
  <2>1. CASE n = 0
    BY <1>3, <1>5, <2>1
  <2>2. CASE n # 0
    <3>1. n-1 \in 0..Len(g.blocks)-1 /\ (n-1)+1 = n
      BY <1>1, <2>2
    <3>2. IsSeq(Upto(g, (n-1)+1))
      BY <1>4, <3>1
    <3> QED
      BY <3>1, <3>2
  <2> QED
    BY <2>1, <2>2
<1> QED
  BY <1>1, <1>2, <1>3, <1>4, <1>6

PutIn(g, b, new) == [g EXCEPT !.blocks[b].instrs = @ \o new]

LEMMA CodePut ==
  ASSUME NEW g, IsFunc(g), NEW b, b = Len(g.blocks), b > 0, NEW new, IsSeq(new)
  PROVE  LET g2 == PutIn(g, b, new)
         IN  /\ IsFunc(g2) /\ Len(g2.blocks) = Len(g.blocks) /\ CodeOf(g2) = CodeOf(g) \o new
             /\ g2.nparams = g.nparams /\ g2.vararg = g.vararg /\ IsSeq(CodeOf(g))
<1> DEFINE n == b-1
           g2 == PutIn(g, b, new)
           blk == [g.blocks[b] EXCEPT !.instrs = @ \o new]
           bs == g.blocks
           bs2 == [bs EXCEPT ![b] = blk]
<1>1. b \in Nat /\ b \in 1..Len(bs) /\ n \in 0..Len(bs)-1 /\ n+1 = b /\ Len(bs) \in Nat /\ DOMAIN bs = 1..Len(bs) /\ n \in Nat
      /\ n+1 = Len(bs) /\ Len(bs) \in 0..Len(bs) /\ n \in 0..Len(bs)
  <2>1. Len(g.blocks) \in Nat /\ DOMAIN g.blocks = 1..Len(g.blocks)
    BY SeqIs DEF IsFunc, IsSeq
  <2> QED
    BY <2>1
<1>2. g2 = [g EXCEPT !.blocks = bs2]
  BY DEF PutIn
<1>3. g = [nparams |-> g.nparams, vararg |-> g.vararg, blocks |-> bs]
  BY DEF IsFunc
<1>4. g.blocks[b] = [name |-> g.blocks[b].name, instrs |-> g.blocks[b].instrs] /\ IsSeq(g.blocks[b].instrs)
  BY <1>1 DEF IsFunc
<1>5. blk.name = g.blocks[b].name /\ blk.instrs = g.blocks[b].instrs \o new /\ blk = [name |-> blk.name, instrs |-> blk.instrs]
  <2> DEFINE old == g.blocks[b]
             x == old.name
             y == old.instrs
             z == y \o new
             both == [old EXCEPT !.instrs = z]
  <2>1. old = [name |-> x, instrs |-> y] /\ blk = both
    BY <1>4
  <2> HIDE DEF x, y, z, old, blk
  <2>2. both = [name |-> x, instrs |-> z]
    BY <2>1
  <2> HIDE DEF both
  <2>3. blk.name = x /\ blk.instrs = z /\ blk = [name |-> blk.name, instrs |-> blk.instrs]
    BY <2>1, <2>2
  <2> QED
    BY <2>3 DEF x, y, z, old
<1>6. IsSeq(blk.instrs)
  BY <1>4, <1>5, ConcatIs
<1>7. IsSeq(bs) /\ bs = [i \in 1..Len(bs) |-> bs[i]]
  BY SeqIs DEF IsFunc, IsSeq
<1> HIDE DEF blk, bs, n
<1>8. bs2 = [i \in 1..Len(bs) |-> IF i = b THEN blk ELSE bs[i]]
  BY <1>1, <1>7
<1>9. bs2 = [i \in 1..Len(bs) |-> bs2[i]] /\ bs2[b] = blk /\ \A i \in 1..Len(bs) : i # b => bs2[i] = bs[i]
  BY <1>1, <1>8
<1> HIDE DEF bs2
<1>10. IsSeq(bs2) /\ Len(bs2) = Len(bs)
  BY <1>1, <1>9, FunctionIsSeq
<1>11. g2.blocks = bs2 /\ g2.nparams = g.nparams /\ g2.vararg = g.vararg
       /\ g2 = [nparams |-> g2.nparams, vararg |-> g2.vararg, blocks |-> g2.blocks]
  <2> HIDE DEF g2
  <2> DEFINE x == g.nparams
             y == g.vararg
  <2>1. g = [nparams |-> x, vararg |-> y, blocks |-> bs]
    BY <1>3
  <2> HIDE DEF x, y
  <2>2. g2 = [nparams |-> x, vararg |-> y, blocks |-> bs2]
    BY <1>2, <2>1
  <2>3. g.nparams = x /\ g.vararg = y
    BY DEF x, y
  <2> QED
    BY <2>2, <2>3
<1> HIDE DEF g2
<1>12. IsFunc(g2)
  <2>1. ASSUME NEW i \in 1..Len(bs2)
        PROVE bs2[i] = [name |-> bs2[i].name, instrs |-> bs2[i].instrs] /\ IsSeq(bs2[i].instrs)
    <3>1. CASE i = b
      BY <1>5, <1>6, <1>9, <3>1
    <3>2. CASE i # b
      <4>1. bs2[i] = bs[i] /\ i \in 1..Len(bs)
        BY <1>9, <1>10, <3>2
      <4> QED
        BY <4>1 DEF IsFunc, bs
    <3> QED
      BY <3>1, <3>2
  <2> QED
    BY <1>10, <1>11, <2>1 DEF IsFunc
<1>13. Upto(g2, n) = Upto(g, n)
  <2>1. \A i \in 1..n : bs2[i] = bs[i]
    BY <1>1, <1>9
  <2>2. Units(g2, n) = Units(g, n)
    BY <1>11, <2>1 DEF Units, bs
  <2> QED
    BY <2>2 DEF Upto
<1>14. CodeOf(g2) = Upto(g, n) \o Unit(blk)
  <2>0. Len(g2.blocks) = n+1 /\ n \in 0..Len(g2.blocks)-1 /\ g2.blocks[n+1] = blk
    BY <1>1, <1>9, <1>10, <1>11
  <2>1. CodeOf(g2) = Upto(g2, n+1) /\ Upto(g2, n+1) = Upto(g2, n) \o Unit(g2.blocks[n+1])
    BY <1>12, <2>0, CodeUpto
  <2> QED
    BY <1>13, <2>0, <2>1
<1>15. CodeOf(g) = Upto(g, n) \o Unit(g.blocks[b]) /\ IsSeq(CodeOf(g)) /\ IsSeq(Upto(g, n))
  <2>0. Len(g.blocks) = n+1 /\ n \in 0..Len(g.blocks)-1 /\ n \in 0..Len(g.blocks) /\ n+1 \in 0..Len(g.blocks)
    BY <1>1 DEF bs
  <2>1. CodeOf(g) = Upto(g, n+1) /\ Upto(g, n+1) = Upto(g, n) \o Unit(g.blocks[n+1]) /\ IsSeq(Upto(g, n+1)) /\ IsSeq(Upto(g, n))
    BY <2>0, CodeUpto
  <2> QED
    BY <1>1, <2>1
<1>16. Unit(blk) = Unit(g.blocks[b]) \o new /\ IsSeq(Unit(g.blocks[b]))
  <2> DEFINE u == <<Marker(blk.name)>>
             v == g.blocks[b].instrs
  <2>1. IsSeq(u)
    BY SeqIs, u \in Seq({Marker(blk.name)})
  <2>2. Unit(g.blocks[b]) = u \o v /\ Unit(blk) = u \o (v \o new)
    BY <1>5 DEF Unit
  <2>3. IsSeq(v) /\ IsSeq(u \o v)
    BY <1>4, <2>1, ConcatIs
  <2> HIDE DEF u, v
  <2>4. (u \o v) \o new = u \o (v \o new)
    BY <2>1, <2>3, Associates
  <2> QED
    BY <2>2, <2>3, <2>4
<1>17. CodeOf(g2) = CodeOf(g) \o new
  <2> DEFINE u == Upto(g, n)
             v == Unit(g.blocks[b])
  <2>1. IsSeq(u) /\ IsSeq(v) /\ CodeOf(g) = u \o v /\ CodeOf(g2) = u \o (v \o new)
    BY <1>14, <1>15, <1>16
  <2> HIDE DEF u, v
  <2>2. (u \o v) \o new = u \o (v \o new)
    BY <2>1, Associates
  <2> QED
    BY <2>1, <2>2
<1> QED
  BY <1>10, <1>11, <1>12, <1>15, <1>17 DEF g2, bs

LEMMA CodeBlock ==
  ASSUME NEW g, IsFunc(g), NEW name
  PROVE  LET g2 == [g EXCEPT !.blocks = Append(@, [name |-> name, instrs |-> <<>>])]
         IN  /\ IsFunc(g2) /\ Len(g2.blocks) = Len(g.blocks) + 1 /\ CodeOf(g2) = CodeOf(g) \o <<Marker(name)>>
             /\ g2.nparams = g.nparams /\ g2.vararg = g.vararg /\ IsSeq(CodeOf(g))
<1> DEFINE blk == [name |-> name, instrs |-> <<>>]
           g2 == [g EXCEPT !.blocks = Append(@, blk)]
           bs == g.blocks
           n == Len(bs)
           bs2 == Append(bs, blk)
<1>1. n \in Nat /\ IsSeq(bs) /\ n \in 0..n /\ IsSeq(<<>>)
  <2>1. IsSeq(bs)
    BY DEF IsFunc
  <2>2. n \in Nat
    BY <2>1, SeqIs DEF IsSeq
  <2>3. IsSeq(<<>>)
    BY SeqIs, <<>> \in Seq({})
  <2> QED
    BY <2>1, <2>2, <2>3
<1>2. IsSeq(bs2) /\ Len(bs2) = n+1 /\ bs2[n+1] = blk /\ \A i \in 1..n : bs2[i] = bs[i]
  <2> HIDE DEF bs, blk
  <2> QED
    BY <1>1, AppendIs
<1>3. g = [nparams |-> g.nparams, vararg |-> g.vararg, blocks |-> bs]
  BY DEF IsFunc
<1>4. g2 = [g EXCEPT !.blocks = bs2]
  OBVIOUS
<1> HIDE DEF bs2, g2
<1>5. g2.blocks = bs2 /\ g2.nparams = g.nparams /\ g2.vararg = g.vararg
       /\ g2 = [nparams |-> g2.nparams, vararg |-> g2.vararg, blocks |-> g2.blocks]
  <2> DEFINE x == g.nparams
             y == g.vararg
  <2>1. g = [nparams |-> x, vararg |-> y, blocks |-> bs]
    BY <1>3
  <2> HIDE DEF x, y, bs
  <2>2. g2 = [nparams |-> x, vararg |-> y, blocks |-> bs2]
    BY <1>4, <2>1
  <2>3. g.nparams = x /\ g.vararg = y
    BY DEF x, y
  <2> QED
    BY <2>2, <2>3
<1>6. blk = [name |-> blk.name, instrs |-> blk.instrs] /\ blk.instrs = <<>> /\ blk.name = name
  OBVIOUS
<1> HIDE DEF blk
<1>7. IsFunc(g2)
  <2>1. ASSUME NEW i \in 1..Len(bs2)
        PROVE bs2[i] = [name |-> bs2[i].name, instrs |-> bs2[i].instrs] /\ IsSeq(bs2[i].instrs)
    <3>1. CASE i = n+1
      BY <1>1, <1>2, <1>6, <3>1
    <3>2. CASE i # n+1
      <4>1. i \in 1..Len(bs) /\ bs2[i] = bs[i]
        BY <1>1, <1>2, <3>2
      <4> QED
        BY <4>1 DEF IsFunc, bs
    <3> QED
      BY <3>1, <3>2
  <2> QED
    BY <1>2, <1>5, <2>1 DEF IsFunc
<1>8. Upto(g2, n) = Upto(g, n)
  <2>1. Units(g2, n) = Units(g, n)
    BY <1>2, <1>5 DEF Units, bs
  <2> QED
    BY <2>1 DEF Upto
<1>9. Unit(blk) = <<Marker(name)>>
  <2> DEFINE e == Marker(name)
  <2>1. Unit(blk) = <<e>> \o <<>>
    BY <1>6 DEF Unit
  <2> HIDE DEF e
  <2>2. <<e>> \o <<>> = <<e>>
    OBVIOUS
  <2> QED
    BY <2>1, <2>2 DEF e
<1>10. CodeOf(g2) = Upto(g, n) \o <<Marker(name)>>
  <2>0. Len(g2.blocks) = n+1 /\ n \in 0..Len(g2.blocks)-1 /\ g2.blocks[n+1] = blk
    BY <1>1, <1>2, <1>5
  <2>1. CodeOf(g2) = Upto(g2, n+1) /\ Upto(g2, n+1) = Upto(g2, n) \o Unit(g2.blocks[n+1])
    BY <1>7, <2>0, CodeUpto
  <2> QED
    BY <1>8, <1>9, <2>0, <2>1
<1>11. CodeOf(g) = Upto(g, n) /\ IsSeq(CodeOf(g))
  BY <1>1, CodeUpto
<1> QED
  BY <1>2, <1>5, <1>7, <1>10, <1>11 DEF g2, blk, n, bs

LEMMA CodeNone ==
  ASSUME NEW x, NEW y
  PROVE  LET g == [nparams |-> x, vararg |-> y, blocks |-> <<>>]
         IN  IsFunc(g) /\ CodeOf(g) = <<>>
<1> DEFINE g == [nparams |-> x, vararg |-> y, blocks |-> <<>>]
<1>1. g.nparams = x /\ g.vararg = y /\ g.blocks = <<>>
  OBVIOUS
<1>2. IsSeq(<<>>) /\ Len(<<>>) = 0
  BY SeqIs, <<>> \in Seq({})
<1> HIDE DEF g
<1>3. IsFunc(g)
  BY <1>1, <1>2 DEF IsFunc, g
<1>4. CodeOf(g) = <<>>
  BY <1>1, <1>2, <1>3, CodeUpto
<1> QED
  BY <1>3, <1>4 DEF g

-----------------------------------------------------------------------------
(* What a statement adds. *)
LEMMA StringsStep ==
  ASSUME NEW t, NEW j \in Nat
  PROVE  LET s == t[j+1]
         IN  /\ Strings(t, 1) = 0 /\ Strings(t, j+1) \in Nat
             /\ Strings(t, (j+1)+1) = IF s.means # <<>> /\ s.means[1].op = "str" THEN Strings(t, j+1) + 1 ELSE Strings(t, j+1)
<1> DEFINE is(i) == t[i].means # <<>> /\ t[i].means[1].op = "str"
           I(k) == {i \in 1..k : is(i)}
<1>1. ASSUME NEW k \in Nat PROVE IsFiniteSet(I(k)) /\ Strings(t, k+1) = Cardinality(I(k)) /\ Cardinality(I(k)) \in Nat
  <2>1. IsFiniteSet(1..k)
    BY FS_Interval
  <2>2. I(k) \in SUBSET (1..k)
    OBVIOUS
  <2>3. IsFiniteSet(I(k))
    <3> HIDE DEF I
    <3> QED
      BY <2>1, <2>2, FS_Subset
  <2>4. (k+1)-1 = k
    OBVIOUS
  <2>5. Strings(t, k+1) = Cardinality(I(k))
    BY <2>4 DEF Strings
  <2>6. Cardinality(I(k)) \in Nat
    <3> HIDE DEF I
    <3> QED
      BY <2>3, FS_CardinalityType
  <2> QED
    BY <2>3, <2>5, <2>6
<1>2. Strings(t, 1) = 0
  <2>1. I(0) = {}
    OBVIOUS
  <2>2. Strings(t, 0+1) = Cardinality(I(0))
    BY <1>1, 0 \in Nat
  <2> HIDE DEF I
  <2> QED
    BY <2>1, <2>2, FS_EmptySet
<1>3. Strings(t, (j+1)+1) = Cardinality(I(j+1)) /\ Strings(t, j+1) = Cardinality(I(j)) /\ Cardinality(I(j)) \in Nat /\ IsFiniteSet(I(j))
  <2>1. j+1 \in Nat
    OBVIOUS
  <2> HIDE DEF I
  <2> QED
    BY <1>1, <2>1
<1>4. CASE is(j+1)
  <2>1. \A i : i \in I(j+1) <=> i \in I(j) \/ i = j+1
    BY <1>4
  <2>2. I(j+1) = I(j) \cup {j+1} /\ j+1 \notin I(j)
    BY <2>1
  <2>3. Cardinality(I(j+1)) = Cardinality(I(j)) + 1
    <3> HIDE DEF I
    <3> QED
      BY <1>3, <2>2, FS_AddElement
  <2> QED
    BY <1>2, <1>3, <1>4, <2>3
<1>5. CASE ~is(j+1)
  <2>1. \A i : i \in I(j+1) <=> i \in I(j)
    <3> SUFFICES ASSUME NEW i PROVE i \in I(j+1) <=> i \in I(j)
      OBVIOUS
    <3>1. CASE i = j+1
      BY <1>5, <3>1
    <3>2. CASE i # j+1
      <4> HIDE DEF is
      <4>1. i \in 1..j+1 <=> i \in 1..j
        BY <3>2
      <4> QED
        BY <4>1
    <3> QED
      BY <3>1, <3>2
  <2>2. I(j+1) = I(j)
    BY <2>1
  <2> QED
    BY <1>2, <1>3, <1>5, <2>2
<1> QED
  BY <1>4, <1>5

LEMMA ElementIs ==
  ASSUME NEW S, NEW s \in Seq(S)
  PROVE  (\A a \in DOMAIN s : s[a] \in S) /\ \A a \in 1..Len(s) : s[a] \in S
OBVIOUS

LEMMA InTableStays ==
  ASSUME NEW q, NEW p, q.fp.n \in Nat, p.fp.n \in Nat, q.fp.n <= p.fp.n, NEW a \in Opd, InTable(q, a)
  PROVE  InTable(p, a)
<1>1. FpMax \in Nat
  BY IRAssumption
<1>2. Min({q.fp.n, FpMax}) = (IF q.fp.n <= FpMax THEN q.fp.n ELSE FpMax) /\ Min({p.fp.n, FpMax}) = IF p.fp.n <= FpMax THEN p.fp.n ELSE FpMax
  BY <1>1, MinOfTwo
<1>3. a.x \in Int
  BY DEF Opd
<1> QED
  BY <1>1, <1>2, <1>3 DEF InTable

LEMMA BuiltStays ==
  ASSUME NEW q, NEW p, q.fp.n \in Nat, p.fp.n \in Nat, q.fp.n <= p.fp.n, NEW fs, Built(q, fs)
  PROVE  Built(p, fs)
<1>1. ASSUME NEW g \in 1..Len(fs) PROVE Listed(p, fs[g])
  <2> DEFINE c == CodeOf(fs[g])
  <2>1. \A i \in 1..Len(c) : c[i].args \in Seq(Opd) /\ \A a \in DOMAIN c[i].args : InTable(q, c[i].args[a])
    BY DEF Built, Listed
  <2> HIDE DEF c
  <2>2. ASSUME NEW i \in 1..Len(c), NEW a \in DOMAIN c[i].args PROVE InTable(p, c[i].args[a])
    <3> DEFINE xs == c[i].args
    <3>1. xs \in Seq(Opd) /\ a \in DOMAIN xs /\ InTable(q, xs[a])
      BY <2>1, <2>2
    <3> HIDE DEF xs
    <3>2. xs[a] \in Opd
      BY <3>1, ElementIs
    <3>3. InTable(p, xs[a])
      BY <3>1, <3>2, InTableStays
    <3> QED
      BY <3>3 DEF xs
  <2> QED
    BY <2>1, <2>2 DEF Listed, c
<1> QED
  BY <1>1 DEF Built

LEMMA TellsStays ==
  ASSUME NEW S, NEW q, NEW p, Fine(S, q), Fine(S, p), Extends(q, p), NEW instr, NEW m, Tells(q, instr, m)
  PROVE  Tells(p, instr, m)
<1>1. Met(p, m.dst) /\ NumberIn(p, m.dst) = NumberIn(q, m.dst)
  BY NumberStays DEF Tells
<1>2. ASSUME NEW a \in 1..Len(m.args) PROVE Holds(p, instr.args[a], m.args[a])
  <2>1. instr.args[a] \in Opd /\ Holds(q, instr.args[a], m.args[a])
    <3> DEFINE xs == instr.args
               n == Len(m.args)
    <3>1. xs \in Seq(Opd) /\ a \in 1..Len(xs)
      BY DEF Tells
    <3> HIDE DEF xs, n
    <3>2. xs[a] \in Opd
      BY <3>1, ElementIs
    <3> QED
      BY <3>2 DEF Tells, xs
  <2> QED
    BY <2>1, HoldsStays
<1> QED
  BY <1>1, <1>2 DEF Tells

(* The instruction m was to be, with the operands xs read for the words    *)
(* ws. *)
Gathered(q, d, xs, ws) ==
  /\ Met(q, d) /\ xs \in Seq(Opd) /\ Len(xs) = Len(ws) /\ IsSeq(ws)
  /\ \A i \in 1..Len(ws) : Holds(q, xs[i], ws[i])

LEMMA TellsIs ==
  ASSUME NEW q, NEW d, NEW xs, NEW ws, Gathered(q, d, xs, ws), NEW op, NEW ty, NEW pred, NEW labels
  PROVE  LET m == Instr(op, ty, d, ws, pred, labels)
         IN  Tells(q, Instr(op, ty, NumberIn(q, d), xs, pred, labels), m) /\ m.op = op
<1> DEFINE m == Instr(op, ty, d, ws, pred, labels)
           x == NumberIn(q, d)
           instr == Instr(op, ty, x, xs, pred, labels)
<1>0. m = Instr(op, ty, d, ws, pred, labels) /\ instr = Instr(op, ty, x, xs, pred, labels)
  OBVIOUS
<1>1. m.dst = d /\ m.args = ws /\ instr.args = xs /\ m.op = op
  BY DEF Instr
<1> HIDE DEF m, x, instr
<1>2. instr = [m EXCEPT !.dst = x, !.args = xs]
  <2> DEFINE m1 == [m EXCEPT !.dst = x]
             m2 == [m1 EXCEPT !.args = xs]
  <2>1. m1 = Instr(op, ty, x, ws, pred, labels)
    BY <1>0 DEF Instr
  <2>2. [m EXCEPT !.dst = x, !.args = xs] = m2
    BY <1>0 DEF Instr
  <2> HIDE DEF m1
  <2>3. m2 = Instr(op, ty, x, xs, pred, labels)
    BY <2>1 DEF Instr
  <2> QED
    BY <1>0, <2>2, <2>3
<1>3. DOMAIN ws = 1..Len(ws)
  BY SeqIs DEF IsSeq, Gathered
<1>4. Tells(q, instr, m)
  BY <1>1, <1>2, <1>3 DEF Tells, Gathered, x
<1> QED
  BY <1>1, <1>4 DEF x, instr, m

(* Within a function, reading statement j+1 has turned q0 into q.          *)
Went(t, j, q0, q) ==
  /\ j \in 0..Len(t)-1 /\ t[j+1].words[1] # Word("func")
  /\ Fine(NamesAt(t, j), q) /\ Extends(q0, q)
  /\ \A i \in 1..Len(t[j+1].words) : IsVreg(t[j+1].words[i]) => Met(q, t[j+1].words[i])

LEMMA VregsMet ==
  ASSUME NEW t, Conforms(t), NEW j, NEW q0, NEW q, Went(t, j, q0, q), Fine(NamesAt(t, j), q0),
         \A w \in ToSet(WordsIn(t, HeadAt(t, j), j)) : IsVreg(w) => Usable(NamesAt(t, j), w) /\ Met(q0, w)
  PROVE  /\ HeadAt(t, j+1) = HeadAt(t, j) /\ NamesAt(t, j+1) = NamesAt(t, j)
         /\ \A w \in ToSet(WordsIn(t, HeadAt(t, j), j+1)) : IsVreg(w) => Usable(NamesAt(t, j), w) /\ Met(q, w)
<1> DEFINE h == HeadAt(t, j)
           S == NamesAt(t, j)
<1>0. j \in 0..Len(t)-1 /\ j \in Nat /\ Len(t) \in Nat /\ t[j+1].words \in Seq(Words) /\ Len(t[j+1].words) \in Nat
  BY StatementsAre DEF Went
<1>1. HeadAt(t, j+1) = h /\ h \in 0..j
  BY <1>0, HeadStep DEF Went
<1>2. NamesAt(t, j+1) = S
  BY <1>1 DEF NamesAt
<1> HIDE DEF h, S
<1>3. WordsIn(t, h, j) \in Seq(Words) /\ WordsIn(t, h, j+1) = WordsIn(t, h, j) \o t[j+1].words
  BY <1>0, <1>1, WordsLast
<1>4. \A w \in ToSet(WordsIn(t, h, j+1)) : w \in ToSet(WordsIn(t, h, j)) \/ \E i \in 1..Len(t[j+1].words) : w = t[j+1].words[i]
  <2> DEFINE a == WordsIn(t, h, j)
             b == t[j+1].words
             c == WordsIn(t, h, j+1)
  <2>1. a \in Seq(Words) /\ b \in Seq(Words) /\ c = a \o b
    BY <1>0, <1>3
  <2> HIDE DEF a, b, c
  <2>2. DOMAIN c = 1..Len(a)+Len(b) /\ Len(a) \in Nat /\ Len(b) \in Nat
    BY <2>1
  <2>3. ASSUME NEW k \in 1..Len(a)+Len(b) PROVE c[k] \in ToSet(a) \/ \E i \in 1..Len(b) : c[k] = b[i]
    <3>1. CASE k <= Len(a)
      <4>1. k \in 1..Len(a) /\ c[k] = a[k] /\ DOMAIN a = 1..Len(a)
        BY <2>1, <2>2, <3>1
      <4> QED
        BY <4>1 DEF ToSet
    <3>2. CASE k > Len(a)
      <4>1. k-Len(a) \in 1..Len(b) /\ c[k] = b[k-Len(a)]
        BY <2>1, <2>2, <3>2
      <4> QED
        BY <4>1
    <3> QED
      BY <2>2, <3>1, <3>2
  <2>4. \A w \in ToSet(c) : w \in ToSet(a) \/ \E i \in 1..Len(b) : w = b[i]
    BY <2>2, <2>3 DEF ToSet
  <2> QED
    BY <2>4 DEF a, b, c
<1>5. ASSUME NEW w \in ToSet(WordsIn(t, h, j+1)), IsVreg(w) PROVE Usable(S, w) /\ Met(q, w)
  <2>1. CASE w \in ToSet(WordsIn(t, h, j))
    <3>1. Usable(S, w) /\ Met(q0, w)
      BY <1>5, <2>1 DEF h, S
    <3>2. Fine(S, q0) /\ Fine(S, q) /\ Extends(q0, q)
      BY DEF Went, S
    <3> QED
      BY <3>1, <3>2, NumberStays
  <2>2. ASSUME NEW i \in 1..Len(t[j+1].words), w = t[j+1].words[i] PROVE Usable(S, w) /\ Met(q, w)
    <3>1. Usable(NamesAt(t, j+1), w)
      BY <1>0, <1>5, <2>2, WordUsable
    <3> QED
      BY <1>2, <1>5, <2>2, <3>1 DEF Went
  <2> QED
    BY <1>4, <2>1, <2>2
<1> QED
  BY <1>1, <1>2, <1>5 DEF h, S

LEMMA ConcatEmpty ==
  ASSUME NEW s, IsSeq(s)
  PROVE  s \o <<>> = s /\ IsSeq(<<>>) /\ Len(<<>>) = 0
<1> DEFINE e == <<>>
<1>1. IsSeq(e) /\ Len(e) = 0
  BY SeqIs, <<>> \in Seq({})
<1> HIDE DEF e
<1>2. /\ IsSeq(s \o e) /\ Len(s \o e) = Len(s) + Len(e) /\ \A i \in 1..Len(s) : (s \o e)[i] = s[i]
  BY <1>1, ConcatIs
<1>3. Len(s) \in Nat
  BY SeqIs DEF IsSeq
<1>4. Len(s \o e) = Len(s) /\ \A i \in 1..Len(s \o e) : (s \o e)[i] = s[i]
  BY <1>1, <1>2, <1>3
<1>5. s \o e = s
  <2> DEFINE x == s \o e
  <2>1. IsSeq(x) /\ Len(x) = Len(s) /\ \A i \in 1..Len(x) : x[i] = s[i]
    BY <1>2, <1>4
  <2> HIDE DEF x
  <2> QED
    BY <2>1, SameSeq DEF x
<1> QED
  BY <1>1, <1>5 DEF e

(* A statement that adds no instruction, *)
Quiet(s, f, b, f2, b2) ==
  /\ s.means = <<>> /\ s.words[1] # Word("block")
  /\ IF s.words[1] = Word("}") THEN f2 = 0 /\ b2 = 0 ELSE f2 = f /\ b2 = b

LEMMA WentOn ==
  ASSUME NEW t, Conforms(t), NEW j, NEW q0, NEW q, Went(t, j, q0, q),
         NEW tys, NEW ns, NEW fs, NEW f, NEW b, Standing(t, j, q0, tys, ns, fs, f, b),
         NEW f2, NEW b2, Quiet(t[j+1], f, b, f2, b2),
         NEW tys2, tys2 = Known(t, (j+1)+1)
  PROVE  Standing(t, j+1, q, tys2, ns, fs, f2, b2)
<1> DEFINE h == HeadAt(t, j)
           S == NamesAt(t, j)
           s == t[j+1]
<1>1. /\ j \in 0..Len(t)-1 /\ s.words[1] # Word("func") /\ Fine(S, q) /\ Extends(q0, q) /\ Fine(S, q0)
      /\ tys = Known(t, j+1) /\ ns = Strings(t, j+1)
      /\ Built(q0, fs) /\ Scope(t, j, fs, f, b) /\ Coded(t, j, q0, fs)
  BY DEF Went, Standing
<1>2. Len(t) \in Nat /\ j \in Nat /\ j+1 \in 0..Len(t) /\ j+1 \in 1..Len(t) /\ h \in 0..j
  <2>1. Len(t) \in Nat /\ j \in 0..Len(t)-1
    BY StatementsAre DEF Went
  <2>2. j \in Nat /\ j+1 \in 0..Len(t) /\ j+1 \in 1..Len(t)
    BY <2>1
  <2>3. h \in 0..j
    BY <2>2, HeadStep
  <2> QED
    BY <2>1, <2>2, <2>3
<1>3. /\ HeadAt(t, j+1) = h /\ NamesAt(t, j+1) = S
      /\ \A w \in ToSet(WordsIn(t, h, j+1)) : IsVreg(w) => Usable(S, w) /\ Met(q, w)
  BY <1>1, VregsMet DEF Standing
<1>4. tys2 = Known(t, (j+1)+1)
  OBVIOUS
<1>5. ns = Strings(t, (j+1)+1)
  <2>1. Strings(t, (j+1)+1) = IF s.means # <<>> /\ s.means[1].op = "str" THEN Strings(t, j+1) + 1 ELSE Strings(t, j+1)
    BY <1>2, StringsStep
  <2> QED
    BY <1>1, <2>1 DEF Quiet
<1>6. Built(q, fs)
  <2>1. q0.fp.n \in Nat /\ q.fp.n \in Nat /\ q0.fp.n <= q.fp.n
    BY <1>1, FineHas DEF Extends
  <2> QED
    BY <1>1, <2>1, BuiltStays
<1>7. Scope(t, j+1, fs, f2, b2)
  <2>1. /\ Outside(t, j+1) <=> s.words[1] = Word("}") \/ (s.words[1] # Word("func") /\ Outside(t, j))
        /\ InBlock(t, j+1) <=> s.words[1] = Word("block") \/ (s.words[1] # Word("func") /\ s.words[1] # Word("}") /\ InBlock(t, j))
    BY <1>2, HeadStep
  <2> QED
    BY <1>1, <2>1 DEF Scope, Quiet
<1>8. Coded(t, j+1, q, fs)
  <2> DEFINE g == fs[Len(fs)]
             m == MeansIn(t, h, j)
             m2 == MeansIn(t, h, j+1)
             c == CodeOf(g)
  <2>1. m2 = m
    <3>1. IsSeq(m) /\ m2 = m \o <<>>
      BY <1>1, <1>2, MeansLast DEF Quiet
    <3> HIDE DEF m, m2
    <3> QED
      BY <3>1, ConcatEmpty
  <2>2. SUFFICES ASSUME h # 0
                 PROVE  /\ Len(fs) > 0 /\ g.nparams = t[h].params /\ g.vararg = t[h].vararg
                        /\ Len(c) = Len(m) /\ \A i \in 1..Len(m) : Tells(q, c[i], m[i])
    BY <1>3, <2>1 DEF Coded
  <2>3. /\ Len(fs) > 0 /\ g.nparams = t[h].params /\ g.vararg = t[h].vararg
        /\ Len(c) = Len(m) /\ \A i \in 1..Len(m) : Tells(q0, c[i], m[i])
    BY <1>1, <2>2 DEF Coded
  <2> HIDE DEF h, S, c, m, g
  <2>4. \A i \in 1..Len(m) : Tells(q, c[i], m[i])
    BY <1>1, <2>3, TellsStays
  <2> QED
    BY <2>3, <2>4
<1> QED
  BY <1>1, <1>2, <1>3, <1>4, <1>5, <1>6, <1>7, <1>8 DEF Standing

(* and one that adds nothing. *)
Silent(s, f, b, f2, b2) == Quiet(s, f, b, f2, b2) /\ s.types = <<>>

LEMMA Passed ==
  ASSUME NEW t, Conforms(t), NEW j, NEW q0, NEW q, Went(t, j, q0, q),
         NEW tys, NEW ns, NEW fs, NEW f, NEW b, Standing(t, j, q0, tys, ns, fs, f, b),
         NEW f2, NEW b2, Silent(t[j+1], f, b, f2, b2)
  PROVE  Standing(t, j+1, q, tys, ns, fs, f2, b2)
<1> DEFINE x == Known(t, j+1)
           y == Known(t, (j+1)+1)
<1>1. tys = x /\ j \in 0..Len(t)-1 /\ Len(t) \in Nat
  BY StatementsAre DEF Standing, Went
<1>2. j+1 \in 1..Len(t)
  BY <1>1
<1>3. t[j+1].types = <<>> /\ Quiet(t[j+1], f, b, f2, b2)
  BY DEF Silent
<1>4. IsSeq(x) /\ y = x \o <<>>
  BY <1>2, <1>3, KnownLast
<1> HIDE DEF x, y
<1>5. tys = y
  BY <1>1, <1>4, ConcatEmpty
<1> QED
  BY <1>3, <1>5, WentOn DEF y

(* A statement whose instructions are put into the current block. *)
Sounds(s, q, new) ==
  /\ s.types = <<>> /\ s.words[1] # Word("block") /\ s.words[1] # Word("}")
  /\ IsSeq(new) /\ Len(new) = Len(s.means) /\ \A i \in 1..Len(s.means) : Tells(q, new[i], s.means[i])

LEMMA Emitted ==
  ASSUME NEW t, Conforms(t), NEW j, NEW q0, NEW q, Went(t, j, q0, q),
         NEW tys, NEW ns, NEW fs, NEW f, NEW b, Standing(t, j, q0, tys, ns, fs, f, b),
         InBlock(t, j), NEW new, Sounds(t[j+1], q, new),
         NEW ns2, ns2 = Strings(t, (j+1)+1)
  PROVE  Standing(t, j+1, q, tys, ns2, [fs EXCEPT ![f].blocks[b].instrs = @ \o new], f, b)
<1> DEFINE h == HeadAt(t, j)
           S == NamesAt(t, j)
           s == t[j+1]
           g == fs[f]
           g2 == PutIn(g, b, new)
           fs2 == [fs EXCEPT ![f].blocks[b].instrs = @ \o new]
<1>1. /\ j \in 0..Len(t)-1 /\ s.words[1] # Word("func") /\ Fine(S, q) /\ Extends(q0, q) /\ Fine(S, q0)
      /\ tys = Known(t, j+1)
      /\ Built(q0, fs) /\ Scope(t, j, fs, f, b) /\ Coded(t, j, q0, fs)
  BY DEF Went, Standing
<1>2. Len(t) \in Nat /\ j \in Nat /\ j+1 \in 0..Len(t) /\ j+1 \in 1..Len(t) /\ h \in 0..j
  <2>1. Len(t) \in Nat /\ j \in 0..Len(t)-1
    BY StatementsAre DEF Went
  <2>2. j \in Nat /\ j+1 \in 0..Len(t) /\ j+1 \in 1..Len(t)
    BY <2>1
  <2>3. h \in 0..j
    BY <2>2, HeadStep
  <2> QED
    BY <2>1, <2>2, <2>3
<1>3. /\ HeadAt(t, j+1) = h /\ NamesAt(t, j+1) = S
      /\ \A w \in ToSet(WordsIn(t, h, j+1)) : IsVreg(w) => Usable(S, w) /\ Met(q, w)
  BY <1>1, VregsMet DEF Standing
<1>4. tys = Known(t, (j+1)+1)
  <2> DEFINE x == Known(t, j+1)
             y == Known(t, (j+1)+1)
  <2>1. IsSeq(x) /\ y = x \o <<>>
    BY <1>2, KnownLast DEF Sounds
  <2> HIDE DEF x, y
  <2>2. x \o <<>> = x
    BY <2>1, ConcatEmpty
  <2> QED
    BY <1>1, <2>1, <2>2 DEF x, y
<1>5. f = Len(fs) /\ f > 0 /\ b = Len(g.blocks) /\ b > 0 /\ IsSeq(fs) /\ Len(fs) \in Nat /\ f \in 1..Len(fs)
      /\ fs = [i \in 1..Len(fs) |-> fs[i]]
  <2>1. f = Len(fs) /\ f > 0 /\ b = Len(g.blocks) /\ b > 0 /\ IsSeq(fs)
    BY <1>1 DEF Scope, Built
  <2>2. Len(fs) \in Nat /\ fs = [i \in 1..Len(fs) |-> fs[i]]
    BY <2>1, SeqIs DEF IsSeq
  <2> QED
    BY <2>1, <2>2
<1>6. IsFunc(g) /\ Listed(q, g)
  <2>1. q0.fp.n \in Nat /\ q.fp.n \in Nat /\ q0.fp.n <= q.fp.n
    BY <1>1, FineHas DEF Extends
  <2>2. Built(q, fs)
    BY <1>1, <2>1, BuiltStays
  <2> QED
    BY <1>5, <2>2 DEF Built
<1>70. IsSeq(new) /\ Len(new) = Len(s.means)
  BY DEF Sounds
<1>7. /\ IsFunc(g2) /\ Len(g2.blocks) = Len(g.blocks) /\ CodeOf(g2) = CodeOf(g) \o new
      /\ g2.nparams = g.nparams /\ g2.vararg = g.vararg /\ IsSeq(CodeOf(g))
  <2>1. IsFunc(g) /\ b = Len(g.blocks) /\ b > 0 /\ IsSeq(new)
    BY <1>5, <1>6, <1>70
  <2> HIDE DEF g
  <2> QED
    BY <2>1, CodePut
<1>8. fs2 = [fs EXCEPT ![f] = g2]
  BY <1>5 DEF PutIn
<1> HIDE DEF fs2, g2
<1>9. IsSeq(fs2) /\ Len(fs2) = Len(fs) /\ fs2[f] = g2 /\ \A i \in 1..Len(fs) : i # f => fs2[i] = fs[i]
  <2>1. fs2 = [i \in 1..Len(fs) |-> IF i = f THEN g2 ELSE fs[i]]
    BY <1>5, <1>8
  <2>2. fs2 = [i \in 1..Len(fs) |-> fs2[i]] /\ fs2[f] = g2 /\ \A i \in 1..Len(fs) : i # f => fs2[i] = fs[i]
    BY <1>5, <2>1
  <2>3. IsSeq(fs2) /\ Len(fs2) = Len(fs)
    BY <1>5, <2>2, FunctionIsSeq
  <2> QED
    BY <2>2, <2>3
<1> DEFINE c == CodeOf(g)
           c2 == CodeOf(g2)
           n == Len(c)
           k == Len(new)
<1>10. n \in Nat /\ k \in Nat /\ Len(c2) = n + k /\ (\A i \in 1..n : c2[i] = c[i]) /\ \A i \in 1..k : c2[n+i] = new[i]
  <2>1. IsSeq(c) /\ c2 = c \o new /\ IsSeq(new)
    BY <1>7, <1>70
  <2> HIDE DEF c, c2
  <2>2. Len(c) \in Nat /\ Len(new) \in Nat
    BY <2>1, SeqIs DEF IsSeq
  <2> QED
    BY <2>1, <2>2, ConcatIs
<1>11. \A i \in 1..n+k : i \in 1..n \/ (i-n \in 1..k /\ n+(i-n) = i)
  BY <1>10
<1>12. \A i \in 1..k : Tells(q, new[i], s.means[i])
  BY <1>70 DEF Sounds
<1>13. Listed(q, g2)
  <2> SUFFICES ASSUME NEW i \in 1..Len(c2)
               PROVE  c2[i].args \in Seq(Opd) /\ \A a \in DOMAIN c2[i].args : InTable(q, c2[i].args[a])
    BY DEF Listed
  <2>1. CASE i \in 1..n
    <3>1. c2[i] = c[i]
      BY <1>10, <2>1
    <3> QED
      BY <1>6, <2>1, <3>1 DEF Listed
  <2>2. CASE i \notin 1..n
    <3> DEFINE p == i-n
               x == new[p]
               y == s.means[p]
    <3>1. p \in 1..k /\ c2[i] = x
      <4>1. i \in 1..n+k
        BY <1>10
      <4>2. p \in 1..k /\ n+p = i
        BY <1>11, <2>2, <4>1
      <4> QED
        BY <1>10, <4>2
    <3>2. Tells(q, x, y)
      BY <1>12, <3>1
    <3> HIDE DEF x, y
    <3>3. x.args \in Seq(Opd) /\ Len(x.args) = Len(y.args) /\ \A a \in 1..Len(y.args) : InTable(q, x.args[a])
      BY <3>2 DEF Tells, Holds
    <3>4. DOMAIN x.args = 1..Len(y.args)
      BY <3>3
    <3> QED
      BY <3>1, <3>3, <3>4
  <2> QED
    BY <2>1, <2>2
<1>14. Built(q, fs2)
  <2> SUFFICES ASSUME NEW i \in 1..Len(fs2) PROVE IsFunc(fs2[i]) /\ Listed(q, fs2[i])
    BY <1>9 DEF Built
  <2>1. CASE i = f
    BY <1>7, <1>9, <1>13, <2>1
  <2>2. CASE i # f
    <3>1. fs2[i] = fs[i] /\ i \in 1..Len(fs)
      BY <1>9, <2>2
    <3>2. q0.fp.n \in Nat /\ q.fp.n \in Nat /\ q0.fp.n <= q.fp.n
      BY <1>1, FineHas DEF Extends
    <3>3. Built(q, fs)
      BY <1>1, <3>2, BuiltStays
    <3> QED
      BY <3>1, <3>3 DEF Built
  <2> QED
    BY <2>1, <2>2
<1>15. Scope(t, j+1, fs2, f, b)
  <2>1. /\ Outside(t, j+1) <=> s.words[1] = Word("}") \/ (s.words[1] # Word("func") /\ Outside(t, j))
        /\ InBlock(t, j+1) <=> s.words[1] = Word("block") \/ (s.words[1] # Word("func") /\ s.words[1] # Word("}") /\ InBlock(t, j))
    BY <1>2, HeadStep
  <2>2. fs2[f].blocks = g2.blocks /\ Len(g2.blocks) = b /\ f = Len(fs2)
    BY <1>5, <1>7, <1>9
  <2>3. b \in 0..b
    <3>1. b \in Nat
      BY <1>5, <1>6, SeqIs DEF IsFunc, IsSeq
    <3> QED
      BY <3>1
  <2> QED
    BY <1>1, <1>5, <2>1, <2>2, <2>3 DEF Scope, Sounds
<1>16. Coded(t, j+1, q, fs2)
  <2> DEFINE m == MeansIn(t, h, j)
             m2 == MeansIn(t, h, j+1)
  <2>1. IsSeq(m) /\ m2 = m \o s.means /\ IsSeq(s.means)
    BY <1>1, <1>2, MeansLast, StatementsAre
  <2>2. SUFFICES ASSUME h # 0
                 PROVE  /\ g2.nparams = t[h].params /\ g2.vararg = t[h].vararg
                        /\ Len(c2) = Len(m2) /\ \A i \in 1..Len(m2) : Tells(q, c2[i], m2[i])
    BY <1>3, <1>5, <1>9 DEF Coded
  <2>3. /\ g.nparams = t[h].params /\ g.vararg = t[h].vararg
        /\ n = Len(m) /\ \A i \in 1..Len(m) : Tells(q0, c[i], m[i])
    BY <1>1, <1>5, <2>2 DEF Coded
  <2> HIDE DEF h, S, c, m, g, c2, m2, n
  <2>4. \A i \in 1..n : Tells(q, c[i], m[i])
    BY <1>1, <2>3, TellsStays
  <2>5. Len(m2) = n + k /\ (\A i \in 1..n : m2[i] = m[i]) /\ \A i \in 1..k : m2[n+i] = s.means[i]
    <3>1. k = Len(s.means)
      BY <1>70
    <3> HIDE DEF k, s
    <3> QED
      BY <2>1, <2>3, <3>1, ConcatIs
  <2>6. ASSUME NEW i \in 1..n+k PROVE Tells(q, c2[i], m2[i])
    <3>1. CASE i \in 1..n
      BY <1>10, <2>4, <2>5, <3>1
    <3>2. CASE i \notin 1..n
      <4> DEFINE p == i-n
      <4>1. p \in 1..k /\ n+p = i
        BY <1>11, <3>2
      <4> HIDE DEF p, k
      <4>2. c2[n+p] = new[p] /\ m2[n+p] = s.means[p] /\ Tells(q, new[p], s.means[p])
        BY <1>10, <1>12, <2>5, <4>1
      <4> QED
        BY <4>1, <4>2
    <3> QED
      BY <3>1, <3>2
  <2> QED
    BY <1>7, <1>10, <2>3, <2>5, <2>6
<1>17. Standing(t, j+1, q, tys, ns2, fs2, f, b)
  BY <1>1, <1>2, <1>3, <1>4, <1>14, <1>15, <1>16 DEF Standing
<1> QED
  BY <1>17 DEF fs2

-----------------------------------------------------------------------------
(* The front of the file. *)
LEMMA FrontIs ==
  ASSUME NEW t, Conforms(t), NEW j \in 0..Len(t), NEW q, Fine(NamesAt(t, j), q), q.rest = WordsIn(t, j, Len(t))
  PROVE  LET T == WordsIn(t, j, Len(t))
             s == t[j+1]
             n == Len(s.words)
         IN  /\ T \in Seq(Words) /\ Reads(NamesAt(t, j), T, 0, q) /\ (q.rest # <<>> => j < Len(t))
             /\ j < Len(t) => /\ n \in 1..Len(T) /\ Drop(T, n) = WordsIn(t, j+1, Len(t)) /\ Peek(q) = s.words[1]
                              /\ \A i \in 1..n : T[i] = s.words[i]
<1> DEFINE T == WordsIn(t, j, Len(t))
           s == t[j+1]
           n == Len(s.words)
           U == WordsIn(t, j+1, Len(t))
           S == NamesAt(t, j)
<1>1. Len(t) \in Nat /\ j \in Nat
  BY StatementsAre
<1>2. CASE j = Len(t)
  <2>1. T = <<>>
    BY <1>1, <1>2, WordsNone
  <2>2. T \in Seq(Words) /\ 0 \in 0..Len(T) /\ Drop(T, 0) = T
    <3>1. <<>> \in Seq(Words)
      OBVIOUS
    <3>2. Drop(<<>>, 0) = <<>>
      BY <3>1, DropAll
    <3> QED
      BY <2>1, <3>1, <3>2
  <2> HIDE DEF T, S
  <2>3. Reads(S, T, 0, q)
    BY <2>2 DEF Reads, T, S
  <2> QED
    BY <1>1, <1>2, <2>1, <2>2, <2>3 DEF T, S
<1>3. CASE j < Len(t)
  <2>1. j \in 0..Len(t)-1 /\ j+1 \in 1..Len(t)
    BY <1>1, <1>3
  <2>2. s.words \in Seq(Words) /\ Len(s.words) \in Nat \ {0}
    BY <2>1, StatementsAre
  <2>3. U \in Seq(Words) /\ T = s.words \o U
    BY <2>1, WordsFirst
  <2> DEFINE a == s.words
  <2> HIDE DEF T, U, S, a
  <2>4. T \in Seq(Words) /\ Len(T) = Len(a) + Len(U) /\ (\A i \in 1..Len(a) : T[i] = a[i]) /\ \A i \in 1..Len(U) : T[Len(a)+i] = U[i]
    <3>1. T \in Seq(Words)
      BY <2>2, <2>3 DEF a
    <3>2. IsSeq(a) /\ IsSeq(U)
      BY <2>2, <2>3, SeqIs DEF a
    <3> QED
      BY <2>3, <3>1, <3>2, ConcatIs DEF a
  <2>5. Len(a) \in 1..Len(T) /\ Len(U) \in Nat /\ Len(a) \in 0..Len(T) /\ 0 \in 0..Len(T) /\ Len(T) - Len(a) = Len(U) /\ 1 \in 1..Len(a)
    BY <2>2, <2>3, <2>4 DEF a
  <2>6. Drop(T, Len(a)) = U
    <3> DEFINE x == Drop(T, Len(a))
    <3> DEFINE c == Len(a)
    <3>0. c \in 0..Len(T) /\ Len(T) - c = Len(U) /\ T \in Seq(Words)
      BY <2>4, <2>5
    <3> HIDE DEF c, x
    <3>1. x \in Seq(Words) /\ Len(x) = Len(U) /\ \A i \in 1..Len(U) : x[i] = T[c+i]
      <4>1. Drop(T, c) \in Seq(Words) /\ Len(Drop(T, c)) = Len(T)-c /\ \A i \in 1..Len(T)-c : Drop(T, c)[i] = T[c+i]
        BY <3>0, DropIs
      <4> QED
        BY <3>0, <4>1 DEF x, c
    <3>2. IsSeq(x) /\ IsSeq(U)
      BY <2>3, <3>1, SeqIs
    <3> QED
      BY <2>4, <3>1, <3>2, SameSeq DEF x, c
  <2>7. Reads(S, T, 0, q)
    BY <2>4, <2>5, DropAll DEF Reads, T, S
  <2>8. Peek(q) = T[0+1]
    BY <2>4, <2>5, <2>7, PeekIs
  <2>9. Peek(q) = a[1]
    BY <2>4, <2>5, <2>8
  <2> QED
    BY <1>3, <2>4, <2>5, <2>6, <2>7, <2>9 DEF T, U, S, a
<1> QED
  BY <1>1, <1>2, <1>3

(* A statement that begins with no heading. *)
IsInstruction(t, j, s) ==
  /\ s.words[1] \notin {Word("func"), Word("}"), Word("block"), Word("type")} /\ Rest(s) >= 0
  /\ s.words \in Seq(Words) /\ OpWord(s).k = "word" /\ (Body(s) = 2 => s.words[2] = Word("=")) /\ s.types = <<>>
  /\ \/ Instructed(t, j+1) /\ InBlock(t, j) /\ OpWord(s).s \in Opcodes
     \/ Ignored(s) /\ s.means = <<>> /\ OpWord(s).s \notin Opcodes \ {"str"} /\ Rest(s) = 0

LEMMA NoHeading ==
  ASSUME NEW w, OpOf(w) \notin Headings
  PROVE  w \notin {Word("func"), Word("}"), Word("block"), Word("type"), Word("{"), Word("("), Word(")"), Word(","), Word("=")}
<1>1. ASSUME NEW s, w = Word(s) PROVE OpOf(w) = s
  BY <1>1 DEF OpOf, Word
<1>2. \A s \in Headings : w # Word(s)
  BY <1>1
<1> QED
  BY <1>2 DEF Headings

LEMMA StatementIs ==
  ASSUME NEW t, Conforms(t), NEW j \in 0..Len(t)-1, OpOf(t[j+1].words[1]) \notin Headings
  PROVE  IsInstruction(t, j, t[j+1]) /\ NamesAt(t, j+1) = NamesAt(t, j)
<1> DEFINE s == t[j+1]
           w == s.words[1]
<1>1. j+1 \in 1..Len(t) /\ j \in Nat /\ (j+1)-1 = j
  BY StatementsAre
<1>2. Allowed(t, j+1) /\ s.words \in Seq(Words)
  BY <1>1, StatementsAre
<1>3. w \notin {Word("func"), Word("}"), Word("block"), Word("type"), Word("{"), Word("("), Word(")"), Word(","), Word("=")}
  BY NoHeading
<1> HIDE DEF s
<1>4. Rest(s) >= 0 /\ (Ignored(s) \/ (Instructed(t, j+1) /\ InBlock(t, j)))
  BY <1>1, <1>2, <1>3 DEF Allowed, s
<1>5. ASSUME Ignored(s) PROVE IsInstruction(t, j, s)
  <2>1. s.means = <<>> /\ s.types = <<>> /\ OpWord(s).k = "word"
    BY <1>5 DEF Ignored, Plain
  <2>2. CASE Len(s.words) = 1 /\ OpWord(s).s \in {"{", "(", ")", ",", "="}
    <3>1. Body(s) \in {0, 2}
      BY DEF Body
    <3>2. Body(s) = 0
      <4>1. Body(s) # 2
        <5> SUFFICES ASSUME Body(s) = 2 PROVE FALSE
          OBVIOUS
        <5>1. Rest(s) = 1 - 2 - 1
          BY <2>2 DEF Rest
        <5> QED
          BY <1>4, <5>1
      <4> QED
        BY <3>1, <4>1
    <3>3. OpWord(s) = w
      BY <3>2 DEF OpWord, s
    <3> QED
      BY <2>1, <2>2, <3>3 DEF OpOf, Headings, s
  <2>3. CASE ~(Len(s.words) = 1 /\ OpWord(s).s \in {"{", "(", ")", ",", "="})
    <3>1. Rest(s) = 0 /\ (Body(s) = 2 => s.words[2] = Word("=")) /\ OpWord(s).s \notin Headings \cup (Opcodes \ {"str"})
      BY <1>5, <2>3 DEF Ignored
    <3>2. OpWord(s).s \notin Opcodes \ {"str"}
      BY <3>1
    <3> QED
      BY <1>2, <1>3, <1>4, <1>5, <2>1, <3>1, <3>2 DEF IsInstruction, s
  <2> QED
    BY <2>2, <2>3
<1>6. ASSUME Instructed(t, j+1) /\ InBlock(t, j) PROVE IsInstruction(t, j, s)
  <2>1. s.types = <<>> /\ (Body(s) = 2 => s.words[2] = Word("=")) /\ OpWord(s).k = "word" /\ OpWord(s).s \in Opcodes
    BY <1>6 DEF Instructed, s
  <2> QED
    BY <1>2, <1>3, <1>4, <1>6, <2>1 DEF IsInstruction, s
<1>7. NamesAt(t, j+1) = NamesAt(t, j)
  <2>1. HeadAt(t, j+1) = HeadAt(t, j)
    BY <1>1, <1>3, HeadStep DEF s
  <2> QED
    BY <2>1 DEF NamesAt
<1> QED
  BY <1>4, <1>5, <1>6, <1>7 DEF s

(* How a statement begins: o is Opening in the state of which q0 is r, and *)
(* after it the words W(s, 1), ..., W(s, Rest(s)) are left, and then those  *)
(* of the other statements.                                                *)
Begins(t, j, q0, o) ==
  LET s == t[j+1]
      U == o.q.rest
      S == NamesAt(t, j)
  IN  /\ j \in 0..Len(t)-1 /\ IsInstruction(t, j, s) /\ Roomy(S)
      /\ Fine(S, q0) /\ Extends(q0, o.q) /\ Took(S, U, o.q, o.q, 0, <<>>) /\ U \in Seq(Words)
      /\ Rest(s) \in 0..Len(U) /\ Drop(U, Rest(s)) = WordsIn(t, j+1, Len(t))
      /\ \A i \in 1..Rest(s) : /\ U[i] = W(s, i) /\ U[i] \in Words
                               /\ (IsVreg(U[i]) \/ IsOperand(U[i]) => Usable(S, U[i]))
      /\ o.op = OpWord(s).s /\ o.dst = NumberIn(o.q, Dest(s)) /\ Met(o.q, Dest(s))

LEMMA ExtendsItself ==
  ASSUME NEW S, NEW q, Fine(S, q)
  PROVE  Extends(q, q)
<1>1. q \in Reading
  BY DEF Fine
<1> QED
  BY <1>1, SameTables

LEMMA OpeningIs ==
  ASSUME Conforms(text), NEW j \in 0..Len(text), Fine(NamesAt(text, j), r), r.rest = WordsIn(text, j, Len(text)),
         r.rest # <<>>, OpOf(Peek(r)) \notin Headings
  PROVE  Begins(text, j, r, Opening)
<1> DEFINE T == WordsIn(text, j, Len(text))
           s == text[j+1]
           n == Len(s.words)
           S == NamesAt(text, j)
           q == Cleared(r)
           o == Opening
           U == o.q.rest
           c == Body(s) + 1
<1>1. /\ T \in Seq(Words) /\ Reads(S, T, 0, r) /\ j < Len(text)
      /\ n \in 1..Len(T) /\ Drop(T, n) = WordsIn(text, j+1, Len(text)) /\ Peek(r) = s.words[1]
      /\ \A i \in 1..n : T[i] = s.words[i]
  BY FrontIs
<1>2. j \in 0..Len(text)-1
  BY <1>1, StatementsAre
<1>3. IsInstruction(text, j, s) /\ NamesAt(text, j+1) = S
  BY <1>1, <1>2, StatementIs
<1>4. Roomy(S)
  BY NamesAreFew
<1>5. ASSUME NEW i \in 1..n
      PROVE  s.words[i] \in Words /\ (IsVreg(s.words[i]) \/ IsOperand(s.words[i]) => Usable(S, s.words[i]))
  BY <1>2, <1>3, WordUsable
<1> HIDE DEF S, T, s, n, q, o, U, c
<1>6. c \in {1, 3} /\ c <= n /\ (c = 3 <=> IsVreg(s.words[1])) /\ Rest(s) = n - c /\ n \in Nat /\ n <= Len(T)
      /\ (c = 3 => s.words[2] = Word("=")) /\ OpWord(s) = s.words[c] /\ OpWord(s).k = "word"
      /\ \A i : W(s, i) = s.words[c+i]
  <2>1. n \in Nat /\ n <= Len(T)
    BY <1>1
  <2>2. Rest(s) = n - Body(s) - 1 /\ Rest(s) >= 0 /\ Body(s) = (IF IsVreg(s.words[1]) THEN 2 ELSE 0)
    BY <1>3 DEF Rest, Body, n, IsInstruction
  <2>3. c = Body(s) + 1 /\ OpWord(s) = s.words[c] /\ \A i : W(s, i) = s.words[c+i]
    BY DEF c, OpWord, W
  <2>4. OpWord(s).k = "word" /\ (Body(s) = 2 => s.words[2] = Word("="))
    BY <1>3 DEF IsInstruction
  <2> DEFINE b == Body(s)
             v == IsVreg(s.words[1])
             x == Rest(s)
  <2>5. b = (IF v THEN 2 ELSE 0) /\ c = b+1 /\ x = n-b-1 /\ x >= 0
    BY <2>2, <2>3
  <2> HIDE DEF b, v, x
  <2>6. b \in {0, 2} /\ (b = 2 <=> v)
    BY <2>5
  <2>7. c \in {1, 3} /\ (c = 3 <=> b = 2) /\ x = n-c /\ c <= n
    BY <2>1, <2>5, <2>6
  <2> QED
    BY <2>1, <2>3, <2>4, <2>6, <2>7 DEF b, v, x
<1>7. Took(S, T, r, q, 0, <<>>) /\ q.rest = T /\ q.args = <<>>
  <2>1. q.rest = r.rest /\ q.args = <<>> /\ Fine(S, q) /\ Extends(r, q)
    BY <1>1, ClearedIs DEF q, S, Reads
  <2>2. IsSeq(<<>>) /\ Len(<<>>) = 0
    BY SeqIs, <<>> \in Seq({})
  <2>3. Reads(S, T, 0, q)
    BY <1>1, <2>1 DEF Reads
  <2> QED
    BY <1>1, <2>1, <2>2, <2>3 DEF Took, Reads, T
<1>8. Peek(q) = s.words[1]
  BY <1>1, <1>7 DEF Peek, T
<1>9. /\ Took(S, T, r, o.q, c, <<>>) /\ o.op = OpWord(s).s /\ o.dst = NumberIn(o.q, Dest(s)) /\ Met(o.q, Dest(s))
  <2>1. CASE c = 1
    <3>1. ~IsVreg(Peek(q)) /\ Dest(s) = Nothing /\ OpWord(s) = s.words[1]
      BY <1>6, <1>8, <2>1 DEF Dest, c
    <3>2. o = [dst |-> NoDst, op |-> OpOf(Peek(q)), q |-> Skip(q)]
      BY <3>1 DEF Opening, o, q, Cleared
    <3>3. o.dst = NoDst /\ o.op = OpOf(Peek(q)) /\ o.q = Skip(q)
      BY <3>2
    <3>4. Took(S, T, r, o.q, 0+1, <<>>)
      <4>1. 0 < Len(T)
        BY <1>1
      <4> QED
        BY <1>1, <1>7, <3>3, <4>1, TookSkip
    <3>5. NumberIn(o.q, Nothing) = NoDst /\ Met(o.q, Nothing)
      BY DEF NumberIn, Met, Nothing
    <3>6. OpOf(Peek(q)) = OpWord(s).s
      BY <1>6, <1>8, <3>1 DEF OpOf
    <3> QED
      BY <2>1, <3>1, <3>3, <3>4, <3>5, <3>6
  <2>2. CASE c = 3
    <3> DEFINE w == s.words[1]
               d == Operand(q)
               e == SkipIf(d, "=")
    <3>0. Body(s) = 2
      <4>1. IsVreg(w)
        BY <1>6, <2>2
      <4> QED
        BY <4>1 DEF Body
    <3>1. IsVreg(w) /\ Dest(s) = w /\ s.words[2] = Word("=") /\ OpWord(s) = s.words[3] /\ OpWord(s).k = "word"
      BY <1>6, <2>2, <3>0 DEF Dest
    <3>2. o = [dst |-> d.args[1].x, op |-> OpOf(Peek(e)), q |-> Cleared(Skip(e))]
      BY <1>8, <3>1 DEF Opening, o, q, Cleared
    <3>3. o.dst = d.args[1].x /\ o.op = OpOf(Peek(e)) /\ o.q = Cleared(Skip(e))
      <4> HIDE DEF d, e
      <4> QED
        BY <3>2
    <3>4. 3 <= n /\ n \in Nat /\ n <= Len(T) /\ Len(T) \in Nat
      BY <1>1, <1>6, <2>2
    <3>5. T[0+1] = w /\ T[1+1] = Word("=") /\ T[2+1] = OpWord(s) /\ 0 < Len(T) /\ 1 < Len(T) /\ 2 < Len(T)
      BY <1>1, <3>1, <3>4
    <3>6. Usable(S, T[0+1])
      <4>1. 1 \in 1..n
        BY <3>4
      <4> QED
        BY <1>5, <3>1, <3>5, <4>1
    <3>7. Took(S, T, r, d, 0+1, Append(<<>>, w))
      <4>1. 0 < Len(T)
        BY <3>5
      <4>2. Took(S, T, r, Operand(q), 0+1, Append(<<>>, T[0+1]))
        BY <1>1, <1>4, <1>7, <3>6, <4>1, TookOperand
      <4> QED
        BY <3>5, <4>2
    <3>8. Append(<<>>, w) = <<w>> /\ 0+1 = 1 /\ 1+1 = 2 /\ 2+1 = 3
      OBVIOUS
    <3> HIDE DEF d, w
    <3>9. Took(S, T, r, d, 1, <<w>>)
      BY <3>7, <3>8
    <3>10. Holds(d, d.args[1], w) /\ d.args[1] = Vreg(NumberIn(d, w)) /\ Met(d, w)
      <4>1. 1 \in 1..Len(<<w>>) /\ <<w>>[1] = w
        OBVIOUS
      <4>2. Holds(d, d.args[1], w)
        BY <3>9, <4>1 DEF Took
      <4> QED
        BY <3>1, <4>2 DEF Holds, Denotes, IsVreg, w
    <3>11. d.args[1].x = NumberIn(d, w)
      <4> DEFINE z == NumberIn(d, w)
      <4> HIDE DEF z
      <4>1. d.args[1] = Vreg(z)
        BY <3>10 DEF z
      <4> QED
        BY <4>1 DEF Vreg, z
    <3>12. e = Skip(d)
      <4>1. Peek(d) = T[1+1]
        BY <1>1, <3>5, <3>9, PeekIs DEF Took
      <4> QED
        BY <3>5, <4>1 DEF SkipIf, e
    <3> HIDE DEF e
    <3>13. Took(S, T, d, d, 1, <<w>>)
      <4>0. Fine(S, d)
        BY <3>9 DEF Took, Reads
      <4>1. Extends(d, d)
        BY <4>0, ExtendsItself
      <4> QED
        BY <3>9, <4>0, <4>1 DEF Took
    <3>14. Took(S, T, r, e, 2, <<w>>) /\ Took(S, T, d, e, 2, <<w>>)
      <4>1. 1 < Len(T)
        BY <3>5
      <4>2. Took(S, T, r, Skip(d), 1+1, <<w>>)
        BY <1>1, <3>9, <4>1, TookSkip
      <4>3. Took(S, T, d, Skip(d), 1+1, <<w>>)
        BY <1>1, <3>13, <4>1, TookSkip
      <4> QED
        BY <3>8, <3>12, <4>2, <4>3
    <3>15. Peek(e) = T[2+1]
      BY <1>1, <3>5, <3>14, PeekIs DEF Took
    <3>16. Took(S, T, r, Skip(e), 3, <<w>>) /\ Took(S, T, d, Skip(e), 3, <<w>>)
      <4>1. 2 < Len(T)
        BY <3>5
      <4>2. Took(S, T, r, Skip(e), 2+1, <<w>>)
        BY <1>1, <3>14, <4>1, TookSkip
      <4>3. Took(S, T, d, Skip(e), 2+1, <<w>>)
        BY <1>1, <3>14, <4>1, TookSkip
      <4> QED
        BY <3>8, <4>2, <4>3
    <3>17. Took(S, T, r, o.q, 3, <<>>) /\ Took(S, T, d, o.q, 3, <<>>)
      BY <3>3, <3>16, TookCleared
    <3>18. Met(o.q, w) /\ NumberIn(o.q, w) = NumberIn(d, w)
      BY <3>10, <3>17, NumberStays DEF Took, Reads
    <3>19. o.op = OpWord(s).s
      BY <3>1, <3>3, <3>5, <3>15 DEF OpOf
    <3> QED
      BY <2>2, <3>1, <3>3, <3>11, <3>17, <3>18, <3>19
  <2> QED
    BY <1>6, <2>1, <2>2
<1>10. U = Drop(T, c) /\ Fine(S, o.q) /\ Extends(r, o.q) /\ Fine(S, r) /\ Len(o.q.args) = 0
  BY <1>9 DEF Took, Reads, U
<1>11. c \in 0..Len(T) /\ Len(T) - c \in Nat /\ Len(T) \in Nat /\ n - c \in 0..Len(T)-c
  BY <1>1, <1>6
<1>12. U \in Seq(Words) /\ Len(U) = Len(T) - c /\ \A i \in 1..Len(T)-c : U[i] = T[c+i]
  <2>1. Drop(T, c) \in Seq(Words) /\ Len(Drop(T, c)) = Len(T) - c /\ \A i \in 1..Len(T)-c : Drop(T, c)[i] = T[c+i]
    BY <1>1, <1>11, DropIs
  <2> QED
    BY <1>10, <2>1
<1>13. Took(S, U, o.q, o.q, 0, <<>>)
  <2>1. Extends(o.q, o.q)
    BY <1>10, ExtendsItself
  <2>2. 0 \in 0..Len(U) /\ Drop(U, 0) = U
    BY <1>11, <1>12, DropAll
  <2>3. IsSeq(<<>>) /\ Len(<<>>) = 0
    BY SeqIs, <<>> \in Seq({})
  <2> QED
    BY <1>10, <2>1, <2>2, <2>3 DEF Took, Reads, U
<1>14. Rest(s) \in 0..Len(U)
  BY <1>6, <1>11, <1>12
<1>15. ASSUME NEW i \in 1..Rest(s)
       PROVE  U[i] = W(s, i) /\ U[i] \in Words /\ (IsVreg(U[i]) \/ IsOperand(U[i]) => Usable(S, U[i]))
  <2>1. i \in 1..Len(T)-c /\ c+i \in 1..n
    BY <1>6, <1>11
  <2>2. U[i] = s.words[c+i]
    BY <1>1, <1>12, <2>1
  <2> QED
    BY <1>5, <1>6, <2>1, <2>2
<1>16. Drop(U, Rest(s)) = WordsIn(text, j+1, Len(text))
  <2> DEFINE k == n - c
  <2>0. k+1 \in 1..Len(T)-c+1 /\ c+(k+1)-1 = n /\ k = Rest(s)
    BY <1>6, <1>11
  <2> HIDE DEF k
  <2>1. SubSeq(Drop(T, c), k+1, Len(Drop(T, c))) = Drop(T, c+(k+1)-1)
    BY <1>1, <1>11, <2>0, DropMore
  <2>2. SubSeq(U, k+1, Len(U)) = Drop(T, n)
    BY <1>10, <2>0, <2>1
  <2> QED
    BY <1>1, <2>0, <2>2 DEF Drop
<1> QED
  BY <1>2, <1>3, <1>4, <1>9, <1>10, <1>12, <1>13, <1>14, <1>15, <1>16 DEF Begins, S, s, U, o
=============================================================================
