----------------------------- MODULE BuilderProofs -----------------------------
(***************************************************************************)
(* Proofs about module Builder, for tables, bounds and constants of any    *)
(* size; and of its placeholders: that finalisation ends with none of      *)
(* them, that it is idempotent, and that the builder implements module     *)
(* Substitution.                                                           *)
(***************************************************************************)
EXTENDS Builder, Recursion

-----------------------------------------------------------------------------
(* The values clients handle, when the vregs are those below m, and what   *)
(* the code is made of.                                                    *)
Val(m) == [is : {"int"}, n : Ints \cup {Bytes}] \cup [is : {"fp"}, n : Fps]
            \cup {V(v) : v \in Taken(m)} \cup {Null}

Opds == [kind : {"none", "vreg", "fp"}, x : Int]
          \cup [kind : {"imm"}, x : {AsInt(n) : n \in Ints \cup {Bytes}}]
Instruction == [dst : Int, args : Seq(Opds)]
Code        == Seq(Seq(Instruction))

Opnd(code, p) == code[p[1]][p[2]].args[p[3]]
DstOf(code, d) == code[d[1]][d[2]].dst

(* The numbers a client may name: those given out and the parameters, which *)
(* no number given out ever reaches.                                       *)
LEMMA TakenIs ==
  /\ \A m : 0..m-1 \subseteq Taken(m) /\ Arguments \subseteq Taken(m)
  /\ \A m \in Nat : Taken(m) \subseteq Nat
  /\ \A m, n \in Nat : m <= n => Taken(m) \subseteq Taken(n)
  /\ \A a \in Arguments : a \in Nat /\ ParamBase <= a
  /\ \A m \in 0..ParamBase : \A a \in Arguments : a \notin 0..m-1
<1>1. \A a \in Arguments : a \in Nat /\ ParamBase <= a
  BY BuilderAssumption, IRAssumption DEF Arguments, Param
<1>2. ParamBase \in Nat
  BY IRAssumption
<1>3. \A m : 0..m-1 \subseteq Taken(m) /\ Arguments \subseteq Taken(m)
  BY DEF Taken
<1>4. \A m \in Nat : Taken(m) \subseteq Nat
  BY <1>1 DEF Taken
<1>5. \A m, n \in Nat : m <= n => Taken(m) \subseteq Taken(n)
  <2> SUFFICES ASSUME NEW m \in Nat, NEW n \in Nat, m <= n, NEW v \in Taken(m)
               PROVE  v \in Taken(n)
    OBVIOUS
  <2>1. CASE v \in 0..m-1
    BY <2>1 DEF Taken
  <2>2. CASE v \in Arguments
    BY <2>2 DEF Taken
  <2> QED
    BY <2>1, <2>2 DEF Taken
<1>6. \A m \in 0..ParamBase : \A a \in Arguments : a \notin 0..m-1
  BY <1>1, <1>2
<1> QED
  BY <1>1, <1>3, <1>4, <1>5, <1>6

LEMMA MinOfTwo ==
  ASSUME NEW a \in Int, NEW b \in Int
  PROVE  Min({a, b}) = IF a <= b THEN a ELSE b
<1>1. \E x \in {a, b} : \A y \in {a, b} : x <= y
  OBVIOUS
<1>2. Min({a, b}) \in {a, b} /\ \A y \in {a, b} : Min({a, b}) <= y
  BY <1>1, Zenon DEF Min
<1> QED
  BY <1>2

LEMMA PlacesAre ==
  ASSUME NEW code \in Code
  PROVE  /\ \A p \in Places(code) :
              /\ p = <<p[1], p[2], p[3]>>
              /\ p[1] \in 1..Len(code) /\ p[2] \in 1..Len(code[p[1]])
              /\ code[p[1]] \in Seq(Instruction) /\ code[p[1]][p[2]] \in Instruction
              /\ p[3] \in 1..Len(code[p[1]][p[2]].args)
              /\ Opnd(code, p) \in Opds
         /\ \A b \in 1..Len(code) : \A k \in 1..Len(code[b]) :
              \A a \in 1..Len(code[b][k].args) : <<b, k, a>> \in Places(code)
<1>1. ASSUME NEW p \in Places(code)
      PROVE  /\ p = <<p[1], p[2], p[3]>>
             /\ p[1] \in 1..Len(code) /\ p[2] \in 1..Len(code[p[1]])
             /\ code[p[1]] \in Seq(Instruction) /\ code[p[1]][p[2]] \in Instruction
             /\ p[3] \in 1..Len(code[p[1]][p[2]].args)
             /\ Opnd(code, p) \in Opds
  <2>1. PICK b \in DOMAIN code :
          p \in UNION {{<<b, k, a>> : a \in DOMAIN code[b][k].args} : k \in DOMAIN code[b]}
    BY DEF Places
  <2>2. PICK k \in DOMAIN code[b] : p \in {<<b, k, a>> : a \in DOMAIN code[b][k].args}
    BY <2>1
  <2>3. PICK a \in DOMAIN code[b][k].args : p = <<b, k, a>>
    BY <2>2
  <2>4. b \in 1..Len(code) /\ code[b] \in Seq(Instruction)
    BY DEF Code
  <2>5. k \in 1..Len(code[b]) /\ code[b][k] \in Instruction
    BY <2>4
  <2>6. code[b][k].args \in Seq(Opds)
    BY <2>5 DEF Instruction
  <2>7. a \in 1..Len(code[b][k].args) /\ code[b][k].args[a] \in Opds
    BY <2>6
  <2>8. p[1] = b /\ p[2] = k /\ p[3] = a
    BY <2>3
  <2> QED
    BY <2>3, <2>4, <2>5, <2>7, <2>8 DEF Opnd
<1>2. ASSUME NEW b \in 1..Len(code), NEW k \in 1..Len(code[b]),
             NEW a \in 1..Len(code[b][k].args)
      PROVE  <<b, k, a>> \in Places(code)
  <2>1. b \in DOMAIN code /\ code[b] \in Seq(Instruction)
    BY DEF Code
  <2>2. k \in DOMAIN code[b] /\ code[b][k] \in Instruction
    BY <2>1
  <2>3. code[b][k].args \in Seq(Opds)
    BY <2>2 DEF Instruction
  <2>4. a \in DOMAIN code[b][k].args
    BY <2>3
  <2> QED
    BY <2>1, <2>2, <2>4 DEF Places
<1> QED
  BY <1>1, <1>2

(* The places that define something. *)
DefinersOf(code) ==
  UNION {{<<b, k>> : k \in {k \in DOMAIN code[b] : code[b][k].dst # NoDst}} : b \in DOMAIN code}

LEMMA DefinersAre ==
  ASSUME NEW code \in Code
  PROVE  \A b, k : <<b, k>> \in DefinersOf(code) <=>
                     b \in 1..Len(code) /\ k \in 1..Len(code[b]) /\ code[b][k].dst # NoDst
<1> SUFFICES ASSUME NEW b, NEW k
             PROVE  <<b, k>> \in DefinersOf(code) <=>
                     b \in 1..Len(code) /\ k \in 1..Len(code[b]) /\ code[b][k].dst # NoDst
  OBVIOUS
<1>1. DOMAIN code = 1..Len(code) /\ \A c \in DOMAIN code : DOMAIN code[c] = 1..Len(code[c])
  BY DEF Code
<1>2. <<b, k>> \in DefinersOf(code) <=>
        \E c \in DOMAIN code : \E j \in DOMAIN code[c] : code[c][j].dst # NoDst /\ <<b, k>> = <<c, j>>
  BY DEF DefinersOf
<1> QED
  BY <1>1, <1>2

LEMMA DefinersPairs ==
  ASSUME NEW code, NEW d \in DefinersOf(code)
  PROVE  d = <<d[1], d[2]>>
BY DEF DefinersOf

(* The code after instructions were appended to a block. *)
Extended(code, b, instrs) == [code EXCEPT ![b] = @ \o instrs]

IsExtended(new, code, b, instrs) ==
  /\ new \in Code /\ Len(new) = Len(code) /\ code[b] \in Seq(Instruction)
  /\ \A c \in 1..Len(code) : c # b => new[c] = code[c]
  /\ Len(new[b]) = Len(code[b]) + Len(instrs)
  /\ \A k \in 1..Len(code[b]) : new[b][k] = code[b][k]
  /\ \A i \in 1..Len(instrs) : new[b][Len(code[b]) + i] = instrs[i]

LEMMA ExtendedIs ==
  ASSUME NEW code \in Code, NEW b \in 1..Len(code), NEW instrs \in Seq(Instruction)
  PROVE  IsExtended(Extended(code, b, instrs), code, b, instrs)
<1>1. code[b] \in Seq(Instruction) /\ b \in DOMAIN code
  BY DEF Code
<1>2. code[b] \o instrs \in Seq(Instruction)
  BY <1>1
<1>3. Extended(code, b, instrs)[b] = code[b] \o instrs
  BY <1>1 DEF Extended
<1>4. Extended(code, b, instrs) \in Code /\ Len(Extended(code, b, instrs)) = Len(code)
  BY <1>1, <1>2 DEF Extended, Code
<1>5. \A c \in 1..Len(code) : c # b => Extended(code, b, instrs)[c] = code[c]
  BY DEF Extended, Code
<1>6. /\ Len(code[b] \o instrs) = Len(code[b]) + Len(instrs)
      /\ \A k \in 1..Len(code[b]) : (code[b] \o instrs)[k] = code[b][k]
      /\ \A i \in 1..Len(instrs) : (code[b] \o instrs)[Len(code[b]) + i] = instrs[i]
  BY <1>1
<1> QED
  BY <1>1, <1>3, <1>4, <1>5, <1>6 DEF IsExtended

LEMMA ExtendedPlaces ==
  ASSUME NEW code \in Code, NEW b \in 1..Len(code), NEW instrs \in Seq(Instruction)
  PROVE  /\ \A p \in Places(code) :
              /\ p \in Places(Extended(code, b, instrs))
              /\ Opnd(Extended(code, b, instrs), p) = Opnd(code, p)
         /\ \A p \in Places(Extended(code, b, instrs)) :
              \/ p \in Places(code)
              \/ \E i \in 1..Len(instrs) : \E a \in 1..Len(instrs[i].args) :
                   Opnd(Extended(code, b, instrs), p) = instrs[i].args[a]
<1> DEFINE new == Extended(code, b, instrs)
<1>a. IsExtended(new, code, b, instrs)
  BY ExtendedIs
<1> HIDE DEF new
<1>1. /\ new \in Code /\ Len(new) = Len(code) /\ code[b] \in Seq(Instruction)
      /\ \A c \in 1..Len(code) : c # b => new[c] = code[c]
      /\ Len(new[b]) = Len(code[b]) + Len(instrs)
      /\ \A k \in 1..Len(code[b]) : new[b][k] = code[b][k]
      /\ \A i \in 1..Len(instrs) : new[b][Len(code[b]) + i] = instrs[i]
  BY <1>a DEF IsExtended
<1>2. Len(code[b]) \in Nat /\ Len(instrs) \in Nat
  BY <1>1
<1>3. ASSUME NEW p \in Places(code)
      PROVE  p \in Places(new) /\ Opnd(new, p) = Opnd(code, p)
  <2>1. /\ p = <<p[1], p[2], p[3]>>
        /\ p[1] \in 1..Len(code) /\ p[2] \in 1..Len(code[p[1]])
        /\ p[3] \in 1..Len(code[p[1]][p[2]].args)
    BY PlacesAre
  <2>2. p[2] \in 1..Len(new[p[1]]) /\ new[p[1]][p[2]] = code[p[1]][p[2]]
    <3>1. CASE p[1] = b
      BY <1>1, <1>2, <2>1, <3>1
    <3>2. CASE p[1] # b
      BY <1>1, <2>1, <3>2
    <3> QED
      BY <3>1, <3>2
  <2> QED
    BY <1>1, <2>1, <2>2, PlacesAre DEF Opnd
<1>4. ASSUME NEW p \in Places(new), p \notin Places(code)
      PROVE  \E i \in 1..Len(instrs) : \E a \in 1..Len(instrs[i].args) :
               Opnd(new, p) = instrs[i].args[a]
  <2>1. /\ p = <<p[1], p[2], p[3]>>
        /\ p[1] \in 1..Len(new) /\ p[2] \in 1..Len(new[p[1]])
        /\ p[3] \in 1..Len(new[p[1]][p[2]].args)
    BY <1>1, PlacesAre
  <2>2. p[1] = b /\ p[2] \notin 1..Len(code[b])
    <3>1. ~(p[1] \in 1..Len(code) /\ p[2] \in 1..Len(code[p[1]])
              /\ p[3] \in 1..Len(code[p[1]][p[2]].args))
      BY <1>4, <2>1, PlacesAre
    <3> QED
      BY <1>1, <2>1, <3>1
  <2> DEFINE i == p[2] - Len(code[b])
  <2>3. i \in 1..Len(instrs) /\ p[2] = Len(code[b]) + i
    BY <1>1, <1>2, <2>1, <2>2
  <2>4. new[p[1]][p[2]] = instrs[i]
    BY <1>1, <2>2, <2>3
  <2> QED
    BY <2>1, <2>3, <2>4 DEF Opnd
<1> QED
  BY <1>3, <1>4 DEF new

LEMMA ExtendedDefiners ==
  ASSUME NEW code \in Code, NEW b \in 1..Len(code), NEW instrs \in Seq(Instruction)
  PROVE  /\ \A d \in DefinersOf(Extended(code, b, instrs)) :
              \/ d \in DefinersOf(code) /\ DstOf(Extended(code, b, instrs), d) = DstOf(code, d)
              \/ \E i \in 1..Len(instrs) :
                   /\ d = <<b, Len(code[b]) + i>> /\ instrs[i].dst # NoDst
                   /\ DstOf(Extended(code, b, instrs), d) = instrs[i].dst
<1> DEFINE new == Extended(code, b, instrs)
<1>a. IsExtended(new, code, b, instrs)
  BY ExtendedIs
<1> HIDE DEF new
<1>1. /\ new \in Code /\ Len(new) = Len(code) /\ code[b] \in Seq(Instruction)
      /\ \A c \in 1..Len(code) : c # b => new[c] = code[c]
      /\ Len(new[b]) = Len(code[b]) + Len(instrs)
      /\ \A k \in 1..Len(code[b]) : new[b][k] = code[b][k]
      /\ \A i \in 1..Len(instrs) : new[b][Len(code[b]) + i] = instrs[i]
  BY <1>a DEF IsExtended
<1>2. Len(code[b]) \in Nat /\ Len(instrs) \in Nat
  BY <1>1
<1> SUFFICES ASSUME NEW d \in DefinersOf(new)
             PROVE  \/ d \in DefinersOf(code) /\ DstOf(new, d) = DstOf(code, d)
                    \/ \E i \in 1..Len(instrs) :
                         /\ d = <<b, Len(code[b]) + i>> /\ instrs[i].dst # NoDst
                         /\ DstOf(new, d) = instrs[i].dst
  BY DEF new
<1>3. d = <<d[1], d[2]>>
  BY DefinersPairs
<1>4. d[1] \in 1..Len(new) /\ d[2] \in 1..Len(new[d[1]]) /\ new[d[1]][d[2]].dst # NoDst
  BY <1>1, <1>3, DefinersAre
<1>5. CASE d[1] # b \/ d[2] \in 1..Len(code[b])
  <2>1. new[d[1]][d[2]] = code[d[1]][d[2]] /\ d[2] \in 1..Len(code[d[1]])
    <3>1. CASE d[1] = b
      BY <1>1, <1>5, <3>1
    <3>2. CASE d[1] # b
      BY <1>1, <1>4, <3>2
    <3> QED
      BY <3>1, <3>2
  <2>2. d \in DefinersOf(code)
    BY <1>1, <1>3, <1>4, <2>1, DefinersAre
  <2> QED
    BY <2>1, <2>2 DEF DstOf
<1>6. CASE d[1] = b /\ d[2] \notin 1..Len(code[b])
  <2> DEFINE i == d[2] - Len(code[b])
  <2>1. i \in 1..Len(instrs) /\ d[2] = Len(code[b]) + i
    BY <1>1, <1>2, <1>4, <1>6
  <2>2. new[d[1]][d[2]] = instrs[i]
    BY <1>1, <1>6, <2>1
  <2> QED
    BY <1>3, <1>4, <1>6, <2>1, <2>2 DEF DstOf
<1> QED
  BY <1>5, <1>6

-----------------------------------------------------------------------------
(* The k-th of the floating-point constants among values is the k-th that  *)
(* is entered in the table.                                                *)
LEMMA FpCounts ==
  ASSUME NEW m \in Nat, NEW vals \in Seq(Val(m))
  PROVE  /\ Cardinality(FpPlaces(vals)) \in Nat
         /\ FpsOf(vals) \in Seq(Fps) /\ Len(FpsOf(vals)) = Cardinality(FpPlaces(vals))
         /\ \A i \in FpPlaces(vals) :
              /\ FpCount(vals, i) \in 1..Len(FpsOf(vals))
              /\ FpsOf(vals)[FpCount(vals, i)] = vals[i].n
<1> DEFINE S == FpPlaces(vals)
           R == {q \in S \X S : q[1] < q[2]}
           n == Cardinality(S)
<1>1. S \subseteq 1..Len(vals) /\ Len(vals) \in Nat
  BY DEF FpPlaces
<1>2. IsFiniteSet(S)
  <2>1. S \in SUBSET (1..Len(vals)) /\ IsFiniteSet(1..Len(vals))
    BY <1>1, FS_Interval
  <2> HIDE DEF S
  <2> QED
    BY <2>1, FS_Subset
<1>3. StrictOrder(R, S)
  <2>1. \A x, y \in S : <<x, y>> \in R <=> x < y
    OBVIOUS
  <2>2. S \subseteq Int
    BY <1>1
  <2> HIDE DEF R, S
  <2> QED
    BY <2>1, <2>2 DEF StrictOrder
<1>4. \A i \in S : FpCount(vals, i) = Nth(R, S, i)
  <2> SUFFICES ASSUME NEW i \in S PROVE FpCount(vals, i) = Nth(R, S, i)
    OBVIOUS
  <2>1. {j \in S : j <= i} = {j \in S : <<i, j>> \notin R}
    <3>1. \A j \in S : j <= i <=> <<i, j>> \notin R
      <4>1. \A j \in S : <<i, j>> \in R <=> i < j
        OBVIOUS
      <4>2. \A j \in S : i \in Int /\ j \in Int
        BY <1>1
      <4> HIDE DEF R, S
      <4> QED
        BY <4>1, <4>2
    <3> HIDE DEF R, S
    <3> QED
      BY <3>1
  <2> HIDE DEF R
  <2> QED
    BY <2>1, Zenon DEF FpCount, Nth
<1> HIDE DEF R, S
<1>5. /\ n \in Nat
      /\ \A i \in S : FpCount(vals, i) \in 1..n
      /\ \A i, j \in S : FpCount(vals, i) = FpCount(vals, j) => i = j
      /\ \A k \in 1..n : \E i \in S : FpCount(vals, i) = k
  BY <1>2, <1>3, <1>4, Numbering
<1>6. \A i \in S : vals[i].n \in Fps
  <2> SUFFICES ASSUME NEW i \in S PROVE vals[i].n \in Fps
    OBVIOUS
  <2>1. vals[i] \in Val(m) /\ vals[i].is = "fp"
    BY <1>1 DEF S, FpPlaces
  <2> QED
    BY <2>1 DEF Val, V, Null
<1> DEFINE the(k) == CHOOSE i \in S : FpCount(vals, i) = k
<1>7. \A k \in 1..n : the(k) \in S /\ FpCount(vals, the(k)) = k
  BY <1>5
<1>8. FpsOf(vals) = [k \in 1..n |-> vals[the(k)].n]
  BY DEF FpsOf, S
<1> HIDE DEF the, n
<1>9. FpsOf(vals) \in Seq(Fps) /\ Len(FpsOf(vals)) = n
  <2>1. FpsOf(vals) \in [1..n -> Fps]
    BY <1>6, <1>7, <1>8
  <2> QED
    BY <1>5, <2>1
<1>10. ASSUME NEW i \in S PROVE FpsOf(vals)[FpCount(vals, i)] = vals[i].n
  <2>1. the(FpCount(vals, i)) = i
    BY <1>5, <1>7
  <2> QED
    BY <1>5, <1>8, <2>1
<1> QED
  BY <1>5, <1>9, <1>10 DEF S, n

(* What an operand may be when vregs are below m and entries below top.    *)
Sound(o, m, top) ==
  \/ o.kind \in {"none", "imm"}
  \/ o.kind = "fp" /\ o.x \in 0..top-1
  \/ o.kind = "vreg" /\ o.x \in Taken(m)

Top(n) == Min({n, FpMax})

LEMMA TopIs ==
  ASSUME NEW n \in Nat
  PROVE  /\ Top(n) \in Nat
         /\ \A k \in Nat : Top(n) <= Top(n + k)
<1>1. FpMax \in Nat \ {0}
  BY IRAssumption
<1>2. \A k \in Nat : Top(k) = IF k <= FpMax THEN k ELSE FpMax
  BY <1>1, MinOfTwo DEF Top
<1> QED
  BY <1>1, <1>2

LEMMA IndexIsThere ==
  ASSUME fp.n \in Nat, NEW n \in Nat, NEW k \in 1..n
  PROVE  FpIndex(fp, k) \in 0..Top(fp.n + n)-1
<1>1. FpMax \in Nat \ {0}
  BY IRAssumption
<1>2. FpIndex(fp, k) = IF fp.n + k - 1 <= FpMax - 1 THEN fp.n + k - 1 ELSE FpMax - 1
  BY <1>1, MinOfTwo DEF FpIndex
<1>3. Top(fp.n + n) = IF fp.n + n <= FpMax THEN fp.n + n ELSE FpMax
  BY <1>1, MinOfTwo DEF Top
<1> QED
  BY <1>1, <1>2, <1>3

(* The operand a value becomes, the k-th constant of n.                    *)
LEMMA OperandIs ==
  ASSUME fp.n \in Nat, NEW m \in Nat, NEW x \in Val(m), NEW k, NEW n \in Nat,
         x.is # "fp" \/ k \in 1..n
  PROVE  /\ Operand(x, k) \in Opds
         /\ Sound(Operand(x, k), m, Top(fp.n + n))
         /\ x.is = "fp" => Operand(x, k) = FpRef(FpIndex(fp, k))
<1>1. CASE x.is = "vreg"
  <2>1. x.n \in Taken(m) /\ x.n \in Nat
    BY <1>1, TakenIs DEF Val, V, Null
  <2>2. Operand(x, k) = Vreg(x.n)
    BY <1>1 DEF Operand
  <2> QED
    BY <1>1, <2>1, <2>2 DEF Vreg, Opds, Sound
<1>2. CASE x.is = "int"
  <2>1. x.n \in Ints \cup {Bytes}
    BY <1>2 DEF Val, V, Null
  <2>2. Operand(x, k) = Imm(AsInt(x.n))
    BY <1>2 DEF Operand
  <2> QED
    BY <1>2, <2>1, <2>2 DEF Imm, Opds, Sound
<1>3. CASE x.is = "fp"
  <2>1. Operand(x, k) = FpRef(FpIndex(fp, k))
    BY <1>3 DEF Operand
  <2>2. FpIndex(fp, k) \in 0..Top(fp.n + n)-1
    BY <1>3, IndexIsThere
  <2>3. Top(fp.n + n) \in Nat
    BY TopIs
  <2> HIDE DEF FpIndex, Top
  <2> QED
    BY <1>3, <2>1, <2>2, <2>3 DEF FpRef, Opds, Sound
<1>4. CASE x.is = "null"
  <2>1. Operand(x, k) = None
    BY <1>4 DEF Operand
  <2> QED
    BY <1>4, <2>1 DEF None, Opds, Sound
<1> QED
  BY <1>1, <1>2, <1>3, <1>4 DEF Val, V, Null

LEMMA InstrIs ==
  ASSUME fp.n \in Nat, NEW m \in Nat, NEW vals \in Seq(Val(m)), NEW dst \in Int
  PROVE  /\ Instr(dst, vals) \in Instruction
         /\ Instr(dst, vals).dst = dst
         /\ Len(Instr(dst, vals).args) = Len(vals)
         /\ \A i \in 1..Len(vals) :
              /\ Instr(dst, vals).args[i] = Operand(vals[i], FpCount(vals, i))
              /\ Sound(Instr(dst, vals).args[i], m, Top(fp.n + Len(FpsOf(vals))))
<1> DEFINE n == Len(FpsOf(vals))
           args == [i \in 1..Len(vals) |-> Operand(vals[i], FpCount(vals, i))]
<1>1. n \in Nat
  BY FpCounts
<1>2. ASSUME NEW i \in 1..Len(vals)
      PROVE  vals[i] \in Val(m) /\ (vals[i].is # "fp" \/ FpCount(vals, i) \in 1..n)
  <2>1. vals[i] \in Val(m) /\ i \in DOMAIN vals
    BY <1>2
  <2>2. vals[i].is = "fp" => i \in FpPlaces(vals)
    BY <2>1 DEF FpPlaces
  <2> QED
    BY <2>1, <2>2, FpCounts
<1>3. ASSUME NEW i \in 1..Len(vals)
      PROVE  /\ Operand(vals[i], FpCount(vals, i)) \in Opds
             /\ Sound(Operand(vals[i], FpCount(vals, i)), m, Top(fp.n + n))
  BY <1>1, <1>2, OperandIs
<1>4. args \in Seq(Opds) /\ Len(args) = Len(vals)
  <2>1. args \in [1..Len(vals) -> Opds] /\ Len(vals) \in Nat
    BY <1>3
  <2> HIDE DEF args
  <2> QED
    BY <2>1
<1>5. Instr(dst, vals) = [dst |-> dst, args |-> args]
  BY DEF Instr
<1> QED
  BY <1>3, <1>4, <1>5 DEF Instruction

-----------------------------------------------------------------------------
(* The alias tables. *)
IsTable(al) == Size(al) \in Nat \ {0} /\ DOMAIN al = 0..Size(al)-1

LEMMA TableOf ==
  ASSUME NEW al, NEW c \in Nat \ {0}, DOMAIN al = 0..c-1
  PROVE  IsTable(al) /\ Size(al) = c
<1>1. Cardinality(0..c-1) = c
  BY FS_Interval
<1> QED
  BY <1>1 DEF Size, IsTable

(* Doubling goes on until there is room for v. *)
LEMMA DoublingEnds ==
  ASSUME NEW al, IsTable(al), NEW v \in Nat
  PROVE  /\ Doubled(al, v)[v] \in Nat
         /\ v < Doubled(al, v)[v] /\ Size(al) <= Doubled(al, v)[v]
<1> DEFINE c == Size(al)
           W == Nat \ {0}
           next(s) == IF v < s THEN s ELSE 2*s
           step == [k \in 1..v |-> [s \in W |-> next(s)]]
           Rec(d) == d = [k \in 0..v |-> IF k = 0 THEN c ELSE next(d[k-1])]
<1>1. c \in W
  BY DEF IsTable
<1>2. \A s \in W : next(s) \in W
  OBVIOUS
<1> HIDE DEF c
<1>3. \E d : Rec(d)
  <2>1. step \in [1..v -> [W -> W]]
    BY <1>2
  <2>2. \A k \in 1..v : \A s \in W : step[k][s] = next(s)
    OBVIOUS
  <2> HIDE DEF W, step, next
  <2>3. PICK h \in [0..v -> W] : h[0] = c /\ \A k \in 1..v : h[k] = step[k][h[k-1]]
    BY <1>1, <2>1, Iterates
  <2>4. \A k \in 1..v : h[k] = next(h[k-1])
    <3>1. \A k \in 1..v : k-1 \in 0..v
      OBVIOUS
    <3> QED
      BY <2>2, <2>3, <3>1
  <2>5. h = [k \in 0..v |-> IF k = 0 THEN c ELSE next(h[k-1])]
    BY <2>3, <2>4
  <2> QED
    BY <2>5
<1> DEFINE d == Doubled(al, v)
<1>4. Rec(d)
  <2>1. d = CHOOSE e : Rec(e)
    BY DEF Doubled, c
  <2> HIDE DEF Rec, d
  <2> QED
    BY <1>3, <2>1
<1> HIDE DEF d
<1>5. d[0] = c /\ \A k \in 1..v : d[k] = next(d[k-1])
  <2> DEFINE e == d
  <2>1. e = [k \in 0..v |-> IF k = 0 THEN c ELSE next(d[k-1])]
    BY <1>4
  <2> HIDE DEF e, next
  <2>2. e[0] = c /\ \A k \in 1..v : e[k] = next(d[k-1])
    BY <2>1
  <2> QED
    BY <2>2 DEF e
<1> HIDE DEF Rec
<1> DEFINE Far == {k \in 0..v : d[k] \in W /\ c <= d[k] /\ (v < d[k] \/ k < d[k])}
<1>6. 0 \in Far
  BY <1>1, <1>5
<1>7. ASSUME NEW k \in 0..v-1, k \in Far PROVE k+1 \in Far
  <2>1. k+1 \in 1..v /\ d[k+1] = next(d[k])
    BY <1>5
  <2>2. d[k] \in W /\ c <= d[k] /\ (v < d[k] \/ k < d[k])
    BY <1>7
  <2> QED
    BY <1>1, <2>1, <2>2
<1>8. 0..v \subseteq Far
  <2> HIDE DEF Far
  <2> QED
    BY <1>6, <1>7, Induction
<1>9. v \in Far
  BY <1>8
<1> QED
  BY <1>9 DEF d, c

LEMMA Grows ==
  ASSUME NEW al, IsTable(al), NEW v \in Nat
  PROVE  /\ IsTable(GrowTo(al, v))
         /\ v \in DOMAIN GrowTo(al, v) /\ DOMAIN al \subseteq DOMAIN GrowTo(al, v)
         /\ \A u \in DOMAIN al : GrowTo(al, v)[u] = al[u]
         /\ \A u \in DOMAIN GrowTo(al, v) : u \notin DOMAIN al => GrowTo(al, v)[u] = Unknown
<1> DEFINE n == Doubled(al, v)[v]
           c == Size(al)
<1>1. n \in Nat /\ v < n /\ c <= n
  BY DoublingEnds
<1>2. c \in Nat \ {0} /\ DOMAIN al = 0..c-1
  BY DEF IsTable
<1>3. GrowTo(al, v) = [u \in 0..n-1 |-> IF u < c THEN al[u] ELSE Unknown]
  BY DEF GrowTo
<1> HIDE DEF n, c
<1>4. DOMAIN GrowTo(al, v) = 0..n-1
  BY <1>3
<1>5. n \in Nat \ {0}
  BY <1>1, <1>2
<1>6. IsTable(GrowTo(al, v))
  BY <1>4, <1>5, TableOf
<1> QED
  BY <1>1, <1>2, <1>3, <1>4, <1>6

-----------------------------------------------------------------------------
(* The inductive invariant.                                                *)
Pointers ==
  /\ array \in [n : Nat, cap : Nat \ {0}, gen : Nat]
  /\ array.n = Len(funcs) /\ array.n <= array.cap
  /\ cur_func = [gen |-> array.gen, index |-> Len(funcs)]
  /\ cur_block[1] \in 0..Len(funcs)
  /\ cur_block[1] # 0 => cur_block[2] \in 1..Len(funcs[cur_block[1]])

PlaceholdersAre ==
  /\ placeholders \subseteq (1..Len(funcs)) \X (0..ParamBase-1)
  /\ Cardinality(placeholders) <= MaxPlaceholders
  /\ \A q \in placeholders : q[1] = f => q[2] < next_vreg

AliasesAre ==
  /\ IsTable(alias) /\ Pending \subseteq DOMAIN alias
  /\ \A v \in DOMAIN alias : alias[v] = Unknown \/ (v \in Pending /\ alias[v] \in Definable)

OperandsAreSound ==
  \A g \in 1..Len(funcs) : \A p \in Places(funcs[g]) :
    Sound(Opnd(funcs[g], p), IF g = f THEN next_vreg ELSE ParamBase, Top(fp.n))

DstsApart(code, m, pending) ==
  /\ \A d \in DefinersOf(code) : DstOf(code, d) \in 0..m-1 /\ DstOf(code, d) \notin pending
  /\ \A d, e \in DefinersOf(code) : DstOf(code, d) = DstOf(code, e) => d = e

DefinersApart ==
  \A g \in 1..Len(funcs) :
    DstsApart(funcs[g], IF g = f THEN next_vreg ELSE ParamBase, IF g = f THEN Pending ELSE {})

IInv ==
  /\ funcs \in Seq(Code) /\ next_vreg \in 0..ParamBase
  /\ fp.n \in Nat /\ finalized \in BOOLEAN
  /\ Pointers
  /\ PlaceholdersAre
  /\ AliasesAre
  /\ OperandsAreSound
  /\ DefinersApart

LEMMA CurrentIs ==
  ASSUME IInv
  PROVE  /\ f = Len(funcs) /\ f \in Nat
         /\ \A g \in 1..f : funcs[g] \in Code
         /\ ParamBase \in Nat
BY IRAssumption DEF IInv, Pointers, f

LEMMA Initially ==
  ASSUME Init
  PROVE  IInv
<1>1. Pointers
  BY BuilderAssumption DEF Init, Pointers, PointerTo
<1>2. PlaceholdersAre
  BY BuilderAssumption, FS_EmptySet DEF Init, PlaceholdersAre
<1>3. AliasesAre
  <2> DEFINE al == alias
             c == AliasCap
  <2>1. DOMAIN al = 0..c-1 /\ c \in Nat \ {0}
    BY BuilderAssumption DEF Init, Aliases
  <2>2. IsTable(al)
    <3> HIDE DEF al, c
    <3> QED
      BY <2>1, TableOf
  <2>3. Pending = {}
    BY DEF Init, Pending
  <2>4. \A v \in DOMAIN alias : alias[v] = Unknown
    BY DEF Init, Aliases
  <2> QED
    BY <2>2, <2>3, <2>4 DEF AliasesAre
<1>4. OperandsAreSound /\ DefinersApart
  BY DEF Init, OperandsAreSound, DefinersApart
<1>5. funcs \in Seq(Code) /\ next_vreg \in 0..ParamBase
  BY IRAssumption DEF Init
<1>6. fp.n \in Nat
  BY DEF Init, EmptyFp
<1>7. finalized \in BOOLEAN
  BY Zenon DEF Init
<1> QED
  BY <1>1, <1>2, <1>3, <1>4, <1>5, <1>6, <1>7, Zenon DEF IInv

(* An operation of the builder that appends a function, or a block.        *)
LEMMA FuncKeeps ==
  ASSUME IInv, Func
  PROVE  IInv'
<1> USE CurrentIs
<1>1. funcs' = Append(funcs, <<>>) /\ next_vreg' = 0 /\ f' = f + 1
  BY DEF Func, IInv, Pointers, f, NewPointer, PointerTo
<1>2. /\ funcs' \in Seq(Code) /\ Len(funcs') = f + 1
      /\ \A g \in 1..f : funcs'[g] = funcs[g]
      /\ funcs'[f+1] = <<>>
  <2>1. <<>> \in Code
    BY DEF Code
  <2> QED
    BY <1>1, <2>1 DEF IInv
<1>3. Pointers'
  <2>1. /\ array' \in [n : Nat, cap : Nat \ {0}, gen : Nat]
        /\ array'.n = array.n + 1 /\ array'.n <= array'.cap
    <3>1. array' = [Grown(array) EXCEPT !.n = array.n + 1]
      BY DEF Func, Pushed
    <3>2. array \in [n : Nat, cap : Nat \ {0}, gen : Nat] /\ array.n <= array.cap
      BY DEF IInv, Pointers
    <3>3. /\ Grown(array) \in [n : Nat, cap : Nat \ {0}, gen : Nat]
          /\ array.n < Grown(array).cap
      <4>1. CASE array.n < array.cap
        BY <3>2, <4>1 DEF Grown, Room
      <4>2. CASE ~(array.n < array.cap)
        <5> DEFINE a == array
                   big == [a EXCEPT !.cap = 2 * a.cap, !.gen = a.gen + 1]
        <5>1. Grown(array) = big
          BY <4>2 DEF Grown, Room
        <5>2. a.cap \in Nat \ {0} /\ a.gen \in Nat /\ a.n \in Nat /\ a.n = a.cap
          BY <3>2, <4>2
        <5>3. big = [n |-> a.n, cap |-> 2 * a.cap, gen |-> a.gen + 1]
          <6> DEFINE cap == 2 * a.cap
                     gen == a.gen + 1
          <6>1. big = [a EXCEPT !.cap = cap, !.gen = gen]
            OBVIOUS
          <6> HIDE DEF big, cap, gen
          <6>2. a = [n |-> a.n, cap |-> a.cap, gen |-> a.gen]
            BY <3>2
          <6>3. big = [n |-> a.n, cap |-> cap, gen |-> gen]
            BY <6>1, <6>2
          <6> QED
            BY <6>3 DEF cap, gen
        <5> HIDE DEF a, big
        <5>4. 2 * a.cap \in Nat \ {0} /\ a.n < 2 * a.cap
          BY <5>2
        <5> QED
          BY <5>1, <5>2, <5>3, <5>4 DEF a
      <4> QED
        BY <4>1, <4>2
    <3> QED
      BY <3>1, <3>2, <3>3
  <2>2. cur_func' = [gen |-> array'.gen, index |-> f + 1]
    BY <1>1 DEF Func, IInv, Pointers, NewPointer, PointerTo
  <2>3. cur_block' = cur_block
    BY DEF Func
  <2>4. array.n = f
    BY DEF IInv, Pointers, f
  <2>5. cur_block[1] \in 0..f /\ (cur_block[1] # 0 => cur_block[2] \in 1..Len(funcs[cur_block[1]]))
    BY DEF IInv, Pointers
  <2>6. cur_block[1] # 0 => funcs'[cur_block[1]] = funcs[cur_block[1]]
    BY <1>2, <2>5
  <2> QED
    BY <1>2, <2>1, <2>2, <2>3, <2>4, <2>5, <2>6 DEF Pointers
<1>4. PlaceholdersAre' /\ Pending' = {}
  <2>1. placeholders' = placeholders
    BY DEF Func
  <2>2. \A q \in placeholders : q[1] # f + 1
    BY DEF IInv, PlaceholdersAre
  <2>3. PlaceholdersAre'
    BY <1>1, <1>2, <2>1, <2>2 DEF IInv, PlaceholdersAre
  <2> QED
    BY <1>1, <2>1, <2>2, <2>3 DEF Pending
<1>5. AliasesAre'
  <2> DEFINE al == alias'
             c == Size(alias)
  <2>1. DOMAIN al = 0..c-1 /\ c \in Nat \ {0}
    BY DEF Func, IInv, AliasesAre, IsTable
  <2>2. IsTable(al)
    <3> HIDE DEF al, c
    <3> QED
      BY <2>1, TableOf
  <2>3. \A v \in DOMAIN alias' : alias'[v] = Unknown
    BY DEF Func
  <2> QED
    BY <1>4, <2>2, <2>3 DEF AliasesAre
<1>6. Places(funcs'[f+1]) = {} /\ DefinersOf(funcs'[f+1]) = {}
  BY <1>2 DEF Places, DefinersOf
<1>7. OperandsAreSound'
  <2> SUFFICES ASSUME NEW g \in 1..f, NEW p \in Places(funcs[g])
               PROVE  Sound(Opnd(funcs[g], p), ParamBase, Top(fp.n))
    BY <1>1, <1>2, <1>6 DEF OperandsAreSound, Func
  <2>1. Sound(Opnd(funcs[g], p), IF g = f THEN next_vreg ELSE ParamBase, Top(fp.n))
    BY DEF IInv, OperandsAreSound
  <2> DEFINE low == IF g = f THEN next_vreg ELSE ParamBase
  <2>2. low \in Nat /\ ParamBase \in Nat /\ low <= ParamBase
    BY DEF IInv
  <2> HIDE DEF low
  <2>3. Taken(low) \subseteq Taken(ParamBase)
    BY <2>2, TakenIs
  <2> QED
    BY <2>1, <2>3 DEF Sound, low
<1>8. DefinersApart'
  <2> SUFFICES ASSUME NEW g \in 1..f PROVE DstsApart(funcs[g], ParamBase, {})
    BY <1>1, <1>2, <1>6 DEF DefinersApart, DstsApart
  <2>1. DstsApart(funcs[g], IF g = f THEN next_vreg ELSE ParamBase, IF g = f THEN Pending ELSE {})
    BY DEF IInv, DefinersApart
  <2>2. ASSUME NEW d \in DefinersOf(funcs[g]) PROVE DstOf(funcs[g], d) \in 0..ParamBase-1
    <3>1. CASE g = f
      BY <2>1, <3>1 DEF DstsApart, IInv
    <3>2. CASE g # f
      BY <2>1, <3>2 DEF DstsApart
    <3> QED
      BY <3>1, <3>2
  <2> QED
    BY <2>1, <2>2 DEF DstsApart
<1>9. finalized' \in BOOLEAN
  BY Zenon DEF Func
<1>10. next_vreg' \in 0..ParamBase /\ fp'.n \in Nat
  BY <1>1 DEF IInv, Func
<1> QED
  BY <1>2, <1>3, <1>4, <1>5, <1>7, <1>8, <1>9, <1>10, Zenon DEF IInv

LEMMA BlockIs ==
  ASSUME IInv, Block
  PROVE  /\ f' = f /\ f \in 1..Len(funcs)
         /\ UNCHANGED <<array, cur_func, cur_block, next_vreg, alias, fp, placeholders, finalized>>
         /\ funcs' \in Seq(Code) /\ Len(funcs') = Len(funcs)
         /\ \A g \in 1..Len(funcs) : g # f => funcs'[g] = funcs[g]
         /\ funcs[f] \in Code /\ funcs'[f] = Append(funcs[f], <<>>)
         /\ Places(funcs'[f]) = Places(funcs[f]) /\ DefinersOf(funcs'[f]) = DefinersOf(funcs[f])
         /\ \A p \in Places(funcs[f]) : Opnd(funcs'[f], p) = Opnd(funcs[f], p)
         /\ \A d \in DefinersOf(funcs[f]) : DstOf(funcs'[f], d) = DstOf(funcs[f], d)
<1> USE CurrentIs
<1>1. /\ funcs' = [funcs EXCEPT ![f] = Append(@, <<>>)] /\ f' = f /\ f \in 1..Len(funcs)
      /\ UNCHANGED <<array, cur_func, cur_block, next_vreg, alias, fp, placeholders, finalized>>
  BY DEF Block, f
<1>2. funcs[f] \in Code /\ Append(funcs[f], <<>>) \in Code
  BY <1>1 DEF Code
<1>3. /\ funcs' \in Seq(Code) /\ Len(funcs') = Len(funcs)
      /\ \A g \in 1..Len(funcs) : g # f => funcs'[g] = funcs[g]
      /\ funcs'[f] = Append(funcs[f], <<>>)
  BY <1>1, <1>2 DEF IInv
<1>4. Places(funcs'[f]) = Places(funcs[f]) /\ DefinersOf(funcs'[f]) = DefinersOf(funcs[f])
  <2> DEFINE old == funcs[f]
             new == funcs'[f]
  <2>1. /\ DOMAIN old = 1..Len(old) /\ DOMAIN new = 1..Len(old)+1 /\ Len(old) \in Nat
        /\ \A b \in 1..Len(old) : new[b] = old[b]
        /\ new[Len(old)+1] = <<>>
    BY <1>2, <1>3 DEF Code
  <2> HIDE DEF old, new
  <2>2. old \in Code /\ new \in Code /\ Len(new) = Len(old) + 1
    BY <1>2, <1>3 DEF old, new, Code
  <2>3. Len(new[Len(old)+1]) = 0
    BY <2>1
  <2>4. ASSUME NEW p PROVE p \in Places(new) <=> p \in Places(old)
    <3>1. ASSUME p \in Places(old) PROVE p \in Places(new)
      <4>1. /\ p = <<p[1], p[2], p[3]>> /\ p[1] \in 1..Len(old)
            /\ p[2] \in 1..Len(old[p[1]]) /\ p[3] \in 1..Len(old[p[1]][p[2]].args)
        BY <2>2, <3>1, PlacesAre
      <4>2. p[1] \in 1..Len(new) /\ new[p[1]] = old[p[1]]
        BY <2>1, <2>2, <4>1
      <4>3. <<p[1], p[2], p[3]>> \in Places(new)
        BY <2>2, <4>1, <4>2, PlacesAre
      <4> QED
        BY <4>1, <4>3
    <3>2. ASSUME p \in Places(new) PROVE p \in Places(old)
      <4>1. p[1] \in 1..Len(new) /\ p[1] # Len(old) + 1
        BY <2>2, <2>3, <3>2, PlacesAre
      <4>2. p[1] \in 1..Len(old)
        BY <2>1, <2>2, <4>1
      <4> QED
        BY <2>1, <2>2, <3>2, <4>2, PlacesAre
    <3> QED
      BY <3>1, <3>2
  <2>5. ASSUME NEW b, NEW k PROVE <<b, k>> \in DefinersOf(new) <=> <<b, k>> \in DefinersOf(old)
    <3>1. b \in 1..Len(old) => new[b] = old[b] /\ b \in 1..Len(new)
      BY <2>1, <2>2
    <3>2. b \in 1..Len(new) => b \in 1..Len(old) \/ b = Len(old) + 1
      BY <2>1, <2>2
    <3> QED
      BY <2>2, <2>3, <3>1, <3>2, DefinersAre
  <2>6. DefinersOf(new) = DefinersOf(old)
    <3>1. ASSUME NEW d \in DefinersOf(new) PROVE d \in DefinersOf(old)
      <4>1. d = <<d[1], d[2]>>
        BY DefinersPairs
      <4> QED
        BY <2>5, <4>1
    <3>2. ASSUME NEW d \in DefinersOf(old) PROVE d \in DefinersOf(new)
      <4>1. d = <<d[1], d[2]>>
        BY DefinersPairs
      <4> QED
        BY <2>5, <4>1
    <3> QED
      BY <3>1, <3>2
  <2> QED
    BY <2>4, <2>6 DEF old, new
<1>5. /\ \A p \in Places(funcs[f]) : Opnd(funcs'[f], p) = Opnd(funcs[f], p)
      /\ \A d \in DefinersOf(funcs[f]) : DstOf(funcs'[f], d) = DstOf(funcs[f], d)
  <2>1. \A b \in 1..Len(funcs[f]) : funcs'[f][b] = funcs[f][b]
    BY <1>2, <1>3 DEF Code
  <2>2. \A p \in Places(funcs[f]) : p[1] \in 1..Len(funcs[f])
    BY <1>2, PlacesAre
  <2>3. \A d \in DefinersOf(funcs[f]) : d[1] \in 1..Len(funcs[f])
    BY <1>2, DefinersPairs, DefinersAre
  <2> QED
    BY <2>1, <2>2, <2>3 DEF Opnd, DstOf
<1> QED
  BY <1>1, <1>2, <1>3, <1>4, <1>5

LEMMA BlockKeeps ==
  ASSUME IInv, Block
  PROVE  IInv'
<1> USE CurrentIs
<1>1. /\ f' = f /\ f \in 1..Len(funcs)
      /\ UNCHANGED <<array, cur_func, cur_block, next_vreg, alias, fp, placeholders, finalized>>
      /\ funcs' \in Seq(Code) /\ Len(funcs') = Len(funcs)
      /\ \A g \in 1..Len(funcs) : g # f => funcs'[g] = funcs[g]
      /\ funcs[f] \in Code /\ funcs'[f] = Append(funcs[f], <<>>)
      /\ Places(funcs'[f]) = Places(funcs[f]) /\ DefinersOf(funcs'[f]) = DefinersOf(funcs[f])
      /\ \A p \in Places(funcs[f]) : Opnd(funcs'[f], p) = Opnd(funcs[f], p)
      /\ \A d \in DefinersOf(funcs[f]) : DstOf(funcs'[f], d) = DstOf(funcs[f], d)
  BY BlockIs
<1>2. Pointers'
  <2>1. Len(funcs[f]) \in Nat /\ Len(funcs'[f]) = Len(funcs[f]) + 1
    BY <1>1 DEF Code
  <2>2. /\ cur_block[1] \in 0..Len(funcs)
        /\ cur_block[1] # 0 => cur_block[2] \in 1..Len(funcs[cur_block[1]])
    BY DEF IInv, Pointers
  <2>3. cur_block[1] # 0 => cur_block[2] \in 1..Len(funcs'[cur_block[1]])
    <3>1. CASE cur_block[1] = f
      BY <1>1, <2>1, <2>2, <3>1
    <3>2. CASE cur_block[1] # f
      BY <1>1, <2>2, <3>2
    <3> QED
      BY <3>1, <3>2
  <2> QED
    BY <1>1, <2>3 DEF IInv, Pointers
<1>3. Pending' = Pending /\ Definable' = Definable
  BY <1>1 DEF Pending, Definable, Vregs
<1>4. PlaceholdersAre' /\ AliasesAre'
  BY <1>1, <1>3 DEF IInv, PlaceholdersAre, AliasesAre
<1>5. OperandsAreSound'
  <2> SUFFICES ASSUME NEW g \in 1..Len(funcs), NEW p \in Places(funcs'[g])
               PROVE  Sound(Opnd(funcs'[g], p), IF g = f THEN next_vreg ELSE ParamBase, Top(fp.n))
    BY <1>1 DEF OperandsAreSound
  <2>1. p \in Places(funcs[g]) /\ Opnd(funcs'[g], p) = Opnd(funcs[g], p)
    BY <1>1
  <2> QED
    BY <2>1 DEF IInv, OperandsAreSound
<1>6. DefinersApart'
  <2>1. ASSUME NEW g \in 1..Len(funcs)
        PROVE  /\ DefinersOf(funcs'[g]) = DefinersOf(funcs[g])
               /\ \A d \in DefinersOf(funcs[g]) : DstOf(funcs'[g], d) = DstOf(funcs[g], d)
    BY <1>1
  <2> SUFFICES ASSUME NEW g \in 1..Len(funcs)
               PROVE  DstsApart(funcs'[g], IF g = f THEN next_vreg ELSE ParamBase, IF g = f THEN Pending ELSE {})
    BY <1>1, <1>3 DEF DefinersApart
  <2>3. DstsApart(funcs[g], IF g = f THEN next_vreg ELSE ParamBase, IF g = f THEN Pending ELSE {})
    BY DEF IInv, DefinersApart
  <2> QED
    BY <2>1, <2>3 DEF DstsApart
<1> QED
  BY <1>1, <1>2, <1>4, <1>5, <1>6 DEF IInv

LEMMA SetInsertKeeps ==
  ASSUME IInv, SetInsert
  PROVE  IInv'
<1> USE CurrentIs
<1>1. UNCHANGED <<funcs, array, cur_func, next_vreg, alias, fp, placeholders, finalized>> /\ f' = f
  BY DEF SetInsert, f
<1>2. PICK b \in DOMAIN funcs[f] : cur_block' = <<f, b>>
  BY DEF SetInsert
<1>3. f \in 1..Len(funcs) /\ b \in 1..Len(funcs[f])
  BY <1>2 DEF SetInsert, Code
<1>4. Pointers'
  BY <1>1, <1>2, <1>3 DEF IInv, Pointers
<1>5. Pending' = Pending /\ Definable' = Definable
  BY <1>1 DEF Pending, Definable, Vregs
<1>6. PlaceholdersAre' /\ AliasesAre' /\ OperandsAreSound' /\ DefinersApart'
  BY <1>1, <1>5 DEF IInv, PlaceholdersAre, AliasesAre, OperandsAreSound, DefinersApart
<1> QED
  BY <1>1, <1>4, <1>6 DEF IInv

LEMMA PlaceholdersFinite ==
  ASSUME IInv
  PROVE  IsFiniteSet(placeholders) /\ Cardinality(placeholders) \in Nat
<1> DEFINE N == 1..Len(funcs)
           M == 0..ParamBase-1
<1>1. IsFiniteSet(N) /\ IsFiniteSet(M)
  BY CurrentIs, FS_Interval
<1>2. IsFiniteSet(N \X M)
  <2> HIDE DEF N, M
  <2> QED
    BY <1>1, FS_Product
<1>3. placeholders \in SUBSET (N \X M)
  BY DEF IInv, PlaceholdersAre
<1> QED
  <2> HIDE DEF N, M
  <2> QED
    BY <1>2, <1>3, FS_Subset, FS_CardinalityType

LEMMA PlaceholderKeeps ==
  ASSUME IInv, Placeholder
  PROVE  IInv'
<1> USE CurrentIs
<1>1. /\ UNCHANGED <<funcs, array, cur_func, cur_block, fp, finalized>> /\ f' = f
      /\ f \in 1..Len(funcs)
      /\ next_vreg' = next_vreg + 1 /\ next_vreg < ParamBase /\ next_vreg \in 0..ParamBase-1
      /\ alias' = GrowTo(alias, next_vreg)
      /\ placeholders' = placeholders \cup {<<f, next_vreg>>}
      /\ Cardinality(placeholders) < MaxPlaceholders
  BY DEF Placeholder, f, Numbered, IInv
<1>2. Pending' = Pending \cup {next_vreg} /\ next_vreg \notin Pending
  BY <1>1 DEF Pending, IInv
<1>3. PlaceholdersAre'
  <2>1. Cardinality(placeholders') <= MaxPlaceholders
    <3>1. /\ Cardinality(placeholders) \in Nat /\ IsFiniteSet(placeholders)
          /\ MaxPlaceholders \in Nat
      BY PlaceholdersFinite, BuilderAssumption
    <3>2. \/ Cardinality(placeholders') = Cardinality(placeholders)
          \/ Cardinality(placeholders') = Cardinality(placeholders) + 1
      <4> DEFINE S == placeholders
                 x == <<f, next_vreg>>
      <4>1. placeholders' = S \cup {x} /\ IsFiniteSet(S)
        BY <1>1, <3>1
      <4> HIDE DEF S, x
      <4>2. Cardinality(S \cup {x}) = IF x \in S THEN Cardinality(S) ELSE Cardinality(S) + 1
        BY <4>1, FS_AddElement
      <4>3. placeholders = S
        BY DEF S
      <4> QED
        BY <4>1, <4>2, <4>3
    <3>3. Cardinality(placeholders) < MaxPlaceholders
      BY <1>1
    <3> QED
      BY <1>1, <3>1, <3>2, <3>3
  <2>2. \A q \in placeholders' : q[1] = f => q[2] < next_vreg + 1
    <3>1. \A q \in placeholders : q[1] = f => q[2] < next_vreg /\ q[2] \in Nat
      BY DEF IInv, PlaceholdersAre
    <3> QED
      BY <1>1, <3>1 DEF IInv
  <2>3. placeholders' \subseteq (1..Len(funcs)) \X (0..ParamBase-1)
    BY <1>1 DEF IInv, PlaceholdersAre
  <2> QED
    BY <1>1, <2>1, <2>2, <2>3 DEF PlaceholdersAre
<1>4. AliasesAre'
  <2>1. /\ IsTable(alias') /\ next_vreg \in DOMAIN alias' /\ DOMAIN alias \subseteq DOMAIN alias'
        /\ \A u \in DOMAIN alias : alias'[u] = alias[u]
        /\ \A u \in DOMAIN alias' : u \notin DOMAIN alias => alias'[u] = Unknown
    <3> DEFINE v == next_vreg
               al == alias
    <3>1. v \in Nat /\ IsTable(al) /\ alias' = GrowTo(al, v)
      BY <1>1 DEF IInv, AliasesAre
    <3> HIDE DEF v, al
    <3>2. /\ IsTable(alias') /\ v \in DOMAIN alias' /\ DOMAIN al \subseteq DOMAIN alias'
          /\ \A u \in DOMAIN al : alias'[u] = al[u]
          /\ \A u \in DOMAIN alias' : u \notin DOMAIN al => alias'[u] = Unknown
      BY <3>1, Grows
    <3> QED
      BY <3>2 DEF v, al
  <2>2. Definable \subseteq Definable'
    <3>1. Taken(next_vreg) \subseteq Taken(next_vreg')
      BY <1>1, TakenIs
    <3> QED
      BY <3>1 DEF Definable, Vregs
  <2>3. Pending' \subseteq DOMAIN alias'
    BY <1>2, <2>1 DEF IInv, AliasesAre
  <2>4. ASSUME NEW v \in DOMAIN alias'
        PROVE  alias'[v] = Unknown \/ (v \in Pending' /\ alias'[v] \in Definable')
    BY <1>2, <2>1, <2>2 DEF IInv, AliasesAre
  <2> QED
    BY <2>1, <2>3, <2>4 DEF AliasesAre
<1>5. OperandsAreSound'
  <2> SUFFICES ASSUME NEW g \in 1..Len(funcs), NEW p \in Places(funcs[g])
               PROVE  Sound(Opnd(funcs[g], p), IF g = f THEN next_vreg + 1 ELSE ParamBase, Top(fp.n))
    BY <1>1 DEF OperandsAreSound
  <2>1. Sound(Opnd(funcs[g], p), IF g = f THEN next_vreg ELSE ParamBase, Top(fp.n))
    BY DEF IInv, OperandsAreSound
  <2>2. Taken(next_vreg) \subseteq Taken(next_vreg + 1)
    BY <1>1, TakenIs
  <2> QED
    BY <2>1, <2>2 DEF Sound
<1>6. DefinersApart'
  <2> SUFFICES ASSUME NEW g \in 1..Len(funcs)
               PROVE  DstsApart(funcs[g], IF g = f THEN next_vreg + 1 ELSE ParamBase, IF g = f THEN Pending' ELSE {})
    BY <1>1 DEF DefinersApart
  <2>1. DstsApart(funcs[g], IF g = f THEN next_vreg ELSE ParamBase, IF g = f THEN Pending ELSE {})
    BY DEF IInv, DefinersApart
  <2>2. ASSUME g = f, NEW d \in DefinersOf(funcs[g])
        PROVE  DstOf(funcs[g], d) \in 0..next_vreg /\ DstOf(funcs[g], d) \notin Pending'
    <3>1. DstOf(funcs[g], d) \in 0..next_vreg-1 /\ DstOf(funcs[g], d) \notin Pending
      BY <2>1, <2>2 DEF DstsApart
    <3> QED
      BY <1>1, <1>2, <3>1
  <2>3. CASE g = f
    BY <1>1, <2>1, <2>2, <2>3 DEF DstsApart
  <2>4. CASE g # f
    BY <2>1, <2>4
  <2> QED
    BY <2>3, <2>4
<1>7. Pointers'
  BY <1>1 DEF IInv, Pointers
<1> QED
  BY <1>1, <1>3, <1>4, <1>5, <1>6, <1>7 DEF IInv

LEMMA DefineKeeps ==
  ASSUME IInv, Define
  PROVE  IInv'
<1> USE CurrentIs
<1>1. UNCHANGED <<funcs, array, cur_func, cur_block, next_vreg, fp, placeholders>> /\ f' = f
  BY DEF Define, f
<1>2. PICK p \in Pending : \E x \in Definable : alias' = [GrowTo(alias, p) EXCEPT ![p] = x]
  BY DEF Define
<1>3. PICK x \in Definable : alias' = [GrowTo(alias, p) EXCEPT ![p] = x]
  BY <1>2
<1>4. Pending' = Pending /\ Definable' = Definable
  BY <1>1 DEF Pending, Definable, Vregs
<1>5. AliasesAre'
  <2> DEFINE grown == GrowTo(alias, p)
  <2>1. p \in Nat
    BY DEF Pending
  <2>2. /\ IsTable(grown) /\ p \in DOMAIN grown /\ DOMAIN alias \subseteq DOMAIN grown
        /\ \A u \in DOMAIN alias : grown[u] = alias[u]
        /\ \A u \in DOMAIN grown : u \notin DOMAIN alias => grown[u] = Unknown
    BY <2>1, Grows DEF IInv, AliasesAre
  <2> HIDE DEF grown
  <2>3. DOMAIN alias' = DOMAIN grown /\ \A u \in DOMAIN grown : alias'[u] = IF u = p THEN x ELSE grown[u]
    BY <1>3 DEF grown
  <2>4. IsTable(alias')
    BY <2>2, <2>3 DEF IsTable, Size
  <2>5. ASSUME NEW v \in DOMAIN alias'
        PROVE  alias'[v] = Unknown \/ (v \in Pending /\ alias'[v] \in Definable)
    BY <2>2, <2>3 DEF IInv, AliasesAre
  <2> QED
    BY <1>4, <2>2, <2>3, <2>4, <2>5 DEF IInv, AliasesAre
<1>6. Pointers' /\ PlaceholdersAre' /\ OperandsAreSound' /\ DefinersApart'
  BY <1>1, <1>4 DEF IInv, Pointers, PlaceholdersAre, OperandsAreSound, DefinersApart
<1> QED
  BY <1>1, <1>5, <1>6 DEF IInv, Define

-----------------------------------------------------------------------------
(* Appending instructions.                                                 *)
Fits(instrs, args, n) ==
  /\ \A i \in 1..Len(instrs) : \A a \in 1..Len(instrs[i].args) :
       Sound(instrs[i].args[a], next_vreg + n, Top(fp.n + Len(FpsOf(args))))
  /\ \A i \in 1..Len(instrs) :
       instrs[i].dst # NoDst => n = 1 /\ i = 1 /\ instrs[i].dst = next_vreg

LEMMA SoundGrows ==
  ASSUME NEW o, NEW m \in Nat, NEW n \in Nat, m <= n,
         NEW k \in Nat, NEW j \in Nat, Sound(o, m, Top(k))
  PROVE  Sound(o, n, Top(k + j))
<1>1. Top(k) \in Nat /\ Top(k + j) \in Nat /\ Top(k) <= Top(k + j)
  BY TopIs
<1>2. Taken(m) \subseteq Taken(n)
  BY TakenIs
<1> HIDE DEF Top
<1> QED
  BY <1>1, <1>2 DEF Sound

LEMMA EmitIs ==
  ASSUME IInv, NEW instrs \in Seq(Instruction), NEW n \in {0, 1},
         NEW args \in Seq(Val(next_vreg)), Emit(instrs, args, n)
  PROVE  /\ f \in 1..Len(funcs) /\ cur_block[1] = f /\ cur_block[2] \in 1..Len(funcs[f])
         /\ funcs' = [funcs EXCEPT ![f] = Extended(funcs[f], cur_block[2], instrs)]
         /\ funcs' \in Seq(Code) /\ Len(funcs') = Len(funcs)
         /\ funcs'[f] = Extended(funcs[f], cur_block[2], instrs)
         /\ \A g \in 1..Len(funcs) : g # f => funcs'[g] = funcs[g]
         /\ f' = f /\ next_vreg' = next_vreg + n /\ next_vreg' \in 0..ParamBase
         /\ fp' = FpAdded(fp, FpsOf(args))
         /\ fp'.n = fp.n + Len(FpsOf(args)) /\ Len(FpsOf(args)) \in Nat
         /\ UNCHANGED <<array, cur_func, cur_block, alias, placeholders>>
<1> USE CurrentIs
<1>1. /\ f \in 1..Len(funcs) /\ cur_block[1] = f /\ cur_block[2] \in 1..Len(funcs[f])
      /\ UNCHANGED <<array, cur_func, cur_block, alias, placeholders>> /\ f' = f
  BY DEF Emit, Building, IInv, Pointers, f
<1>2. funcs' = [funcs EXCEPT ![f] = Extended(funcs[f], cur_block[2], instrs)]
  <2> DEFINE c == cur_block[1]
             b == cur_block[2]
  <2>1. funcs' = [funcs EXCEPT ![c] = [funcs[c] EXCEPT ![b] = funcs[c][b] \o instrs]]
    BY DEF Emit
  <2>2. c = f
    BY <1>1
  <2> HIDE DEF c, b
  <2> QED
    BY <2>1, <2>2 DEF Extended, b
<1>3. IsExtended(Extended(funcs[f], cur_block[2], instrs), funcs[f], cur_block[2], instrs)
  BY <1>1, ExtendedIs
<1>4. /\ funcs' \in Seq(Code) /\ Len(funcs') = Len(funcs)
      /\ funcs'[f] = Extended(funcs[f], cur_block[2], instrs)
      /\ \A g \in 1..Len(funcs) : g # f => funcs'[g] = funcs[g]
  <2> DEFINE new == Extended(funcs[f], cur_block[2], instrs)
  <2>1. new \in Code /\ funcs' = [funcs EXCEPT ![f] = new] /\ funcs \in Seq(Code)
    BY <1>2, <1>3 DEF IInv, IsExtended
  <2> HIDE DEF new
  <2>2. /\ funcs' \in Seq(Code) /\ Len(funcs') = Len(funcs) /\ funcs'[f] = new
        /\ \A g \in 1..Len(funcs) : g # f => funcs'[g] = funcs[g]
    BY <1>1, <2>1
  <2> QED
    BY <2>2 DEF new
<1>5. fp'.n = fp.n + Len(FpsOf(args)) /\ fp' = FpAdded(fp, FpsOf(args))
  BY DEF Emit, FpAdded
<1>6. Len(FpsOf(args)) \in Nat
  BY FpCounts DEF IInv
<1>7. next_vreg' = next_vreg + n /\ next_vreg' \in 0..ParamBase
  BY DEF Emit, Numbered, IInv
<1> QED
  BY <1>1, <1>2, <1>4, <1>5, <1>6, <1>7

LEMMA EmitKeeps ==
  ASSUME IInv, NEW instrs \in Seq(Instruction), NEW n \in {0, 1},
         NEW args \in Seq(Val(next_vreg)), Emit(instrs, args, n), Fits(instrs, args, n)
  PROVE  IInv'
<1> USE CurrentIs
<1> DEFINE code == funcs[f]
           b == cur_block[2]
           m == Len(FpsOf(args))
<1>1. /\ f \in 1..Len(funcs) /\ cur_block[1] = f /\ b \in 1..Len(code)
      /\ funcs' \in Seq(Code) /\ Len(funcs') = Len(funcs)
      /\ funcs'[f] = Extended(code, b, instrs)
      /\ \A g \in 1..Len(funcs) : g # f => funcs'[g] = funcs[g]
      /\ f' = f /\ next_vreg' = next_vreg + n /\ next_vreg' \in 0..ParamBase
      /\ fp'.n = fp.n + m /\ m \in Nat
      /\ UNCHANGED <<array, cur_func, cur_block, alias, placeholders>>
  BY EmitIs
<1>2. code \in Code /\ next_vreg \in 0..ParamBase /\ fp.n \in Nat
  BY <1>1 DEF IInv
<1> HIDE DEF code, b, m
<1>3. Pending' = Pending
  <2>1. \A v : <<f, v>> \in placeholders => v < next_vreg
    BY DEF IInv, PlaceholdersAre
  <2>2. \A v \in 0..next_vreg'-1 : <<f, v>> \in placeholders => v \in 0..next_vreg-1
    BY <1>1, <1>2, <2>1
  <2>3. \A v \in 0..next_vreg-1 : v \in 0..next_vreg'-1
    BY <1>1, <1>2
  <2> QED
    BY <1>1, <2>2, <2>3 DEF Pending
<1>4. PlaceholdersAre'
  <2>1. \A q \in placeholders : q[1] = f => q[2] < next_vreg'
    <3>1. \A q \in placeholders : q[1] = f => q[2] < next_vreg /\ q[2] \in Nat
      BY DEF IInv, PlaceholdersAre
    <3> QED
      BY <1>1, <1>2, <3>1
  <2> QED
    BY <1>1, <2>1 DEF IInv, PlaceholdersAre
<1>5. AliasesAre'
  <2>1. Definable \subseteq Definable'
    <3>1. Taken(next_vreg) \subseteq Taken(next_vreg')
      BY <1>1, <1>2, TakenIs
    <3> QED
      BY <3>1 DEF Definable, Vregs
  <2> QED
    BY <1>1, <1>3, <2>1 DEF IInv, AliasesAre
<1>6. Pointers'
  <2>1. Len(funcs'[f]) = Len(code)
    <3>1. IsExtended(Extended(code, b, instrs), code, b, instrs)
      BY <1>1, <1>2, ExtendedIs
    <3> QED
      BY <1>1, <3>1 DEF IsExtended
  <2> QED
    BY <1>1, <2>1 DEF IInv, Pointers, code, b
<1>7. OperandsAreSound'
  <2> SUFFICES ASSUME NEW g \in 1..Len(funcs), NEW p \in Places(funcs'[g])
               PROVE  Sound(Opnd(funcs'[g], p), IF g = f THEN next_vreg + n ELSE ParamBase,
                            Top(fp.n + m))
    BY <1>1 DEF OperandsAreSound
  <2>1. \A q \in Places(funcs[g]) :
          Sound(Opnd(funcs[g], q), IF g = f THEN next_vreg + n ELSE ParamBase, Top(fp.n + m))
    <3> SUFFICES ASSUME NEW q \in Places(funcs[g])
                 PROVE  Sound(Opnd(funcs[g], q), IF g = f THEN next_vreg + n ELSE ParamBase, Top(fp.n + m))
      OBVIOUS
    <3> DEFINE low == IF g = f THEN next_vreg ELSE ParamBase
               high == IF g = f THEN next_vreg + n ELSE ParamBase
               k == fp.n
    <3>1. Sound(Opnd(funcs[g], q), low, Top(k))
      BY DEF IInv, OperandsAreSound
    <3>2. low \in Nat /\ high \in Nat /\ low <= high /\ k \in Nat
      BY <1>1, <1>2
    <3> HIDE DEF low, high, k
    <3>3. Sound(Opnd(funcs[g], q), high, Top(k + m))
      BY <1>1, <3>1, <3>2, SoundGrows
    <3> QED
      BY <3>3 DEF high, k
  <2>2. CASE g # f
    BY <1>1, <2>1, <2>2
  <2>3. CASE g = f
    <3>1. \/ p \in Places(code) /\ Opnd(funcs'[f], p) = Opnd(code, p)
          \/ \E i \in 1..Len(instrs) : \E a \in 1..Len(instrs[i].args) :
               Opnd(funcs'[f], p) = instrs[i].args[a]
      <4> DEFINE new == Extended(code, b, instrs)
      <4>1. funcs'[f] = new
        BY <1>1
      <4>2. \A u \in Places(new) :
              \/ u \in Places(code)
              \/ \E i \in 1..Len(instrs) : \E a \in 1..Len(instrs[i].args) :
                   Opnd(new, u) = instrs[i].args[a]
        BY <1>1, <1>2, ExtendedPlaces
      <4>3. \A u \in Places(code) : Opnd(new, u) = Opnd(code, u)
        BY <1>1, <1>2, ExtendedPlaces
      <4> HIDE DEF new
      <4>4. p \in Places(new)
        BY <2>3, <4>1
      <4> QED
        BY <4>1, <4>2, <4>3, <4>4
    <3>2. CASE p \in Places(code) /\ Opnd(funcs'[f], p) = Opnd(code, p)
      BY <2>1, <2>3, <3>2 DEF code
    <3>3. CASE \E i \in 1..Len(instrs) : \E a \in 1..Len(instrs[i].args) :
                 Opnd(funcs'[f], p) = instrs[i].args[a]
      BY <2>3, <3>3 DEF Fits, m
    <3> QED
      BY <3>1, <3>2, <3>3
  <2> QED
    BY <2>2, <2>3
<1>8. DefinersApart'
  <2> SUFFICES ASSUME NEW g \in 1..Len(funcs)
               PROVE  DstsApart(funcs'[g], IF g = f THEN next_vreg + n ELSE ParamBase,
                                IF g = f THEN Pending ELSE {})
    BY <1>1, <1>3 DEF DefinersApart
  <2>1. DstsApart(funcs[g], IF g = f THEN next_vreg ELSE ParamBase, IF g = f THEN Pending ELSE {})
    BY DEF IInv, DefinersApart
  <2>2. CASE g # f
    BY <1>1, <2>1, <2>2
  <2>3. CASE g = f
    <3> DEFINE new == funcs'[f]
               Fresh(d) == n = 1 /\ d = <<b, Len(code[b]) + 1>> /\ DstOf(new, d) = next_vreg
    <3>1. \A d \in DefinersOf(new) :
            \/ d \in DefinersOf(code) /\ DstOf(new, d) = DstOf(code, d)
            \/ \E i \in 1..Len(instrs) :
                 /\ d = <<b, Len(code[b]) + i>> /\ instrs[i].dst # NoDst
                 /\ DstOf(new, d) = instrs[i].dst
      BY <1>1, <1>2, ExtendedDefiners
    <3> HIDE DEF new
    <3>2. \A d \in DefinersOf(new) :
            (d \in DefinersOf(code) /\ DstOf(new, d) = DstOf(code, d)) \/ Fresh(d)
      BY <3>1 DEF Fits
    <3> HIDE DEF Fresh
    <3>3. \A d \in DefinersOf(code) : DstOf(code, d) \in 0..next_vreg-1 /\ DstOf(code, d) \notin Pending
      BY <2>1, <2>3 DEF DstsApart, code
    <3>4. ASSUME NEW d \in DefinersOf(new)
          PROVE  DstOf(new, d) \in 0..next_vreg+n-1 /\ DstOf(new, d) \notin Pending
      <4>1. CASE d \in DefinersOf(code) /\ DstOf(new, d) = DstOf(code, d)
        BY <1>1, <1>2, <3>3, <4>1
      <4>2. CASE Fresh(d)
        BY <1>1, <1>2, <4>2 DEF Fresh, Pending
      <4> QED
        BY <3>2, <4>1, <4>2
    <3>5. ASSUME NEW d \in DefinersOf(new), NEW e \in DefinersOf(new), DstOf(new, d) = DstOf(new, e)
          PROVE  d = e
      <4>1. CASE Fresh(d) /\ Fresh(e)
        BY <4>1 DEF Fresh
      <4>2. CASE d \in DefinersOf(code) /\ e \in DefinersOf(code)
                   /\ DstOf(new, d) = DstOf(code, d) /\ DstOf(new, e) = DstOf(code, e)
        BY <2>1, <2>3, <3>5, <4>2 DEF DstsApart, code
      <4>3. ASSUME NEW x \in DefinersOf(code), DstOf(new, x) = DstOf(code, x)
            PROVE  DstOf(new, x) # next_vreg
        BY <1>2, <3>3, <4>3
      <4> QED
        BY <3>2, <3>5, <4>1, <4>2, <4>3 DEF Fresh
    <3>6. DstsApart(new, next_vreg + n, Pending)
      <4> DEFINE next == next_vreg + n
      <4>1. \A d \in DefinersOf(new) : DstOf(new, d) \in 0..next-1 /\ DstOf(new, d) \notin Pending
        BY <1>2, <3>4
      <4>2. \A d, e \in DefinersOf(new) : DstOf(new, d) = DstOf(new, e) => d = e
        BY <3>5
      <4>3. DstsApart(new, next, Pending)
        <5> HIDE DEF next
        <5> QED
          BY <4>1, <4>2 DEF DstsApart
      <4> QED
        BY <4>3
    <3> QED
      BY <2>3, <3>6 DEF new
  <2> QED
    BY <2>2, <2>3
<1>9. finalized' \in BOOLEAN
  BY Zenon DEF Emit
<1>10. fp'.n \in Nat
  BY <1>1, <1>2
<1> QED
  BY <1>1, <1>4, <1>5, <1>6, <1>7, <1>8, <1>9, <1>10, Zenon DEF IInv
(* One instruction, that defines a vreg or nothing.                        *)
LEMMA OneFits ==
  ASSUME IInv, NEW args \in Seq(Val(next_vreg)), NEW n \in {0, 1}, NEW dst \in Int,
         (n = 0 /\ dst = NoDst) \/ (n = 1 /\ dst = next_vreg)
  PROVE  <<Instr(dst, args)>> \in Seq(Instruction) /\ Fits(<<Instr(dst, args)>>, args, n)
<1> DEFINE in == Instr(dst, args)
           instrs == <<in>>
           m == next_vreg
           k == Len(FpsOf(args))
<1>1. fp.n \in Nat /\ m \in Nat /\ k \in Nat
  BY CurrentIs, FpCounts DEF IInv
<1>2. /\ in \in Instruction /\ in.dst = dst /\ Len(in.args) = Len(args)
      /\ \A i \in 1..Len(args) : Sound(in.args[i], m, Top(fp.n + k))
  BY <1>1, InstrIs
<1>3. Len(args) \in Nat
  OBVIOUS
<1>4. m + n \in Nat /\ m <= m + n /\ fp.n + k \in Nat
  BY <1>1
<1>5. instrs \in Seq(Instruction) /\ Len(instrs) = 1 /\ instrs[1] = in
  BY <1>2
<1> HIDE DEF in, m, k, instrs
<1>6. \A i \in 1..Len(args) : Sound(in.args[i], m + n, Top(fp.n + k))
  <2> DEFINE big == m + n
             top == Top(fp.n + k)
  <2>1. top \in Nat
    BY <1>4, TopIs
  <2>2. big \in Nat /\ m <= big
    BY <1>4
  <2> HIDE DEF big, top
  <2>3. \A i \in 1..Len(args) : Sound(in.args[i], m, top)
    BY <1>2 DEF top
  <2>4. \A i \in 1..Len(args) : Sound(in.args[i], big, top)
    <3>1. Taken(m) \subseteq Taken(big)
      BY <1>1, <2>2, TakenIs
    <3> QED
      BY <2>3, <3>1 DEF Sound
  <2> QED
    BY <2>4 DEF big, top
<1>7. Fits(instrs, args, n)
  <2>1. \A i \in 1..Len(instrs) : instrs[i] = in /\ i = 1
    BY <1>5
  <2> QED
    BY <1>2, <1>6, <2>1 DEF Fits, m, k
<1> QED
  BY <1>5, <1>7 DEF instrs, in

LEMMA GivenAre ==
  ASSUME IInv
  PROVE  Given \subseteq Val(next_vreg) /\ IntOf(Bytes) \in Val(next_vreg) /\ Null \in Val(next_vreg)
<1>1. Constants \subseteq Val(next_vreg)
  BY DEF Constants, Val
<1> QED
  BY <1>1, BuilderAssumption DEF Given, Vregs, Val, IntOf

(* Every operand stands for a value a client may give.                     *)
StandsFor(o, x, args) ==
  \E k \in Int :
    /\ o = Operand(x, k)
    /\ x.is = "fp" => k \in 1..Len(FpsOf(args)) /\ FpsOf(args)[k] = x.n
Meaningful(instrs, args, n) ==
  \A i \in 1..Len(instrs) : \A a \in 1..Len(instrs[i].args) :
    \E x \in Val(next_vreg + n) : StandsFor(instrs[i].args[a], x, args)

LEMMA MoreValues ==
  ASSUME NEW m \in Nat, NEW n \in Nat
  PROVE  Val(m) \subseteq Val(m + n)
<1>1. Taken(m) \subseteq Taken(m + n)
  BY TakenIs
<1> QED
  BY <1>1 DEF Val

LEMMA InstrStands ==
  ASSUME NEW m \in Nat, NEW vals \in Seq(Val(m)), NEW dst, NEW i \in 1..Len(vals)
  PROVE  /\ StandsFor(Instr(dst, vals).args[i], vals[i], vals)
         /\ vals[i] \in Val(m)
<1>1. Instr(dst, vals).args[i] = Operand(vals[i], FpCount(vals, i)) /\ vals[i] \in Val(m)
  BY DEF Instr
<1>2. FpCount(vals, i) \in Int
  <2>1. FpPlaces(vals) \subseteq 1..Len(vals)
    BY DEF FpPlaces
  <2>2. IsFiniteSet({j \in FpPlaces(vals) : j <= i})
    <3> DEFINE S == {j \in FpPlaces(vals) : j <= i}
    <3>1. S \in SUBSET (1..Len(vals)) /\ IsFiniteSet(1..Len(vals))
      BY <2>1, FS_Interval
    <3> HIDE DEF S
    <3>2. IsFiniteSet(S)
      BY <3>1, FS_Subset
    <3> QED
      BY <3>2 DEF S
  <2> QED
    BY <2>2, FS_CardinalityType DEF FpCount
<1>3. vals[i].is = "fp" => FpCount(vals, i) \in 1..Len(FpsOf(vals))
                              /\ FpsOf(vals)[FpCount(vals, i)] = vals[i].n
  <2>1. vals[i].is = "fp" => i \in FpPlaces(vals)
    BY DEF FpPlaces
  <2> QED
    BY <2>1, FpCounts
<1> QED
  BY <1>1, <1>2, <1>3 DEF StandsFor

LEMMA OneIsMeaningful ==
  ASSUME IInv, NEW args \in Seq(Val(next_vreg)), NEW n \in {0, 1}, NEW dst
  PROVE  Meaningful(<<Instr(dst, args)>>, args, n)
<1> DEFINE in == Instr(dst, args)
           m == next_vreg
<1>1. m \in Nat /\ Val(m) \subseteq Val(m + n)
  BY CurrentIs, MoreValues DEF IInv
<1>2. Len(in.args) = Len(args) /\ Len(args) \in Nat
  BY DEF Instr
<1>3. \A i \in 1..Len(args) : StandsFor(in.args[i], args[i], args) /\ args[i] \in Val(m)
  BY <1>1, InstrStands
<1> HIDE DEF in, m
<1>4. \A i \in 1..Len(in.args) : \E x \in Val(m + n) : StandsFor(in.args[i], x, args)
  BY <1>1, <1>2, <1>3
<1>5. \A i \in 1..Len(<<in>>) : <<in>>[i] = in
  OBVIOUS
<1> QED
  BY <1>4, <1>5 DEF Meaningful, in, m

(* What an operation that appends instructions does.                       *)
Appends == \E instrs \in Seq(Instruction), args \in Seq(Val(next_vreg)), n \in {0, 1} :
             Emit(instrs, args, n) /\ Fits(instrs, args, n) /\ Meaningful(instrs, args, n)

LEMMA EmitOneAppends ==
  ASSUME IInv, NEW args \in Seq(Val(next_vreg)), EmitOne(args)
  PROVE  Appends
<1> DEFINE instrs == <<Instr(next_vreg, args)>>
           n == 1
<1>1. next_vreg \in Int /\ n \in {0, 1}
  BY CurrentIs DEF IInv
<1>2. Emit(instrs, args, n)
  BY DEF EmitOne
<1>3. instrs \in Seq(Instruction) /\ Fits(instrs, args, n)
  BY <1>1, OneFits
<1>4. Meaningful(instrs, args, n)
  BY <1>1, OneIsMeaningful
<1> HIDE DEF instrs, n
<1> QED
  BY <1>1, <1>2, <1>3, <1>4 DEF Appends

LEMMA EmitNoneAppends ==
  ASSUME IInv, NEW args \in Seq(Val(next_vreg)), EmitNone(args)
  PROVE  Appends
<1> DEFINE instrs == <<Instr(NoDst, args)>>
           n == 0
<1>1. NoDst \in Int /\ n \in {0, 1}
  BY DEF NoDst
<1>2. Emit(instrs, args, n)
  BY DEF EmitNone
<1>3. instrs \in Seq(Instruction) /\ Fits(instrs, args, n)
  BY <1>1, OneFits
<1>4. Meaningful(instrs, args, n)
  BY <1>1, OneIsMeaningful
<1> HIDE DEF instrs, n
<1> QED
  BY <1>1, <1>2, <1>3, <1>4 DEF Appends

(* A load of an aggregate appends two.                                     *)
LEMMA LoadAggregateAppends ==
  ASSUME IInv, LoadAggregate
  PROVE  Appends
<1> DEFINE m == next_vreg
           first == Instr(m, <<IntOf(Bytes)>>)
           second(p) == Instr(NoDst, Memcpy(V(m), p))
           n == 1
           none == <<>>
           S == Val(m + n)
<1>1. PICK p \in Vregs : Emit(<<first, second(p)>>, none, n)
  BY DEF LoadAggregate
<1>2. fp.n \in Nat /\ m \in Nat /\ m + n \in Nat /\ NoDst \in Int /\ m \in Int /\ n \in {0, 1}
  BY CurrentIs DEF IInv, NoDst
<1>3. IntOf(Bytes) \in S /\ V(m) \in S /\ p \in S
  <2>1. Val(m) \subseteq S
    BY <1>2, MoreValues
  <2>2. V(m) \in S
    <3>1. m \in Taken(m + n)
      BY <1>2, TakenIs
    <3> QED
      BY <3>1 DEF Val
  <2>3. Vregs \subseteq Val(m) /\ IntOf(Bytes) \in Val(m)
    BY GivenAre DEF Given
  <2> HIDE DEF S, m
  <2> QED
    BY <2>1, <2>2, <2>3
<1> HIDE DEF S
<1> DEFINE one == <<IntOf(Bytes)>>
           three == Memcpy(V(m), p)
<1>4. one \in Seq(S) /\ three \in Seq(S) /\ Len(one) = 1 /\ Len(three) = 3
  BY <1>3 DEF Memcpy
<1>5. FpPlaces(one) = {} /\ FpPlaces(three) = {}
  BY <1>3 DEF FpPlaces, IntOf, Memcpy, V, Vregs
<1>6. none \in Seq(Val(m)) /\ none \in Seq(S) /\ Len(FpsOf(none)) = 0
  <2>1. FpPlaces(none) = {}
    BY DEF FpPlaces
  <2>2. none \in Seq(Val(m)) /\ none \in Seq(S)
    OBVIOUS
  <2>3. Len(FpsOf(none)) = Cardinality(FpPlaces(none))
    BY <1>2, <2>2, FpCounts
  <2> QED
    BY <2>1, <2>2, <2>3, FS_EmptySet
<1>7. Len(FpsOf(one)) = 0 /\ Len(FpsOf(three)) = 0
  BY <1>2, <1>4, <1>5, FpCounts, FS_EmptySet DEF S
<1> DEFINE a == first
           b == second(p)
           instrs == <<a, b>>
<1>8. /\ a \in Instruction /\ a.dst = m /\ Len(a.args) = 1
      /\ \A i \in 1..Len(one) : Sound(a.args[i], m + n, Top(fp.n + 0))
  <2> HIDE DEF m, n, one
  <2>1. /\ Instr(m, one) \in Instruction /\ Instr(m, one).dst = m
        /\ Len(Instr(m, one).args) = Len(one)
        /\ \A i \in 1..Len(one) :
             Sound(Instr(m, one).args[i], m + n, Top(fp.n + Len(FpsOf(one))))
    BY <1>2, <1>4, InstrIs DEF S
  <2> QED
    BY <1>4, <1>7, <2>1 DEF one
<1>9. /\ b \in Instruction /\ b.dst = NoDst /\ Len(b.args) = 3
      /\ \A i \in 1..Len(three) : Sound(b.args[i], m + n, Top(fp.n + 0))
  <2> HIDE DEF m, n, three
  <2>1. /\ Instr(NoDst, three) \in Instruction /\ Instr(NoDst, three).dst = NoDst
        /\ Len(Instr(NoDst, three).args) = Len(three)
        /\ \A i \in 1..Len(three) :
             Sound(Instr(NoDst, three).args[i], m + n, Top(fp.n + Len(FpsOf(three))))
    BY <1>2, <1>4, InstrIs DEF S
  <2> QED
    BY <1>4, <1>7, <2>1 DEF three
<1>10. /\ \A i \in 1..Len(one) : one[i] \in S /\ StandsFor(a.args[i], one[i], one)
       /\ \A i \in 1..Len(three) : three[i] \in S /\ StandsFor(b.args[i], three[i], three)
  BY <1>2, <1>4, InstrStands DEF S
<1>11. /\ \A i \in 1..Len(one) : one[i].is # "fp"
       /\ \A i \in 1..Len(three) : three[i].is # "fp"
  BY <1>4, <1>5 DEF FpPlaces
<1>12. /\ \A i \in 1..Len(one) : StandsFor(a.args[i], one[i], none)
       /\ \A i \in 1..Len(three) : StandsFor(b.args[i], three[i], none)
  BY <1>10, <1>11 DEF StandsFor
<1>13. instrs \in Seq(Instruction) /\ Len(instrs) = 2 /\ instrs[1] = a /\ instrs[2] = b
  BY <1>8, <1>9
<1>14. Emit(instrs, none, n)
  BY <1>1
<1> HIDE DEF a, b, instrs, none, one, three, n, m, first, second
<1>15. Fits(instrs, none, n)
  <2>1. \A i \in 1..Len(instrs) : (i = 1 /\ instrs[i] = a) \/ (i = 2 /\ instrs[i] = b)
    BY <1>13
  <2>2. \A i \in 1..Len(instrs) : \A j \in 1..Len(instrs[i].args) :
          Sound(instrs[i].args[j], m + n, Top(fp.n + 0))
    BY <1>4, <1>8, <1>9, <2>1
  <2>3. \A i \in 1..Len(instrs) : instrs[i].dst # NoDst => n = 1 /\ i = 1 /\ instrs[i].dst = m
    BY <1>8, <1>9, <2>1 DEF n
  <2> QED
    BY <1>6, <2>2, <2>3 DEF Fits, m
<1>16. Meaningful(instrs, none, n)
  BY <1>4, <1>8, <1>9, <1>10, <1>12, <1>13 DEF Meaningful, S, m
<1> QED
  BY <1>2, <1>6, <1>13, <1>14, <1>15, <1>16 DEF Appends, m

LEMMA OperationAppends ==
  ASSUME IInv, Operation
  PROVE  Appends
<1> DEFINE S == Val(next_vreg)
<1>1. Given \subseteq S /\ IntOf(Bytes) \in S /\ Null \in S /\ Vregs \subseteq S
  BY GivenAre DEF Given
<1> HIDE DEF S
<1>2. CASE Unary
  <2>1. PICK x \in Given : EmitOne(<<x>>)
    BY <1>2 DEF Unary
  <2>2. <<x>> \in Seq(S)
    BY <1>1
  <2> QED
    BY <2>1, <2>2, EmitOneAppends DEF S
<1>3. CASE Binary
  <2>1. PICK x \in Given, y \in Given : EmitOne(<<x, y>>)
    BY <1>3 DEF Binary
  <2>2. <<x, y>> \in Seq(S)
    BY <1>1
  <2> QED
    BY <2>1, <2>2, EmitOneAppends DEF S
<1>4. CASE Alloca
  <2>1. <<IntOf(Bytes)>> \in Seq(S)
    BY <1>1
  <2> QED
    BY <1>4, <2>1, EmitOneAppends DEF S, Alloca
<1>5. CASE VaStart
  <2>1. <<>> \in Seq(S)
    OBVIOUS
  <2> QED
    BY <1>5, <2>1, EmitOneAppends DEF S, VaStart
<1>6. CASE Store
  <2>1. PICK x \in Given, p \in Given : EmitNone(<<x, p>>)
    BY <1>6 DEF Store
  <2>2. <<x, p>> \in Seq(S)
    BY <1>1
  <2> QED
    BY <2>1, <2>2, EmitNoneAppends DEF S
<1>7. CASE LoadAggregate
  BY <1>7, LoadAggregateAppends
<1>8. CASE StoreAggregate
  <2>1. PICK x \in Vregs, p \in Vregs : EmitNone(Memcpy(p, x))
    BY <1>8 DEF StoreAggregate
  <2>2. Memcpy(p, x) \in Seq(S)
    BY <1>1 DEF Memcpy
  <2> QED
    BY <2>1, <2>2, EmitNoneAppends DEF S
<1>9. CASE Phi
  <2>1. PICK vals \in UNION {[1..n -> Given] : n \in 1..2} :
          EmitOne(<<Incoming(vals, 1), Incoming(vals, 2)>>)
    BY <1>9 DEF Phi
  <2>2. \A i \in 1..2 : Incoming(vals, i) \in S
    BY <1>1 DEF Incoming
  <2>3. <<Incoming(vals, 1), Incoming(vals, 2)>> \in Seq(S)
    BY <2>2
  <2> QED
    BY <2>1, <2>3, EmitOneAppends DEF S
<1>10. CASE Consume
  <2>1. PICK x \in Given : EmitNone(<<x>>)
    BY <1>10 DEF Consume
  <2>2. <<x>> \in Seq(S)
    BY <1>1
  <2> QED
    BY <2>1, <2>2, EmitNoneAppends DEF S
<1>11. CASE Jump
  <2>1. <<>> \in Seq(S)
    OBVIOUS
  <2> QED
    BY <1>11, <2>1, EmitNoneAppends DEF S, Jump
<1>12. CASE Call
  <2>1. PICK args \in [1..MaxCallArgs+1 -> Given] : EmitOne(SubSeq(args, 1, MaxCallArgs))
    BY <1>12 DEF Call
  <2>2. MaxCallArgs \in Nat
    BY BuilderAssumption
  <2>3. args \in [1..MaxCallArgs+1 -> S]
    BY <1>1
  <2>4. args \in Seq(S) /\ Len(args) = MaxCallArgs + 1
    BY <2>2, <2>3
  <2>5. SubSeq(args, 1, MaxCallArgs) \in Seq(S)
    BY <2>2, <2>4
  <2> QED
    BY <2>1, <2>5, EmitOneAppends DEF S
<1> QED
  BY <1>2, <1>3, <1>4, <1>5, <1>6, <1>7, <1>8, <1>9, <1>10, <1>11, <1>12 DEF Operation
LEMMA OperationKeeps ==
  ASSUME IInv, Operation
  PROVE  IInv'
<1>1. PICK instrs \in Seq(Instruction), args \in Seq(Val(next_vreg)), n \in {0, 1} :
        Emit(instrs, args, n) /\ Fits(instrs, args, n)
  BY OperationAppends DEF Appends
<1> QED
  BY <1>1, EmitKeeps

-----------------------------------------------------------------------------
(* The vregs resolve_vreg goes through.                                    *)
LEMMA HopsAre ==
  ASSUME IInv, NEW v \in Taken(next_vreg)
  PROVE  /\ Hops(v) \in [0..MaxHops -> Vregs]
         /\ Hops(v)[0] = V(v)
         /\ \A k \in 1..MaxHops : Hops(v)[k] = IF Named(Hops(v)[k-1]) THEN alias[Hops(v)[k-1].n]
                                               ELSE Hops(v)[k-1]
<1> DEFINE N == MaxHops
           W == Vregs
           next(y) == IF Named(y) THEN alias[y.n] ELSE y
           step == [k \in 1..N |-> [y \in W |-> next(y)]]
           x == V(v)
           Rec(h) == h = [k \in 0..N |-> IF k = 0 THEN x ELSE next(h[k-1])]
<1>1. N \in Nat /\ x \in W
  BY BuilderAssumption DEF Vregs
<1>2. \A y \in W : next(y) \in W
  <2> SUFFICES ASSUME NEW y \in W, Named(y) PROVE alias[y.n] \in W
    OBVIOUS
  <2>1. alias[y.n] \in Definable /\ alias[y.n].is = "vreg"
    BY DEF Named, Known, IInv, AliasesAre
  <2> HIDE DEF W
  <2>2. alias[y.n] \notin Constants
    BY <2>1 DEF Constants
  <2> QED
    BY <2>1, <2>2 DEF Definable, W
<1> HIDE DEF x, W, next
<1>3. \E h : Rec(h)
  <2>1. step \in [1..N -> [W -> W]]
    BY <1>2
  <2>2. \A k \in 1..N : \A y \in W : step[k][y] = next(y)
    OBVIOUS
  <2> HIDE DEF step, N
  <2>3. PICK h \in [0..N -> W] : h[0] = x /\ \A k \in 1..N : h[k] = step[k][h[k-1]]
    <3>1. N \in Nat /\ x \in W
      BY <1>1
    <3> QED
      BY <2>1, <3>1, Iterates, Z3
  <2>4. \A k \in 1..N : h[k] = next(h[k-1])
    <3>1. \A k \in 1..N : k-1 \in 0..N
      BY <1>1
    <3> QED
      BY <2>2, <2>3, <3>1
  <2>5. h = [k \in 0..N |-> IF k = 0 THEN x ELSE next(h[k-1])]
    BY <1>1, <2>3, <2>4
  <2> QED
    BY <2>5
<1> DEFINE h == Hops(v)
<1>4. Rec(h)
  <2>1. h = CHOOSE e : Rec(e)
    BY DEF Hops, next, x
  <2> HIDE DEF Rec, h
  <2> QED
    BY <1>3, <2>1
<1> HIDE DEF h, N
<1>5. h[0] = x /\ DOMAIN h = 0..N /\ \A k \in 1..N : h[k] = next(h[k-1])
  <2> DEFINE e == h
  <2>1. e = [k \in 0..N |-> IF k = 0 THEN x ELSE next(h[k-1])]
    BY <1>4
  <2> HIDE DEF e
  <2>2. e[0] = x /\ DOMAIN e = 0..N /\ \A k \in 1..N : e[k] = next(h[k-1])
    BY <1>1, <2>1
  <2> QED
    BY <2>2 DEF e
<1> DEFINE Good == {k \in 0..N : h[k] \in W}
<1>6. 0 \in Good
  BY <1>1, <1>5
<1>7. ASSUME NEW k \in 0..N-1, k \in Good PROVE k+1 \in Good
  <2>1. k+1 \in 1..N /\ h[k+1] = next(h[k])
    BY <1>1, <1>5
  <2> QED
    BY <1>1, <1>2, <1>7, <2>1
<1>8. 0..N \subseteq Good
  <2> HIDE DEF Good
  <2> QED
    BY <1>1, <1>6, <1>7, Induction
<1>9. h \in [0..N -> W]
  <2>1. h = [k \in 0..N |-> h[k]]
    BY <1>4
  <2> HIDE DEF Rec
  <2> QED
    BY <1>8, <2>1
<1> QED
  BY <1>5, <1>9 DEF h, N, W, x, next

LEMMA ResolvesToAValue ==
  ASSUME IInv, NEW v \in Taken(next_vreg)
  PROVE  ResolveVreg(v) \in Definable
<1> DEFINE K == {k \in 0..MaxHops-1 : Known(alias, Hops(v)[k]) /\ ~Named(Hops(v)[k])}
<1>1. MaxHops \in Nat
  BY BuilderAssumption
<1>2. \A k \in 0..MaxHops : Hops(v)[k] \in Vregs
  BY HopsAre
<1>3. CASE K = {}
  BY <1>1, <1>2, <1>3 DEF ResolveVreg, Definable
<1>4. CASE K # {}
  <2>1. Min(K) \in K
    <3>1. PICK m \in K : \A x \in K : m <= x
      <4>1. K \in SUBSET Nat
        OBVIOUS
      <4> HIDE DEF K
      <4> QED
        BY <1>4, <4>1, Least
    <3> HIDE DEF K
    <3> QED
      BY <3>1, Zenon DEF Min
  <2> DEFINE y == Hops(v)[Min(K)]
  <2>2. Known(alias, y)
    BY <2>1
  <2>3. alias[y.n] \in Definable
    BY <2>2 DEF Known, IInv, AliasesAre
  <2>4. ResolveVreg(v) = alias[y.n]
    BY <1>4 DEF ResolveVreg
  <2> QED
    BY <2>3, <2>4
<1> QED
  BY <1>3, <1>4

LEMMA PlacesFinite ==
  ASSUME NEW code \in Code
  PROVE  IsFiniteSet(Places(code))
<1> DEFINE B == DOMAIN code
           In(b, k) == {<<b, k, a>> : a \in DOMAIN code[b][k].args}
           Of(b) == UNION {In(b, k) : k \in DOMAIN code[b]}
<1>1. ASSUME NEW b \in B PROVE IsFiniteSet(Of(b))
  <2> DEFINE K == DOMAIN code[b]
             ins == {In(b, k) : k \in K}
  <2>1. code[b] \in Seq(Instruction) /\ K = 1..Len(code[b]) /\ Len(code[b]) \in Nat
    BY <1>1 DEF Code
  <2>2. ASSUME NEW k \in K PROVE IsFiniteSet(In(b, k))
    <3> DEFINE A == DOMAIN code[b][k].args
               g == [a \in A |-> <<b, k, a>>]
    <3>1. code[b][k].args \in Seq(Opds)
      <4>1. code[b][k] \in Instruction
        BY <2>1, <2>2
      <4> QED
        BY <4>1 DEF Instruction
    <3>2. IsFiniteSet(A)
      <4>1. A = 1..Len(code[b][k].args) /\ Len(code[b][k].args) \in Nat
        BY <3>1
      <4> HIDE DEF A
      <4> QED
        BY <4>1, FS_Interval
    <3>3. g \in Surjection(A, In(b, k))
      BY DEF Surjection
    <3> HIDE DEF g, A
    <3> QED
      BY <3>2, <3>3, FS_Surjection
  <2>3. IsFiniteSet(K)
    <3> HIDE DEF K
    <3> QED
      BY <2>1, FS_Interval
  <2> DEFINE g == [k \in K |-> In(b, k)]
  <2>4. g \in Surjection(K, ins)
    BY DEF Surjection
  <2>5. IsFiniteSet(ins)
    <3> HIDE DEF g, ins, K
    <3> QED
      BY <2>3, <2>4, FS_Surjection
  <2>6. \A T \in ins : IsFiniteSet(T)
    BY <2>2
  <2> HIDE DEF ins
  <2>7. IsFiniteSet(UNION ins)
    BY <2>5, <2>6, FS_UNION
  <2> QED
    BY <2>7 DEF ins
<1> HIDE DEF Of
<1> DEFINE ofs == {Of(b) : b \in B}
           h == [b \in B |-> Of(b)]
<1>2. IsFiniteSet(B)
  <2>1. B = 1..Len(code) /\ Len(code) \in Nat
    BY DEF Code
  <2> QED
    BY <2>1, FS_Interval
<1>3. h \in Surjection(B, ofs)
  BY DEF Surjection
<1>4. IsFiniteSet(ofs)
  <2> HIDE DEF h, ofs, B
  <2> QED
    BY <1>2, <1>3, FS_Surjection
<1>5. \A T \in ofs : IsFiniteSet(T)
  BY <1>1
<1>6. IsFiniteSet(UNION ofs)
  <2> HIDE DEF ofs
  <2> QED
    BY <1>4, <1>5, FS_UNION
<1> QED
  BY <1>6 DEF Places, Of

(* The order of the places of a function.                                  *)
LEMMA EarlierOrders ==
  ASSUME NEW code \in Code, NEW S, S \subseteq Places(code)
  PROVE  /\ StrictOrder({q \in S \X S : Earlier(q[1], q[2])}, S)
         /\ \A p \in S : Nth({q \in S \X S : Earlier(q[1], q[2])}, S, p)
                           = Cardinality({q \in S : ~Earlier(p, q)})
<1> DEFINE R == {q \in S \X S : Earlier(q[1], q[2])}
<1>1. \A p, q \in S : <<p, q>> \in R <=> Earlier(p, q)
  OBVIOUS
<1>2. \A p \in S : p = <<p[1], p[2], p[3]>> /\ p[1] \in Int /\ p[2] \in Int /\ p[3] \in Int
  <2> SUFFICES ASSUME NEW p \in S
               PROVE  p = <<p[1], p[2], p[3]>> /\ p[1] \in Int /\ p[2] \in Int /\ p[3] \in Int
    OBVIOUS
  <2>1. p \in Places(code)
    OBVIOUS
  <2> QED
    BY <2>1, PlacesAre
<1> HIDE DEF R
<1>3. StrictOrder(R, S)
  <2>1. \A p \in S : ~Earlier(p, p)
    BY <1>2 DEF Earlier
  <2>2. \A p, q \in S : p = q \/ Earlier(p, q) \/ Earlier(q, p)
    <3> SUFFICES ASSUME NEW p \in S, NEW q \in S, ~Earlier(p, q), ~Earlier(q, p) PROVE p = q
      OBVIOUS
    <3>1. p[1] = q[1] /\ p[2] = q[2] /\ p[3] = q[3]
      BY <1>2 DEF Earlier
    <3>2. p = <<p[1], p[2], p[3]>> /\ q = <<q[1], q[2], q[3]>>
      BY <1>2
    <3> QED
      BY <3>1, <3>2
  <2>3. \A p, q, s \in S : Earlier(p, q) /\ Earlier(q, s) => Earlier(p, s)
    BY <1>2 DEF Earlier
  <2> QED
    BY <1>1, <2>1, <2>2, <2>3 DEF StrictOrder
<1>4. ASSUME NEW p \in S PROVE Nth(R, S, p) = Cardinality({q \in S : ~Earlier(p, q)})
  <2>1. {q \in S : <<p, q>> \notin R} = {q \in S : ~Earlier(p, q)}
    BY <1>1
  <2> QED
    BY <2>1, Zenon DEF Nth
<1> QED
  BY <1>3, <1>4 DEF R

(* Replacing operands of some code.                                        *)
Rewritten(code, done) ==
  [b \in DOMAIN code |-> [k \in DOMAIN code[b] |->
     [code[b][k] EXCEPT !.args = [a \in DOMAIN @ |-> done[<<b, k, a>>]]]]]

LEMMA RewrittenIs ==
  ASSUME NEW code \in Code, NEW done \in [Places(code) -> Opds]
  PROVE  /\ Rewritten(code, done) \in Code
         /\ Len(Rewritten(code, done)) = Len(code)
         /\ Places(Rewritten(code, done)) = Places(code)
         /\ \A p \in Places(code) : Opnd(Rewritten(code, done), p) = done[p]
         /\ DefinersOf(Rewritten(code, done)) = DefinersOf(code)
         /\ \A d \in DefinersOf(code) : DstOf(Rewritten(code, done), d) = DstOf(code, d)
<1> DEFINE new == Rewritten(code, done)
           in(b, k) == [code[b][k] EXCEPT !.args = [a \in DOMAIN @ |-> done[<<b, k, a>>]]]
           blk(b) == [k \in 1..Len(code[b]) |-> in(b, k)]
<1>1. \A b \in 1..Len(code) : code[b] \in Seq(Instruction) /\ DOMAIN code[b] = 1..Len(code[b])
  BY DEF Code
<1>2. DOMAIN code = 1..Len(code) /\ Len(code) \in Nat
  BY DEF Code
<1>3. ASSUME NEW b \in 1..Len(code), NEW k \in 1..Len(code[b])
      PROVE  /\ in(b, k) \in Instruction
             /\ in(b, k).dst = code[b][k].dst
             /\ DOMAIN in(b, k).args = DOMAIN code[b][k].args
             /\ Len(in(b, k).args) = Len(code[b][k].args)
             /\ \A a \in 1..Len(code[b][k].args) : in(b, k).args[a] = done[<<b, k, a>>]
  <2> DEFINE old == code[b][k]
             args == [a \in 1..Len(old.args) |-> done[<<b, k, a>>]]
  <2>1. old \in Instruction
    BY <1>1, <1>3
  <2>2. old.args \in Seq(Opds) /\ old.dst \in Int
    BY <2>1 DEF Instruction
  <2>3. DOMAIN old.args = 1..Len(old.args) /\ Len(old.args) \in Nat
    BY <2>2
  <2>4. \A a \in 1..Len(old.args) : <<b, k, a>> \in Places(code)
    BY <1>3, PlacesAre
  <2>5. args \in [1..Len(old.args) -> Opds]
    BY <2>4
  <2>6. args \in Seq(Opds) /\ Len(args) = Len(old.args)
    <3> HIDE DEF args
    <3> QED
      BY <2>3, <2>5
  <2>7. in(b, k) = [old EXCEPT !.args = args]
    BY <2>3
  <2> HIDE DEF old, in
  <2>8. in(b, k) = [dst |-> old.dst, args |-> args]
    <3> HIDE DEF args
    <3> QED
      BY <2>1, <2>7 DEF Instruction
  <2>9. in(b, k) \in Instruction /\ in(b, k).dst = old.dst /\ in(b, k).args = args
    <3> HIDE DEF args
    <3> QED
      BY <2>2, <2>6, <2>8 DEF Instruction
  <2> QED
    BY <2>3, <2>6, <2>9 DEF old
<1>4. new = [b \in 1..Len(code) |-> blk(b)]
  BY <1>1, <1>2 DEF Rewritten
<1> HIDE DEF in
<1>5. \A b \in 1..Len(code) : blk(b) \in Seq(Instruction) /\ Len(blk(b)) = Len(code[b])
  <2> SUFFICES ASSUME NEW b \in 1..Len(code)
               PROVE  blk(b) \in Seq(Instruction) /\ Len(blk(b)) = Len(code[b])
    OBVIOUS
  <2> DEFINE n == Len(code[b])
             s == blk(b)
  <2>1. n \in Nat
    BY <1>1
  <2>2. s \in [1..n -> Instruction]
    BY <1>3
  <2> HIDE DEF s, n
  <2>3. s \in Seq(Instruction) /\ Len(s) = n
    BY <2>1, <2>2
  <2> QED
    BY <2>3 DEF s, n
<1>6. new \in Code /\ Len(new) = Len(code)
  <2> DEFINE n == Len(code)
             W == Seq(Instruction)
  <2>1. new \in [1..n -> W]
    BY <1>4, <1>5
  <2>2. n \in Nat
    BY <1>2
  <2> HIDE DEF new, n, W
  <2>3. new \in Seq(W) /\ Len(new) = n
    BY <2>1, <2>2
  <2> QED
    BY <2>3 DEF Code, n, W
<1>7. \A b \in 1..Len(code) : new[b] = blk(b) /\ Len(new[b]) = Len(code[b])
  BY <1>4, <1>5
<1>8. \A b \in 1..Len(code) : \A k \in 1..Len(code[b]) : new[b][k] = in(b, k)
  BY <1>7
<1> HIDE DEF new, blk
<1>9. ASSUME NEW p PROVE p \in Places(new) <=> p \in Places(code)
  <2>1. ASSUME p \in Places(new) PROVE p \in Places(code)
    <3>1. /\ p = <<p[1], p[2], p[3]>> /\ p[1] \in 1..Len(new)
          /\ p[2] \in 1..Len(new[p[1]]) /\ p[3] \in 1..Len(new[p[1]][p[2]].args)
      BY <1>6, <2>1, PlacesAre
    <3>2. p[1] \in 1..Len(code) /\ p[2] \in 1..Len(code[p[1]])
      BY <1>6, <1>7, <3>1
    <3>3. p[3] \in 1..Len(code[p[1]][p[2]].args)
      BY <1>3, <1>8, <3>1, <3>2
    <3>4. <<p[1], p[2], p[3]>> \in Places(code)
      BY <3>2, <3>3, PlacesAre
    <3> QED
      BY <3>1, <3>4
  <2>2. ASSUME p \in Places(code) PROVE p \in Places(new)
    <3>1. /\ p = <<p[1], p[2], p[3]>> /\ p[1] \in 1..Len(code)
          /\ p[2] \in 1..Len(code[p[1]]) /\ p[3] \in 1..Len(code[p[1]][p[2]].args)
      BY <2>2, PlacesAre
    <3>2. p[1] \in 1..Len(new) /\ p[2] \in 1..Len(new[p[1]])
      BY <1>6, <1>7, <3>1
    <3>3. p[3] \in 1..Len(new[p[1]][p[2]].args)
      BY <1>3, <1>8, <3>1
    <3>4. <<p[1], p[2], p[3]>> \in Places(new)
      BY <1>6, <3>2, <3>3, PlacesAre
    <3> QED
      BY <3>1, <3>4
  <2> QED
    BY <2>1, <2>2
<1>10. ASSUME NEW p \in Places(code) PROVE Opnd(new, p) = done[p]
  <2>1. /\ p = <<p[1], p[2], p[3]>> /\ p[1] \in 1..Len(code)
        /\ p[2] \in 1..Len(code[p[1]]) /\ p[3] \in 1..Len(code[p[1]][p[2]].args)
    BY PlacesAre
  <2>2. new[p[1]][p[2]].args[p[3]] = done[<<p[1], p[2], p[3]>>]
    BY <1>3, <1>8, <2>1
  <2> QED
    BY <2>1, <2>2 DEF Opnd
<1>11. ASSUME NEW b, NEW k PROVE <<b, k>> \in DefinersOf(new) <=> <<b, k>> \in DefinersOf(code)
  <2>1. <<b, k>> \in DefinersOf(new) <=> b \in 1..Len(new) /\ k \in 1..Len(new[b]) /\ new[b][k].dst # NoDst
    BY <1>6, DefinersAre
  <2>2. <<b, k>> \in DefinersOf(code) <=> b \in 1..Len(code) /\ k \in 1..Len(code[b]) /\ code[b][k].dst # NoDst
    BY DefinersAre
  <2>3. b \in 1..Len(new) <=> b \in 1..Len(code)
    BY <1>6
  <2>4. CASE b \in 1..Len(code)
    <3>1. Len(new[b]) = Len(code[b])
      BY <1>7, <2>4
    <3>2. k \in 1..Len(code[b]) => new[b][k].dst = code[b][k].dst
      BY <1>3, <1>8, <2>4
    <3> QED
      BY <2>1, <2>2, <2>3, <3>1, <3>2
  <2> QED
    BY <2>1, <2>2, <2>3, <2>4
<1>12. DefinersOf(new) = DefinersOf(code)
  <2>1. ASSUME NEW d PROVE d \in DefinersOf(new) <=> d \in DefinersOf(code)
    <3>1. (d \in DefinersOf(new) => d = <<d[1], d[2]>>) /\ (d \in DefinersOf(code) => d = <<d[1], d[2]>>)
      BY DefinersPairs
    <3> QED
      BY <1>11, <3>1
  <2> QED
    BY <2>1
<1>13. ASSUME NEW d \in DefinersOf(code) PROVE DstOf(new, d) = DstOf(code, d)
  <2>1. d = <<d[1], d[2]>>
    BY DefinersPairs
  <2>2. d[1] \in 1..Len(code) /\ d[2] \in 1..Len(code[d[1]])
    BY <2>1, DefinersAre
  <2> QED
    BY <1>3, <1>8, <2>2 DEF DstOf
<1>14. Places(new) = Places(code)
  BY <1>9
<1> QED
  BY <1>6, <1>10, <1>12, <1>13, <1>14 DEF new

-----------------------------------------------------------------------------
(* Finalisation of the current function.                                   *)
VregPlaces  == {p \in Places(funcs[f]) : Opnd(funcs[f], p).kind = "vreg"}
Resolved(p) == ResolveVreg(Opnd(funcs[f], p).x)
FpUses      == {p \in VregPlaces : Resolved(p).is = "fp"}
NthUse(p)   == Cardinality({q \in FpUses : ~Earlier(p, q)})
FpDs        == [k \in 1..Cardinality(FpUses) |-> Resolved(CHOOSE p \in FpUses : NthUse(p) = k).n]
Replaced    == [p \in Places(funcs[f]) |->
                  IF p \in VregPlaces THEN Operand(Resolved(p), NthUse(p)) ELSE Opnd(funcs[f], p)]

LEMMA FinalizeIs ==
  ASSUME IInv, Finalize
  PROVE  /\ f \in 1..Len(funcs) /\ f' = f /\ finalized' = TRUE
         /\ funcs' = [funcs EXCEPT ![f] = Rewritten(funcs[f], Replaced)]
         /\ fp' = FpAdded(fp, FpDs)
         /\ UNCHANGED <<array, cur_func, cur_block, next_vreg, alias, placeholders>>
<1> USE CurrentIs
<1>1. /\ f \in 1..Len(funcs) /\ f' = f /\ finalized' = TRUE
      /\ UNCHANGED <<array, cur_func, cur_block, next_vreg, alias, placeholders>>
  <2>1. finalized' = TRUE
    BY Zenon DEF Finalize
  <2>2. f # 0 /\ UNCHANGED <<array, cur_func, cur_block, next_vreg, alias, placeholders>>
    BY Zenon DEF Finalize
  <2> QED
    BY <2>1, <2>2 DEF f
<1> DEFINE code == funcs[f]
           at(p) == code[p[1]][p[2]].args[p[3]]
           places == {p \in Places(code) : at(p).kind = "vreg"}
           r(p) == ResolveVreg(at(p).x)
           fps == {p \in places : r(p).is = "fp"}
           nth(p) == Cardinality({q \in fps : ~Earlier(p, q)})
           done(p) == IF p \in places THEN Operand(r(p), nth(p)) ELSE at(p)
<1>2. /\ funcs' = [funcs EXCEPT ![f] =
                     [b \in DOMAIN code |-> [k \in DOMAIN code[b] |->
                        [code[b][k] EXCEPT !.args = [a \in DOMAIN @ |-> done(<<b, k, a>>)]]]]]
      /\ fp' = FpAdded(fp, [k \in 1..Cardinality(fps) |-> r(CHOOSE p \in fps : nth(p) = k).n])
  BY DEF Finalize
<1>3. places = VregPlaces /\ \A p : r(p) = Resolved(p)
  BY DEF VregPlaces, Opnd, Resolved
<1>4. fps = FpUses /\ \A p : nth(p) = NthUse(p)
  <2>1. fps = FpUses
    BY DEF FpUses, VregPlaces, Resolved, Opnd
  <2> HIDE DEF fps
  <2> QED
    BY <2>1 DEF NthUse
<1>5. [k \in 1..Cardinality(fps) |-> r(CHOOSE p \in fps : nth(p) = k).n] = FpDs
  BY DEF FpDs, NthUse, FpUses, VregPlaces, Resolved, Opnd
<1>6. \A p \in Places(code) : done(p) = Replaced[p]
  <2>1. \A p : at(p) = Opnd(code, p)
    BY DEF Opnd
  <2> HIDE DEF places, nth, r, at
  <2> QED
    BY <1>3, <1>4, <2>1 DEF Replaced
<1> HIDE DEF done, fps, nth, r
<1>7. [b \in DOMAIN code |-> [k \in DOMAIN code[b] |->
         [code[b][k] EXCEPT !.args = [a \in DOMAIN @ |-> done(<<b, k, a>>)]]]]
      = Rewritten(code, Replaced)
  <2>1. ASSUME NEW b \in DOMAIN code, NEW k \in DOMAIN code[b]
        PROVE  [a \in DOMAIN code[b][k].args |-> done(<<b, k, a>>)]
               = [a \in DOMAIN code[b][k].args |-> Replaced[<<b, k, a>>]]
    <3>1. \A a \in DOMAIN code[b][k].args : <<b, k, a>> \in Places(code)
      BY <2>1 DEF Places
    <3> QED
      BY <1>6, <3>1
  <2> QED
    BY <2>1 DEF Rewritten
<1> QED
  BY <1>1, <1>2, <1>5, <1>7

LEMMA FpDsAre ==
  ASSUME IInv, f # 0
  PROVE  /\ FpDs \in Seq(Fps) /\ Len(FpDs) \in Nat
         /\ \A p \in VregPlaces : Resolved(p) \in Definable
         /\ \A p \in FpUses : NthUse(p) \in 1..Len(FpDs) /\ FpDs[NthUse(p)] = Resolved(p).n
<1> DEFINE code == funcs[f]
           S == FpUses
           R == {q \in S \X S : Earlier(q[1], q[2])}
           n == Cardinality(S)
<1>1. f \in 1..Len(funcs) /\ code \in Code
  BY CurrentIs
<1>2. S \subseteq Places(code)
  BY DEF FpUses, VregPlaces
<1>3. IsFiniteSet(S)
  <2>1. S \in SUBSET Places(code) /\ IsFiniteSet(Places(code))
    BY <1>1, <1>2, PlacesFinite
  <2> HIDE DEF S
  <2> QED
    BY <2>1, FS_Subset
<1>4. StrictOrder(R, S) /\ \A p \in S : Nth(R, S, p) = NthUse(p)
  BY <1>1, <1>2, EarlierOrders DEF NthUse
<1>5. \A p \in VregPlaces : Resolved(p) \in Definable
  <2> SUFFICES ASSUME NEW p \in VregPlaces PROVE Resolved(p) \in Definable
    OBVIOUS
  <2>1. p \in Places(code) /\ Opnd(code, p).kind = "vreg"
    BY DEF VregPlaces
  <2>2. Sound(Opnd(code, p), next_vreg, Top(fp.n))
    BY <1>1, <2>1 DEF IInv, OperandsAreSound
  <2>3. Opnd(code, p).x \in Taken(next_vreg)
    BY <2>1, <2>2 DEF Sound
  <2> QED
    BY <2>3, ResolvesToAValue DEF Resolved
<1>6. \A p \in S : Resolved(p).n \in Fps
  BY <1>5 DEF FpUses, Definable, Constants, Vregs, V
<1> HIDE DEF R, S
<1>7. /\ n \in Nat
      /\ \A p \in S : NthUse(p) \in 1..n
      /\ \A p, q \in S : NthUse(p) = NthUse(q) => p = q
      /\ \A k \in 1..n : \E p \in S : NthUse(p) = k
  BY <1>3, <1>4, Numbering
<1> DEFINE the(k) == CHOOSE p \in S : NthUse(p) = k
<1>8. \A k \in 1..n : the(k) \in S /\ NthUse(the(k)) = k
  BY <1>7
<1>9. FpDs = [k \in 1..n |-> Resolved(the(k)).n]
  BY DEF FpDs, S
<1> HIDE DEF the, n
<1>10. FpDs \in Seq(Fps) /\ Len(FpDs) = n
  <2>1. FpDs \in [1..n -> Fps]
    BY <1>6, <1>8, <1>9
  <2> QED
    BY <1>7, <2>1
<1>11. ASSUME NEW p \in S PROVE FpDs[NthUse(p)] = Resolved(p).n
  <2>1. the(NthUse(p)) = p
    BY <1>7, <1>8
  <2> QED
    BY <1>7, <1>9, <2>1
<1> QED
  BY <1>5, <1>7, <1>10, <1>11 DEF S

LEMMA ReplacedIs ==
  ASSUME IInv, f # 0
  PROVE  /\ Replaced \in [Places(funcs[f]) -> Opds]
         /\ \A p \in Places(funcs[f]) : Sound(Replaced[p], next_vreg, Top(fp.n + Len(FpDs)))
<1> DEFINE code == funcs[f]
           n == Len(FpDs)
<1>1. f \in 1..Len(funcs) /\ code \in Code /\ fp.n \in Nat /\ next_vreg \in Nat /\ n \in Nat
  BY CurrentIs, FpDsAre DEF IInv
<1>2. ASSUME NEW p \in Places(code)
      PROVE  Replaced[p] \in Opds /\ Sound(Replaced[p], next_vreg, Top(fp.n + n))
  <2>1. CASE p \in VregPlaces
    <3>1. Replaced[p] = Operand(Resolved(p), NthUse(p)) /\ Resolved(p) \in Definable
      BY <2>1, FpDsAre DEF Replaced
    <3>2. Resolved(p) \in Val(next_vreg)
      BY <3>1 DEF Definable, Constants, Vregs, Val
    <3>3. Resolved(p).is # "fp" \/ NthUse(p) \in 1..n
      BY <2>1, FpDsAre DEF FpUses
    <3> HIDE DEF n
    <3>4. /\ Operand(Resolved(p), NthUse(p)) \in Opds
          /\ Sound(Operand(Resolved(p), NthUse(p)), next_vreg, Top(fp.n + n))
      BY <1>1, <3>2, <3>3, OperandIs
    <3> QED
      BY <3>1, <3>4
  <2>2. CASE p \notin VregPlaces
    <3>1. Replaced[p] = Opnd(code, p) /\ Opnd(code, p) \in Opds
      BY <1>1, <2>2, PlacesAre DEF Replaced
    <3>2. Sound(Opnd(code, p), next_vreg, Top(fp.n))
      BY <1>1 DEF IInv, OperandsAreSound
    <3> HIDE DEF n
    <3>3. Sound(Opnd(code, p), next_vreg, Top(fp.n + n))
      BY <1>1, <3>2, SoundGrows
    <3> QED
      BY <3>1, <3>3
  <2> QED
    BY <2>1, <2>2
<1>3. DOMAIN Replaced = Places(code) /\ Replaced = [p \in Places(code) |-> Replaced[p]]
  BY DEF Replaced
<1> HIDE DEF code, n
<1>4. Replaced \in [Places(code) -> Opds]
  BY <1>2, <1>3
<1> QED
  BY <1>2, <1>4 DEF code, n

LEMMA FinalizeKeeps ==
  ASSUME IInv, Finalize
  PROVE  IInv'
<1> DEFINE code == funcs[f]
           new == Rewritten(code, Replaced)
           n == Len(FpDs)
<1>1. /\ f \in 1..Len(funcs) /\ f' = f /\ finalized' = TRUE
      /\ funcs' = [funcs EXCEPT ![f] = new]
      /\ fp' = FpAdded(fp, FpDs)
      /\ UNCHANGED <<array, cur_func, cur_block, next_vreg, alias, placeholders>>
  BY FinalizeIs
<1>2. f # 0 /\ code \in Code /\ fp.n \in Nat /\ n \in Nat /\ next_vreg \in Nat
  BY <1>1, CurrentIs, FpDsAre DEF IInv
<1>3. /\ Replaced \in [Places(code) -> Opds]
      /\ \A p \in Places(code) : Sound(Replaced[p], next_vreg, Top(fp.n + n))
  BY <1>2, ReplacedIs
<1>4. /\ new \in Code /\ Len(new) = Len(code)
      /\ Places(new) = Places(code)
      /\ \A p \in Places(code) : Opnd(new, p) = Replaced[p]
      /\ DefinersOf(new) = DefinersOf(code)
      /\ \A d \in DefinersOf(code) : DstOf(new, d) = DstOf(code, d)
  BY <1>2, <1>3, RewrittenIs
<1> HIDE DEF new
<1>5. /\ funcs' \in Seq(Code) /\ Len(funcs') = Len(funcs) /\ funcs'[f] = new
      /\ \A g \in 1..Len(funcs) : g # f => funcs'[g] = funcs[g]
  BY <1>1, <1>4 DEF IInv
<1>6. fp'.n = fp.n + n
  BY <1>1 DEF FpAdded
<1> HIDE DEF n, code
<1>7. Pending' = Pending /\ Definable' = Definable
  BY <1>1 DEF Pending, Definable, Vregs
<1>8. PlaceholdersAre' /\ AliasesAre'
  BY <1>1, <1>5, <1>7 DEF IInv, PlaceholdersAre, AliasesAre
<1>9. Pointers'
  <2>1. \A g \in 1..Len(funcs) : Len(funcs'[g]) = Len(funcs[g])
    BY <1>4, <1>5 DEF code
  <2> QED
    BY <1>1, <1>5, <2>1 DEF IInv, Pointers
<1>10. OperandsAreSound'
  <2> SUFFICES ASSUME NEW g \in 1..Len(funcs), NEW p \in Places(funcs'[g])
               PROVE  Sound(Opnd(funcs'[g], p), IF g = f THEN next_vreg ELSE ParamBase, Top(fp.n + n))
    BY <1>1, <1>5, <1>6 DEF OperandsAreSound
  <2>1. CASE g = f
    BY <1>3, <1>4, <1>5, <2>1
  <2>2. CASE g # f
    <3>1. Sound(Opnd(funcs[g], p), ParamBase, Top(fp.n))
      BY <1>5, <2>2 DEF IInv, OperandsAreSound
    <3>2. ParamBase \in Nat
      BY IRAssumption
    <3>3. Sound(Opnd(funcs[g], p), ParamBase, Top(fp.n + n))
      BY <1>2, <3>1, <3>2, SoundGrows
    <3> QED
      BY <1>5, <2>2, <3>3
  <2> QED
    BY <2>1, <2>2
<1>11. DefinersApart'
  <2> SUFFICES ASSUME NEW g \in 1..Len(funcs)
               PROVE  DstsApart(funcs'[g], IF g = f THEN next_vreg ELSE ParamBase, IF g = f THEN Pending ELSE {})
    BY <1>1, <1>5, <1>7 DEF DefinersApart
  <2>1. DstsApart(funcs[g], IF g = f THEN next_vreg ELSE ParamBase, IF g = f THEN Pending ELSE {})
    BY DEF IInv, DefinersApart
  <2>2. CASE g = f
    <3>1. DstsApart(code, next_vreg, Pending)
      BY <2>1, <2>2 DEF code
    <3>2. DstsApart(new, next_vreg, Pending)
      BY <1>4, <3>1 DEF DstsApart
    <3> QED
      BY <1>5, <2>2, <3>2
  <2>3. CASE g # f
    BY <1>5, <2>1, <2>3
  <2> QED
    BY <2>2, <2>3
<1>12. finalized' \in BOOLEAN
  BY <1>1, Zenon
<1>13. fp'.n \in Nat /\ next_vreg' \in 0..ParamBase
  BY <1>1, <1>2, <1>6 DEF IInv
<1> QED
  BY <1>5, <1>8, <1>9, <1>10, <1>11, <1>12, <1>13, Zenon DEF IInv

-----------------------------------------------------------------------------
LEMMA StutterKeeps ==
  ASSUME IInv, UNCHANGED vars
  PROVE  IInv'
<1>1. f' = f /\ Pending' = Pending /\ Definable' = Definable
  BY DEF vars, f, Pending, Definable, Vregs
<1>2. /\ funcs' \in Seq(Code) /\ next_vreg' \in 0..ParamBase /\ fp'.n \in Nat
      /\ Pointers' /\ PlaceholdersAre' /\ AliasesAre' /\ OperandsAreSound' /\ DefinersApart'
  BY <1>1 DEF vars, IInv, Pointers, PlaceholdersAre, AliasesAre, OperandsAreSound, DefinersApart
<1>3. finalized' \in BOOLEAN
  BY Zenon DEF vars, IInv
<1> QED
  BY <1>2, <1>3, Zenon DEF IInv

(* IInv holds in every state the builder reaches, whatever its client      *)
(* calls.                                                                  *)
THEOREM BuilderInvariance == Spec => []IInv
<1>1. Init => IInv
  BY Initially
<1>2. IInv /\ [Next]_vars => IInv'
  <2> SUFFICES ASSUME IInv, [Next]_vars PROVE IInv'
    OBVIOUS
  <2>1. CASE Func
    BY <2>1, FuncKeeps
  <2>2. CASE Block
    BY <2>2, BlockKeeps
  <2>3. CASE SetInsert
    BY <2>3, SetInsertKeeps
  <2>4. CASE Placeholder
    BY <2>4, PlaceholderKeeps
  <2>5. CASE Define
    BY <2>5, DefineKeeps
  <2>6. CASE Operation
    BY <2>6, OperationKeeps
  <2>7. CASE Finalize
    BY <2>7, FinalizeKeeps
  <2>8. CASE UNCHANGED vars
    BY <2>8, StutterKeeps
  <2> QED
    BY <2>1, <2>2, <2>3, <2>4, <2>5, <2>6, <2>7, <2>8 DEF Next, Operation
<1> QED
  BY <1>1, <1>2, PTL DEF Spec

(* The array of functions may move under the pointer to the current one:   *)
(* ir_func_new pushes, ir_builder_func takes the pointer after that.       *)
THEOREM FunctionIsThere == Spec => []CurrentFunctionIsThere
<1>1. IInv => CurrentFunctionIsThere
  BY DEF IInv, Pointers, CurrentFunctionIsThere, Dangling
<1> QED
  BY <1>1, BuilderInvariance, PTL

(* Operands name vregs given out for their function or its parameters,     *)
(* aliases and indices are in range, for every client.                     *)
THEOREM BuilderTypes == Spec => []TypeOK
<1>1. IInv => TypeOK
  <2> SUFFICES ASSUME IInv PROVE TypeOK
    OBVIOUS
  <2> USE CurrentIs
  <2>1. /\ array.n = Len(funcs) /\ array.n <= array.cap
        /\ cur_func.index \in {0, Len(funcs)}
    BY DEF IInv, Pointers
  <2>2. ASSUME NEW g \in DOMAIN funcs, NEW o \in Operands(g)
        PROVE  \/ o.kind \in {"none", "imm"}
               \/ o.kind = "fp" /\ o.x \in 0 .. Min({fp.n, FpMax}) - 1
               \/ o.kind = "vreg" /\ o.x \in Taken(IF g = f THEN next_vreg ELSE ParamBase)
    <3>1. PICK p \in Places(funcs[g]) : o = Opnd(funcs[g], p)
      BY <2>2 DEF Operands, Opnd
    <3>2. g \in 1..Len(funcs)
      BY DEF IInv
    <3>3. Sound(o, IF g = f THEN next_vreg ELSE ParamBase, Top(fp.n))
      BY <3>1, <3>2 DEF IInv, OperandsAreSound
    <3> QED
      BY <3>3 DEF Sound, Top
  <2>3. /\ \A v \in DOMAIN alias : alias[v] = Unknown \/ (v \in Pending /\ alias[v] \in Definable)
        /\ Pending \subseteq DOMAIN alias
    BY DEF IInv, AliasesAre
  <2>4. fp.n \in Nat /\ finalized \in BOOLEAN
    BY DEF IInv
  <2> QED
    BY <2>1, <2>2, <2>3, <2>4, Zenon DEF TypeOK
<1> QED
  BY <1>1, BuilderInvariance, PTL

(* In every function a vreg has one definition at most, and a placeholder  *)
(* none, however functions, placeholders and instructions are interleaved: *)
(* the counter next_vreg is shared by new_vreg_val and ir_value_placeholder *)
(* and reset by ir_builder_func.                                           *)
THEOREM NumbersAreApart == Spec => []NumbersApart
<1>1. IInv => NumbersApart
  <2> SUFFICES ASSUME IInv PROVE NumbersApart
    OBVIOUS
  <2> USE CurrentIs
  <2>1. ASSUME NEW g \in DOMAIN funcs
        PROVE  Cardinality(Dsts(g)) = Cardinality(Definers(g))
    <3> DEFINE code == funcs[g]
               D == DefinersOf(code)
               h == [d \in D |-> DstOf(code, d)]
               B == 0..ParamBase
    <3>1. g \in 1..Len(funcs)
      BY DEF IInv
    <3> DEFINE n == IF g = f THEN next_vreg ELSE ParamBase
               P == IF g = f THEN Pending ELSE {}
    <3>a. DstsApart(code, n, P)
      BY <3>1 DEF IInv, DefinersApart
    <3>b. n \in 0..ParamBase
      BY IRAssumption DEF IInv
    <3>c. \A d \in D : DstOf(code, d) \in B
      <4> HIDE DEF n, P
      <4> QED
        BY <3>a, <3>b, IRAssumption DEF DstsApart
    <3>2. /\ \A d \in D : DstOf(code, d) \in B
          /\ \A d, e \in D : DstOf(code, d) = DstOf(code, e) => d = e
      <4>1. \A d, e \in D : DstOf(code, d) = DstOf(code, e) => d = e
        <5> HIDE DEF n, P
        <5> QED
          BY <3>a DEF DstsApart
      <4> QED
        BY <4>1, <3>c
    <3>3. Definers(g) = D /\ Dsts(g) = {DstOf(code, d) : d \in D}
      BY DEF Definers, DefinersOf, Dsts, DstOf
    <3>4. h \in Injection(D, B)
      BY <3>2 DEF Injection, IsInjective
    <3>5. IsFiniteSet(D)
      <4>1. IsFiniteSet(B)
        BY FS_Interval
      <4> HIDE DEF h, D, B
      <4> QED
        BY <3>4, <4>1, FS_Injection
    <3>6. h \in Bijection(D, Dsts(g))
      BY <3>2, <3>3 DEF Bijection, Injection, IsInjective, Surjection
    <3>7. Cardinality(Dsts(g)) = Cardinality(D)
      <4>1. ExistsBijection(D, Dsts(g))
        BY <3>6 DEF ExistsBijection
      <4> HIDE DEF D
      <4> QED
        BY <3>5, <4>1, FS_Bijection
    <3> QED
      BY <3>3, <3>7
  <2>2. ASSUME f # 0 PROVE Dsts(f) \cap Pending = {}
    <3>1. f \in 1..Len(funcs)
      BY <2>2
    <3>2. \A d \in DefinersOf(funcs[f]) : DstOf(funcs[f], d) \notin Pending
      BY <3>1 DEF IInv, DefinersApart, DstsApart
    <3>3. Dsts(f) = {DstOf(funcs[f], d) : d \in DefinersOf(funcs[f])}
      BY DEF Definers, DefinersOf, Dsts, DstOf
    <3> QED
      BY <3>2, <3>3
  <2> QED
    BY <2>1, <2>2 DEF NumbersApart
<1> QED
  BY <1>1, BuilderInvariance, PTL

-----------------------------------------------------------------------------
(* Chains of aliases.  Of every vreg, S has the placeholders that lie on   *)
(* its chain, from itself on, and E the value the chain ends with.         *)
OnChain(S, y) == IF y.is = "vreg" THEN S[y.n] ELSE {}
EndOf(E, y)   == IF y.is = "vreg" THEN E[y.n] ELSE y

(* The values an operand may stand for. *)
AreChains(S, E) ==
  /\ \A v \in Numbers : ~Known(alias, V(v)) => S[v] = {} /\ E[v] = V(v)
  /\ \A v \in Numbers : Known(alias, V(v)) =>
       /\ S[v] = OnChain(S, alias[v]) \cup {v} /\ v \notin OnChain(S, alias[v])
       /\ E[v] = EndOf(E, alias[v])
  /\ \A v \in Numbers : S[v] \subseteq Pending /\ E[v] \in Worth /\ ~Known(alias, E[v])
  /\ \A v \in Numbers : \A w \in S[v] : E[w] = E[v]

Chains == \E S, E : AreChains(S, E)

LEMMA NumbersAre ==
  ASSUME IInv
  PROVE  /\ Taken(next_vreg) \subseteq Numbers
         /\ Pending \subseteq Numbers
<1>1. next_vreg \in Nat /\ ParamBase \in Nat /\ next_vreg <= ParamBase
  BY CurrentIs DEF IInv
<1>2. Taken(next_vreg) \subseteq Numbers
  BY <1>1, TakenIs DEF Numbers
<1>3. 0..next_vreg-1 \subseteq Taken(next_vreg)
  BY TakenIs
<1> QED
  BY <1>2, <1>3 DEF Pending

LEMMA PendingIs ==
  ASSUME IInv
  PROVE  /\ Pending \subseteq Numbers
         /\ IsFiniteSet(Pending) /\ Cardinality(Pending) \in Nat
         /\ Cardinality(Pending) <= MaxPlaceholders /\ MaxPlaceholders \in Nat
<1> DEFINE P == Pending
           Q == placeholders
           h == [v \in P |-> <<f, v>>]
<1>1. Pending \subseteq Numbers
  BY NumbersAre
<1>2. IsFiniteSet(Q) /\ Cardinality(Q) \in Nat /\ Cardinality(Q) <= MaxPlaceholders
  BY PlaceholdersFinite DEF IInv, PlaceholdersAre
<1>3. h \in Injection(P, Q)
  BY DEF Pending, Injection, IsInjective
<1>4. IsFiniteSet(P) /\ Cardinality(P) <= Cardinality(Q)
  <2> HIDE DEF h, P, Q
  <2> QED
    BY <1>2, <1>3, FS_Injection
<1>5. Cardinality(P) \in Nat
  <2> HIDE DEF P
  <2> QED
    BY <1>4, FS_CardinalityType
<1> QED
  BY <1>1, <1>2, <1>4, <1>5, BuilderAssumption

(* What is known, and what of it.                                          *)
LEMMA KnownIs ==
  ASSUME IInv
  PROVE  /\ Definable \subseteq Worth
         /\ \A v : Known(alias, V(v)) <=> v \in DOMAIN alias /\ alias[v] # Unknown
         /\ \A v : Known(alias, V(v)) => v \in Pending /\ alias[v] \in Definable /\ alias[v] \in Worth
         /\ \A y \in Worth : y.is = "vreg" => y.n \in Numbers /\ y = V(y.n)
         /\ \A y \in Worth : y.is # "vreg" => ~Known(alias, y)
<1>1. Definable \subseteq Worth
  <2>1. Taken(next_vreg) \subseteq Numbers
    BY NumbersAre
  <2> QED
    BY <2>1 DEF Definable, Worth, Vregs
<1>2. \A v : Known(alias, V(v)) <=> v \in DOMAIN alias /\ alias[v] # Unknown
  BY DEF Known, V
<1>3. \A v \in DOMAIN alias : alias[v] = Unknown \/ (v \in Pending /\ alias[v] \in Definable)
  BY DEF IInv, AliasesAre
<1>4. \A y \in Worth : y.is = "vreg" => y.n \in Numbers /\ y = V(y.n)
  BY DEF Worth, Constants, V, Null, IntOf
<1>5. \A y : y.is # "vreg" => ~Known(alias, y)
  BY DEF Known
<1> QED
  BY <1>1, <1>2, <1>3, <1>4, <1>5

(* Whoever follows aliases gets to the end of the chain, in as many hops   *)
(* as there are placeholders on it.                                        *)
Follows(h, x, n) ==
  h = [k \in 0..n |-> IF k = 0 THEN x ELSE IF Known(alias, h[k-1]) THEN alias[h[k-1].n] ELSE h[k-1]]

LEMMA FollowsIs ==
  ASSUME IInv, NEW x \in Worth, NEW n \in Nat, NEW h, Follows(h, x, n)
  PROVE  /\ h[0] = x
         /\ \A k \in 1..n : h[k] = IF Known(alias, h[k-1]) THEN alias[h[k-1].n] ELSE h[k-1]
<1> DEFINE next(y) == IF Known(alias, y) THEN alias[y.n] ELSE y
           e == h
<1>1. e = [k \in 0..n |-> IF k = 0 THEN x ELSE next(h[k-1])]
  BY DEF Follows
<1> HIDE DEF e, next
<1>2. e[0] = x /\ \A k \in 1..n : e[k] = next(h[k-1])
  BY <1>1
<1> QED
  BY <1>2 DEF e, next

LEMMA FollowerExists ==
  ASSUME IInv, NEW x \in Worth, NEW n \in Nat
  PROVE  \E h : Follows(h, x, n)
<1> DEFINE W == Worth
           next(y) == IF Known(alias, y) THEN alias[y.n] ELSE y
           step == [k \in 1..n |-> [y \in W |-> next(y)]]
<1>1. \A y \in W : next(y) \in W
  BY KnownIs
<1>2. step \in [1..n -> [W -> W]] /\ \A k \in 1..n : \A y \in W : step[k][y] = next(y)
  <2> HIDE DEF W, next
  <2> QED
    BY <1>1
<1> HIDE DEF W, next, step
<1>3. PICK h \in [0..n -> W] : h[0] = x /\ \A k \in 1..n : h[k] = step[k][h[k-1]]
  BY <1>2, Iterates DEF W
<1>4. \A k \in 1..n : h[k] = next(h[k-1])
  <2>1. \A k \in 1..n : k-1 \in 0..n
    OBVIOUS
  <2> QED
    BY <1>2, <1>3, <2>1
<1>5. h = [k \in 0..n |-> IF k = 0 THEN x ELSE next(h[k-1])]
  BY <1>3, <1>4
<1> QED
  BY <1>5 DEF Follows, next

LEMMA FollowerEnds ==
  ASSUME IInv, NEW S, NEW E, AreChains(S, E),
         NEW x \in Worth, NEW n \in Nat, Cardinality(Pending) <= n,
         NEW h, Follows(h, x, n)
  PROVE  h[n] = EndOf(E, x)
<1> DEFINE c(y) == Cardinality(OnChain(S, y))
           next(y) == IF Known(alias, y) THEN alias[y.n] ELSE y
           Good == {k \in 0..n : /\ h[k] \in Worth /\ EndOf(E, h[k]) = EndOf(E, x)
                                 /\ c(h[k]) + k <= c(x) \/ ~Known(alias, h[k])}
<1>1. h[0] = x /\ \A k \in 1..n : h[k] = next(h[k-1])
  BY FollowsIs
<1>2. ASSUME NEW y \in Worth
      PROVE  IsFiniteSet(OnChain(S, y)) /\ c(y) \in Nat /\ c(y) <= n
  <2>1. OnChain(S, y) \in SUBSET Pending
    BY KnownIs DEF OnChain, AreChains
  <2> DEFINE O == OnChain(S, y)
             P == Pending
  <2>2. IsFiniteSet(P) /\ O \in SUBSET P /\ Cardinality(P) \in Nat /\ Cardinality(P) <= n
    BY <2>1, PendingIs
  <2> HIDE DEF O, P
  <2>3. IsFiniteSet(O) /\ Cardinality(O) \in Nat /\ Cardinality(O) <= Cardinality(P)
    BY <2>2, FS_Subset, FS_CardinalityType
  <2> QED
    BY <2>2, <2>3 DEF O
<1>3. ASSUME NEW y \in Worth, Known(alias, y)
      PROVE  /\ next(y) \in Worth /\ EndOf(E, next(y)) = EndOf(E, y)
             /\ c(next(y)) + 1 = c(y)
  <2>1. y.is = "vreg" /\ y.n \in Numbers /\ y = V(y.n) /\ next(y) = alias[y.n] /\ alias[y.n] \in Worth
    BY <1>3, KnownIs
  <2> DEFINE v == y.n
             O == OnChain(S, alias[v])
  <2>2. S[v] = O \cup {v} /\ v \notin O /\ E[v] = EndOf(E, alias[v])
    BY <1>3, <2>1 DEF AreChains
  <2>3. IsFiniteSet(O) /\ Cardinality(O) \in Nat
    BY <1>2, <2>1
  <2>4. OnChain(S, y) = O \cup {v} /\ EndOf(E, y) = E[v]
    BY <2>1, <2>2 DEF OnChain, EndOf
  <2>5. Cardinality(O \cup {v}) = Cardinality(O) + 1
    <3> HIDE DEF O, v
    <3> QED
      BY <2>2, <2>3, FS_AddElement
  <2> QED
    BY <2>1, <2>2, <2>4, <2>5
<1> HIDE DEF c, next
<1>4. 0 \in Good
  BY <1>1, <1>2
<1>5. ASSUME NEW k \in 0..n-1, k \in Good PROVE k+1 \in Good
  <2>1. k+1 \in 0..n /\ h[k+1] = next(h[k])
    BY <1>1
  <2>2. h[k] \in Worth /\ EndOf(E, h[k]) = EndOf(E, x) /\ (c(h[k]) + k <= c(x) \/ ~Known(alias, h[k]))
    BY <1>5
  <2>3. CASE Known(alias, h[k])
    <3>1. /\ next(h[k]) \in Worth /\ EndOf(E, next(h[k])) = EndOf(E, h[k])
          /\ c(next(h[k])) + 1 = c(h[k])
      BY <1>3, <2>2, <2>3
    <3>2. c(next(h[k])) \in Nat /\ c(h[k]) \in Nat /\ c(x) \in Nat
      BY <1>2, <2>2, <3>1
    <3> QED
      BY <2>1, <2>2, <2>3, <3>1, <3>2
  <2>4. CASE ~Known(alias, h[k])
    BY <2>1, <2>2, <2>4 DEF next
  <2> QED
    BY <2>3, <2>4
<1>6. n \in Good
  <2>1. 0..n \subseteq Good
    <3> HIDE DEF Good
    <3> QED
      BY <1>4, <1>5, Induction
  <2> HIDE DEF Good
  <2> QED
    BY <2>1
<1>7. h[n] \in Worth /\ EndOf(E, h[n]) = EndOf(E, x) /\ (c(h[n]) + n <= c(x) \/ ~Known(alias, h[n]))
  BY <1>6
<1>8. ~Known(alias, h[n])
  <2> SUFFICES ASSUME Known(alias, h[n]) PROVE FALSE
    OBVIOUS
  <2>1. c(next(h[n])) + 1 = c(h[n]) /\ next(h[n]) \in Worth
    BY <1>3, <1>7
  <2>2. c(h[n]) \in Nat /\ c(x) \in Nat /\ c(x) <= n /\ c(next(h[n])) \in Nat
    BY <1>2, <1>7, <2>1
  <2> QED
    BY <1>7, <2>1, <2>2
<1>9. EndOf(E, h[n]) = h[n]
  <2>1. h[n].is = "vreg" => h[n].n \in Numbers /\ h[n] = V(h[n].n)
    BY <1>7, KnownIs
  <2> QED
    BY <1>8, <2>1 DEF EndOf, AreChains
<1> QED
  BY <1>7, <1>9

(* Three such: the guard of Define looks along the chain, resolve_vreg     *)
(* follows it, and so does the definition of what is promised.             *)
LEMMA ChainOfEnds ==
  ASSUME IInv, NEW S, NEW E, AreChains(S, E), NEW x \in Worth
  PROVE  ChainOf(alias, x)[MaxPlaceholders] = EndOf(E, x)
<1> DEFINE n == MaxPlaceholders
           h == ChainOf(alias, x)
<1>1. n \in Nat /\ Cardinality(Pending) <= n
  BY PendingIs
<1>2. h = CHOOSE e : Follows(e, x, n)
  BY DEF ChainOf, Follows
<1> HIDE DEF n, h
<1>3. Follows(h, x, n)
  BY <1>1, <1>2, FollowerExists
<1>4. h[n] = EndOf(E, x)
  BY <1>1, <1>3, FollowerEnds
<1> QED
  BY <1>4 DEF h, n

LEMMA FinalIs ==
  ASSUME IInv, NEW S, NEW E, AreChains(S, E), NEW x \in Worth,
         NEW m, m = [v \in Numbers |-> IF v \in DOMAIN alias /\ alias[v] # Unknown THEN alias[v]
                                       ELSE [is |-> "undefined", n |-> 0]]
  PROVE  Meant!Final(m, x) = EndOf(E, x)
<1> DEFINE n == MaxPlaceholders
           next(y) == IF Meant!IsDefined(m, y) THEN m[y.n] ELSE y
           Steps(h) == h = [k \in 0..n |-> IF k = 0 THEN x ELSE next(h[k-1])]
           W == Worth
<1>1. n \in Nat /\ Cardinality(Pending) <= n
  BY PendingIs
<1>2. \A y \in W : next(y) = IF Known(alias, y) THEN alias[y.n] ELSE y
  <2> SUFFICES ASSUME NEW y \in Worth
               PROVE  next(y) = IF Known(alias, y) THEN alias[y.n] ELSE y
    OBVIOUS
  <2>1. CASE y.is # "vreg"
    BY <2>1, KnownIs DEF Meant!IsDefined
  <2>2. CASE y.is = "vreg"
    <3>1. y.n \in Numbers /\ y = V(y.n)
      BY <2>2, KnownIs
    <3>2. Known(alias, y) <=> y.n \in DOMAIN alias /\ alias[y.n] # Unknown
      BY <3>1, KnownIs
    <3>3. Known(alias, y) => alias[y.n] # [is |-> "undefined", n |-> 0]
      <4>1. Known(alias, y) => alias[y.n] \in Worth
        BY <3>1, KnownIs
      <4>2. \A z \in Worth : z.is # "undefined"
        BY DEF Worth, Constants, V, Null, IntOf
      <4> QED
        BY <4>1, <4>2
    <3>4. Meant!IsDefined(m, y) <=> Known(alias, y)
      BY <2>2, <3>1, <3>2, <3>3 DEF Meant!IsDefined, Meant!Undefined
    <3>5. Known(alias, y) => m[y.n] = alias[y.n]
      BY <3>1, <3>2
    <3> QED
      BY <3>4, <3>5
  <2> QED
    BY <2>1, <2>2
<1>3. PICK h : Follows(h, x, n)
  BY <1>1, FollowerExists
<1>4. \A y \in W : next(y) \in W
  BY <1>2, KnownIs
<1> DEFINE g == CHOOSE e : Steps(e)
<1>5. Meant!Final(m, x) = g[n]
  BY DEF Meant!Final
<1> HIDE DEF next, n, W
<1>6. Steps(g)
  <2> DEFINE Good == {k \in 0..n : h[k] \in W}
             step(y) == IF Known(alias, y) THEN alias[y.n] ELSE y
  <2>1. h[0] = x /\ \A k \in 1..n : h[k] = step(h[k-1])
    BY <1>1, <1>3, FollowsIs
  <2>2. \A y \in W : next(y) = step(y)
    BY <1>2
  <2> HIDE DEF step
  <2>3. 0 \in Good
    BY <1>1, <2>1 DEF W
  <2>4. ASSUME NEW k \in 0..n-1, k \in Good PROVE k+1 \in Good
    BY <1>1, <1>4, <2>1, <2>2, <2>4
  <2>5. 0..n \subseteq Good
    <3> HIDE DEF Good
    <3> QED
      BY <1>1, <2>3, <2>4, Induction
  <2>6. \A k \in 1..n : h[k] = next(h[k-1])
    BY <1>1, <2>1, <2>2, <2>5
  <2>7. h = [k \in 0..n |-> h[k]]
    BY <1>3 DEF Follows
  <2>8. Steps(h)
    BY <1>1, <2>1, <2>6, <2>7
  <2> HIDE DEF Steps
  <2> QED
    BY <2>8
<1>7. Follows(g, x, n)
  <2> HIDE DEF g
  <2> DEFINE Good == {k \in 0..n : g[k] \in W}
             e == g
  <2>1. e = [k \in 0..n |-> IF k = 0 THEN x ELSE next(g[k-1])]
    BY <1>6
  <2> HIDE DEF e
  <2>2. e[0] = x /\ \A k \in 1..n : e[k] = next(g[k-1])
    BY <1>1, <2>1
  <2>3. 0 \in Good
    BY <1>1, <2>2 DEF W, e
  <2>4. ASSUME NEW k \in 0..n-1, k \in Good PROVE k+1 \in Good
    BY <1>1, <1>4, <2>2, <2>4 DEF e
  <2>5. 0..n \subseteq Good
    <3> HIDE DEF Good
    <3> QED
      BY <1>1, <2>3, <2>4, Induction
  <2>6. \A k \in 1..n : next(g[k-1]) = IF Known(alias, g[k-1]) THEN alias[g[k-1].n] ELSE g[k-1]
    <3>1. \A k \in 1..n : k-1 \in 0..n
      BY <1>1
    <3>2. \A k \in 0..n : g[k] \in W
      BY <2>5
    <3> QED
      BY <1>2, <3>1, <3>2
  <2>7. e = [k \in 0..n |-> IF k = 0 THEN x ELSE IF Known(alias, g[k-1]) THEN alias[g[k-1].n] ELSE g[k-1]]
    BY <1>1, <2>1, <2>6
  <2> QED
    BY <2>7 DEF Follows, e
<1> HIDE DEF Steps, g
<1>8. g[n] = EndOf(E, x)
  BY <1>1, <1>7, FollowerEnds
<1> QED
  BY <1>5, <1>8

(* resolve_vreg follows MaxHops aliases and no more: it gets to the end if *)
(* the function has no more placeholders than that.                        *)
FewPlaceholders == Cardinality(Pending) <= MaxHops

LEMMA ResolveIs ==
  ASSUME IInv, NEW S, NEW E, AreChains(S, E), FewPlaceholders, NEW v \in Taken(next_vreg)
  PROVE  ResolveVreg(v) = E[v]
<1> DEFINE n == MaxHops
           x == V(v)
           h == Hops(v)
           K == {k \in 0..n-1 : Known(alias, h[k]) /\ ~Named(h[k])}
<1>1. n \in Nat /\ Cardinality(Pending) <= n
  BY BuilderAssumption DEF FewPlaceholders
<1>2. x \in Worth /\ v \in Numbers /\ EndOf(E, x) = E[v]
  BY NumbersAre DEF Worth, EndOf, V
<1>3. /\ h \in [0..n -> Vregs] /\ h[0] = x
      /\ \A k \in 1..n : h[k] = IF Named(h[k-1]) THEN alias[h[k-1].n] ELSE h[k-1]
  BY HopsAre
<1>4. ResolveVreg(v) = IF K = {} THEN h[n] ELSE alias[h[Min(K)].n]
  BY DEF ResolveVreg
<1>5. Vregs \subseteq Worth
  BY KnownIs DEF Definable
<1> HIDE DEF h, x, n
<1>6. CASE K = {}
  <2>1. ASSUME NEW k \in 1..n PROVE Named(h[k-1]) <=> Known(alias, h[k-1])
    <3>1. k-1 \in 0..n-1
      BY <1>1
    <3> QED
      BY <1>6, <3>1 DEF Named
  <2>2. h = [k \in 0..n |-> h[k]]
    BY <1>3
  <2> DEFINE e == h
             step(y) == IF Known(alias, y) THEN alias[y.n] ELSE y
  <2>a. \A k \in 1..n : h[k] = step(h[k-1])
    BY <1>3, <2>1
  <2> HIDE DEF step
  <2>b. e = [k \in 0..n |-> IF k = 0 THEN x ELSE step(h[k-1])]
    BY <1>1, <1>3, <2>2, <2>a
  <2>3. Follows(h, x, n)
    BY <2>b DEF Follows, step
  <2> QED
    BY <1>1, <1>2, <1>4, <1>6, <2>3, FollowerEnds
<1>7. CASE K # {}
  <2> DEFINE Good == {k \in 0..n : EndOf(E, h[k]) = EndOf(E, x)}
             m == Min(K)
  <2>1. 0 \in Good
    BY <1>1, <1>3
  <2>a. ASSUME NEW y \in Vregs, Known(alias, y) PROVE EndOf(E, alias[y.n]) = EndOf(E, y)
    <3>1. y.is = "vreg" /\ y.n \in Numbers /\ y = V(y.n)
      <4>1. y.is = "vreg" /\ y \in Worth
        BY <1>5 DEF Vregs, V
      <4> QED
        BY <4>1, KnownIs
    <3> QED
      BY <2>a, <3>1 DEF EndOf, AreChains
  <2>2. ASSUME NEW k \in 0..n-1, k \in Good PROVE k+1 \in Good
    <3>1. h[k+1] = IF Named(h[k]) THEN alias[h[k].n] ELSE h[k]
      <4>1. k+1 \in 1..n /\ (k+1)-1 = k
        BY <1>1
      <4> QED
        BY <1>3, <4>1
    <3>2. h[k] \in Vregs
      BY <1>1, <1>3
    <3>3. EndOf(E, h[k+1]) = EndOf(E, h[k])
      BY <2>a, <3>1, <3>2 DEF Named
    <3> QED
      BY <1>1, <2>2, <3>3
  <2>3. 0..n \subseteq Good
    <3> HIDE DEF Good
    <3> QED
      BY <1>1, <2>1, <2>2, Induction
  <2>4. m \in K
    <3>1. K \in SUBSET Nat
      BY <1>1
    <3> HIDE DEF K
    <3>2. PICK k \in K : \A j \in K : k <= j
      BY <1>7, <3>1, Least
    <3> QED
      BY <3>2, Zenon DEF Min
  <2> HIDE DEF m
  <2>5. /\ EndOf(E, h[m]) = EndOf(E, x) /\ h[m] \in Vregs
        /\ Known(alias, h[m]) /\ ~Named(h[m])
    BY <1>1, <1>3, <2>3, <2>4
  <2>6. EndOf(E, alias[h[m].n]) = EndOf(E, x)
    BY <2>a, <2>5
  <2>7. EndOf(E, alias[h[m].n]) = alias[h[m].n]
    BY <2>5 DEF EndOf, Named
  <2> QED
    BY <1>2, <1>4, <1>7, <2>6, <2>7 DEF m
<1> QED
  BY <1>6, <1>7

-----------------------------------------------------------------------------
(* There are chains at all times: no placeholder is reached from itself.   *)
Empty == [v \in Numbers |-> {}]
Selves == [v \in Numbers |-> V(v)]

LEMMA NoChains ==
  ASSUME \A v : ~Known(alias, V(v))
  PROVE  Chains
<1>1. \A v \in Numbers : Selves[v] \in Worth /\ ~Known(alias, Selves[v])
  BY DEF Selves, Worth
<1>2. AreChains(Empty, Selves)
  BY <1>1 DEF AreChains, Empty, Selves
<1> QED
  BY <1>2 DEF Chains

LEMMA ChainsInitially ==
  ASSUME Init
  PROVE  Chains
<1>1. \A v : ~Known(alias, V(v))
  BY DEF Init, Aliases, Known, V
<1> QED
  BY <1>1, NoChains

LEMMA FuncStartsChains ==
  ASSUME Func
  PROVE  Chains'
<1>1. \A v : ~Known(alias', V(v))
  BY DEF Func, Known, V
<1>2. \A v \in Numbers : Selves[v] \in Worth /\ ~Known(alias', Selves[v])
  BY <1>1 DEF Selves, Worth
<1>3. AreChains(Empty, Selves)'
  BY <1>1, <1>2 DEF AreChains, Empty, Selves
<1> QED
  BY <1>3 DEF Chains

(* What leaves the known aliases alone leaves the chains alone.            *)
LEMMA ChainsStay ==
  ASSUME Chains, IInv, IInv', Pending \subseteq Pending',
         \A v : Known(alias', V(v)) <=> Known(alias, V(v)),
         \A v : Known(alias, V(v)) => alias'[v] = alias[v]
  PROVE  Chains'
<1>1. PICK S, E : AreChains(S, E)
  BY DEF Chains
<1>2. \A y \in Worth : Known(alias', y) => Known(alias, y)
  <2>1. \A y \in Worth : Known(alias', y) => y = V(y.n)
    BY DEF Worth, Constants, V, Null, IntOf, Known
  <2> QED
    BY <2>1
<1>3. AreChains(S, E)'
  <2>1. \A v \in Numbers : ~Known(alias', V(v)) => S[v] = {} /\ E[v] = V(v)
    BY <1>1 DEF AreChains
  <2>2. \A v \in Numbers : Known(alias', V(v)) =>
          /\ S[v] = OnChain(S, alias'[v]) \cup {v} /\ v \notin OnChain(S, alias'[v])
          /\ E[v] = EndOf(E, alias'[v])
    BY <1>1 DEF AreChains
  <2>3. \A v \in Numbers : S[v] \subseteq Pending' /\ E[v] \in Worth /\ ~Known(alias', E[v])
    BY <1>1, <1>2 DEF AreChains
  <2>4. \A v \in Numbers : \A w \in S[v] : E[w] = E[v]
    BY <1>1 DEF AreChains
  <2> QED
    BY <2>1, <2>2, <2>3, <2>4 DEF AreChains, Worth
<1> QED
  BY <1>3 DEF Chains

(* A definition appends the chain of the value to the chains that ended    *)
(* with the placeholder.                                                   *)
Joined(S, E, p, x) == [v \in Numbers |-> IF E[v] = V(p) THEN S[v] \cup {p} \cup OnChain(S, x) ELSE S[v]]
Moved(E, p, x)     == [v \in Numbers |-> IF E[v] = V(p) THEN EndOf(E, x) ELSE E[v]]

LEMMA DefineIs ==
  ASSUME IInv, Define
  PROVE  /\ f' = f /\ Pending' = Pending
         /\ UNCHANGED <<funcs, array, cur_func, cur_block, next_vreg, fp, placeholders>>
         /\ finalized' = FALSE
         /\ \E p \in Pending, x \in Definable :
              /\ ~Known(alias, V(p)) /\ \A k \in 0..MaxPlaceholders : ChainOf(alias, x)[k] # V(p)
              /\ \A v : Known(alias', V(v)) <=> v = p \/ Known(alias, V(v))
              /\ \A v : Known(alias', V(v)) => alias'[v] = IF v = p THEN x ELSE alias[v]
<1>1. /\ f' = f /\ UNCHANGED <<funcs, array, cur_func, cur_block, next_vreg, fp, placeholders>>
  BY DEF Define, f
<1>2. finalized' = FALSE
  BY Zenon DEF Define
<1>3. PICK p \in Pending : \E x \in Definable :
        /\ ~Known(alias, V(p)) /\ \A k \in 0..MaxPlaceholders : ChainOf(alias, x)[k] # V(p)
        /\ alias' = [GrowTo(alias, p) EXCEPT ![p] = x]
  BY Zenon DEF Define
<1>4. PICK x \in Definable :
        /\ ~Known(alias, V(p)) /\ \A k \in 0..MaxPlaceholders : ChainOf(alias, x)[k] # V(p)
        /\ alias' = [GrowTo(alias, p) EXCEPT ![p] = x]
  BY <1>3
<1> DEFINE grown == GrowTo(alias, p)
<1>5. /\ p \in DOMAIN grown /\ DOMAIN alias \subseteq DOMAIN grown
      /\ \A u \in DOMAIN alias : grown[u] = alias[u]
      /\ \A u \in DOMAIN grown : u \notin DOMAIN alias => grown[u] = Unknown
  <2>1. p \in Nat
    BY DEF Pending
  <2> QED
    BY <2>1, Grows DEF IInv, AliasesAre
<1> HIDE DEF grown
<1>6. DOMAIN alias' = DOMAIN grown /\ \A u \in DOMAIN grown : alias'[u] = IF u = p THEN x ELSE grown[u]
  BY <1>4 DEF grown
<1>7. x # Unknown
  BY DEF Definable, Constants, Vregs, V, Unknown
<1>8. \A v : Known(alias', V(v)) <=> v = p \/ Known(alias, V(v))
  <2>1. \A v : Known(alias', V(v)) <=> v \in DOMAIN alias' /\ alias'[v] # Unknown
    BY DEF Known, V
  <2> QED
    BY <1>5, <1>6, <1>7, <2>1, KnownIs
<1>9. \A v : Known(alias', V(v)) => alias'[v] = IF v = p THEN x ELSE alias[v]
  BY <1>5, <1>6, <1>8, KnownIs
<1>10. Pending' = Pending
  BY <1>1 DEF Pending
<1>11. ~Known(alias, V(p)) /\ \A k \in 0..MaxPlaceholders : ChainOf(alias, x)[k] # V(p)
  BY <1>4
<1> QED
  BY <1>1, <1>2, <1>8, <1>9, <1>10, <1>11, Zenon

LEMMA DefineKeepsChains ==
  ASSUME Chains, IInv, Define
  PROVE  Chains'
<1>1. PICK S, E : AreChains(S, E)
  BY DEF Chains
<1>2. PICK p \in Pending, x \in Definable :
        /\ ~Known(alias, V(p)) /\ \A k \in 0..MaxPlaceholders : ChainOf(alias, x)[k] # V(p)
        /\ \A v : Known(alias', V(v)) <=> v = p \/ Known(alias, V(v))
        /\ \A v : Known(alias', V(v)) => alias'[v] = IF v = p THEN x ELSE alias[v]
  BY DefineIs
<1>3. x \in Worth /\ p \in Numbers /\ Pending \subseteq Numbers /\ Pending' = Pending
  BY KnownIs, PendingIs, DefineIs
<1>4. EndOf(E, x) # V(p)
  <2>1. ChainOf(alias, x)[MaxPlaceholders] = EndOf(E, x)
    BY <1>1, <1>3, ChainOfEnds
  <2>2. MaxPlaceholders \in 0..MaxPlaceholders
    BY BuilderAssumption
  <2> QED
    BY <1>2, <2>1, <2>2
<1> DEFINE T == Joined(S, E, p, x)
           F == Moved(E, p, x)
<1>5. \A v \in Numbers : /\ T[v] = IF E[v] = V(p) THEN S[v] \cup {p} \cup OnChain(S, x) ELSE S[v]
                         /\ F[v] = IF E[v] = V(p) THEN EndOf(E, x) ELSE E[v]
  BY DEF Joined, Moved
<1> HIDE DEF T, F
(* The end of the new chain, and what is on it. *)
<1>6. /\ S[p] = {} /\ E[p] = V(p)
      /\ EndOf(E, x) \in Worth /\ ~Known(alias, EndOf(E, x))
      /\ OnChain(S, x) \subseteq Pending
      /\ \A w \in OnChain(S, x) : w \in Numbers /\ E[w] = EndOf(E, x)
      /\ p \notin OnChain(S, x)
      /\ OnChain(T, x) = OnChain(S, x) /\ EndOf(F, x) = EndOf(E, x)
  <2>1. S[p] = {} /\ E[p] = V(p)
    BY <1>1, <1>2, <1>3 DEF AreChains
  <2>2. CASE x.is = "vreg"
    <3>1. x.n \in Numbers
      BY <1>3, <2>2, KnownIs
    <3>2. /\ OnChain(S, x) = S[x.n] /\ EndOf(E, x) = E[x.n]
          /\ OnChain(T, x) = T[x.n] /\ EndOf(F, x) = F[x.n]
      BY <2>2 DEF OnChain, EndOf
    <3>3. T[x.n] = S[x.n] /\ F[x.n] = E[x.n]
      BY <1>4, <1>5, <3>1, <3>2
    <3>4. /\ S[x.n] \subseteq Pending /\ E[x.n] \in Worth /\ ~Known(alias, E[x.n])
          /\ \A w \in S[x.n] : E[w] = E[x.n]
      BY <1>1, <3>1 DEF AreChains
    <3>5. p \notin S[x.n]
      BY <1>4, <2>1, <3>2, <3>4
    <3> QED
      BY <1>3, <2>1, <3>2, <3>3, <3>4, <3>5
  <2>3. CASE x.is # "vreg"
    <3>1. OnChain(S, x) = {} /\ EndOf(E, x) = x /\ OnChain(T, x) = {} /\ EndOf(F, x) = x
      BY <2>3 DEF OnChain, EndOf
    <3>2. ~Known(alias, x)
      BY <2>3 DEF Known
    <3> QED
      BY <1>3, <2>1, <3>1, <3>2
  <2> QED
    BY <2>2, <2>3
<1>7. ASSUME NEW v \in Numbers, ~Known(alias', V(v))
      PROVE  T[v] = {} /\ F[v] = V(v)
  <2>1. v # p /\ ~Known(alias, V(v))
    BY <1>2, <1>7
  <2>2. S[v] = {} /\ E[v] = V(v) /\ V(v) # V(p)
    BY <1>1, <2>1 DEF AreChains, V
  <2> QED
    BY <1>5, <2>2
<1>8. ASSUME NEW v \in Numbers, Known(alias', V(v))
      PROVE  /\ T[v] = OnChain(T, alias'[v]) \cup {v} /\ v \notin OnChain(T, alias'[v])
             /\ F[v] = EndOf(F, alias'[v])
  <2>1. CASE v = p
    <3>1. alias'[v] = x
      BY <1>2, <1>8, <2>1
    <3> QED
      BY <1>3, <1>5, <1>6, <2>1, <3>1
  <2>2. CASE v # p
    <3> DEFINE y == alias[v]
    <3>1. Known(alias, V(v)) /\ alias'[v] = y /\ y \in Worth
      BY <1>2, <1>8, <2>2, KnownIs
    <3>2. S[v] = OnChain(S, y) \cup {v} /\ v \notin OnChain(S, y) /\ E[v] = EndOf(E, y)
      BY <1>1, <3>1 DEF AreChains
    <3> HIDE DEF y
    <3>3. CASE y.is # "vreg"
      <4>1. /\ OnChain(S, y) = {} /\ OnChain(T, y) = {} /\ EndOf(E, y) = y /\ EndOf(F, y) = y
            /\ y # V(p)
        BY <3>3 DEF OnChain, EndOf, V
      <4> QED
        BY <1>5, <3>1, <3>2, <4>1
    <3>4. CASE y.is = "vreg"
      <4> DEFINE u == y.n
      <4>1. u \in Numbers
        BY <3>1, <3>4, KnownIs
      <4>2. /\ OnChain(S, y) = S[u] /\ OnChain(T, y) = T[u]
            /\ EndOf(E, y) = E[u] /\ EndOf(F, y) = F[u]
        BY <3>4 DEF OnChain, EndOf
      <4> HIDE DEF u
      <4>3. E[v] = V(p) => v \notin OnChain(S, x)
        BY <1>4, <1>6
      <4>4. /\ OnChain(T, alias'[v]) = T[u] /\ EndOf(F, alias'[v]) = F[u]
            /\ S[v] = S[u] \cup {v} /\ v \notin S[u] /\ E[v] = E[u]
        BY <3>1, <3>2, <4>2
      <4>5. T[v] = T[u] \cup {v} /\ v \notin T[u] /\ F[v] = F[u]
        <5>1. CASE E[v] = V(p)
          <6>1. T[v] = S[v] \cup {p} \cup OnChain(S, x) /\ T[u] = S[u] \cup {p} \cup OnChain(S, x)
            BY <1>5, <4>1, <4>4, <5>1
          <6>2. F[v] = F[u]
            BY <1>5, <4>1, <4>4, <5>1
          <6> QED
            BY <2>2, <4>3, <4>4, <5>1, <6>1, <6>2
        <5>2. CASE E[v] # V(p)
          BY <1>5, <4>1, <4>4, <5>2
        <5> QED
          BY <5>1, <5>2
      <4> QED
        BY <4>4, <4>5
    <3> QED
      BY <3>3, <3>4
  <2> QED
    BY <2>1, <2>2
<1>9. ASSUME NEW v \in Numbers
      PROVE  T[v] \subseteq Pending' /\ F[v] \in Worth /\ ~Known(alias', F[v])
  <2>1. S[v] \subseteq Pending /\ E[v] \in Worth /\ ~Known(alias, E[v])
    BY <1>1 DEF AreChains
  <2>2. T[v] \subseteq Pending' /\ F[v] \in Worth /\ ~Known(alias, F[v]) /\ F[v] # V(p)
    BY <1>3, <1>4, <1>5, <1>6, <2>1
  <2>3. Known(alias', F[v]) => F[v] = V(F[v].n)
    <3>1. Known(alias', F[v]) => F[v].is = "vreg"
      BY DEF Known
    <3> QED
      BY <2>2, <3>1, KnownIs
  <2>4. Known(alias', F[v]) => F[v].n = p \/ Known(alias, F[v])
    BY <1>2, <2>3
  <2> QED
    BY <2>2, <2>3, <2>4
<1>10. ASSUME NEW v \in Numbers, NEW w \in T[v] PROVE F[w] = F[v]
  <2>1. /\ S[v] \subseteq Numbers
        /\ \A z \in S[v] : E[z] = E[v]
    BY <1>1, <1>3 DEF AreChains
  <2>2. CASE E[v] = V(p)
    <3>1. w \in S[v] \/ w = p \/ w \in OnChain(S, x)
      BY <1>5, <1>10, <2>2
    <3>2. CASE w \in S[v]
      BY <1>5, <2>1, <2>2, <3>2
    <3>3. CASE w = p
      BY <1>3, <1>5, <1>6, <2>2, <3>3
    <3>4. CASE w \in OnChain(S, x)
      BY <1>4, <1>5, <1>6, <2>2, <3>4
    <3> QED
      BY <3>1, <3>2, <3>3, <3>4
  <2>3. CASE E[v] # V(p)
    BY <1>5, <1>10, <2>1, <2>3
  <2> QED
    BY <2>2, <2>3
<1>11. AreChains(T, F)'
  BY <1>7, <1>8, <1>9, <1>10 DEF AreChains, T, F, Joined, Moved
<1> QED
  BY <1>11 DEF Chains

LEMMA PlaceholderIs ==
  ASSUME IInv, Placeholder
  PROVE  /\ f \in 1..Len(funcs) /\ f' = f /\ Pending \subseteq Pending'
         /\ UNCHANGED <<funcs, array, cur_func, cur_block, fp, finalized>>
         /\ next_vreg' = next_vreg + 1
         /\ \A v : Known(alias', V(v)) <=> Known(alias, V(v))
         /\ \A v : v \in DOMAIN alias => alias'[v] = alias[v]
         /\ \A v : Known(alias, V(v)) => alias'[v] = alias[v]
<1>1. /\ f' = f /\ f \in 1..Len(funcs) /\ next_vreg' = next_vreg + 1
      /\ UNCHANGED <<funcs, array, cur_func, cur_block, fp, finalized>>
      /\ alias' = GrowTo(alias, next_vreg)
      /\ placeholders' = placeholders \cup {<<f, next_vreg>>}
  BY CurrentIs DEF Placeholder, f
<1> DEFINE n == next_vreg
<1>2. n \in Nat /\ IsTable(alias)
  BY DEF IInv, AliasesAre
<1>3. /\ DOMAIN alias \subseteq DOMAIN alias'
      /\ \A u \in DOMAIN alias : alias'[u] = alias[u]
      /\ \A u \in DOMAIN alias' : u \notin DOMAIN alias => alias'[u] = Unknown
  <2> HIDE DEF n
  <2>1. alias' = GrowTo(alias, n)
    BY <1>1 DEF n
  <2> QED
    BY <1>2, <2>1, Grows
<1>4. \A v : Known(alias', V(v)) <=> v \in DOMAIN alias' /\ alias'[v] # Unknown
  BY DEF Known, V
<1>5. \A v : Known(alias', V(v)) <=> Known(alias, V(v))
  BY <1>3, <1>4, KnownIs
<1>6. \A v : Known(alias, V(v)) => alias'[v] = alias[v]
  BY <1>3, KnownIs
<1>7. Pending \subseteq Pending'
  BY <1>1, <1>2 DEF Pending
<1> QED
  BY <1>1, <1>3, <1>5, <1>6, <1>7

(* What every operation that appends instructions does.                    *)
LEMMA OperationIs ==
  ASSUME IInv, Operation
  PROVE  /\ f \in 1..Len(funcs) /\ f' = f /\ Pending' = Pending
         /\ finalized' = FALSE
         /\ UNCHANGED <<array, cur_func, cur_block, alias, placeholders>>
         /\ \E instrs \in Seq(Instruction), args \in Seq(Val(next_vreg)), n \in {0, 1} :
              Emit(instrs, args, n) /\ Meaningful(instrs, args, n)
<1>1. PICK instrs \in Seq(Instruction), args \in Seq(Val(next_vreg)), n \in {0, 1} :
        Emit(instrs, args, n) /\ Meaningful(instrs, args, n)
  BY OperationAppends DEF Appends
<1>2. /\ f \in 1..Len(funcs) /\ f' = f /\ next_vreg' = next_vreg + n /\ n \in {0, 1}
      /\ UNCHANGED <<array, cur_func, cur_block, alias, placeholders>>
  BY <1>1, EmitIs
<1>3. finalized' = FALSE
  BY <1>1, Zenon DEF Emit
<1>4. Pending' = Pending
  <2>1. \A v \in 0..ParamBase-1 : <<f, v>> \in placeholders => v < next_vreg
    BY DEF IInv, PlaceholdersAre
  <2>2. next_vreg \in Nat /\ next_vreg + n \in 0..ParamBase /\ ParamBase \in Nat
    BY <1>1, <1>2, EmitIs, IRAssumption DEF IInv
  <2>3. \A v \in 0..next_vreg'-1 : <<f, v>> \in placeholders => v \in 0..next_vreg-1
    BY <1>2, <2>1, <2>2
  <2>4. \A v \in 0..next_vreg-1 : v \in 0..next_vreg'-1
    BY <1>2, <2>2
  <2> QED
    BY <1>2, <2>3, <2>4 DEF Pending
<1> QED
  BY <1>1, <1>2, <1>3, <1>4, Zenon

LEMMA ChainsKept ==
  ASSUME Chains, IInv, IInv', [Next]_vars
  PROVE  Chains'
<1>1. CASE Func
  BY <1>1, FuncStartsChains
<1>2. CASE Placeholder
  BY <1>2, PlaceholderIs, ChainsStay
<1>3. CASE Define
  BY <1>3, DefineKeepsChains
<1>4. ASSUME alias' = alias, Pending' = Pending PROVE Chains'
  BY <1>4, ChainsStay
<1>5. CASE Block
  <2>1. alias' = alias /\ Pending' = Pending
    BY <1>5, BlockIs DEF Pending
  <2> QED
    BY <1>4, <2>1
<1>6. CASE SetInsert
  <2>1. alias' = alias /\ Pending' = Pending
    BY <1>6 DEF SetInsert, Pending, f
  <2> QED
    BY <1>4, <2>1
<1>7. CASE Operation
  BY <1>4, <1>7, OperationIs
<1>8. CASE Finalize
  <2>1. alias' = alias /\ Pending' = Pending
    BY <1>8, FinalizeIs DEF Pending
  <2> QED
    BY <1>4, <2>1
<1>9. CASE UNCHANGED vars
  <2>1. alias' = alias /\ Pending' = Pending
    BY <1>9 DEF vars, Pending, f
  <2> QED
    BY <1>4, <2>1
<1> QED
  BY <1>1, <1>2, <1>3, <1>5, <1>6, <1>7, <1>8, <1>9 DEF Next, Operation

(* However a client defines its placeholders, no chain of aliases comes    *)
(* back to where it was: ir_value_define is called for p and x only if x   *)
(* does not stand for p, and this is all the care a client has to take for *)
(* resolve_vreg to end by itself (src/ir/ir_builder.c).                    *)
THEOREM NoChainIsACycle == Spec => []Chains
<1>1. Init => Chains
  BY ChainsInitially
<1>2. Chains /\ IInv /\ IInv' /\ [Next]_vars => Chains'
  BY ChainsKept
<1> QED
  BY <1>1, <1>2, BuilderInvariance, PTL DEF Spec

-----------------------------------------------------------------------------
(* What finalisation leaves.                                               *)
Finished ==
  finalized => /\ f # 0
               /\ \A p \in VregPlaces : ~Known(alias, V(Opnd(funcs[f], p).x))

(* What becomes of an operand: of one that is no vreg, nothing, of a vreg  *)
(* what it finally stands for.                                             *)
LEMMA ReplacedStands ==
  ASSUME IInv, f # 0, NEW p \in Places(funcs[f])
  PROVE  /\ p \notin VregPlaces => Replaced[p] = Opnd(funcs[f], p) /\ Opnd(funcs[f], p).kind # "vreg"
         /\ p \in VregPlaces =>
              /\ Opnd(funcs[f], p).x \in Taken(next_vreg)
              /\ Resolved(p) = ResolveVreg(Opnd(funcs[f], p).x) /\ Resolved(p) \in Definable
              /\ Replaced[p] = Operand(Resolved(p), NthUse(p))
              /\ Resolved(p).is = "fp" =>
                   NthUse(p) \in 1..Len(FpDs) /\ FpDs[NthUse(p)] = Resolved(p).n
<1>1. f \in 1..Len(funcs)
  BY CurrentIs
<1>2. ASSUME p \in VregPlaces
      PROVE  /\ Opnd(funcs[f], p).x \in Taken(next_vreg)
             /\ Resolved(p) = ResolveVreg(Opnd(funcs[f], p).x)
  <2>1. Sound(Opnd(funcs[f], p), next_vreg, Top(fp.n)) /\ Opnd(funcs[f], p).kind = "vreg"
    BY <1>1, <1>2 DEF IInv, OperandsAreSound, VregPlaces
  <2> QED
    BY <2>1 DEF Sound, Resolved
<1>3. p \in VregPlaces /\ Resolved(p).is = "fp" => p \in FpUses
  BY DEF FpUses
<1>4. p \notin VregPlaces => Opnd(funcs[f], p).kind # "vreg"
  BY DEF VregPlaces
<1>5. Replaced[p] = IF p \in VregPlaces THEN Operand(Resolved(p), NthUse(p)) ELSE Opnd(funcs[f], p)
  BY DEF Replaced
<1> QED
  BY <1>2, <1>3, <1>4, <1>5, FpDsAre

LEMMA OperandKinds ==
  ASSUME NEW x, NEW k, x.is \in {"vreg", "int", "fp", "null"}
  PROVE  /\ Operand(x, k).kind = "vreg" <=> x.is = "vreg"
         /\ x.is = "vreg" => Operand(x, k) = Vreg(x.n)
BY DEF Operand, Vreg, Imm, FpRef, None

(* The new code of the function that is finalized.                         *)
LEMMA FinalizedIs ==
  ASSUME IInv, Finalize
  PROVE  /\ f \in 1..Len(funcs) /\ f' = f /\ finalized' = TRUE
         /\ fp' = FpAdded(fp, FpDs)
         /\ UNCHANGED <<array, cur_func, cur_block, next_vreg, alias, placeholders>>
         /\ Len(funcs') = Len(funcs) /\ funcs' \in Seq(Code)
         /\ \A g \in 1..Len(funcs) : g # f => funcs'[g] = funcs[g]
         /\ Places(funcs'[f]) = Places(funcs[f])
         /\ \A p \in Places(funcs[f]) : Opnd(funcs'[f], p) = Replaced[p]
<1> DEFINE code == funcs[f]
           new == Rewritten(code, Replaced)
<1>1. /\ f \in 1..Len(funcs) /\ f' = f /\ finalized' = TRUE
      /\ funcs' = [funcs EXCEPT ![f] = new]
      /\ fp' = FpAdded(fp, FpDs)
      /\ UNCHANGED <<array, cur_func, cur_block, next_vreg, alias, placeholders>>
  BY FinalizeIs
<1>2. f # 0 /\ code \in Code
  BY <1>1, CurrentIs
<1>3. Replaced \in [Places(code) -> Opds]
  BY <1>2, ReplacedIs
<1>4. /\ new \in Code /\ Places(new) = Places(code)
      /\ \A p \in Places(code) : Opnd(new, p) = Replaced[p]
  BY <1>2, <1>3, RewrittenIs
<1> HIDE DEF new
<1>5. /\ funcs' \in Seq(Code) /\ Len(funcs') = Len(funcs) /\ funcs'[f] = new
      /\ \A g \in 1..Len(funcs) : g # f => funcs'[g] = funcs[g]
  BY <1>1, <1>4 DEF IInv
<1> QED
  BY <1>1, <1>4, <1>5

LEMMA FinalizeFinishes ==
  ASSUME Chains, IInv, FewPlaceholders, Finalize
  PROVE  Finished'
<1>1. PICK S, E : AreChains(S, E)
  BY DEF Chains
<1>2. /\ f \in 1..Len(funcs) /\ f' = f /\ f # 0 /\ alias' = alias
      /\ Places(funcs'[f]) = Places(funcs[f])
      /\ \A p \in Places(funcs[f]) : Opnd(funcs'[f], p) = Replaced[p]
  BY FinalizedIs, CurrentIs
<1>3. ASSUME NEW p \in Places(funcs[f]), Replaced[p].kind = "vreg"
      PROVE  ~Known(alias, V(Replaced[p].x))
  <2> DEFINE v == Opnd(funcs[f], p).x
  <2>1. /\ p \in VregPlaces /\ v \in Taken(next_vreg)
        /\ Resolved(p) = ResolveVreg(v) /\ Resolved(p) \in Definable
        /\ Replaced[p] = Operand(Resolved(p), NthUse(p))
    BY <1>2, <1>3, ReplacedStands
  <2> HIDE DEF v
  <2>2. Resolved(p) = E[v] /\ v \in Numbers
    <3>1. v \in Numbers
      BY <2>1, NumbersAre
    <3> QED
      BY <1>1, <2>1, <3>1, ResolveIs
  <2>3. Resolved(p).is \in {"vreg", "int", "fp", "null"}
    BY <2>1 DEF Definable, Constants, Vregs, V
  <2>4. Resolved(p).is = "vreg" /\ Replaced[p] = Vreg(Resolved(p).n)
    BY <1>3, <2>1, <2>3, OperandKinds
  <2>5. Resolved(p) = V(Replaced[p].x)
    <3>1. Resolved(p) = V(Resolved(p).n)
      BY <2>1, <2>4, KnownIs
    <3> QED
      BY <2>4, <3>1 DEF Vreg
  <2> QED
    BY <1>1, <2>2, <2>5 DEF AreChains
<1>4. \A p \in Places(funcs'[f]) : Opnd(funcs'[f], p).kind = "vreg" => ~Known(alias, V(Opnd(funcs'[f], p).x))
  BY <1>2, <1>3
<1> QED
  BY <1>2, <1>4 DEF Finished, VregPlaces

LEMMA FinishedKept ==
  ASSUME Chains, IInv, FewPlaceholders, Finished, [Next]_vars
  PROVE  Finished'
<1>1. CASE Func
  <2>1. finalized' = FALSE
    BY <1>1, Zenon DEF Func
  <2> QED
    BY <2>1, Zenon DEF Finished
<1>2. CASE Define
  <2>1. finalized' = FALSE
    BY <1>2, DefineIs, Zenon
  <2> QED
    BY <2>1, Zenon DEF Finished
<1>3. CASE Operation
  <2>1. finalized' = FALSE
    BY <1>3, OperationIs, Zenon
  <2> QED
    BY <2>1, Zenon DEF Finished
<1>4. CASE Finalize
  BY <1>4, FinalizeFinishes
<1>5. ASSUME finalized' = finalized, f' = f, f # 0 => funcs' = funcs,
             \A v : Known(alias', V(v)) <=> Known(alias, V(v))
      PROVE  Finished'
  <2> SUFFICES ASSUME finalized'
               PROVE  /\ f # 0
                      /\ \A p \in VregPlaces' : ~Known(alias', V(Opnd(funcs'[f], p).x))
    BY <1>5, Zenon DEF Finished
  <2>1. finalized
    BY <1>5, Zenon
  <2>2. f # 0 /\ \A p \in VregPlaces : ~Known(alias, V(Opnd(funcs[f], p).x))
    BY <2>1, Zenon DEF Finished
  <2>3. funcs' = funcs /\ VregPlaces' = VregPlaces
    BY <1>5, <2>2 DEF VregPlaces
  <2> QED
    BY <1>5, <2>2, <2>3
<1>6. CASE SetInsert
  <2>1. finalized' = finalized /\ f' = f /\ funcs' = funcs /\ alias' = alias
    BY <1>6, Zenon DEF SetInsert, f
  <2> QED
    BY <1>5, <2>1, Zenon
<1>7. CASE Placeholder
  <2>1. finalized' = finalized /\ f' = f /\ funcs' = funcs
    BY <1>7, PlaceholderIs, Zenon
  <2>2. \A v : Known(alias', V(v)) <=> Known(alias, V(v))
    BY <1>7, PlaceholderIs
  <2> QED
    BY <1>5, <2>1, <2>2, Zenon
<1>8. CASE UNCHANGED vars
  <2>1. finalized' = finalized /\ f' = f /\ funcs' = funcs /\ alias' = alias
    BY <1>8, Zenon DEF vars, f
  <2> QED
    BY <1>5, <2>1, Zenon
<1>9. CASE Block
  <2> SUFFICES ASSUME finalized'
               PROVE  /\ f' # 0
                      /\ \A p \in VregPlaces' : ~Known(alias', V(Opnd(funcs'[f'], p).x))
    BY Zenon DEF Finished
  <2>1. /\ f' = f /\ alias' = alias /\ Places(funcs'[f]) = Places(funcs[f])
        /\ \A p \in Places(funcs[f]) : Opnd(funcs'[f], p) = Opnd(funcs[f], p)
    BY <1>9, BlockIs
  <2>2. finalized
    <3>1. finalized' = finalized
      BY <1>9, BlockIs, Zenon
    <3> QED
      BY <3>1, Zenon
  <2>3. f # 0 /\ \A p \in VregPlaces : ~Known(alias, V(Opnd(funcs[f], p).x))
    BY <2>2, Zenon DEF Finished
  <2>4. VregPlaces' = VregPlaces
    BY <2>1 DEF VregPlaces
  <2> QED
    BY <2>1, <2>3, <2>4 DEF VregPlaces
<1> QED
  BY <1>1, <1>2, <1>3, <1>4, <1>6, <1>7, <1>8, <1>9 DEF Next, Operation

(* ir_builder_finalize leaves no mention of a defined placeholder in the   *)
(* function it rewrites, wherever the function uses it and in whatever     *)
(* order it was defined, as long as a function has no more placeholders    *)
(* than resolve_vreg follows aliases.                                      *)
THEOREM NoneIsMentioned == Spec /\ []FewPlaceholders => []FinalizedMentionsNone
<1>1. Init => Finished
  <2>1. Init => ~finalized
    BY Zenon DEF Init
  <2> QED
    BY <2>1, Zenon DEF Finished
<1>2. Chains /\ IInv /\ FewPlaceholders /\ Finished /\ [Next]_vars => Finished'
  BY FinishedKept
<1>3. Finished => FinalizedMentionsNone
  <2> SUFFICES ASSUME Finished, finalized, NEW o \in Operands(f), o.kind = "vreg"
               PROVE  ~Known(alias, V(o.x))
    BY Zenon DEF FinalizedMentionsNone
  <2>1. \A p \in VregPlaces : ~Known(alias, V(Opnd(funcs[f], p).x))
    BY Zenon DEF Finished
  <2> QED
    BY <2>1 DEF Operands, VregPlaces, Opnd
<1> QED
  BY <1>1, <1>2, <1>3, BuilderInvariance, NoChainIsACycle, PTL DEF Spec

-----------------------------------------------------------------------------
(* The value an operand stands for, when t is the table of immediates; the *)
(* uses of a function are the values of its operands.                      *)
ValueIn(o, t) ==
  CASE o.kind = "vreg" -> V(o.x)
    [] o.kind = "imm"  -> IntOf(o.x)
    [] o.kind = "fp"   -> [is |-> "fp", n |-> FpGet(t, o.x)]
    [] o.kind = "none" -> Null

LEMMA UsesAre ==
  ASSUME NEW g
  PROVE  /\ UsesOf(g) = [p \in Places(funcs[g]) |-> ValueIn(Opnd(funcs[g], p), fp)]
         /\ UsesOf(g)' = [p \in Places(funcs'[g]) |-> ValueIn(Opnd(funcs'[g], p), fp')]
BY DEF UsesOf, Opnd, ValueAt, ValueIn

LEMMA ValueStays ==
  ASSUME NEW o, NEW t, NEW u, o.kind = "fp" => FpGet(t, o.x) = FpGet(u, o.x)
  PROVE  ValueIn(o, t) = ValueIn(o, u)
<1> DEFINE new == FpGet(t, o.x)
           old == FpGet(u, o.x)
<1> HIDE DEF new, old
<1>1. CASE o.kind = "fp"
  <2>1. new = old
    BY <1>1 DEF new, old
  <2> QED
    BY <1>1, <2>1 DEF ValueIn, new, old
<1>2. CASE o.kind # "fp"
  BY <1>2 DEF ValueIn
<1> QED
  BY <1>1, <1>2

LEMMA UsesStay ==
  ASSUME NEW g, Places(funcs'[g]) = Places(funcs[g]),
         \A p \in Places(funcs[g]) : Opnd(funcs'[g], p) = Opnd(funcs[g], p),
         \A p \in Places(funcs[g]) : Opnd(funcs[g], p).kind = "fp" =>
           FpGet(fp', Opnd(funcs[g], p).x) = FpGet(fp, Opnd(funcs[g], p).x)
  PROVE  UsesOf(g)' = UsesOf(g)
<1>1. \A p \in Places(funcs[g]) : ValueIn(Opnd(funcs'[g], p), fp') = ValueIn(Opnd(funcs[g], p), fp)
  BY ValueStays
<1> QED
  BY <1>1, UsesAre

(* Finalizing what is finalized replaces every operand by itself.          *)
LEMMA NothingToReplace ==
  ASSUME Chains, IInv, FewPlaceholders, f # 0,
         \A p \in VregPlaces : ~Known(alias, V(Opnd(funcs[f], p).x))
  PROVE  /\ \A p \in Places(funcs[f]) : Replaced[p] = Opnd(funcs[f], p)
         /\ Len(FpDs) = 0
<1>1. PICK S, E : AreChains(S, E)
  BY DEF Chains
<1>2. ASSUME NEW p \in VregPlaces
      PROVE  Resolved(p) = V(Opnd(funcs[f], p).x) /\ Opnd(funcs[f], p) \in Opds
             /\ p \in Places(funcs[f]) /\ Opnd(funcs[f], p).kind = "vreg"
  <2> DEFINE v == Opnd(funcs[f], p).x
  <2>1. p \in Places(funcs[f]) /\ Opnd(funcs[f], p).kind = "vreg"
    BY DEF VregPlaces
  <2>2. v \in Taken(next_vreg) /\ Resolved(p) = ResolveVreg(v) /\ ~Known(alias, V(v))
    BY <2>1, ReplacedStands
  <2>3. Opnd(funcs[f], p) \in Opds
    BY <2>1, CurrentIs, PlacesAre
  <2> HIDE DEF v
  <2>4. v \in Numbers
    BY <2>2, NumbersAre
  <2>5. ResolveVreg(v) = V(v)
    BY <1>1, <2>2, <2>4, ResolveIs DEF AreChains
  <2> QED
    BY <2>1, <2>2, <2>3, <2>5 DEF v
<1>3. \A p \in Places(funcs[f]) : Replaced[p] = Opnd(funcs[f], p)
  <2> SUFFICES ASSUME NEW p \in Places(funcs[f]) PROVE Replaced[p] = Opnd(funcs[f], p)
    OBVIOUS
  <2>1. CASE p \notin VregPlaces
    BY <2>1, ReplacedStands
  <2>2. CASE p \in VregPlaces
    <3> DEFINE o == Opnd(funcs[f], p)
    <3>1. Replaced[p] = Operand(V(o.x), NthUse(p)) /\ o \in Opds /\ o.kind = "vreg"
      BY <1>2, <2>2, ReplacedStands
    <3> HIDE DEF o
    <3>2. Operand(V(o.x), NthUse(p)) = Vreg(o.x)
      BY DEF Operand, V
    <3>3. o = Vreg(o.x)
      BY <3>1 DEF Opds, Vreg
    <3> QED
      BY <3>1, <3>2, <3>3 DEF o
  <2> QED
    BY <2>1, <2>2
<1>4. FpUses = {}
  <2>1. \A p \in VregPlaces : Resolved(p).is # "fp"
    BY <1>2 DEF V
  <2> QED
    BY <2>1 DEF FpUses
<1>5. Len(FpDs) = 0
  BY <1>4, FS_EmptySet DEF FpDs
<1> QED
  BY <1>3, <1>5

LEMMA NothingAdded ==
  ASSUME NEW t, NEW ds, ds = <<>>, NEW i
  PROVE  FpGet(FpAdded(t, ds), i) = FpGet(t, i)
BY DEF FpGet, FpAdded

LEMMA FinalizedStays ==
  ASSUME Chains, IInv, FewPlaceholders, Finished, [Next]_vars, finalized, finalized',
         NEW g \in DOMAIN funcs
  PROVE  UsesOf(g)' = UsesOf(g)
<1>1. CASE Func
  <2>1. finalized' = FALSE
    BY <1>1, Zenon DEF Func
  <2> QED
    BY <2>1, Zenon
<1>2. CASE Define
  <2>1. finalized' = FALSE
    BY <1>2, DefineIs, Zenon
  <2> QED
    BY <2>1, Zenon
<1>3. CASE Operation
  <2>1. finalized' = FALSE
    BY <1>3, OperationIs, Zenon
  <2> QED
    BY <2>1, Zenon
<1>4. CASE Finalize
  <2>1. f # 0 /\ \A p \in VregPlaces : ~Known(alias, V(Opnd(funcs[f], p).x))
    BY Zenon DEF Finished
  <2>2. /\ \A p \in Places(funcs[f]) : Replaced[p] = Opnd(funcs[f], p)
        /\ FpDs = <<>>
    <3>1. Len(FpDs) = 0 /\ FpDs \in Seq(Fps)
      BY <2>1, NothingToReplace, FpDsAre
    <3> QED
      BY <2>1, <3>1, NothingToReplace
  <2>3. /\ fp' = FpAdded(fp, FpDs)
        /\ \A h \in 1..Len(funcs) : h # f => funcs'[h] = funcs[h]
        /\ Places(funcs'[f]) = Places(funcs[f])
        /\ \A p \in Places(funcs[f]) : Opnd(funcs'[f], p) = Replaced[p]
    BY <1>4, FinalizedIs
  <2>4. \A i : FpGet(fp', i) = FpGet(fp, i)
    BY <2>2, <2>3, NothingAdded
  <2>5. g \in 1..Len(funcs)
    BY DEF IInv
  <2>6. /\ Places(funcs'[g]) = Places(funcs[g])
        /\ \A p \in Places(funcs[g]) : Opnd(funcs'[g], p) = Opnd(funcs[g], p)
    BY <2>2, <2>3, <2>5
  <2> QED
    BY <2>4, <2>6, UsesStay
<1>5. CASE Block
  <2>1. /\ fp' = fp
        /\ \A h \in 1..Len(funcs) : h # f => funcs'[h] = funcs[h]
        /\ Places(funcs'[f]) = Places(funcs[f])
        /\ \A p \in Places(funcs[f]) : Opnd(funcs'[f], p) = Opnd(funcs[f], p)
    BY <1>5, BlockIs
  <2>2. g \in 1..Len(funcs)
    BY DEF IInv
  <2> QED
    BY <2>1, <2>2, UsesStay
<1>6. ASSUME funcs' = funcs, fp' = fp PROVE UsesOf(g)' = UsesOf(g)
  BY <1>6, UsesAre
<1>7. CASE SetInsert
  BY <1>6, <1>7 DEF SetInsert
<1>8. CASE Placeholder
  BY <1>6, <1>8, PlaceholderIs
<1>9. CASE UNCHANGED vars
  BY <1>6, <1>9 DEF vars
<1> QED
  BY <1>1, <1>2, <1>3, <1>4, <1>5, <1>7, <1>8, <1>9 DEF Next, Operation

(* "Safe to call multiple times; idempotent" (include/ir_builder.h:42): a  *)
(* function that is finalized is not changed by finalizing it again, nor   *)
(* by blocks, insertion points and placeholders in between.                *)
THEOREM FinalizationIsIdempotent == Spec /\ []FewPlaceholders => FinalizeIsIdempotent
<1>1. Init => Finished
  <2>1. Init => ~finalized
    BY Zenon DEF Init
  <2> QED
    BY <2>1, Zenon DEF Finished
<1>2. Chains /\ IInv /\ FewPlaceholders /\ Finished /\ [Next]_vars => Finished'
  BY FinishedKept
<1>3. ASSUME Chains, IInv, FewPlaceholders, Finished, [Next]_vars
      PROVE  [finalized /\ finalized' => \A g \in DOMAIN funcs : UsesOf(g)' = UsesOf(g)]_vars
  BY <1>3, FinalizedStays, Zenon
<1> QED
  BY <1>1, <1>2, <1>3, BuilderInvariance, NoChainIsACycle, PTL DEF Spec, FinalizeIsIdempotent

-----------------------------------------------------------------------------
(* The table of immediates.  While it is not full nothing in it is lost.   *)
FpFits == fp.n <= FpMax

LEMMA MaxOfOne ==
  ASSUME NEW k \in Int
  PROVE  Max({k}) = k
<1>1. \E x \in {k} : \A y \in {k} : x >= y
  OBVIOUS
<1>2. Max({k}) \in {k}
  BY <1>1, Zenon DEF Max
<1> QED
  BY <1>2

LEMMA TableKeeps ==
  ASSUME fp.n \in Nat, NEW ds \in Seq(Fps), fp.n + Len(ds) <= FpMax
  PROVE  /\ \A i \in 0..fp.n-1 : FpGet(FpAdded(fp, ds), i) = FpGet(fp, i)
         /\ \A k \in 1..Len(ds) : FpGet(FpAdded(fp, ds), FpIndex(fp, k)) = ds[k]
<1> DEFINE n == fp.n
           K(i) == {k \in DOMAIN ds : FpIndex(fp, k) = i}
           at(i) == IF K(i) = {} THEN fp.at[i] ELSE ds[Max(K(i))]
<1>1. FpMax \in Nat \ {0} /\ Len(ds) \in Nat /\ DOMAIN ds = 1..Len(ds)
  BY IRAssumption
<1>2. \A k \in 1..Len(ds) : FpIndex(fp, k) = n + k - 1
  <2> SUFFICES ASSUME NEW k \in 1..Len(ds) PROVE FpIndex(fp, k) = n + k - 1
    OBVIOUS
  <2>1. FpIndex(fp, k) = IF n + k - 1 <= FpMax - 1 THEN n + k - 1 ELSE FpMax - 1
    BY <1>1, MinOfTwo DEF FpIndex
  <2> QED
    BY <1>1, <2>1
<1>3. \A i \in 0..FpMax-1 : FpGet(FpAdded(fp, ds), i) = at(i)
  BY DEF FpGet, FpAdded
<1>4. ASSUME NEW i \in 0..n-1 PROVE FpGet(FpAdded(fp, ds), i) = FpGet(fp, i)
  <2>1. i \in 0..FpMax-1
    BY <1>1
  <2>2. K(i) = {}
    BY <1>1, <1>2
  <2>3. FpGet(fp, i) = fp.at[i]
    BY <2>1 DEF FpGet
  <2> QED
    BY <1>3, <2>1, <2>2, <2>3
<1>5. ASSUME NEW k \in 1..Len(ds) PROVE FpGet(FpAdded(fp, ds), FpIndex(fp, k)) = ds[k]
  <2> DEFINE i == FpIndex(fp, k)
  <2>1. i = n + k - 1 /\ i \in 0..FpMax-1
    BY <1>1, <1>2
  <2>2. K(i) = {k}
    BY <1>1, <1>2, <2>1
  <2>3. Max(K(i)) = k
    BY <2>2, MaxOfOne
  <2> QED
    BY <1>3, <2>1, <2>2, <2>3
<1> QED
  BY <1>4, <1>5

(* An int of the machine holds the constants of the client.                *)
ConstantsFit == \A n \in Ints \cup {Bytes} : AsInt(n) = n

LEMMA OldValue ==
  ASSUME fp.n \in Nat, NEW ds \in Seq(Fps), fp.n + Len(ds) <= FpMax,
         NEW o \in Opds, NEW m, Sound(o, m, Top(fp.n))
  PROVE  ValueIn(o, FpAdded(fp, ds)) = ValueIn(o, fp)
<1>1. o.kind = "fp" => o.x \in 0..fp.n-1
  <2>1. Top(fp.n) = fp.n
    <3>1. FpMax \in Nat /\ Len(ds) \in Nat
      BY IRAssumption
    <3> QED
      BY <3>1, MinOfTwo DEF Top
  <2> QED
    BY <2>1 DEF Sound
<1>2. o.kind = "fp" => FpGet(FpAdded(fp, ds), o.x) = FpGet(fp, o.x)
  BY <1>1, TableKeeps
<1> QED
  BY <1>2, ValueStays

LEMMA NewValue ==
  ASSUME ConstantsFit,
         fp.n \in Nat, NEW ds \in Seq(Fps), fp.n + Len(ds) <= FpMax,
         NEW m \in Nat, NEW x \in Val(m), NEW k,
         x.is = "fp" => k \in 1..Len(ds) /\ ds[k] = x.n
  PROVE  ValueIn(Operand(x, k), FpAdded(fp, ds)) = x
<1>1. CASE x.is = "vreg"
  <2>1. x = V(x.n) /\ Operand(x, k) = Vreg(x.n)
    BY <1>1 DEF Val, V, Null, Operand
  <2> QED
    BY <2>1 DEF ValueIn, Vreg
<1>2. CASE x.is = "int"
  <2>1. x = IntOf(x.n) /\ x.n \in Ints \cup {Bytes} /\ Operand(x, k) = Imm(AsInt(x.n))
    BY <1>2 DEF Val, V, Null, IntOf, Operand
  <2>2. AsInt(x.n) = x.n
    BY <2>1 DEF ConstantsFit
  <2> QED
    BY <2>1, <2>2 DEF ValueIn, Imm
<1>3. CASE x.is = "fp"
  <2>1. x = [is |-> "fp", n |-> x.n] /\ Operand(x, k) = FpRef(FpIndex(fp, k))
    BY <1>3 DEF Val, V, Null, Operand
  <2>2. FpGet(FpAdded(fp, ds), FpIndex(fp, k)) = x.n
    BY <1>3, TableKeeps
  <2> DEFINE i == FpIndex(fp, k)
             t == FpAdded(fp, ds)
  <2>3. FpGet(t, i) = x.n /\ Operand(x, k) = FpRef(i)
    BY <2>1, <2>2
  <2> HIDE DEF i, t
  <2>4. ValueIn(FpRef(i), t) = [is |-> "fp", n |-> FpGet(t, i)]
    BY DEF ValueIn, FpRef
  <2> QED
    BY <2>1, <2>3, <2>4 DEF t
<1>4. CASE x.is = "null"
  <2>1. x = Null /\ Operand(x, k) = None
    BY <1>4 DEF Val, V, Null, Operand
  <2> QED
    BY <2>1 DEF ValueIn, None
<1> QED
  BY <1>1, <1>2, <1>3, <1>4 DEF Val, V, Null

-----------------------------------------------------------------------------
(* The builder implements Substitution.  What its state means there:       *)
AllUses == [g \in DOMAIN funcs |-> UsesOf(g)]
Meaning == [v \in Numbers |-> IF v \in DOMAIN alias /\ alias[v] # Unknown THEN alias[v]
                              ELSE [is |-> "undefined", n |-> 0]]

LEMMA AllUsesAre ==
  ASSUME IInv
  PROVE  /\ Len(AllUses) = f /\ DOMAIN AllUses = 1..f /\ f \in Nat
         /\ AllUses \in Seq({UsesOf(g) : g \in 1..f})
         /\ \A g \in 1..f : AllUses[g] = UsesOf(g)
<1>1. DOMAIN funcs = 1..f /\ f \in Nat
  BY CurrentIs DEF IInv
<1> DEFINE X == {UsesOf(g) : g \in 1..f}
<1>2. AllUses \in [1..f -> X] /\ \A g \in 1..f : AllUses[g] = UsesOf(g)
  BY <1>1 DEF AllUses
<1> HIDE DEF X
<1>3. AllUses \in Seq(X) /\ Len(AllUses) = f
  BY <1>1, <1>2
<1> QED
  BY <1>1, <1>2, <1>3 DEF X

LEMMA AppendIs ==
  ASSUME NEW X, NEW s \in Seq(X), NEW e \in X, NEW new,
         new = [g \in 1..Len(s)+1 |-> IF g = Len(s)+1 THEN e ELSE s[g]]
  PROVE  new = Append(s, e)
<1>1. Append(s, e) \in Seq(X) /\ Len(Append(s, e)) = Len(s) + 1 /\ Len(s) \in Nat
  OBVIOUS
<1>2. \A g \in 1..Len(s)+1 : Append(s, e)[g] = IF g = Len(s)+1 THEN e ELSE s[g]
  OBVIOUS
<1>3. Append(s, e) = [g \in 1..Len(s)+1 |-> Append(s, e)[g]]
  <2> DEFINE a == Append(s, e)
  <2>1. a \in Seq(X) /\ Len(a) = Len(s) + 1
    BY <1>1
  <2> HIDE DEF a
  <2>2. a \in [1..Len(a) -> X]
    BY <2>1
  <2>3. a = [g \in 1..Len(s)+1 |-> a[g]]
    BY <2>1, <2>2
  <2> QED
    BY <2>3 DEF a
<1> QED
  BY <1>2, <1>3

LEMMA NothingMeantYet ==
  ASSUME Init
  PROVE  Meant!Init
<1>1. AllUses = <<>>
  BY DEF AllUses, Init
<1>2. Meaning = [v \in Numbers |-> Meant!Undefined]
  BY DEF Meaning, Init, Aliases, Meant!Undefined
<1> QED
  BY <1>1, <1>2 DEF Meant!Init, AllUses, Meaning

LEMMA FuncIs ==
  ASSUME IInv, Func
  PROVE  /\ funcs' = Append(funcs, <<>>) /\ fp' = fp
         /\ Len(funcs') = Len(funcs) + 1
         /\ \A g \in 1..Len(funcs) : funcs'[g] = funcs[g]
         /\ funcs'[Len(funcs) + 1] = <<>>
         /\ \A v \in DOMAIN alias' : alias'[v] = Unknown
<1>1. funcs' = Append(funcs, <<>>) /\ fp' = fp /\ \A v \in DOMAIN alias' : alias'[v] = Unknown
  BY DEF Func
<1> QED
  BY <1>1 DEF IInv

LEMMA FuncBegins ==
  ASSUME IInv, IInv', Func
  PROVE  Meant!Begin
<1> PICK n \in Nat : n = f
  BY CurrentIs
<1>1. /\ Len(funcs) = n /\ n \in Nat /\ f' = n + 1 /\ fp' = fp
      /\ \A g \in 1..n : funcs'[g] = funcs[g]
      /\ funcs'[n + 1] = <<>>
  <2>1. Len(funcs) = f /\ f \in Nat
    BY CurrentIs
  <2>2. f' = Len(funcs')
    BY DEF IInv, Pointers, f
  <2> QED
    BY <2>1, <2>2, FuncIs
<1>2. \A g \in 1..n : UsesOf(g)' = UsesOf(g)
  <2> SUFFICES ASSUME NEW g \in 1..n PROVE UsesOf(g)' = UsesOf(g)
    OBVIOUS
  <2> QED
    BY <1>1, UsesAre
<1>3. UsesOf(n + 1)' = <<>>
  <2> DEFINE U == UsesOf(n + 1)'
  <2>1. Places(<<>>) = {}
    BY DEF Places
  <2>2. U = [p \in Places(funcs'[n + 1]) |-> ValueIn(Opnd(funcs'[n + 1], p), fp')]
    BY UsesAre
  <2>3. Places(funcs'[n + 1]) = {}
    BY <1>1, <2>1
  <2> HIDE DEF U
  <2>4. U = <<>>
    BY <2>2, <2>3
  <2> QED
    BY <2>4 DEF U
<1>4. AllUses' = Append(AllUses, <<>>)
  <2> DEFINE X == {UsesOf(g) : g \in 1..n} \cup {<<>>}
             new == AllUses'
  <2>1. DOMAIN funcs' = 1..n+1
    <3>1. funcs' \in Seq(Code)
      BY DEF IInv
    <3> QED
      BY <1>1, <3>1, FuncIs
  <2>2. DOMAIN new = 1..n+1 /\ \A g \in 1..n+1 : new[g] = IF g = n+1 THEN <<>> ELSE AllUses[g]
    <3>1. new = [g \in 1..n+1 |-> UsesOf(g)']
      BY <2>1 DEF AllUses
    <3>2. \A g \in 1..n : AllUses[g] = UsesOf(g)
      BY AllUsesAre
    <3> QED
      BY <1>2, <1>3, <3>1, <3>2
  <2>3. AllUses \in Seq(X) /\ Len(AllUses) = n /\ <<>> \in X
    BY AllUsesAre
  <2> DEFINE e == <<>>
  <2>4. new = [g \in 1..Len(AllUses)+1 |-> IF g = Len(AllUses)+1 THEN e ELSE AllUses[g]]
    <3>1. new = [g \in 1..n+1 |-> new[g]]
      BY <2>1 DEF AllUses
    <3> HIDE DEF new, e
    <3>2. \A g \in 1..n+1 : new[g] = IF g = n+1 THEN e ELSE AllUses[g]
      BY <2>2 DEF e
    <3> QED
      BY <2>3, <3>1, <3>2
  <2>5. AllUses \in Seq(X) /\ e \in X
    BY <2>3
  <2> HIDE DEF new, X, e
  <2>6. new = Append(AllUses, e)
    BY <2>4, <2>5, AppendIs
  <2> QED
    BY <2>6 DEF new, e
<1>5. Meaning' = [v \in Numbers |-> Meant!Undefined]
  BY FuncIs DEF Meaning, Meant!Undefined
<1> QED
  BY <1>4, <1>5 DEF Meant!Begin, AllUses, Meaning

(* A constant that is stored is one of the client's.                       *)
Stored == FpFits => \A i \in 0..fp.n-1 : FpGet(fp, i) \in Fps

LEMMA OperandIsWorth ==
  ASSUME ConstantsFit, IInv, Stored, FpFits, NEW g \in 1..Len(funcs), NEW p \in Places(funcs[g])
  PROVE  ValueIn(Opnd(funcs[g], p), fp) \in Worth
<1> DEFINE o == Opnd(funcs[g], p)
<1>1. o \in Opds
  BY CurrentIs, PlacesAre
<1>2. o.kind = "vreg" => o.x \in Numbers
  <2>1. Sound(o, IF g = f THEN next_vreg ELSE ParamBase, Top(fp.n))
    BY DEF IInv, OperandsAreSound
  <2>2. next_vreg \in 0..ParamBase /\ ParamBase \in Nat
    BY CurrentIs DEF IInv
  <2> HIDE DEF o
  <2> QED
    BY <2>1, <2>2, TakenIs DEF Sound, Numbers
<1>3. o.kind = "fp" => o.x \in 0..fp.n-1
  <2>1. Sound(o, IF g = f THEN next_vreg ELSE ParamBase, Top(fp.n))
    BY DEF IInv, OperandsAreSound
  <2>2. Top(fp.n) = fp.n
    BY IRAssumption, MinOfTwo DEF Top, FpFits, IInv
  <2> HIDE DEF o
  <2> QED
    BY <2>1, <2>2 DEF Sound
<1>4. o.kind = "imm" => o.x \in Ints \cup {Bytes}
  <2> HIDE DEF o
  <2> QED
    BY <1>1 DEF Opds, ConstantsFit
<1> SUFFICES ValueIn(o, fp) \in Worth
  OBVIOUS
<1> HIDE DEF o
<1>5. CASE o.kind = "vreg"
  BY <1>2, <1>5 DEF ValueIn, Worth
<1>6. CASE o.kind = "fp"
  <2>1. FpGet(fp, o.x) \in Fps
    BY <1>3, <1>6 DEF Stored
  <2> DEFINE d == FpGet(fp, o.x)
  <2>2. d \in Fps /\ ValueIn(o, fp) = [is |-> "fp", n |-> d]
    BY <1>6, <2>1 DEF ValueIn
  <2> HIDE DEF d
  <2> QED
    BY <2>2 DEF Worth, Constants
<1>7. CASE o.kind = "imm"
  BY <1>4, <1>7 DEF ValueIn, Worth, Constants, IntOf
<1>8. CASE o.kind = "none"
  BY <1>8 DEF ValueIn, Worth
<1> QED
  BY <1>1, <1>5, <1>6, <1>7, <1>8 DEF Opds

(* How every step changes the table. *)
LEMMA FpSteps ==
  ASSUME IInv, [Next]_vars
  PROVE  fp' = fp \/ \E ds \in Seq(Fps) : fp' = FpAdded(fp, ds)
<1>1. CASE Operation
  <2>1. PICK instrs \in Seq(Instruction), args \in Seq(Val(next_vreg)), n \in {0, 1} :
          Emit(instrs, args, n)
    BY <1>1, OperationIs
  <2>2. fp' = FpAdded(fp, FpsOf(args)) /\ next_vreg \in Nat
    BY <2>1, EmitIs DEF IInv
  <2> QED
    BY <2>2, FpCounts
<1>2. CASE Finalize
  <2>1. f # 0 /\ fp' = FpAdded(fp, FpDs)
    BY <1>2, FinalizedIs, CurrentIs
  <2> QED
    BY <2>1, FpDsAre
<1>3. CASE Func
  BY <1>3 DEF Func
<1>4. CASE Block
  BY <1>4 DEF Block
<1>5. CASE SetInsert
  BY <1>5 DEF SetInsert
<1>6. CASE Placeholder
  BY <1>6 DEF Placeholder
<1>7. CASE Define
  BY <1>7 DEF Define
<1>8. CASE UNCHANGED vars
  BY <1>8 DEF vars
<1> QED
  BY <1>1, <1>2, <1>3, <1>4, <1>5, <1>6, <1>7, <1>8 DEF Next, Operation

LEMMA StoredKept ==
  ASSUME IInv, Stored, [Next]_vars
  PROVE  Stored'
<1>1. CASE fp' = fp
  BY <1>1 DEF Stored, FpFits
<1>2. ASSUME NEW ds \in Seq(Fps), fp' = FpAdded(fp, ds) PROVE Stored'
  <2> SUFFICES ASSUME fp'.n <= FpMax, NEW i \in 0..fp'.n-1 PROVE FpGet(fp', i) \in Fps
    BY DEF Stored, FpFits
  <2>1. fp'.n = fp.n + Len(ds) /\ Len(ds) \in Nat /\ fp.n \in Nat /\ FpMax \in Nat \ {0}
    BY <1>2, IRAssumption DEF FpAdded, IInv
  <2>2. CASE i \in 0..fp.n-1
    <3>1. FpGet(fp', i) = FpGet(fp, i)
      BY <1>2, <2>1, <2>2, TableKeeps
    <3> QED
      BY <2>1, <2>2, <3>1 DEF Stored, FpFits
  <2>3. CASE i \notin 0..fp.n-1
    <3> DEFINE k == i - fp.n + 1
    <3>1. k \in 1..Len(ds)
      BY <2>1, <2>3
    <3>2. FpIndex(fp, k) = i
      <4>1. FpIndex(fp, k) = IF fp.n + k - 1 <= FpMax - 1 THEN fp.n + k - 1 ELSE FpMax - 1
        <5>1. k \in Nat /\ fp.n \in Nat /\ FpMax \in Nat
          BY <2>1, <3>1
        <5> HIDE DEF k
        <5> QED
          BY <5>1, MinOfTwo DEF FpIndex
      <4> QED
        BY <2>1, <3>1, <4>1
    <3>3. FpGet(FpAdded(fp, ds), FpIndex(fp, k)) = ds[k]
      <4> HIDE DEF k
      <4> QED
        BY <2>1, <3>1, TableKeeps
    <3>4. ds[k] \in Fps
      BY <3>1
    <3> QED
      BY <1>2, <3>2, <3>3, <3>4
  <2> QED
    BY <2>2, <2>3
<1> QED
  BY <1>1, <1>2, FpSteps

(* A step that changes the uses of the current function only.              *)
LEMMA OneFunctionChanges ==
  ASSUME IInv, Len(funcs') = Len(funcs), funcs' \in Seq(Code), NEW n \in Nat, n = f, n # 0,
         \A g \in 1..Len(funcs) : g # n => UsesOf(g)' = UsesOf(g)
  PROVE  /\ AllUses # <<>> /\ Len(AllUses) = n
         /\ AllUses[n] = UsesOf(n) /\ AllUses'[n] = UsesOf(n)'
         /\ AllUses' = [AllUses EXCEPT ![n] = AllUses'[n]]
<1>1. /\ Len(AllUses) = n /\ DOMAIN AllUses = 1..n /\ n \in 1..n
      /\ AllUses \in Seq({UsesOf(g) : g \in 1..f})
      /\ \A g \in 1..n : AllUses[g] = UsesOf(g)
  BY AllUsesAre
<1>2. DOMAIN funcs' = 1..n
  BY CurrentIs
<1>3. AllUses' = [g \in 1..n |-> UsesOf(g)']
  BY <1>2 DEF AllUses
<1>4. AllUses = [g \in 1..n |-> AllUses[g]]
  BY <1>1 DEF AllUses
<1> DEFINE old == AllUses
           new == AllUses'
<1>5. \A g \in 1..n : g # n => new[g] = old[g]
  BY <1>1, <1>3, CurrentIs
<1>6. new = [g \in 1..n |-> new[g]]
  BY <1>3
<1>7. new[n] = UsesOf(n)'
  BY <1>1, <1>3
<1>8. AllUses # <<>>
  BY <1>1
<1> HIDE DEF old, new
<1>9. old = [g \in 1..n |-> old[g]]
  BY <1>4 DEF old
<1>10. new = [old EXCEPT ![n] = new[n]]
  BY <1>5, <1>6, <1>9
<1> QED
  BY <1>1, <1>7, <1>8, <1>10 DEF old, new

LEMMA OperationGives ==
  ASSUME ConstantsFit, IInv, IInv', Stored, FpFits', Operation
  PROVE  Meant!Give
<1> PICK n \in Nat : n = f
  BY CurrentIs
<1>1. /\ f \in 1..Len(funcs) /\ f' = f /\ UNCHANGED alias
  BY OperationIs
<1>2. PICK instrs \in Seq(Instruction), args \in Seq(Val(next_vreg)), k \in {0, 1} :
        Emit(instrs, args, k) /\ Meaningful(instrs, args, k)
  BY OperationIs
<1> DEFINE b == cur_block[2]
           ds == FpsOf(args)
           m == next_vreg + k
           code == funcs[n]
           new == Extended(code, b, instrs)
<1>3. /\ b \in 1..Len(code) /\ Len(funcs') = Len(funcs) /\ funcs' \in Seq(Code)
      /\ funcs'[n] = new /\ code \in Code
      /\ \A g \in 1..Len(funcs) : g # n => funcs'[g] = funcs[g]
      /\ fp' = FpAdded(fp, ds) /\ fp'.n = fp.n + Len(ds) /\ Len(ds) \in Nat
      /\ m \in 0..ParamBase
  BY <1>2, EmitIs, CurrentIs
<1>4. ds \in Seq(Fps) /\ fp.n \in Nat /\ fp.n + Len(ds) <= FpMax /\ m \in Nat /\ FpFits
      /\ ParamBase \in Nat
  <2>1. next_vreg \in Nat /\ k \in Nat
    BY DEF IInv
  <2>2. fp'.n <= FpMax
    BY DEF FpFits
  <2>3. FpMax \in Nat /\ fp.n \in Nat
    BY IRAssumption DEF IInv
  <2> QED
    BY <1>3, <2>1, <2>2, <2>3, FpCounts, CurrentIs DEF FpFits
<1>5. /\ \A p \in Places(code) : p \in Places(new) /\ Opnd(new, p) = Opnd(code, p)
      /\ \A p \in Places(new) :
           \/ p \in Places(code)
           \/ \E i \in 1..Len(instrs) : \E a \in 1..Len(instrs[i].args) :
                Opnd(new, p) = instrs[i].args[a]
  BY <1>3, ExtendedPlaces
<1>6. ASSUME NEW i \in 1..Len(instrs), NEW a \in 1..Len(instrs[i].args)
      PROVE  ValueIn(instrs[i].args[a], fp') \in Worth
  <2>1. PICK x \in Val(m) : StandsFor(instrs[i].args[a], x, args)
    BY <1>2 DEF Meaningful
  <2>2. PICK j \in Int : /\ instrs[i].args[a] = Operand(x, j)
                         /\ x.is = "fp" => j \in 1..Len(ds) /\ ds[j] = x.n
    BY <2>1 DEF StandsFor
  <2> HIDE DEF ds, m
  <2>3. ValueIn(Operand(x, j), FpAdded(fp, ds)) = x
    BY <1>4, <2>2, NewValue
  <2>4. x \in Worth
    <3>1. m \in Nat /\ ParamBase \in Nat /\ m <= ParamBase
      BY <1>3, <1>4
    <3>2. Taken(m) \subseteq Numbers
      BY <3>1, TakenIs DEF Numbers
    <3> QED
      BY <3>2 DEF Val, Worth, Constants, IntOf
  <2> QED
    BY <1>3, <2>2, <2>3, <2>4
<1> HIDE DEF ds, m, new, b
<1>7. ASSUME NEW g \in 1..Len(funcs), NEW p \in Places(funcs[g])
      PROVE  /\ ValueIn(Opnd(funcs[g], p), fp') = ValueIn(Opnd(funcs[g], p), fp)
             /\ ValueIn(Opnd(funcs[g], p), fp) \in Worth
  <2>1. Opnd(funcs[g], p) \in Opds
    BY CurrentIs, PlacesAre
  <2>2. Sound(Opnd(funcs[g], p), IF g = f THEN next_vreg ELSE ParamBase, Top(fp.n))
    BY DEF IInv, OperandsAreSound
  <2>3. ValueIn(Opnd(funcs[g], p), FpAdded(fp, ds)) = ValueIn(Opnd(funcs[g], p), fp)
    BY <1>4, <2>1, <2>2, OldValue
  <2>4. ValueIn(Opnd(funcs[g], p), fp) \in Worth
    BY <1>4, OperandIsWorth
  <2> QED
    BY <1>3, <2>3, <2>4
<1>8. ASSUME NEW g \in 1..Len(funcs), g # n PROVE UsesOf(g)' = UsesOf(g)
  <2>1. funcs'[g] = funcs[g]
    BY <1>3, <1>8
  <2>2. \A p \in Places(funcs[g]) : ValueIn(Opnd(funcs[g], p), fp') = ValueIn(Opnd(funcs[g], p), fp)
    BY <1>7
  <2> QED
    BY <2>1, <2>2, UsesAre
<1>9. /\ AllUses # <<>> /\ Len(AllUses) = n
      /\ AllUses[n] = UsesOf(n) /\ AllUses'[n] = UsesOf(n)'
      /\ AllUses' = [AllUses EXCEPT ![n] = AllUses'[n]]
  BY <1>1, <1>3, <1>8, OneFunctionChanges
<1>10. /\ AllUses[n] = [p \in Places(code) |-> ValueIn(Opnd(code, p), fp)]
       /\ AllUses'[n] = [p \in Places(new) |-> ValueIn(Opnd(new, p), fp')]
  BY <1>3, <1>9, UsesAre
<1>11. \A p \in Places(code) : p \in Places(new) /\ AllUses'[n][p] = AllUses[n][p] /\ AllUses[n][p] \in Worth
  <2> SUFFICES ASSUME NEW p \in Places(code)
               PROVE  p \in Places(new) /\ AllUses'[n][p] = AllUses[n][p] /\ AllUses[n][p] \in Worth
    OBVIOUS
  <2>1. p \in Places(new) /\ Opnd(new, p) = Opnd(code, p)
    BY <1>5
  <2>2. /\ ValueIn(Opnd(code, p), fp') = ValueIn(Opnd(code, p), fp)
        /\ ValueIn(Opnd(code, p), fp) \in Worth
    BY <1>1, <1>7
  <2>3. AllUses[n][p] = ValueIn(Opnd(code, p), fp) /\ AllUses'[n][p] = ValueIn(Opnd(new, p), fp')
    BY <1>10, <2>1
  <2> QED
    BY <2>1, <2>2, <2>3
<1>12. \A p \in Places(new) : AllUses'[n][p] \in Worth
  <2> SUFFICES ASSUME NEW p \in Places(new) PROVE AllUses'[n][p] \in Worth
    OBVIOUS
  <2>1. CASE p \in Places(code)
    BY <1>11, <2>1
  <2>2. CASE p \notin Places(code)
    <3>1. ValueIn(Opnd(new, p), fp') \in Worth
      BY <1>5, <1>6, <2>2
    <3>2. AllUses'[n][p] = ValueIn(Opnd(new, p), fp')
      BY <1>10
    <3> QED
      BY <3>1, <3>2
  <2> QED
    BY <2>1, <2>2
<1>13. /\ DOMAIN AllUses[n] \subseteq DOMAIN AllUses'[n]
       /\ \A p \in DOMAIN AllUses'[n] :
            AllUses'[n][p] \in Worth /\ (p \in DOMAIN AllUses[n] => AllUses'[n][p] = AllUses[n][p])
  BY <1>10, <1>11, <1>12
<1>14. /\ AllUses # <<>> /\ Meaning' = Meaning
       /\ LET h   == Len(AllUses)
              old == AllUses[h]
              now == AllUses'[h]
          IN  /\ DOMAIN old \subseteq DOMAIN now
              /\ \A p \in DOMAIN now : now[p] \in Worth /\ (p \in DOMAIN old => now[p] = old[p])
              /\ AllUses' = [AllUses EXCEPT ![h] = now]
  <2>1. Meaning' = Meaning
    BY <1>1 DEF Meaning
  <2> QED
    BY <1>9, <1>13, <2>1
<1> QED
  BY <1>14 DEF Meant!Give, AllUses, Meaning, Worth

LEMMA DefineDefines ==
  ASSUME Chains, IInv, Define
  PROVE  Meant!Define
<1>1. PICK S, E : AreChains(S, E)
  BY DEF Chains
<1>2. UNCHANGED <<funcs, fp>>
  BY DefineIs
<1>3. PICK p \in Pending, x \in Definable :
        /\ ~Known(alias, V(p)) /\ \A k \in 0..MaxPlaceholders : ChainOf(alias, x)[k] # V(p)
        /\ \A v : Known(alias', V(v)) <=> v = p \/ Known(alias, V(v))
        /\ \A v : Known(alias', V(v)) => alias'[v] = IF v = p THEN x ELSE alias[v]
  BY DefineIs
<1>4. p \in Numbers /\ x \in Worth
  BY PendingIs, KnownIs
<1>5. AllUses' = AllUses
  BY <1>2 DEF AllUses, UsesOf, ValueAt
<1>6. /\ \A v : Known(alias, V(v)) <=> v \in DOMAIN alias /\ alias[v] # Unknown
      /\ \A v : Known(alias', V(v)) <=> v \in DOMAIN alias' /\ alias'[v] # Unknown
  BY DEF Known, V
<1>7. Meaning[p] = Meant!Undefined
  BY <1>3, <1>4, <1>6 DEF Meaning, Meant!Undefined
<1>8. Meant!Final(Meaning, x) # Meant!Stands(p)
  <2>1. Meant!Final(Meaning, x) = EndOf(E, x)
    <3> DEFINE m == Meaning
    <3>1. m = [v \in Numbers |-> IF v \in DOMAIN alias /\ alias[v] # Unknown THEN alias[v]
                                 ELSE [is |-> "undefined", n |-> 0]]
      BY DEF Meaning
    <3> HIDE DEF m
    <3>2. Meant!Final(m, x) = EndOf(E, x)
      BY <1>1, <1>4, <3>1, FinalIs
    <3> QED
      BY <3>2 DEF m
  <2>2. ChainOf(alias, x)[MaxPlaceholders] = EndOf(E, x)
    BY <1>1, <1>4, ChainOfEnds
  <2>3. MaxPlaceholders \in 0..MaxPlaceholders
    BY BuilderAssumption
  <2>4. Meant!Stands(p) = V(p)
    BY DEF Meant!Stands, V
  <2> QED
    BY <1>3, <2>1, <2>2, <2>3, <2>4
<1>9. Meaning' = [Meaning EXCEPT ![p] = x]
  BY <1>3, <1>4, <1>6 DEF Meaning
<1>10. /\ AllUses' = AllUses
       /\ \E q \in Numbers, y \in Worth :
            /\ Meaning[q] = Meant!Undefined
            /\ Meant!Final(Meaning, y) # Meant!Stands(q)
            /\ Meaning' = [Meaning EXCEPT ![q] = y]
  BY <1>4, <1>5, <1>7, <1>8, <1>9
<1> QED
  BY <1>10 DEF Meant!Define, AllUses, Meaning, Worth

LEMMA FinalizeRewrites ==
  ASSUME ConstantsFit, Chains, IInv, IInv', Stored, FewPlaceholders, FpFits', Finalize
  PROVE  Meant!Rewrite
<1> PICK n \in Nat : n = f
  BY CurrentIs
<1>1. PICK S, E : AreChains(S, E)
  BY DEF Chains
<1> DEFINE code == funcs[n]
           new == funcs'[n]
<1>2. /\ n \in 1..Len(funcs) /\ n # 0 /\ code \in Code
      /\ fp' = FpAdded(fp, FpDs) /\ UNCHANGED alias
      /\ Len(funcs') = Len(funcs) /\ funcs' \in Seq(Code)
      /\ \A g \in 1..Len(funcs) : g # n => funcs'[g] = funcs[g]
      /\ Places(new) = Places(code)
      /\ \A p \in Places(code) : Opnd(new, p) = Replaced[p]
  BY FinalizedIs, CurrentIs
<1>3. FpDs \in Seq(Fps) /\ fp.n \in Nat /\ fp.n + Len(FpDs) <= FpMax /\ FpFits
  <2>1. FpDs \in Seq(Fps) /\ Len(FpDs) \in Nat
    BY <1>2, FpDsAre
  <2>2. fp'.n <= FpMax /\ fp'.n = fp.n + Len(FpDs)
    BY <1>2 DEF FpFits, FpAdded
  <2>3. FpMax \in Nat /\ fp.n \in Nat
    BY IRAssumption DEF IInv
  <2> QED
    BY <2>1, <2>2, <2>3 DEF FpFits
<1>4. ASSUME NEW g \in 1..Len(funcs), NEW p \in Places(funcs[g])
      PROVE  /\ ValueIn(Opnd(funcs[g], p), fp') = ValueIn(Opnd(funcs[g], p), fp)
             /\ ValueIn(Opnd(funcs[g], p), fp) \in Worth
  <2>1. Opnd(funcs[g], p) \in Opds
    BY CurrentIs, PlacesAre
  <2>2. Sound(Opnd(funcs[g], p), IF g = f THEN next_vreg ELSE ParamBase, Top(fp.n))
    BY DEF IInv, OperandsAreSound
  <2>3. ValueIn(Opnd(funcs[g], p), FpAdded(fp, FpDs)) = ValueIn(Opnd(funcs[g], p), fp)
    BY <1>3, <2>1, <2>2, OldValue
  <2>4. ValueIn(Opnd(funcs[g], p), fp) \in Worth
    BY <1>3, OperandIsWorth
  <2> QED
    BY <1>2, <2>3, <2>4
<1>5. ASSUME NEW g \in 1..Len(funcs), g # n PROVE UsesOf(g)' = UsesOf(g)
  <2>1. funcs'[g] = funcs[g]
    BY <1>2, <1>5
  <2>2. \A p \in Places(funcs[g]) : ValueIn(Opnd(funcs[g], p), fp') = ValueIn(Opnd(funcs[g], p), fp)
    BY <1>4
  <2> QED
    BY <2>1, <2>2, UsesAre
<1>6. /\ AllUses # <<>> /\ Len(AllUses) = n
      /\ AllUses[n] = UsesOf(n) /\ AllUses'[n] = UsesOf(n)'
      /\ AllUses' = [AllUses EXCEPT ![n] = AllUses'[n]]
  BY <1>2, <1>5, OneFunctionChanges
<1>7. /\ AllUses[n] = [p \in Places(code) |-> ValueIn(Opnd(code, p), fp)]
      /\ AllUses'[n] = [p \in Places(code) |-> ValueIn(Opnd(new, p), fp')]
  BY <1>2, <1>6, UsesAre
<1>8. ASSUME NEW y \in Worth PROVE Meant!Final(Meaning, y) = EndOf(E, y)
  <2> DEFINE m == Meaning
  <2>1. m = [v \in Numbers |-> IF v \in DOMAIN alias /\ alias[v] # Unknown THEN alias[v]
                               ELSE [is |-> "undefined", n |-> 0]]
    BY DEF Meaning
  <2> HIDE DEF m
  <2>2. Meant!Final(m, y) = EndOf(E, y)
    BY <1>1, <2>1, FinalIs
  <2> QED
    BY <2>2 DEF m
<1>9. ASSUME NEW p \in Places(code)
      PROVE  ValueIn(Opnd(new, p), fp') = Meant!Final(Meaning, ValueIn(Opnd(code, p), fp))
  <2> DEFINE o == Opnd(code, p)
  <2>1. /\ ValueIn(o, fp') = ValueIn(o, fp) /\ ValueIn(o, fp) \in Worth
        /\ Opnd(new, p) = Replaced[p] /\ o \in Opds
    BY <1>2, <1>4, PlacesAre
  <2>2. CASE p \notin VregPlaces
    <3>1. Replaced[p] = o /\ o.kind # "vreg"
      BY <1>2, <2>2, ReplacedStands
    <3>2. ValueIn(o, fp).is # "vreg"
      <4> HIDE DEF o
      <4> QED
        BY <2>1, <3>1 DEF ValueIn, Opds, IntOf, Null
    <3>3. Meant!Final(Meaning, ValueIn(o, fp)) = ValueIn(o, fp)
      BY <1>8, <2>1, <3>2 DEF EndOf
    <3> QED
      BY <2>1, <3>1, <3>3
  <2>3. CASE p \in VregPlaces
    <3> DEFINE v == o.x
               k == NthUse(p)
               r == Resolved(p)
    <3>1. /\ o.kind = "vreg" /\ v \in Taken(next_vreg)
          /\ r = ResolveVreg(v) /\ r \in Definable
          /\ Replaced[p] = Operand(r, k)
          /\ r.is = "fp" => k \in 1..Len(FpDs) /\ FpDs[k] = r.n
      BY <1>2, <2>3, ReplacedStands DEF VregPlaces
    <3> HIDE DEF v, k, r
    <3>2. r = E[v] /\ v \in Numbers
      <4>1. v \in Numbers
        BY <3>1, NumbersAre
      <4> QED
        BY <1>1, <3>1, <4>1, ResolveIs
    <3>3. ValueIn(o, fp) = V(v)
      BY <3>1 DEF ValueIn, v
    <3>4. Meant!Final(Meaning, V(v)) = r
      <4>1. V(v) \in Worth /\ EndOf(E, V(v)) = E[v]
        BY <3>2 DEF Worth, EndOf, V
      <4> QED
        BY <1>8, <3>2, <4>1
    <3>5. ValueIn(Operand(r, k), FpAdded(fp, FpDs)) = r
      <4>1. r \in Val(next_vreg) /\ next_vreg \in Nat
        BY <3>1 DEF Definable, Constants, Vregs, Val, IInv
      <4> DEFINE m == next_vreg
      <4>2. m \in Nat /\ r \in Val(m)
        BY <4>1
      <4> HIDE DEF m
      <4> QED
        BY <1>3, <3>1, <4>2, NewValue
    <3> QED
      BY <1>2, <2>1, <3>1, <3>3, <3>4, <3>5
  <2> QED
    BY <2>2, <2>3
<1>10. AllUses'[n] = [p \in DOMAIN AllUses[n] |-> Meant!Final(Meaning, AllUses[n][p])]
  BY <1>7, <1>9
<1>11. /\ AllUses # <<>> /\ Meaning' = Meaning
       /\ LET h == Len(AllUses) IN
            AllUses' = [AllUses EXCEPT ![h] = [i \in DOMAIN @ |-> Meant!Final(Meaning, @[i])]]
  <2>1. Meaning' = Meaning
    BY <1>2 DEF Meaning
  <2> QED
    BY <1>6, <1>10, <2>1
<1> QED
  BY <1>11 DEF Meant!Rewrite, AllUses, Meaning

LEMMA EveryStepIsMeant ==
  ASSUME ConstantsFit, Chains, IInv, IInv', Stored, FewPlaceholders, FpFits', [Next]_vars
  PROVE  Meant!Next \/ UNCHANGED <<AllUses, Meaning>>
<1>1. CASE Func
  BY <1>1, FuncBegins DEF Meant!Next
<1>2. CASE Define
  BY <1>2, DefineDefines DEF Meant!Next
<1>3. CASE Operation
  BY <1>3, OperationGives DEF Meant!Next
<1>4. CASE Finalize
  BY <1>4, FinalizeRewrites DEF Meant!Next
<1>5. CASE Block
  <2>1. /\ fp' = fp /\ alias' = alias /\ Len(funcs') = Len(funcs) /\ funcs' \in Seq(Code)
        /\ \A g \in 1..Len(funcs) : g # f => funcs'[g] = funcs[g]
        /\ Places(funcs'[f]) = Places(funcs[f])
        /\ \A p \in Places(funcs[f]) : Opnd(funcs'[f], p) = Opnd(funcs[f], p)
    BY <1>5, BlockIs
  <2>2. \A g \in 1..Len(funcs) : UsesOf(g)' = UsesOf(g)
    <3> SUFFICES ASSUME NEW g \in 1..Len(funcs) PROVE UsesOf(g)' = UsesOf(g)
      OBVIOUS
    <3> QED
      BY <2>1, UsesStay
  <2>3. DOMAIN funcs' = DOMAIN funcs /\ DOMAIN funcs = 1..Len(funcs)
    BY <2>1 DEF IInv
  <2> QED
    BY <2>1, <2>2, <2>3 DEF AllUses, Meaning
<1>6. ASSUME funcs' = funcs, fp' = fp,
             \A v : Known(alias', V(v)) <=> Known(alias, V(v)),
             \A v : Known(alias, V(v)) => alias'[v] = alias[v]
      PROVE  UNCHANGED <<AllUses, Meaning>>
  <2>1. AllUses' = AllUses
    BY <1>6 DEF AllUses, UsesOf, ValueAt
  <2>2. /\ \A v : Known(alias, V(v)) <=> v \in DOMAIN alias /\ alias[v] # Unknown
        /\ \A v : Known(alias', V(v)) <=> v \in DOMAIN alias' /\ alias'[v] # Unknown
    BY DEF Known, V
  <2>3. Meaning' = Meaning
    BY <1>6, <2>2 DEF Meaning
  <2> QED
    BY <2>1, <2>3
<1>7. CASE SetInsert
  BY <1>6, <1>7 DEF SetInsert
<1>8. CASE Placeholder
  BY <1>6, <1>8, PlaceholderIs
<1>9. CASE UNCHANGED vars
  BY <1>6, <1>9 DEF vars
<1> QED
  BY <1>1, <1>2, <1>3, <1>4, <1>5, <1>7, <1>8, <1>9 DEF Next, Operation

(* The builder implements Substitution, whatever its client does, as long  *)
(* as an int holds the client's constants (set_arg narrows them), the      *)
(* table of immediates is not full (ir_fpimm_add), and a function has no   *)
(* more placeholders than resolve_vreg follows aliases: a use is rewritten *)
(* once and to what its placeholder finally stands for, in the current     *)
(* function only, and no operand loses its constant.                       *)
THEOREM BuilderImplementsSubstitution ==
  ConstantsFit => (Spec /\ []FewPlaceholders /\ []FpFits => ImplementsSubstitution)
<1> SUFFICES ASSUME ConstantsFit
             PROVE  Spec /\ []FewPlaceholders /\ []FpFits => ImplementsSubstitution
  OBVIOUS
<1>1. Init => Stored
  BY DEF Init, EmptyFp, Stored
<1>2. IInv /\ Stored /\ [Next]_vars => Stored'
  BY StoredKept
<1>3. Init => Meant!Init
  BY NothingMeantYet
<1>4. Chains /\ IInv /\ IInv' /\ Stored /\ FewPlaceholders /\ FpFits' /\ [Next]_vars
        => Meant!Next \/ UNCHANGED <<AllUses, Meaning>>
  BY EveryStepIsMeant
<1> QED
  BY <1>1, <1>2, <1>3, <1>4, BuilderInvariance, NoChainIsACycle, PTL
     DEF Spec, ImplementsSubstitution, Meant!Spec, AllUses, Meaning
=============================================================================
