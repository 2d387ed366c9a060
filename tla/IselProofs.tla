------------------------------ MODULE IselProofs ------------------------------
(***************************************************************************)
(* Proofs about module Isel, for every instruction, every placement of its *)
(* operands and any number of arguments: what the selectors print computes *)
(* what the instruction means and leaves everything else alone.            *)
(***************************************************************************)
EXTENDS IselLemmas

-----------------------------------------------------------------------------
(* x86_64.                                                                 *)
LEMMA X64Regs ==
  ASSUME NEW t, t = "x86_64", NEW i
  PROVE  LET W == {"rax", "rcx", "rdx", "r10", "r11", "xmm0", "xmm1"}
         IN  /\ t \in Targets /\ W \subseteq Own(t)
             /\ \A r \in W : r \in Writable(t, i) /\ r \in AllRegs(t)
             /\ \A r, q \in W : r # q => Apart(t, r, R(q))
<1> DEFINE W == {"rax", "rcx", "rdx", "r10", "r11", "xmm0", "xmm1"}
<1>1. W \subseteq Own(t) /\ t \in Targets
  BY OwnAre DEF Targets
<1> HIDE DEF W
<1>2. \A r \in W : r \in Writable(t, i) /\ r \in AllRegs(t)
  BY <1>1, ScratchIs
<1>3. \A r, q \in W : r # q => Apart(t, r, R(q))
  BY <1>2, ApartIs
<1> QED
  BY <1>1, <1>2, <1>3 DEF W

LEMMA X64Integers ==
  ASSUME NEW t, t = "x86_64", NEW i, IsInstruction(t, i),
         i.op \in Alus \cup Divisions \cup Shifts \cup Negations \cup Widths \cup {"icmp"}
  PROVE  Compiled(t, i, X64!Code(i))
<1> DEFINE W == {"rax", "rcx", "rdx", "r10", "r11", "xmm0", "xmm1"}
<1>1. /\ t \in Targets /\ W \subseteq Own(t)
      /\ \A r \in W : r \in Writable(t, i) /\ r \in AllRegs(t)
      /\ \A r, q \in W : r # q => Apart(t, r, R(q))
  BY X64Regs
<1>2. CASE i.op \in Alus
  <2> DEFINE w == X64!Work(i)
  <2>1. i.dst # None
    BY <1>1, <1>2, MeansTwo DEF Pure
  <2>2. w \in Writable(t, i)
    BY <1>1, <2>1, X64Same, WorkIs DEF X64!Work
  <2>3. X64!Code(i) = Then(Then(LoadTo(i, 1, w), <<Set(R(w), i.op, <<R(w), Arg(i, 2)>>)>>), StoreFrom(i, w))
    BY <1>2, X64Code, X64Same DEF X64!Alu, Then
  <2> HIDE DEF w
  <2> QED
    BY <1>1, <1>2, <2>2, <2>3, BinaryForms
<1>3. CASE i.op \in Divisions
  <2> DEFINE c == <<Mov(Arg(i, 1), R("rax")), Mov(Arg(i, 2), R("rcx"))>>
             u == <<Set(R("rdx"), Remainder(i.op), <<R("rax"), R("rcx")>>),
                    Set(R("rax"), Quotient(i.op), <<R("rax"), R("rcx")>>)>>
             r == IF IsRem(i.op) THEN "rdx" ELSE "rax"
  <2>1. X64!Code(i) = Then(Then(c, u), StoreFrom(i, r))
    <3>1. X64!Code(i) = Then(<<Mov(Arg(i, 1), R("rax")), Mov(Arg(i, 2), R("rcx")),
                               Set(R("rdx"), Remainder(i.op), <<R("rax"), R("rcx")>>),
                               Set(R("rax"), Quotient(i.op), <<R("rax"), R("rcx")>>)>>, StoreFrom(i, r))
      BY <1>3, X64Code, X64Same DEF X64!Divide
    <3> HIDE DEF r
    <3> QED
      BY <3>1, Pairs
  <2>2. Has2(t, i, c, R("rax"), Meant(i.args[1]), R("rcx"), Meant(i.args[2]))
    BY <1>1, <1>3, Binaries, HasTwo
  <2>3. Pure(t, i) /\ "rdx" # "rax" /\ Apart(t, "rdx", R("rcx"))
    BY <1>1, <1>3, MeansTwo
  <2> HIDE DEF c
  <2> QED
    BY <1>1, <1>3, <2>1, <2>2, <2>3, InDivide
<1>4. CASE i.op \in Shifts
  <2>1. X64!Code(i) = Then(<<Mov(Arg(i, 1), R("r10")), Mov(Arg(i, 2), R("rcx")), Set(R("r10"), i.op, <<R("r10"), R("rcx")>>)>>,
                           StoreFrom(i, "r10"))
    BY <1>4, X64Code, X64Same DEF X64!Shift, X64!Through10
  <2>2. "rcx" # "r10"
    OBVIOUS
  <2> QED
    BY <1>1, <1>4, <2>1, <2>2, BinaryForms
<1>5. CASE i.op \in Negations
  <2>1. X64!Code(i) = Then(<<Mov(Arg(i, 1), R("r10")), Set(R("r10"), i.op, <<R("r10")>>)>>, StoreFrom(i, "r10"))
    BY <1>5, X64Code, X64Same DEF X64!Negate, X64!Through10
  <2> QED
    BY <1>1, <1>5, <2>1, Unaries, MeansOne, InOne
<1>6. CASE i.op \in Widths
  <2>1. X64!Code(i) = Then(<<Mov(Arg(i, 1), R("rax")), Set(R("rax"), LowByte(i.op), <<R("rax")>>)>>, StoreFrom(i, "rax"))
    BY <1>6, X64Code, X64Same DEF X64!Convert, X64!ThroughA
  <2> QED
    BY <1>1, <1>6, <2>1, Unaries, MeansOne, InOne
<1>7. CASE i.op = "icmp"
  <2>1. X64!Code(i) = Then(<<Mov(Arg(i, 1), R("r10")), Mov(Arg(i, 2), R("r11")), Set(R("rax"), i.op, <<R("r10"), R("r11")>>)>>,
                           StoreFrom(i, "rax"))
    BY <1>7, X64Code, X64Same DEF X64!Compare, X64!ThroughA
  <2>2. "r11" # "r10"
    OBVIOUS
  <2> QED
    BY <1>1, <1>7, <2>1, <2>2, BinaryForms
<1> QED
  BY <1>2, <1>3, <1>4, <1>5, <1>6, <1>7

LEMMA LastOfFour ==
  ASSUME NEW s, IsSeq(s), NEW a, NEW b, NEW c, NEW d
  PROVE  Then(s, <<a, b, c, d>>) = Then(Then(Then(s, <<a>>), <<b>>), <<c, d>>)
<1> DEFINE x == <<b, c, d>>
           y == <<c, d>>
<1>1. IsSeq(<<a>>) /\ IsSeq(<<b>>) /\ IsSeq(x) /\ IsSeq(y)
  BY LiteralIs
<1>2. x = Then(<<b>>, y) /\ <<a, b, c, d>> = Then(<<a>>, x)
  BY ByHead
<1> HIDE DEF x, y
<1>3. Then(s, Then(<<a>>, x)) = Then(Then(s, <<a>>), x) /\ IsSeq(Then(s, <<a>>))
  BY <1>1, Thens
<1>4. Then(Then(s, <<a>>), Then(<<b>>, y)) = Then(Then(Then(s, <<a>>), <<b>>), y)
  BY <1>1, <1>3, Thens
<1> QED
  BY <1>2, <1>3, <1>4 DEF y

LEMMA LastOfFive ==
  ASSUME NEW s, IsSeq(s), NEW a, NEW b, NEW c, NEW d, NEW e
  PROVE  Then(s, <<a, b, c, d, e>>) = Then(Then(Then(Then(s, <<a>>), <<b>>), <<c>>), <<d, e>>)
<1> DEFINE x == <<b, c, d, e>>
<1>1. IsSeq(<<a>>) /\ IsSeq(x)
  BY LiteralIs
<1>2. <<a, b, c, d, e>> = Then(<<a>>, x)
  BY ByHead
<1> HIDE DEF x
<1>3. Then(s, Then(<<a>>, x)) = Then(Then(s, <<a>>), x) /\ IsSeq(Then(s, <<a>>))
  BY <1>1, Thens
<1> DEFINE u == Then(s, <<a>>)
<1> HIDE DEF u
<1>4. Then(u, <<b, c, d, e>>) = Then(Then(Then(u, <<b>>), <<c>>), <<d, e>>)
  BY <1>3, LastOfFour DEF u
<1> QED
  BY <1>2, <1>3, <1>4 DEF x, u

LEMMA X64Brings ==
  ASSUME NEW t, t = "x86_64", NEW i, IsInstruction(t, i), NEW k \in 1..Len(i.args), FpOperand(i.args[k]),
         NEW f \in {"xmm0", "xmm1"}, NEW keep \in {"xmm0", "xmm1"} \ {f}
  PROVE  Brings(t, i, i.args[k], X64!FpLoad(i.args[k], f), f, keep)
<1> DEFINE o == i.args[k]
<1>1. /\ t \in Targets /\ f \in Writable(t, i) /\ "rax" \in Writable(t, i) \ {f} /\ keep \in AllRegs(t) \ {f, "rax"}
  BY X64Regs
<1>2. CASE o.kind = "fp"
  <2>1. Brings(t, i, o, <<Mov(<<"fp", o.n>>, R("rax")), Mov(R("rax"), R(f))>>, f, keep)
    BY <1>1, <1>2, BringsConst
  <2> QED
    BY <1>2, <2>1, X64Same DEF X64!FpLoad
<1>3. CASE IsMem(o)
  <2>1. Brings(t, i, o, <<Mov(Slot(o), R(f))>>, f, keep) /\ o.kind # "fp"
    BY <1>1, <1>3, BringsSlot DEF IsMem
  <2> QED
    BY <2>1, X64Same DEF X64!FpLoad
<1> QED
  BY <1>2, <1>3 DEF FpOperand

LEMMA X64Floating ==
  ASSUME NEW t, t = "x86_64", NEW i, IsInstruction(t, i),
         i.op \in Floats \cup FromInt \cup ToInt \cup FpToFp \cup {"fneg", "fcmp"}
  PROVE  Compiled(t, i, X64!Code(i))
<1> DEFINE W == {"rax", "rcx", "rdx", "r10", "r11", "xmm0", "xmm1"}
           x == X64!FpLoad(i.args[1], "xmm0")
           y == X64!FpLoad(i.args[2], "xmm1")
           A == Meant(i.args[1])
           B == Meant(i.args[2])
<1>1. /\ t \in Targets /\ \A r \in W : r \in Writable(t, i) /\ r \in AllRegs(t)
  BY X64Regs
<1>2. ToSlot(t, i) /\ 1 \in 1..Len(i.args)
  BY <1>1, FpMeans
<1>3. i.op \notin FromInt => Has(t, i, x, R("xmm0"), A)
  <2>1. ASSUME i.op \notin FromInt PROVE Brings(t, i, i.args[1], x, "xmm0", "xmm1")
    BY <1>1, <1>2, <2>1, FpMeans, X64Brings
  <2> HIDE DEF x
  <2> QED
    BY <1>1, <2>1, FpFirst
<1>4. i.op \in Floats \cup {"fcmp"} => Has2(t, i, Then(x, y), R("xmm0"), A, R("xmm1"), B)
  <2>1. ASSUME i.op \in Floats \cup {"fcmp"}
        PROVE  Brings(t, i, i.args[1], x, "xmm0", "xmm1") /\ Brings(t, i, i.args[2], y, "xmm1", "xmm0")
    <3>1. FpOperand(i.args[1]) /\ FpOperand(i.args[2]) /\ 2 \in 1..Len(i.args)
      BY <1>1, <2>1, FpMeans DEF Floats, FromInt
    <3> QED
      BY <1>2, <3>1, X64Brings
  <2> HIDE DEF x, y
  <2> QED
    BY <1>1, <2>1, FpSecond
<1> HIDE DEF x, y, A, B
<1>5. CASE i.op \in Floats
  <2>1. X64!Code(i) = Then(Then(x, y), <<Set(R("xmm0"), i.op, <<R("xmm0"), R("xmm1")>>), Mov(R("xmm0"), Slot(i.dst))>>)
    BY <1>5, X64Code, X64Same DEF X64!FpArith, Then, x, y
  <2>2. MeantResult(i) = Term(i.op, <<A, B>>)
    BY <1>1, <1>5, FpMeans DEF A, B
  <2> QED
    BY <1>1, <1>2, <1>4, <1>5, <2>1, <2>2, FpTwo
<1>6. CASE i.op = "fneg"
  <2> DEFINE z == Then(Then(x, <<Mov(Imm(0), R("rax"))>>), <<Mov(R("rax"), R("xmm1"))>>)
  <2>1. Has(t, i, x, R("xmm0"), A)
    BY <1>3, <1>6 DEF FromInt
  <2>2. X64!Code(i) = Then(z, <<Set(R("xmm0"), i.op, <<R("xmm0")>>), Mov(R("xmm0"), Slot(i.dst))>>)
    <3>1. X64!Code(i) = Then(x, <<Mov(Imm(0), R("rax")), Mov(R("rax"), R("xmm1")), Set(R("xmm0"), i.op, <<R("xmm0")>>),
                                  Mov(R("xmm0"), Slot(i.dst))>>)
      BY <1>6, X64Code, X64Same DEF X64!FpNegate, Then, x
    <3>2. IsSeq(x)
      BY <2>1, HasSeq
    <3> QED
      BY <3>1, <3>2, LastOfFour
  <2>3. Has(t, i, z, R("xmm0"), A)
    <3>1. Has(t, i, Then(x, <<Mov(Imm(0), R("rax"))>>), R("xmm0"), A)
      BY <1>1, <2>1, HasKeeps
    <3> QED
      BY <1>1, <3>1, HasKeeps
  <2> HIDE DEF z
  <2>4. MeantResult(i) = Term(i.op, <<A>>)
    BY <1>1, <1>6, FpMeans DEF A
  <2> QED
    BY <1>1, <1>2, <2>2, <2>3, <2>4, FpOne
<1>7. CASE i.op = "fcmp"
  <2>1. X64!Code(i) = Then(Then(Then(x, y), <<Set(R("rax"), i.op, <<Imm(i.n), R("xmm0"), R("xmm1")>>)>>), StoreFrom(i, "rax"))
    BY <1>7, X64Code, X64Same DEF X64!FpCompare, X64!ThroughA, Then, x, y
  <2>2. MeantResult(i) = Term(i.op, <<Imm(i.n), A, B>>)
    BY <1>1, <1>7, FpMeans DEF A, B
  <2> QED
    BY <1>1, <1>2, <1>4, <1>7, <2>1, <2>2, FpTest
<1>8. CASE i.op \in FromInt \cup ToInt \cup FpToFp
  <2> DEFINE to == IF i.op \in ToInt THEN "rax" ELSE "xmm0"
             from == IF i.op \in FromInt THEN "rax" ELSE "xmm0"
             z == IF i.op \in FromInt THEN <<Mov(Arg(i, 1), R("rax"))>> ELSE x
  <2>1. X64!Code(i) = Then(z, <<Set(R(to), i.op, <<R(from)>>), Mov(R(to), Slot(i.dst))>>)
    <3>1. X64!Code(i) = X64!FpConvert(i)
      BY <1>8, X64Code
    <3> QED
      BY <3>1, X64Same DEF X64!FpConvert, Then, x
  <2>2. Has(t, i, z, R(from), A)
    <3>1. i.op \in FromInt => i.args[1].kind # "fp"
      BY <1>1, <1>8, FpMeans DEF IsMem
    <3> QED
      BY <1>1, <1>2, <1>3, <3>1, HasOne DEF A
  <2>3. MeantResult(i) = Term(i.op, <<A>>)
    BY <1>1, <1>8, FpMeans DEF A
  <2>4. to \in Writable(t, i)
    BY <1>1
  <2> HIDE DEF z, to, from
  <2> QED
    BY <1>1, <1>2, <2>1, <2>2, <2>3, <2>4, FpOne
<1> QED
  BY <1>5, <1>6, <1>7, <1>8

LEMMA HasImm ==
  ASSUME NEW t \in Targets, NEW i, NEW r \in Writable(t, i)
  PROVE  Has(t, i, <<Mov(Imm(0), R(r))>>, R(r), Imm(0))
<1> DEFINE m0 == Entry(t, i)
           c == <<Mov(Imm(0), R(r))>>
<1>1. Reach(t, i, <<>>, m0) /\ m0.seen = <<>>
  BY ReachNone, EntryIs
<1>2. Reach(t, i, Then(<<>>, c), Put(m0, r, Val(t, m0, Imm(0))))
  BY <1>1, ReachMov
<1>3. Val(t, m0, Imm(0)) = Imm(0)
  BY ValImm
<1>4. Then(<<>>, c) = c
  BY OneCode, Thens
<1>5. Put(m0, r, Imm(0)).regs[r] = Imm(0) /\ Put(m0, r, Imm(0)).seen = <<>>
  BY <1>1, ReachPut
<1> HIDE DEF m0
<1> QED
  BY <1>2, <1>3, <1>4, <1>5, ValReg DEF Has

LEMMA NothingDone ==
  ASSUME NEW t \in Targets, NEW i, IsInstruction(t, i), i.op \in {"br", "va_end"}
  PROVE  Compiled(t, i, <<>>)
<1>1. Reach(t, i, <<>>, Entry(t, i)) /\ Entry(t, i).seen = <<>>
  BY ReachNone, EntryIs
<1>2. i.dst = None /\ MeantEffects(t, i) = <<>> /\ i.op # "call"
  BY EffectsMeant DEF Effects
<1> QED
  BY <1>1, <1>2, ReachEnd

LEMMA X64Others ==
  ASSUME NEW t, t = "x86_64", NEW i, IsInstruction(t, i), ~Wrong(t, i),
         i.op \in {"alloca", "str", "load", "gep_field", "phi", "gep", "va_start", "va_arg"} \cup Effects
  PROVE  Compiled(t, i, X64!Code(i))
<1> DEFINE W == {"rax", "rcx", "rdx", "r10", "r11", "xmm0", "xmm1"}
<1>1. /\ t \in Targets /\ \A r \in W : r \in Writable(t, i) /\ r \in AllRegs(t)
      /\ \A r, q \in W : r # q => Apart(t, r, R(q))
  BY X64Regs
<1>2. CASE i.op \in {"alloca", "str"}
  <2> DEFINE name == IF i.op = "alloca" THEN "object" ELSE "string"
  <2>1. X64!Code(i) = <<Set(R("rax"), name, <<>>), Mov(R("rax"), Dst(i))>>
    BY <1>2, X64Code, X64Same DEF X64!Alloca, X64!Str
  <2>2. MeantResult(i) = <<name>> /\ Pure(t, i) /\ name # "mov" /\ name # "mul"
    BY <1>1, <1>2, MeansNone
  <2> HIDE DEF name
  <2> QED
    BY <1>1, <2>1, <2>2, InNone
<1>3. CASE i.op = "load"
  <2>1. X64!Code(i) = Then(<<Mov(Arg(i, 1), R("rax")), Set(R("rax"), "load", <<R("rax")>>)>>, StoreFrom(i, "rax"))
    BY <1>3, X64Code, X64Same DEF X64!Load, X64!ThroughA
  <2> QED
    BY <1>1, <1>3, <2>1, Unaries, MeansOne, InOne
<1>4. CASE i.op = "gep_field"
  <2>1. X64!Code(i) = Then(<<Mov(Arg(i, 1), R("r10")), Set(R("r10"), "add", <<R("r10"), Imm(i.n)>>)>>, StoreFrom(i, "r10"))
    BY <1>4, X64Code, X64Same DEF X64!GepField, X64!Through10
  <2> QED
    BY <1>1, <1>4, <2>1, Unaries, MeansOne, InOne
<1>5. CASE i.op = "phi"
  <2>1. X64!Code(i) = <<Mov(Arg(i, 1), R("r10")), Mov(R("r10"), Dst(i))>>
    BY <1>5, X64Code, X64Same DEF X64!EdgeCopy
  <2> QED
    BY <1>1, <1>5, <2>1, Unaries, MeansOne, InOne
<1>6. CASE i.op = "gep"
  <2> DEFINE c == <<Mov(Arg(i, 1), R("r10")), Mov(Arg(i, 2), R("r11"))>>
             u == <<Set(R("r11"), "mul", <<R("r11"), Imm(i.n)>>), Set(R("r10"), "add", <<R("r10"), R("r11")>>)>>
  <2>1. X64!Code(i) = Then(Then(c, u), StoreFrom(i, "r10"))
    <3>1. i.n \notin {2, 4, 8}
      BY <1>6 DEF Wrong
    <3> QED
      BY <1>6, <3>1, X64Code, X64Same DEF X64!Gep, X64!Through10, Then
  <2>2. "r11" # "r10"
    OBVIOUS
  <2>3. Has2(t, i, c, R("r10"), Meant(i.args[1]), R("r11"), Meant(i.args[2]))
    BY <1>1, <1>6, <2>2, Binaries, HasTwo
  <2> HIDE DEF c
  <2> QED
    BY <1>1, <1>6, <2>1, <2>2, <2>3, InArray
<1>7. CASE i.op = "va_start"
  <2>1. X64!Code(i) = <<Set(R("rax"), "list", <<>>), Do("va_start", <<R("rax")>>), Set(R("rcx"), "save area", <<>>),
                        Mov(R("rax"), Dst(i))>>
    BY <1>7, X64Code, X64Same DEF X64!VaStart
  <2>2. "rcx" # "rax"
    OBVIOUS
  <2> DEFINE e == <<>>
  <2>3. \A b \in Writable(t, i) \ {"rax"} : \A name, from :
          Compiled(t, i, <<Set(R("rax"), "list", <<>>), Do("va_start", <<R("rax")>>), Set(R(b), name, from), Mov(R("rax"), Dst(i))>>)
    BY <1>1, <1>7, StartsList
  <2> QED
    BY <1>1, <2>1, <2>2, <2>3
<1>8. CASE i.op = "va_arg"
  <2> DEFINE c == Then(<<Mov(Arg(i, 1), R("rax"))>>, <<Set(R("rdx"), "area", <<R("rax")>>)>>)
  <2>1. X64!Code(i) = Then(Then(Then(c, <<Set(R("rbx"), "next", <<R("rax")>>)>>), <<Do("advance", <<R("rax")>>)>>),
                           <<Mov(R("rbx"), Dst(i))>>)
    <3>1. X64!Code(i) = <<Mov(Arg(i, 1), R("rax")), Set(R("rdx"), "area", <<R("rax")>>),
                          Set(R("rbx"), "next", <<R("rax")>>), Do("advance", <<R("rax")>>), Mov(R("rbx"), Dst(i))>>
      BY <1>8, X64Code, X64Same DEF X64!VaArg
    <3> QED
      BY <3>1, OneByOne
  <2>2. "rdx" # "rax" /\ "rbx" # "rax"
    OBVIOUS
  <2>3. Has(t, i, <<Mov(Arg(i, 1), R("rax"))>>, R("rax"), Meant(i.args[1]))
    BY <1>1, <1>8, Unaries, HasOne
  <2>4. Has(t, i, c, R("rax"), Meant(i.args[1]))
    BY <1>1, <2>2, <2>3, HasAfter
  <2>5. "rbx" \in Writable(t, i)
    <3>1. i.dst.reg = "rbx" /\ i.dst # None
      BY <1>1, <1>8, ListMeans DEF Wrong
    <3>2. i.dst \in Vregs(t)
      BY <1>8, <1>1, Shape DEF Results, Effects, Floats, FromInt, ToInt, FpToFp
    <3>3. InReg(i.dst)
      BY <3>1, <3>2 DEF Vregs, InReg, InMemory
    <3> QED
      BY <1>1, <3>1, <3>3, WorkIs, OwnAre
  <2> HIDE DEF c
  <2> QED
    BY <1>1, <1>8, <2>1, <2>2, <2>4, <2>5, TakesNext
<1>9. CASE i.op = "store"
  <2> DEFINE c == <<Mov(Arg(i, 1), R("rax")), Mov(Arg(i, 2), R("rcx"))>>
  <2>1. X64!Code(i) = Then(c, <<Do("store", <<R("rax"), R("rcx")>>)>>)
    <3>1. X64!Code(i) = <<Mov(Arg(i, 1), R("rax")), Mov(Arg(i, 2), R("rcx")), Do("store", <<R("rax"), R("rcx")>>)>>
      BY <1>9, X64Code, X64Same DEF X64!Store
    <3> QED
      BY <3>1, ByLast
  <2>2. "rcx" # "rax"
    OBVIOUS
  <2>3. Has2(t, i, c, R("rax"), Meant(i.args[1]), R("rcx"), Meant(i.args[2]))
    BY <1>1, <1>9, <2>2, Binaries, HasTwo
  <2>4. i.dst = None /\ MeantEffects(t, i) = <<Told("store", <<Meant(i.args[1]), Meant(i.args[2])>>)>>
    BY <1>1, <1>9, EffectsMeant DEF Effects
  <2> HIDE DEF c
  <2> QED
    BY <1>1, <1>9, <2>1, <2>3, <2>4, TellsTwo
<1>10. CASE i.op = "cbr" \/ (i.op = "ret" /\ i.args # <<>>)
  <2> DEFINE c == <<Mov(Arg(i, 1), R("rax"))>>
  <2>1. X64!Code(i) = Then(c, <<Do(i.op, <<R("rax")>>)>>)
    <3>1. X64!Code(i) = <<Mov(Arg(i, 1), R("rax")), Do(i.op, <<R("rax")>>)>>
      BY <1>10, X64Code, X64Same DEF X64!Cbr, X64!Ret
    <3> QED
      BY <3>1, ByLast
  <2>2. 1 \in 1..Len(i.args) /\ i.args[1].kind # "fp"
    BY <1>1, <1>10, EffectsMeant, Unaries
  <2>3. Has(t, i, c, R("rax"), Meant(i.args[1]))
    BY <1>1, <2>2, HasOne
  <2>4. i.dst = None /\ MeantEffects(t, i) = <<Told(i.op, <<Meant(i.args[1])>>)>>
    BY <1>1, <1>10, EffectsMeant DEF Effects
  <2> HIDE DEF c
  <2> QED
    BY <1>1, <1>10, <2>1, <2>3, <2>4, TellsOne
<1>11. CASE i.op = "ret" /\ i.args = <<>>
  <2> DEFINE c == <<Mov(Imm(0), R("rax"))>>
  <2>1. X64!Code(i) = Then(c, <<Do("ret", <<R("rax")>>)>>)
    <3>1. X64!Code(i) = <<Mov(Imm(0), R("rax")), Do("ret", <<R("rax")>>)>>
      BY <1>11, X64Code, X64Same DEF X64!Ret
    <3> QED
      BY <3>1, ByLast
  <2>2. Has(t, i, c, R("rax"), Imm(0))
    BY <1>1, HasImm
  <2>3. i.dst = None /\ MeantEffects(t, i) = <<Told("ret", <<Imm(0)>>)>>
    BY <1>1, <1>11, EffectsMeant DEF Effects
  <2> HIDE DEF c
  <2> QED
    BY <1>1, <1>11, <2>1, <2>2, <2>3, TellsOne
<1>12. CASE i.op \in {"br", "va_end"}
  <2>1. X64!Code(i) = <<>>
    BY <1>12, X64Code
  <2> QED
    BY <1>1, <1>12, <2>1, NothingDone
<1>13. i.op # "memcpy"
  BY DEF Wrong
<1> QED
  BY <1>2, <1>3, <1>4, <1>5, <1>6, <1>7, <1>8, <1>9, <1>10, <1>11, <1>12, <1>13 DEF Effects

-----------------------------------------------------------------------------
(* x86.                                                                    *)
LEMMA I86Regs ==
  ASSUME NEW t, t = "x86", NEW i
  PROVE  LET W == {"eax", "ecx", "edx", "xmm0", "xmm1", "xmm2"}
         IN  /\ t \in Targets /\ W \subseteq Own(t)
             /\ \A r \in W : r \in Writable(t, i) /\ r \in AllRegs(t)
             /\ \A r, q \in W : r # q => Apart(t, r, R(q))
<1> DEFINE W == {"eax", "ecx", "edx", "xmm0", "xmm1", "xmm2"}
<1>1. W \subseteq Own(t) /\ t \in Targets
  BY OwnAre DEF Targets
<1> HIDE DEF W
<1>2. \A r \in W : r \in Writable(t, i) /\ r \in AllRegs(t)
  BY <1>1, ScratchIs
<1>3. \A r, q \in W : r # q => Apart(t, r, R(q))
  BY <1>2, ApartIs
<1> QED
  BY <1>1, <1>2, <1>3 DEF W

LEMMA I86Integers ==
  ASSUME NEW t, t = "x86", NEW i, IsInstruction(t, i),
         i.op \in Alus \cup Divisions \cup Shifts \cup Negations \cup Widths \cup {"icmp"}
  PROVE  Compiled(t, i, I86!Code(i))
<1> DEFINE W == {"eax", "ecx", "edx", "xmm0", "xmm1", "xmm2"}
<1>1. /\ t \in Targets /\ W \subseteq Own(t)
      /\ \A r \in W : r \in Writable(t, i) /\ r \in AllRegs(t)
      /\ \A r, q \in W : r # q => Apart(t, r, R(q))
  BY I86Regs
<1>2. CASE i.op \in Alus
  <2> DEFINE w == I86!Work(i)
  <2>1. i.dst # None
    BY <1>1, <1>2, MeansTwo DEF Pure
  <2>2. w \in Writable(t, i)
    BY <1>1, <2>1, I86Same, WorkIs DEF I86!Work
  <2>3. I86!Code(i) = Then(Then(LoadTo(i, 1, w), <<Set(R(w), i.op, <<R(w), Arg(i, 2)>>)>>), StoreFrom(i, w))
    BY <1>2, I86Code, I86Same DEF I86!Alu, Then
  <2> HIDE DEF w
  <2> QED
    BY <1>1, <1>2, <2>2, <2>3, BinaryForms
<1>3. CASE i.op \in Divisions
  <2> DEFINE by == IF IsImm(i.args[2]) THEN R("ecx") ELSE Arg(i, 2)
             c == Then(LoadTo(i, 1, "eax"), Copy(Arg(i, 2), by))
             u == <<Set(R("edx"), Remainder(i.op), <<R("eax"), by>>),
                    Set(R("eax"), Quotient(i.op), <<R("eax"), by>>)>>
             r == IF IsRem(i.op) THEN "edx" ELSE "eax"
  <2>1. I86!Code(i) = Then(Then(c, u), StoreFrom(i, r))
    BY <1>3, I86Code, I86Same DEF I86!Divide, I86!LoadA, Then
  <2>2. by \in {Arg(i, 2), R("ecx")}
    OBVIOUS
  <2>3. Apart(t, "edx", by)
    BY <1>1, <1>3, Binaries, OperandApart
  <2> HIDE DEF by
  <2>4. Has2(t, i, c, R("eax"), Meant(i.args[1]), by, Meant(i.args[2]))
    <3>1. "eax" # "ecx"
      OBVIOUS
    <3> QED
      BY <1>1, <1>3, <2>2, <3>1, Binaries, SecondIs
  <2>5. Pure(t, i) /\ "edx" # "eax"
    BY <1>1, <1>3, MeansTwo
  <2> HIDE DEF c
  <2> QED
    BY <1>1, <1>3, <2>1, <2>3, <2>4, <2>5, InDivide
<1>4. CASE i.op \in Shifts
  <2>1. I86!Code(i) = Then(Then(Then(LoadTo(i, 1, "eax"), LoadTo(i, 2, "ecx")), <<Set(R("eax"), i.op, <<R("eax"), R("ecx")>>)>>),
                           StoreFrom(i, "eax"))
    BY <1>4, I86Code, I86Same DEF I86!Shift, I86!ThroughA, I86!LoadA, Then
  <2>2. "ecx" # "eax"
    OBVIOUS
  <2> QED
    BY <1>1, <1>4, <2>1, <2>2, BinaryForms
<1>5. CASE i.op \in Negations
  <2>1. I86!Code(i) = Then(Then(LoadTo(i, 1, "eax"), <<Set(R("eax"), i.op, <<R("eax")>>)>>), StoreFrom(i, "eax"))
    BY <1>5, I86Code, I86Same DEF I86!Negate, I86!ThroughA, I86!LoadA, Then
  <2> QED
    BY <1>1, <1>5, <2>1, Unaries, MeansOne, InOne
<1>6. CASE i.op \in Widths
  <2>1. I86!Code(i) = Then(Then(LoadTo(i, 1, "eax"), <<Set(R("eax"), LowByte(i.op), <<R("eax")>>)>>), StoreFrom(i, "eax"))
    BY <1>6, I86Code, I86Same DEF I86!Convert, I86!ThroughA, I86!LoadA, Then
  <2> QED
    BY <1>1, <1>6, <2>1, Unaries, MeansOne, InOne
<1>7. CASE i.op = "icmp"
  <2>1. I86!Code(i) = Then(Then(LoadTo(i, 1, "eax"), <<Set(R("eax"), i.op, <<R("eax"), Arg(i, 2)>>)>>), StoreFrom(i, "eax"))
    BY <1>7, I86Code, I86Same DEF I86!Compare, I86!ThroughA, I86!LoadA, Then
  <2> QED
    BY <1>1, <1>7, <2>1, BinaryForms
<1> QED
  BY <1>2, <1>3, <1>4, <1>5, <1>6, <1>7

LEMMA I86Brings ==
  ASSUME NEW t, t = "x86", NEW i, IsInstruction(t, i), NEW k \in 1..Len(i.args), FpOperand(i.args[k])
  PROVE  /\ Brings(t, i, i.args[k], I86!FpLoad(i.args[k], "xmm0", "xmm1"), "xmm0", "xmm2")
         /\ Brings(t, i, i.args[k], I86!FpLoad(i.args[k], "xmm1", "xmm2"), "xmm1", "xmm0")
<1> DEFINE o == i.args[k]
<1>0. /\ t \in Targets /\ \A r \in {"eax", "ecx", "edx", "xmm0", "xmm1", "xmm2"} : r \in Writable(t, i) /\ r \in AllRegs(t)
  BY I86Regs
<1>1. ASSUME NEW f \in {"xmm0", "xmm1", "xmm2"}, NEW g \in {"xmm0", "xmm1", "xmm2"} \ {f},
             NEW keep \in {"xmm0", "xmm1", "xmm2"} \ {f, g}
      PROVE  Brings(t, i, o, I86!FpLoad(o, f, g), f, keep)
  <2>1. /\ f \in Writable(t, i) /\ "eax" \in Writable(t, i) \ {f} /\ keep \in AllRegs(t) \ {f, "eax"} /\ keep \in AllRegs(t) \ {f}
        /\ "edx" \in Writable(t, i) \ {f, "eax", keep} /\ g \in Writable(t, i) \ {f, keep}
    BY <1>0
  <2>2. CASE o.kind = "fp"
    <3>1. Brings(t, i, o, <<Mov(<<"fp", o.n>>, R("eax")), Mov(<<"fp", o.n>>, R("edx")), Mov(R("eax"), R(f)), Mov(R("edx"), R(g))>>, f, keep)
      BY <1>0, <2>1, <2>2, BringsConst
    <3> QED
      BY <2>2, <3>1, I86Same DEF I86!FpLoad
  <2>3. CASE IsMem(o)
    <3>1. Brings(t, i, o, <<Mov(Slot(o), R(f))>>, f, keep) /\ o.kind # "fp"
      BY <1>0, <2>1, <2>3, BringsSlot DEF IsMem
    <3> QED
      BY <3>1, I86Same DEF I86!FpLoad
  <2> QED
    BY <2>2, <2>3 DEF FpOperand
<1> QED
  BY <1>1

LEMMA I86Floating ==
  ASSUME NEW t, t = "x86", NEW i, IsInstruction(t, i),
         i.op \in Floats \cup FromInt \cup ToInt \cup FpToFp \cup {"fneg", "fcmp"}
  PROVE  Compiled(t, i, I86!Code(i))
<1> DEFINE W == {"eax", "ecx", "edx", "xmm0", "xmm1", "xmm2"}
           x == I86!FpLoad(i.args[1], "xmm0", "xmm1")
           y == I86!FpLoad(i.args[2], "xmm1", "xmm2")
           A == Meant(i.args[1])
           B == Meant(i.args[2])
<1>1. /\ t \in Targets /\ \A r \in W : r \in Writable(t, i) /\ r \in AllRegs(t)
  BY I86Regs
<1>2. ToSlot(t, i) /\ 1 \in 1..Len(i.args)
  BY <1>1, FpMeans
<1>3. i.op \notin FromInt => Has(t, i, x, R("xmm0"), A)
  <2>1. ASSUME i.op \notin FromInt PROVE Brings(t, i, i.args[1], x, "xmm0", "xmm2")
    BY <1>1, <1>2, <2>1, FpMeans, I86Brings
  <2> HIDE DEF x
  <2> QED
    BY <1>1, <2>1, FpFirst
<1>4. i.op \in Floats \cup {"fcmp"} => Has2(t, i, Then(x, y), R("xmm0"), A, R("xmm1"), B)
  <2>1. ASSUME i.op \in Floats \cup {"fcmp"}
        PROVE  Brings(t, i, i.args[1], x, "xmm0", "xmm2") /\ Brings(t, i, i.args[2], y, "xmm1", "xmm0")
    <3>1. FpOperand(i.args[1]) /\ FpOperand(i.args[2]) /\ 2 \in 1..Len(i.args)
      BY <1>1, <2>1, FpMeans DEF Floats, FromInt
    <3> QED
      BY <1>2, <3>1, I86Brings
  <2> HIDE DEF x, y
  <2> QED
    BY <1>1, <2>1, FpSecond
<1> HIDE DEF x, y, A, B
<1>5. CASE i.op \in Floats
  <2>1. I86!Code(i) = Then(Then(x, y), <<Set(R("xmm0"), i.op, <<R("xmm0"), R("xmm1")>>), Mov(R("xmm0"), Slot(i.dst))>>)
    BY <1>5, I86Code, I86Same DEF I86!FpArith, I86!FpBoth, Then, x, y
  <2>2. MeantResult(i) = Term(i.op, <<A, B>>)
    BY <1>1, <1>5, FpMeans DEF A, B
  <2> QED
    BY <1>1, <1>2, <1>4, <1>5, <2>1, <2>2, FpTwo
<1>6. CASE i.op = "fneg"
  <2> DEFINE z == Then(Then(Then(x, <<Mov(Imm(0), R("eax"))>>), <<Mov(R("eax"), R("xmm1"))>>), <<Mov(R("eax"), R("xmm2"))>>)
  <2>1. Has(t, i, x, R("xmm0"), A)
    BY <1>3, <1>6 DEF FromInt
  <2>2. I86!Code(i) = Then(z, <<Set(R("xmm0"), i.op, <<R("xmm0")>>), Mov(R("xmm0"), Slot(i.dst))>>)
    <3>1. I86!Code(i) = Then(x, <<Mov(Imm(0), R("eax")), Mov(R("eax"), R("xmm1")), Mov(R("eax"), R("xmm2")),
                                  Set(R("xmm0"), i.op, <<R("xmm0")>>), Mov(R("xmm0"), Slot(i.dst))>>)
      BY <1>6, I86Code, I86Same DEF I86!FpNegate, Then, x
    <3>2. IsSeq(x)
      BY <2>1, HasSeq
    <3> QED
      BY <3>1, <3>2, LastOfFive
  <2>3. Has(t, i, z, R("xmm0"), A)
    <3>1. Has(t, i, Then(x, <<Mov(Imm(0), R("eax"))>>), R("xmm0"), A)
      BY <1>1, <2>1, HasKeeps
    <3>2. Has(t, i, Then(Then(x, <<Mov(Imm(0), R("eax"))>>), <<Mov(R("eax"), R("xmm1"))>>), R("xmm0"), A)
      BY <1>1, <3>1, HasKeeps
    <3> QED
      BY <1>1, <3>2, HasKeeps
  <2> HIDE DEF z
  <2>4. MeantResult(i) = Term(i.op, <<A>>)
    BY <1>1, <1>6, FpMeans DEF A
  <2> QED
    BY <1>1, <1>2, <2>2, <2>3, <2>4, FpOne
<1>7. CASE i.op = "fcmp"
  <2>1. I86!Code(i) = Then(Then(x, y), <<Set(R("eax"), i.op, <<Imm(i.n), R("xmm0"), R("xmm1")>>), Mov(R("eax"), Slot(i.dst))>>)
    BY <1>7, I86Code, I86Same DEF I86!FpCompare, I86!FpBoth, Then, x, y
  <2>2. MeantResult(i) = Term(i.op, <<Imm(i.n), A, B>>)
    BY <1>1, <1>7, FpMeans DEF A, B
  <2> QED
    BY <1>1, <1>2, <1>4, <1>7, <2>1, <2>2, FpTest
<1>8. CASE i.op \in FromInt \cup ToInt \cup FpToFp
  <2> DEFINE to == IF i.op \in ToInt THEN "eax" ELSE "xmm0"
             from == IF i.op \in FromInt THEN "eax" ELSE "xmm0"
             z == IF i.op \in FromInt THEN <<Mov(Arg(i, 1), R("eax"))>> ELSE x
  <2>1. I86!Code(i) = Then(z, <<Set(R(to), i.op, <<R(from)>>), Mov(R(to), Slot(i.dst))>>)
    <3>1. I86!Code(i) = I86!FpConvert(i)
      BY <1>8, I86Code
    <3>2. i.op \in FromInt => (IF IsImm(i.args[1]) THEN Arg(i, 1) ELSE Slot(i.args[1])) = Arg(i, 1)
      BY <1>1, <1>8, FpMeans DEF IsImm, IsMem, Arg, Place, InReg
    <3> QED
      BY <3>1, <3>2, I86Same DEF I86!FpConvert, Then, x
  <2>2. Has(t, i, z, R(from), A)
    <3>1. i.op \in FromInt => i.args[1].kind # "fp"
      BY <1>1, <1>8, FpMeans DEF IsMem
    <3> QED
      BY <1>1, <1>2, <1>3, <3>1, HasOne DEF A
  <2>3. MeantResult(i) = Term(i.op, <<A>>)
    BY <1>1, <1>8, FpMeans DEF A
  <2>4. to \in Writable(t, i)
    BY <1>1
  <2> HIDE DEF z, to, from
  <2> QED
    BY <1>1, <1>2, <2>1, <2>2, <2>3, <2>4, FpOne
<1> QED
  BY <1>5, <1>6, <1>7, <1>8

-----------------------------------------------------------------------------
(* Any place is written, the others keep what they have.                   *)
Places(t) == {<<"reg", r>> : r \in AllRegs(t)} \cup {<<"slot", v>> : v \in 0..(NSlots - 1)}

Writes(t, r, p, m, m2) ==
  /\ Runs(t, <<Mov(R(r), p)>>, m, m2) /\ Sane(t, m2)
  /\ m2.sp = m.sp /\ m2.seen = m.seen /\ m2.calls = m.calls
  /\ Val(t, m2, p) = m.regs[r] /\ \A q \in Places(t) : q # p => Val(t, m2, q) = Val(t, m, q)

LEMMA SlotsApart ==
  ASSUME NEW t \in Targets, NEW u \in 0..(NSlots - 1), NEW v \in 0..(NSlots - 1), u # v
  PROVE  SlotAt(t, Sp0(t), u) # SlotAt(t, Sp0(t), v)
<1>1. CASE FrameBased(t)
  BY <1>1, BoundsAssumption DEF SlotAt
<1>2. CASE ~FrameBased(t)
  BY <1>2, BoundsAssumption DEF SlotAt, Sp0
<1> QED
  BY <1>1, <1>2

LEMMA Written ==
  ASSUME NEW t \in Targets, NEW m, Sane(t, m), m.sp = Sp0(t), NEW r \in AllRegs(t), NEW p \in Places(t)
  PROVE  \E m2 : Writes(t, r, p, m, m2)
<1> DEFINE x == m.regs[r]
           c == Mov(R(r), p)
<1>1. Term(c.op, Vals(t, m, c.from)) = x /\ c.do = "set" /\ c.to = p
  <2>1. Val(t, m, R(r)) = x
    BY DEF Val, R
  <2>2. Term("mov", Vals(t, m, <<R(r)>>)) = x
    BY <2>1, OneVal, Moved
  <2> QED
    BY <2>2 DEF Mov, Set
<1>2. CASE \E q \in AllRegs(t) : p = <<"reg", q>>
  <2>1. PICK q \in AllRegs(t) : p = <<"reg", q>>
    BY <1>2
  <2> DEFINE m2 == Put(m, q, x)
  <2>2. /\ Sane(t, m2) /\ m2.regs[q] = x /\ \A s \in AllRegs(t) : s # q => m2.regs[s] = m.regs[s]
        /\ m2.mem = m.mem /\ m2.sp = m.sp /\ m2.seen = m.seen /\ m2.calls = m.calls
    BY PutIs
  <2>3. c.to[1] = "reg" /\ c.to[2] = q
    BY <1>1, <2>1
  <2> HIDE DEF c
  <2>4. m2 = Step(t, c, m)
    BY <1>1, <2>3 DEF Step, Put
  <2> HIDE DEF m2
  <2>5. Runs(t, <<c>>, m, m2)
    BY <2>2, <2>4, RunsOne
  <2>6. Val(t, m2, p) = x
    BY <2>1, <2>2 DEF Val
  <2>7. \A s \in Places(t) : s # p => Val(t, m2, s) = Val(t, m, s)
    <3>1. SUFFICES ASSUME NEW s \in Places(t), s # p PROVE Val(t, m2, s) = Val(t, m, s)
      OBVIOUS
    <3>2. CASE \E v \in 0..(NSlots - 1) : s = <<"slot", v>>
      BY <2>2, <3>2 DEF Val
    <3>3. CASE \E u \in AllRegs(t) : s = <<"reg", u>>
      BY <2>1, <2>2, <3>1, <3>3 DEF Val
    <3> QED
      BY <3>2, <3>3 DEF Places
  <2> QED
    BY <2>2, <2>5, <2>6, <2>7 DEF Writes, c
<1>3. CASE \E v \in 0..(NSlots - 1) : p = <<"slot", v>>
  <2>1. PICK v \in 0..(NSlots - 1) : p = <<"slot", v>>
    BY <1>3
  <2> DEFINE a == SlotAt(t, Sp0(t), v)
             m2 == PutWord(m, a, x)
  <2>2. a \in Words
    BY EntryIs
  <2>3. /\ Sane(t, m2) /\ m2.mem[a] = x /\ \A w \in Words : w # a => m2.mem[w] = m.mem[w]
        /\ m2.regs = m.regs /\ m2.sp = m.sp /\ m2.seen = m.seen /\ m2.calls = m.calls
    <3> HIDE DEF a, x
    <3> QED
      BY <2>2, WordPut
  <2>4. WordAt(t, m, c.to) = a /\ c.to[1] # "reg"
    BY <1>1, <2>1 DEF WordAt
  <2> HIDE DEF a, c
  <2>5. m2 = Step(t, c, m)
    BY <1>1, <2>4 DEF Step, PutWord
  <2> HIDE DEF m2
  <2>6. Runs(t, <<c>>, m, m2)
    BY <2>3, <2>5, RunsOne
  <2>7. Val(t, m2, p) = x
    BY <2>1, <2>3 DEF Val, a
  <2>8. \A s \in Places(t) : s # p => Val(t, m2, s) = Val(t, m, s)
    <3>1. SUFFICES ASSUME NEW s \in Places(t), s # p PROVE Val(t, m2, s) = Val(t, m, s)
      OBVIOUS
    <3>2. CASE \E u \in 0..(NSlots - 1) : s = <<"slot", u>>
      <4>1. PICK u \in 0..(NSlots - 1) : s = <<"slot", u>>
        BY <3>2
      <4>2. SlotAt(t, Sp0(t), u) # a /\ SlotAt(t, Sp0(t), u) \in Words
        <5>1. u # v
          BY <2>1, <3>1, <4>1
        <5> QED
          BY <5>1, SlotsApart, EntryIs DEF a
      <4>3. m2.mem[SlotAt(t, Sp0(t), u)] = m.mem[SlotAt(t, Sp0(t), u)]
        BY <2>3, <4>2
      <4> QED
        BY <2>3, <4>1, <4>3 DEF Val
    <3>3. CASE \E u \in AllRegs(t) : s = <<"reg", u>>
      BY <2>3, <3>3 DEF Val
    <3> QED
      BY <3>2, <3>3 DEF Places
  <2> QED
    BY <2>3, <2>6, <2>7, <2>8 DEF Writes, c
<1> QED
  BY <1>2, <1>3 DEF Places

(* Good, in terms of places.                                               *)
LEMMA SameIsGood ==
  ASSUME NEW t \in Targets, NEW i, NEW m, m.sp = Sp0(t), m.seen = MeantEffects(t, i), Val(t, m, Dst(i)) = MeantResult(i),
         \A p \in Places(t) : /\ p # Dst(i) /\ ~IsList(t, i, p) /\ (p[1] = "reg" => p[2] \in Pool(t))
                              => Val(t, m, p) = Val(t, Entry(t, i), p)
  PROVE  Good(t, i, m)
<1>1. ASSUME NEW r \in Pool(t), R(r) # Dst(i), ~IsList(t, i, R(r))
      PROVE  m.regs[r] = AtEntry(i, r)
  <2>1. R(r) \in Places(t) /\ R(r)[1] = "reg" /\ R(r)[2] = r
    BY DEF R, Places, AllRegs
  <2>2. Val(t, m, R(r)) = Val(t, Entry(t, i), R(r))
    BY <1>1, <2>1
  <2> QED
    BY <2>2, ValReg DEF Entry
<1>2. ASSUME NEW v \in 0..(NSlots - 1), <<"slot", v>> # Dst(i), ~IsList(t, i, <<"slot", v>>)
      PROVE  m.mem[SlotAt(t, Sp0(t), v)] = InFrame(t, i, SlotAt(t, Sp0(t), v))
  <2> DEFINE s == <<"slot", v>>
  <2>1. s \in Places(t) /\ s[1] = "slot" /\ s[2] = v
    BY DEF Places
  <2>2. Val(t, m, s) = Val(t, Entry(t, i), s)
    BY <1>2, <2>1
  <2>3. Val(t, m, s) = m.mem[SlotAt(t, m.sp, v)] /\ Val(t, Entry(t, i), s) = Entry(t, i).mem[SlotAt(t, Entry(t, i).sp, v)]
    BY <2>1 DEF Val
  <2> QED
    BY <2>2, <2>3, EntryIs DEF Entry
<1> QED
  BY <1>1, <1>2 DEF Good

LEMMA IntactIsSame ==
  ASSUME NEW t \in Targets, NEW i, i.op # "call", NEW m, Intact(t, i, m), m.sp = Sp0(t), NEW p \in Places(t),
         p # Dst(i), p[1] = "reg" => p[2] \in Pool(t)
  PROVE  Val(t, m, p) = Val(t, Entry(t, i), p)
<1>1. Intact(t, i, Entry(t, i)) /\ Entry(t, i).sp = Sp0(t)
  BY EntryIs
<1> DEFINE e == Entry(t, i)
<1> HIDE DEF e
<1>2. CASE \E r \in AllRegs(t) : p = <<"reg", r>>
  <2>1. PICK r \in AllRegs(t) : p = <<"reg", r>>
    BY <1>2
  <2>2. r \in Pool(t) \ Spoiled(t, i) /\ R(r) # Dst(i)
    BY <2>1 DEF Spoiled, R
  <2>3. m.regs[r] = AtEntry(i, r) /\ e.regs[r] = AtEntry(i, r)
    BY <1>1, <2>2 DEF Intact, e
  <2> QED
    BY <2>1, <2>3, ValReg DEF e
<1>3. CASE \E v \in 0..(NSlots - 1) : p = <<"slot", v>>
  <2>1. PICK v \in 0..(NSlots - 1) : p = <<"slot", v>>
    BY <1>3
  <2> DEFINE a == SlotAt(t, Sp0(t), v)
  <2>2. m.mem[a] = InFrame(t, i, a) /\ e.mem[a] = InFrame(t, i, a)
    BY <1>1, <2>1 DEF Intact, e
  <2>3. Val(t, m, p) = m.mem[a] /\ Val(t, e, p) = e.mem[a]
    BY <1>1, <2>1 DEF Val, e
  <2> QED
    BY <2>2, <2>3 DEF e
<1> QED
  BY <1>2, <1>3 DEF Places

(* Two places are written one after the other.                             *)
LEMMA WritesTwo ==
  ASSUME NEW t \in Targets, NEW i, i.op # "call", NEW c, NEW m, Reach(t, i, c, m), NEW r \in AllRegs(t), NEW p \in Places(t),
         NEW s \in AllRegs(t), R(s) # p, Dst(i) \in Places(t), m.regs[s] = MeantResult(i), m.seen = MeantEffects(t, i),
         IsList(t, i, p)
  PROVE  Compiled(t, i, Then(Then(c, <<Mov(R(r), p)>>), <<Mov(R(s), Dst(i))>>))
<1>1. Sane(t, m) /\ m.sp = Sp0(t) /\ Intact(t, i, m)
  BY DEF Reach, Intact
<1>2. PICK m2 : Writes(t, r, p, m, m2)
  BY <1>1, Written
<1>3. Sane(t, m2) /\ m2.sp = Sp0(t)
  BY <1>1, <1>2 DEF Writes
<1>4. PICK m3 : Writes(t, s, Dst(i), m2, m3)
  BY <1>3, Written
<1>5. Runs(t, Then(Then(c, <<Mov(R(r), p)>>), <<Mov(R(s), Dst(i))>>), Entry(t, i), m3)
  <2>1. Runs(t, c, Entry(t, i), m) /\ Runs(t, <<Mov(R(r), p)>>, m, m2) /\ Runs(t, <<Mov(R(s), Dst(i))>>, m2, m3)
    BY <1>2, <1>4 DEF Reach, Writes
  <2>2. Runs(t, c \o <<Mov(R(r), p)>>, Entry(t, i), m2)
    BY <2>1, RunsThen
  <2>3. Runs(t, (c \o <<Mov(R(r), p)>>) \o <<Mov(R(s), Dst(i))>>, Entry(t, i), m3)
    BY <2>1, <2>2, RunsThen
  <2> QED
    BY <2>3 DEF Then
<1>6. Val(t, m3, Dst(i)) = MeantResult(i)
  <2>1. R(s) \in Places(t)
    BY DEF R, Places
  <2>2. Val(t, m2, R(s)) = Val(t, m, R(s))
    BY <1>2, <2>1 DEF Writes
  <2> QED
    BY <1>4, <2>2, ValReg DEF Writes
<1>7. ASSUME NEW q \in Places(t), q # Dst(i), ~IsList(t, i, q), q[1] = "reg" => q[2] \in Pool(t)
      PROVE  Val(t, m3, q) = Val(t, Entry(t, i), q)
  <2>1. q # p
    BY <1>7
  <2>2. Val(t, m3, q) = Val(t, m, q)
    BY <1>2, <1>4, <1>7, <2>1 DEF Writes
  <2> QED
    BY <1>1, <1>7, <2>2, IntactIsSame
<1>8. m3.sp = Sp0(t) /\ m3.seen = MeantEffects(t, i)
  BY <1>1, <1>2, <1>4 DEF Writes
<1>9. Good(t, i, m3)
  BY <1>6, <1>7, <1>8, SameIsGood
<1> QED
  BY <1>5, <1>9 DEF Compiled

LEMMA I86TakesNext ==
  ASSUME NEW t, t = "x86", NEW i, IsInstruction(t, i), i.op = "va_arg"
  PROVE  Compiled(t, i, I86!Code(i))
<1>1. /\ t \in Targets /\ \A r \in {"eax", "ecx", "edx"} : r \in Writable(t, i) /\ r \in AllRegs(t) /\ r \notin Pool(t)
  BY I86Regs, ScratchIs
<1> DEFINE A == Meant(i.args[1])
           c == <<Mov(Arg(i, 1), R("eax"))>>
           c2 == Then(c, <<Set(R("edx"), "next", <<R("eax")>>)>>)
           c3 == Then(c2, <<Set(R("eax"), "advance", <<R("eax")>>)>>)
           p == Arg(i, 1)
<1>2. I86!Code(i) = Then(Then(c3, <<Mov(R("eax"), p)>>), <<Mov(R("edx"), Dst(i))>>)
  <2>1. I86!Code(i) = <<Mov(Arg(i, 1), R("eax")), Set(R("edx"), "next", <<R("eax")>>),
                        Set(R("eax"), "advance", <<R("eax")>>), Mov(R("eax"), Arg(i, 1)), Mov(R("edx"), Dst(i))>>
    BY I86Code, I86Same DEF I86!VaArg
  <2> QED
    BY <2>1, OneByOne
<1>3. Has(t, i, c, R("eax"), A)
  BY <1>1, Unaries, HasOne
<1>4. /\ i.dst # None /\ MeantResult(i) = Term("next", <<A>>) /\ MeantEffects(t, i) = <<>>
  BY <1>1, ListMeans
<1>5. p \in Places(t) /\ R("edx") # p
  <2>1. i.args[1] \in Vregs(t)
    <3>1. Operands(t, i.op) = Vregs(t)
      BY DEF Operands, Floats, ToInt, FpToFp, FromInt
    <3> QED
      BY <1>1, <3>1, Shape, Unaries
  <2>2. i.args[1].kind = "vreg" /\ i.args[1].n \in 0..(NSlots - 1) /\ i.args[1].reg \in Pool(t) \cup {InMemory}
    BY <2>1 DEF Vregs
  <2>3. CASE i.args[1].reg = InMemory
    <3>1. p = <<"slot", i.args[1].n>>
      BY <2>2, <2>3 DEF Arg, Place, InReg, IsMem, Slot
    <3> QED
      BY <2>2, <3>1 DEF Places, R
  <2>4. CASE i.args[1].reg # InMemory
    <3>1. p = <<"reg", i.args[1].reg>> /\ i.args[1].reg \in Pool(t)
      BY <2>2, <2>4 DEF Arg, Place, InReg, IsMem, R
    <3> QED
      BY <1>1, <3>1 DEF Places, R, AllRegs
  <2> QED
    BY <2>3, <2>4
<1>6. Dst(i) \in Places(t)
  BY <1>1, <1>4, ResultIs DEF Places, AllRegs
<1>7. IsList(t, i, p)
  BY DEF IsList
<1> HIDE DEF A, p
<1>8. PICK m : Reach(t, i, c, m) /\ Val(t, m, R("eax")) = A /\ m.seen = <<>>
  BY <1>3 DEF Has
<1> DEFINE x == Term("next", Vals(t, m, <<R("eax")>>))
           m2 == Put(m, "edx", x)
           y == Term("advance", Vals(t, m2, <<R("eax")>>))
           m3 == Put(m2, "eax", y)
<1>9. x = MeantResult(i)
  <2>1. Vals(t, m, <<R("eax")>>) = <<A>>
    BY <1>8, OneVal
  <2> QED
    BY <1>4, <2>1
<1> HIDE DEF c
<1>10. Reach(t, i, c2, m2) /\ m2.regs["edx"] = x /\ m2.seen = <<>>
  BY <1>1, <1>8, ReachSet, ReachPut
<1> HIDE DEF c2, m2, x
<1>11. Reach(t, i, c3, m3) /\ m3.regs["edx"] = x /\ m3.seen = <<>>
  <2>1. Reach(t, i, c3, m3)
    BY <1>1, <1>10, ReachSet
  <2> HIDE DEF y
  <2>2. m3.regs["edx"] = m2.regs["edx"] /\ m3.seen = m2.seen
    <3>1. "edx" # "eax"
      OBVIOUS
    <3> QED
      BY <1>1, <1>10, <3>1, ReachPut
  <2> QED
    BY <1>10, <2>1, <2>2
<1> HIDE DEF c3, m3
<1>12. m3.regs["edx"] = MeantResult(i) /\ m3.seen = MeantEffects(t, i) /\ i.op # "call"
  BY <1>4, <1>9, <1>11
<1>13. Compiled(t, i, Then(Then(c3, <<Mov(R("eax"), p)>>), <<Mov(R("edx"), Dst(i))>>))
  BY <1>1, <1>5, <1>6, <1>7, <1>11, <1>12, WritesTwo
<1> QED
  BY <1>2, <1>13

LEMMA I86Others ==
  ASSUME NEW t, t = "x86", NEW i, IsInstruction(t, i), ~Wrong(t, i),
         i.op \in {"alloca", "str", "load", "gep_field", "phi", "gep", "va_start", "va_arg"} \cup Effects
  PROVE  Compiled(t, i, I86!Code(i))
<1> DEFINE W == {"eax", "ecx", "edx", "xmm0", "xmm1", "xmm2"}
<1>1. /\ t \in Targets /\ \A r \in W : r \in Writable(t, i) /\ r \in AllRegs(t)
      /\ \A r, q \in W : r # q => Apart(t, r, R(q))
  BY I86Regs
<1>2. CASE i.op \in {"alloca", "str"}
  <2> DEFINE name == IF i.op = "alloca" THEN "object" ELSE "string"
  <2>1. I86!Code(i) = Then(<<Set(R("eax"), name, <<>>)>>, StoreFrom(i, "eax"))
    BY <1>2, I86Code, I86Same DEF I86!Alloca, I86!Str, I86!ThroughA
  <2>2. MeantResult(i) = <<name>> /\ Pure(t, i) /\ name # "mov" /\ name # "mul"
    BY <1>1, <1>2, MeansNone
  <2> HIDE DEF name
  <2> QED
    BY <1>1, <2>1, <2>2, InNone
<1>3. CASE i.op = "load"
  <2>1. I86!Code(i) = Then(Then(LoadTo(i, 1, "eax"), <<Set(R("eax"), "load", <<R("eax")>>)>>), StoreFrom(i, "eax"))
    BY <1>3, I86Code, I86Same DEF I86!Load, I86!ThroughA, I86!LoadA, Then
  <2> QED
    BY <1>1, <1>3, <2>1, Unaries, MeansOne, InOne
<1>4. CASE i.op = "gep_field"
  <2>1. I86!Code(i) = Then(Then(LoadTo(i, 1, "eax"), <<Set(R("eax"), "add", <<R("eax"), Imm(i.n)>>)>>), StoreFrom(i, "eax"))
    BY <1>4, I86Code, I86Same DEF I86!GepField, I86!ThroughA, I86!LoadA, Then
  <2> QED
    BY <1>1, <1>4, <2>1, Unaries, MeansOne, InOne
<1>5. CASE i.op = "phi"
  <2>1. I86!Code(i) = Then(LoadTo(i, 1, "eax"), StoreFrom(i, "eax"))
    BY <1>5, I86Code, I86Same DEF I86!EdgeCopy, I86!ThroughA, I86!LoadA
  <2> QED
    BY <1>1, <1>5, <2>1, Unaries, MeansOne, InOne
<1>6. CASE i.op = "gep"
  <2> DEFINE c == Then(LoadTo(i, 1, "eax"), LoadTo(i, 2, "ecx"))
             u == <<Set(R("ecx"), "mul", <<R("ecx"), Imm(i.n)>>), Set(R("eax"), "add", <<R("eax"), R("ecx")>>)>>
  <2>1. I86!Code(i) = Then(Then(c, u), StoreFrom(i, "eax"))
    BY <1>6, I86Code, I86Same DEF I86!Gep, I86!ThroughA, I86!LoadA, Then
  <2>2. "ecx" # "eax"
    OBVIOUS
  <2>3. Has2(t, i, c, R("eax"), Meant(i.args[1]), R("ecx"), Meant(i.args[2]))
    BY <1>1, <1>6, <2>2, Binaries, HasTwo
  <2> HIDE DEF c
  <2> QED
    BY <1>1, <1>6, <2>1, <2>2, <2>3, InArray
<1>7. CASE i.op = "va_start"
  <2>1. I86!Code(i) = <<Set(R("eax"), "list", <<>>), Mov(R("eax"), Dst(i))>>
    BY <1>7, I86Code, I86Same DEF I86!VaStart
  <2>2. MeantResult(i) = <<"list">> /\ Pure(t, i)
    BY <1>1, <1>7, ListMeans DEF Pure
  <2> QED
    BY <1>1, <2>1, <2>2, InNone
<1>8. CASE i.op = "va_arg"
  BY <1>8, I86TakesNext
<1>9. CASE i.op = "store"
  <2> DEFINE c == Then(LoadTo(i, 1, "eax"), LoadTo(i, 2, "ecx"))
  <2>1. I86!Code(i) = Then(c, <<Do("store", <<R("eax"), R("ecx")>>)>>)
    BY <1>9, I86Code, I86Same DEF I86!Store, I86!LoadA, Then
  <2>2. "ecx" # "eax"
    OBVIOUS
  <2>3. Has2(t, i, c, R("eax"), Meant(i.args[1]), R("ecx"), Meant(i.args[2]))
    BY <1>1, <1>9, <2>2, Binaries, HasTwo
  <2>4. i.dst = None /\ MeantEffects(t, i) = <<Told("store", <<Meant(i.args[1]), Meant(i.args[2])>>)>>
    BY <1>1, <1>9, EffectsMeant DEF Effects
  <2> HIDE DEF c
  <2> QED
    BY <1>1, <1>9, <2>1, <2>3, <2>4, TellsTwo
<1>10. CASE i.op = "cbr" \/ (i.op = "ret" /\ i.args # <<>>)
  <2> DEFINE c == LoadTo(i, 1, "eax")
  <2>1. I86!Code(i) = Then(c, <<Do(i.op, <<R("eax")>>)>>)
    BY <1>10, I86Code, I86Same DEF I86!Cbr, I86!Ret, I86!LoadA, Then
  <2>2. 1 \in 1..Len(i.args) /\ i.args[1].kind # "fp"
    BY <1>1, <1>10, EffectsMeant, Unaries
  <2>3. Has(t, i, c, R("eax"), Meant(i.args[1]))
    BY <1>1, <2>2, HasOne
  <2>4. i.dst = None /\ MeantEffects(t, i) = <<Told(i.op, <<Meant(i.args[1])>>)>>
    BY <1>1, <1>10, EffectsMeant DEF Effects
  <2> HIDE DEF c
  <2> QED
    BY <1>1, <1>10, <2>1, <2>3, <2>4, TellsOne
<1>11. CASE i.op = "ret" /\ i.args = <<>>
  <2> DEFINE c == <<Mov(Imm(0), R("eax"))>>
  <2>1. I86!Code(i) = Then(c, <<Do("ret", <<R("eax")>>)>>)
    BY <1>11, I86Code, I86Same DEF I86!Ret, Then
  <2>2. Has(t, i, c, R("eax"), Imm(0))
    BY <1>1, HasImm
  <2>3. i.dst = None /\ MeantEffects(t, i) = <<Told("ret", <<Imm(0)>>)>>
    BY <1>1, <1>11, EffectsMeant DEF Effects
  <2> HIDE DEF c
  <2> QED
    BY <1>1, <1>11, <2>1, <2>2, <2>3, TellsOne
<1>12. CASE i.op \in {"br", "va_end"}
  <2>1. I86!Code(i) = <<>>
    BY <1>12, I86Code
  <2> QED
    BY <1>1, <1>12, <2>1, NothingDone
<1>13. i.op # "memcpy"
  BY DEF Wrong
<1> QED
  BY <1>2, <1>3, <1>4, <1>5, <1>6, <1>7, <1>8, <1>9, <1>10, <1>11, <1>12, <1>13 DEF Effects

-----------------------------------------------------------------------------
(* arm64.                                                                  *)
LEMMA A64Regs ==
  ASSUME NEW t, t = "arm64", NEW i
  PROVE  LET W == {"x0", "x1", "x9", "x10", "x11", "x15", "shifter", "d0", "d1"}
         IN  /\ t \in Targets /\ W \subseteq Own(t)
             /\ \A r \in W : r \in Writable(t, i) /\ r \in AllRegs(t)
             /\ \A r, q \in W : r # q => Apart(t, r, R(q))
<1> DEFINE W == {"x0", "x1", "x9", "x10", "x11", "x15", "shifter", "d0", "d1"}
<1>1. W \subseteq Own(t) /\ t \in Targets
  BY OwnAre DEF Targets
<1> HIDE DEF W
<1>2. \A r \in W : r \in Writable(t, i) /\ r \in AllRegs(t)
  BY <1>1, ScratchIs
<1>3. \A r, q \in W : r # q => Apart(t, r, R(q))
  BY <1>2, ApartIs
<1> QED
  BY <1>1, <1>2, <1>3 DEF W

LEMMA A64Integers ==
  ASSUME NEW t, t = "arm64", NEW i, IsInstruction(t, i),
         i.op \in Alus \cup Divisions \cup Shifts \cup Negations \cup Widths \cup {"icmp"}
  PROVE  Compiled(t, i, A64!Code(i))
<1> DEFINE W == {"x0", "x1", "x9", "x10", "x11", "x15", "shifter", "d0", "d1"}
           w == A64!Work(i)
<1>1. /\ t \in Targets /\ W \subseteq Own(t)
      /\ \A r \in W : r \in Writable(t, i) /\ r \in AllRegs(t)
      /\ \A r, q \in W : r # q => Apart(t, r, R(q))
  BY A64Regs
<1>2. Pure(t, i) /\ i.dst # None
  BY <1>1, MeansTwo, MeansOne DEF Pure
<1>3. w \in Writable(t, i) /\ w # "x10"
  <2>1. w = IF InReg(i.dst) THEN i.dst.reg ELSE "x9"
    BY A64Same DEF A64!Work
  <2>2. "x9" \in Own(t) /\ "x10" \in Own(t) /\ "x10" # "x9"
    BY <1>1
  <2> HIDE DEF w
  <2>3. w \in Writable(t, i) /\ \A b \in Own(t) : b # "x9" => b # w
    BY <1>1, <1>2, <2>1, <2>2, WorkIs
  <2> QED
    BY <2>2, <2>3
<1>4. A64!Second(i) \in {Arg(i, 2), R("x10")}
  BY A64Same DEF A64!Second
<1>5. CASE i.op \in Alus
  <2> DEFINE by == IF IsImm(i.args[2]) /\ i.op # "mul" THEN Arg(i, 2) ELSE A64!Second(i)
  <2>1. A64!Code(i) = Then(Then(Then(LoadTo(i, 1, w), Copy(Arg(i, 2), by)), <<Set(R(w), i.op, <<R(w), by>>)>>), StoreFrom(i, w))
    BY <1>5, A64Code, A64Same DEF A64!Alu, A64!ThroughWork, Then
  <2>2. by \in {Arg(i, 2), R("x10")}
    BY <1>4
  <2>3. /\ 2 \in 1..Len(i.args) /\ i.args[1].kind # "fp" /\ i.args[2].kind # "fp"
        /\ MeantResult(i) = Term(i.op, <<Meant(i.args[1]), Meant(i.args[2])>>)
    BY <1>1, <1>5, Binaries, MeansTwo
  <2>4. "x10" \in Writable(t, i)
    BY <1>1
  <2> HIDE DEF by, w
  <2>5. Compiled(t, i, Then(Then(Then(LoadTo(i, 1, w), Copy(Arg(i, 2), by)), <<Set(R(w), i.op, <<R(w), by>>)>>), StoreFrom(i, w)))
    BY <1>1, <1>2, <1>3, <2>2, <2>3, <2>4, InSecond
  <2> QED
    BY <2>1, <2>5
<1>6. CASE i.op \in Divisions
  <2> DEFINE by == A64!Second(i)
             c == Then(LoadTo(i, 1, "x9"), Copy(Arg(i, 2), by))
             q == IF IsRem(i.op) THEN <<Set(R("x15"), Quotient(i.op), <<R("x9"), by>>)>> ELSE <<>>
  <2>1. A64!Code(i) = Then(Then(Then(c, q), <<Set(R(w), i.op, <<R("x9"), by>>)>>), StoreFrom(i, w))
    BY <1>6, A64Code, A64Same DEF A64!Divide, A64!ThroughWork, A64!LoadSecond, Then
  <2>2. by \in {Arg(i, 2), R("x10")} /\ "x9" # "x10"
    BY <1>4
  <2>3. Apart(t, "x15", by)
    BY <1>1, <1>6, <2>2, Binaries, OperandApart
  <2> HIDE DEF by, w
  <2>4. Has2(t, i, c, R("x9"), Meant(i.args[1]), by, Meant(i.args[2]))
    BY <1>1, <1>6, <2>2, Binaries, SecondIs
  <2>5. Apart(t, "x15", R("x9"))
    BY <1>1
  <2> HIDE DEF c
  <2>6. Has2(t, i, Then(c, q), R("x9"), Meant(i.args[1]), by, Meant(i.args[2]))
    <3>1. CASE IsRem(i.op)
      BY <1>1, <2>3, <2>4, <2>5, <3>1, Has2After
    <3>2. CASE ~IsRem(i.op)
      <4>1. Then(c, q) = c
        BY <2>4, <3>2, HasSeq, Thens
      <4> QED
        BY <2>4, <4>1
    <3> QED
      BY <3>1, <3>2
  <2> HIDE DEF q
  <2>7. MeantResult(i) = Term(i.op, <<Meant(i.args[1]), Meant(i.args[2])>>)
    BY <1>1, <1>6, MeansTwo
  <2> DEFINE c2 == Then(Then(c, q), <<Set(R(w), i.op, <<R("x9"), by>>)>>)
  <2>8. Has(t, i, c2, R(w), MeantResult(i))
    BY <1>1, <1>3, <2>6, <2>7, ComputesTwo
  <2> HIDE DEF c2
  <2>9. Compiled(t, i, Then(c2, StoreFrom(i, w)))
    BY <1>1, <1>2, <1>3, <2>8, HasResult
  <2> QED
    BY <2>1, <2>9 DEF c2
<1>7. CASE i.op \in Shifts
  <2> DEFINE by == A64!Second(i)
  <2>1. A64!Code(i) = Then(Then(Then(LoadTo(i, 1, w), Copy(Arg(i, 2), by)), <<Set(R(w), i.op, <<R(w), by>>)>>), StoreFrom(i, w))
    BY <1>7, A64Code, A64Same DEF A64!Shift, A64!ThroughWork, A64!LoadSecond, Then
  <2>2. by \in {Arg(i, 2), R("x10")}
    BY <1>4
  <2>3. /\ 2 \in 1..Len(i.args) /\ i.args[1].kind # "fp" /\ i.args[2].kind # "fp"
        /\ MeantResult(i) = Term(i.op, <<Meant(i.args[1]), Meant(i.args[2])>>)
    BY <1>1, <1>7, Binaries, MeansTwo
  <2>4. "x10" \in Writable(t, i)
    BY <1>1
  <2> HIDE DEF by, w
  <2>5. Compiled(t, i, Then(Then(Then(LoadTo(i, 1, w), Copy(Arg(i, 2), by)), <<Set(R(w), i.op, <<R(w), by>>)>>), StoreFrom(i, w)))
    BY <1>1, <1>2, <1>3, <2>2, <2>3, <2>4, InSecond
  <2> QED
    BY <2>1, <2>5
<1>8. CASE i.op \in Negations
  <2>1. A64!Code(i) = Then(Then(LoadTo(i, 1, w), <<Set(R(w), i.op, <<R(w)>>)>>), StoreFrom(i, w))
    BY <1>8, A64Code, A64Same DEF A64!Negate, A64!ThroughWork, Then
  <2> HIDE DEF w
  <2> QED
    BY <1>1, <1>3, <1>8, <2>1, Unaries, MeansOne, InOne
<1>9. CASE i.op \in Widths
  <2>1. A64!Code(i) = Then(Then(LoadTo(i, 1, "x0"), <<Set(R("x0"), LowByte(i.op), <<R("x0")>>)>>), StoreFrom(i, "x0"))
    BY <1>9, A64Code, A64Same DEF A64!Convert, A64!Through0, A64!Load0, Then
  <2> QED
    BY <1>1, <1>9, <2>1, Unaries, MeansOne, InOne
<1>10. CASE i.op = "icmp"
  <2> DEFINE by == IF IsImm(i.args[2]) THEN Arg(i, 2) ELSE A64!Second(i)
  <2>1. A64!Code(i) = Then(Then(Then(LoadTo(i, 1, "x9"), Copy(Arg(i, 2), by)), <<Set(R("x0"), i.op, <<R("x9"), by>>)>>),
                           StoreFrom(i, "x0"))
    BY <1>10, A64Code, A64Same DEF A64!Compare, A64!Through0, Then
  <2>2. by \in {Arg(i, 2), R("x10")} /\ "x9" # "x10"
    BY <1>4
  <2>3. /\ 2 \in 1..Len(i.args) /\ i.args[1].kind # "fp" /\ i.args[2].kind # "fp"
        /\ MeantResult(i) = Term(i.op, <<Meant(i.args[1]), Meant(i.args[2])>>)
    BY <1>1, <1>10, Binaries, MeansTwo
  <2>4. "x10" \in Writable(t, i) /\ "x9" \in Writable(t, i) /\ "x0" \in Writable(t, i)
    BY <1>1
  <2> HIDE DEF by
  <2>5. Compiled(t, i, Then(Then(Then(LoadTo(i, 1, "x9"), Copy(Arg(i, 2), by)), <<Set(R("x0"), i.op, <<R("x9"), by>>)>>),
                            StoreFrom(i, "x0")))
    BY <1>1, <1>2, <2>2, <2>3, <2>4, InSecond
  <2> QED
    BY <2>1, <2>5
<1> QED
  BY <1>5, <1>6, <1>7, <1>8, <1>9, <1>10

LEMMA A64Brings ==
  ASSUME NEW t, t = "arm64", NEW i, IsInstruction(t, i), NEW k \in 1..Len(i.args), FpOperand(i.args[k])
  PROVE  /\ Brings(t, i, i.args[k], A64!FpLoad(i.args[k], "d0"), "d0", "x0")
         /\ Brings(t, i, i.args[k], A64!FpLoad(i.args[k], "d1"), "d1", "d0")
<1> DEFINE o == i.args[k]
<1>0. /\ t \in Targets /\ \A r \in {"x0", "x9", "d0", "d1"} : r \in Writable(t, i) /\ r \in AllRegs(t)
  BY A64Regs
<1>1. ASSUME NEW f \in {"d0", "d1"}, NEW keep \in {"x0", "d0"} \ {f}
      PROVE  Brings(t, i, o, A64!FpLoad(o, f), f, keep)
  <2>1. /\ f \in Writable(t, i) /\ "x9" \in Writable(t, i) \ {f} /\ keep \in AllRegs(t) \ {f, "x9"} /\ keep \in AllRegs(t) \ {f}
    BY <1>0
  <2>2. CASE o.kind = "fp"
    <3>1. Brings(t, i, o, <<Mov(<<"fp", o.n>>, R("x9")), Mov(R("x9"), R(f))>>, f, keep)
      BY <1>0, <2>1, <2>2, BringsConst
    <3> QED
      BY <2>2, <3>1, A64Same DEF A64!FpLoad
  <2>3. CASE IsMem(o)
    <3>1. Brings(t, i, o, <<Mov(Slot(o), R(f))>>, f, keep) /\ o.kind # "fp"
      BY <1>0, <2>1, <2>3, BringsSlot DEF IsMem
    <3> QED
      BY <3>1, A64Same DEF A64!FpLoad
  <2> QED
    BY <2>2, <2>3 DEF FpOperand
<1> QED
  BY <1>1

LEMMA A64Floating ==
  ASSUME NEW t, t = "arm64", NEW i, IsInstruction(t, i), ~Wrong(t, i),
         i.op \in Floats \cup FromInt \cup ToInt \cup FpToFp \cup {"fneg", "fcmp"}
  PROVE  Compiled(t, i, A64!Code(i))
<1> DEFINE W == {"x0", "x9", "d0", "d1"}
           x == A64!FpLoad(i.args[1], "d0")
           y == A64!FpLoad(i.args[2], "d1")
           A == Meant(i.args[1])
           B == Meant(i.args[2])
<1>1. /\ t \in Targets /\ \A r \in W : r \in Writable(t, i) /\ r \in AllRegs(t)
  BY A64Regs
<1>2. ToSlot(t, i) /\ 1 \in 1..Len(i.args)
  BY <1>1, FpMeans
<1>3. i.op \notin FromInt => Has(t, i, x, R("d0"), A)
  <2>1. ASSUME i.op \notin FromInt PROVE Brings(t, i, i.args[1], x, "d0", "x0")
    BY <1>1, <1>2, <2>1, FpMeans, A64Brings
  <2> HIDE DEF x
  <2> QED
    BY <1>1, <2>1, FpFirst
<1>4. i.op \in Floats \cup {"fcmp"} => Has2(t, i, Then(x, y), R("d0"), A, R("d1"), B)
  <2>1. ASSUME i.op \in Floats \cup {"fcmp"}
        PROVE  Brings(t, i, i.args[1], x, "d0", "x0") /\ Brings(t, i, i.args[2], y, "d1", "d0")
    <3>1. FpOperand(i.args[1]) /\ FpOperand(i.args[2]) /\ 2 \in 1..Len(i.args)
      BY <1>1, <2>1, FpMeans DEF Floats, FromInt
    <3> QED
      BY <1>2, <3>1, A64Brings
  <2> HIDE DEF x, y
  <2> QED
    BY <1>1, <2>1, FpSecond
<1> HIDE DEF x, y, A, B
<1>5. CASE i.op \in Floats
  <2>1. A64!Code(i) = Then(Then(x, y), <<Set(R("d0"), i.op, <<R("d0"), R("d1")>>), Mov(R("d0"), Slot(i.dst))>>)
    BY <1>5, A64Code, A64Same DEF A64!FpArith, A64!FpBoth, Then, x, y
  <2>2. MeantResult(i) = Term(i.op, <<A, B>>)
    BY <1>1, <1>5, FpMeans DEF A, B
  <2> QED
    BY <1>1, <1>2, <1>4, <1>5, <2>1, <2>2, FpTwo
<1>6. CASE i.op = "fneg"
  <2>1. Has(t, i, x, R("d0"), A)
    BY <1>3, <1>6 DEF FromInt
  <2>2. A64!Code(i) = Then(x, <<Set(R("d0"), i.op, <<R("d0")>>), Mov(R("d0"), Slot(i.dst))>>)
    BY <1>6, A64Code, A64Same DEF A64!FpNegate, Then, x
  <2>3. MeantResult(i) = Term(i.op, <<A>>)
    BY <1>1, <1>6, FpMeans DEF A
  <2> QED
    BY <1>1, <1>2, <2>1, <2>2, <2>3, FpOne
<1>7. CASE i.op = "fcmp"
  <2>1. (IF i.n < 6 THEN i.n ELSE 0) = i.n
    <3>1. i.n \in Int /\ ~(i.n > 5)
      BY <1>7 DEF IsInstruction, Wrong
    <3> QED
      BY <3>1
  <2>2. A64!Code(i) = Then(Then(x, y), <<Set(R("x0"), i.op, <<Imm(i.n), R("d0"), R("d1")>>), Mov(R("x0"), Slot(i.dst))>>)
    BY <1>7, <2>1, A64Code, A64Same DEF A64!FpCompare, A64!FpBoth, Then, x, y
  <2>3. MeantResult(i) = Term(i.op, <<Imm(i.n), A, B>>)
    BY <1>1, <1>7, FpMeans DEF A, B
  <2> QED
    BY <1>1, <1>2, <1>4, <1>7, <2>2, <2>3, FpTest
<1>8. CASE i.op \in FromInt \cup ToInt \cup FpToFp
  <2> DEFINE to == IF i.op \in ToInt THEN "x0" ELSE "d0"
             from == IF i.op \in FromInt THEN "x0" ELSE "d0"
             z == IF i.op \in FromInt THEN <<Mov(Arg(i, 1), R("x0"))>> ELSE x
  <2>1. A64!Code(i) = Then(z, <<Set(R(to), i.op, <<R(from)>>), Mov(R(to), Slot(i.dst))>>)
    <3>1. A64!Code(i) = A64!FpConvert(i)
      BY <1>8, A64Code
    <3>2. i.op \in FromInt => (IF IsImm(i.args[1]) THEN Arg(i, 1) ELSE Slot(i.args[1])) = Arg(i, 1)
      BY <1>1, <1>8, FpMeans DEF IsImm, IsMem, Arg, Place, InReg
    <3> QED
      BY <3>1, <3>2, A64Same DEF A64!FpConvert, Then, x
  <2>2. Has(t, i, z, R(from), A)
    <3>1. i.op \in FromInt => i.args[1].kind # "fp"
      BY <1>1, <1>8, FpMeans DEF IsMem
    <3> QED
      BY <1>1, <1>2, <1>3, <3>1, HasOne DEF A
  <2>3. MeantResult(i) = Term(i.op, <<A>>)
    BY <1>1, <1>8, FpMeans DEF A
  <2>4. to \in Writable(t, i)
    BY <1>1
  <2> HIDE DEF z, to, from
  <2> QED
    BY <1>1, <1>2, <2>1, <2>2, <2>3, <2>4, FpOne
<1> QED
  BY <1>5, <1>6, <1>7, <1>8

LEMMA NotASlot ==
  /\ \A o : ~IsMem(o) => Place(o)[1] # "slot"
  /\ \A r : R(r)[1] # "slot"
<1>1. \A r : R(r)[1] = "reg" /\ Imm(r)[1] = "imm"
  BY DEF R, Imm
<1> QED
  BY <1>1 DEF Place

(* Lists of arguments where the operands have to be in registers.          *)
LEMMA StartsInReg ==
  ASSUME NEW t \in Targets \ {"x86"}, NEW i, IsInstruction(t, i), i.op = "va_start", NEW a \in Writable(t, i),
         NEW b \in Writable(t, i), b # a
  PROVE  Compiled(t, i, Then(<<Set(R(a), "list", <<>>), Set(R(b), "area", <<>>), Do("va_start", <<R(a)>>)>>,
                             <<Mov(R(a), Dst(i))>>))
<1>1. \A name, from : Compiled(t, i, Then(<<Set(R(a), "list", <<>>), Set(R(b), name, from), Do("va_start", <<R(a)>>)>>,
                                          <<Mov(R(a), Dst(i))>>))
  BY StartsList
<1> QED
  BY <1>1

LEMMA TakesInReg ==
  ASSUME NEW t \in Targets \ {"x86"}, NEW i, IsInstruction(t, i), i.op = "va_arg", NEW a \in Writable(t, i),
         NEW b \in Writable(t, i), b # a, NEW r \in Writable(t, i), r # a
  PROVE  /\ Compiled(t, i, Then(Then(<<Mov(Arg(i, 1), R(a))>>,
                                     <<Set(R(b), "area", <<R(a)>>), Set(R(r), "next", <<R(a)>>), Do("advance", <<R(a)>>)>>),
                                <<Mov(R(r), Dst(i))>>))
         /\ \A d \in Writable(t, i) : d # a =>
              Compiled(t, i, Then(Then(<<Mov(Arg(i, 1), R(a))>>,
                                       <<Set(R(b), "area", <<R(a)>>), Set(R(d), "area", <<R(a)>>),
                                         Set(R(r), "next", <<R(a)>>), Do("advance", <<R(a)>>)>>),
                                  <<Mov(R(r), Dst(i))>>))
<1> DEFINE l == <<Mov(Arg(i, 1), R(a))>>
           A == Meant(i.args[1])
           u == <<Set(R(b), "area", <<R(a)>>)>>
<1>1. a \in AllRegs(t)
  BY DEF Writable
<1>2. Has(t, i, l, R(a), A)
  BY Unaries, HasOne
<1>3. Apart(t, b, R(a)) /\ \A d : d # a => Apart(t, d, R(a))
  BY <1>1, ApartIs
<1> HIDE DEF l, A
<1>4. Has(t, i, Then(l, u), R(a), A)
  BY <1>2, <1>3, HasAfter
<1> DEFINE n == <<Set(R(r), "next", <<R(a)>>)>>
           v == <<Do("advance", <<R(a)>>)>>
<1>5. IsSeq(l)
  BY <1>2, HasSeq
<1>6. Compiled(t, i, Then(Then(Then(Then(l, u), n), v), <<Mov(R(r), Dst(i))>>))
  <2> DEFINE c == Then(l, u)
  <2> HIDE DEF c
  <2>1. Has(t, i, c, R(a), Meant(i.args[1]))
    BY <1>4 DEF c, A
  <2>2. Compiled(t, i, Then(Then(Then(c, n), v), <<Mov(R(r), Dst(i))>>))
    BY <1>1, <2>1, TakesNext
  <2> QED
    BY <2>2 DEF c
<1>7. ASSUME NEW x, NEW y, NEW z PROVE Then(l, <<x, y, z>>) = Then(Then(Then(l, <<x>>), <<y>>), <<z>>)
  BY <1>5, ByThree
<1>8. ASSUME NEW x, NEW y, NEW z, NEW w PROVE Then(l, <<x, y, z, w>>) = Then(Then(Then(Then(l, <<x>>), <<y>>), <<z>>), <<w>>)
  BY <1>5, ByFour
<1>9. ASSUME NEW d \in Writable(t, i), d # a
      PROVE  Compiled(t, i, Then(Then(Then(Then(Then(l, u), <<Set(R(d), "area", <<R(a)>>)>>), n), v), <<Mov(R(r), Dst(i))>>))
  <2> DEFINE c0 == Then(l, u)
             c == Then(c0, <<Set(R(d), "area", <<R(a)>>)>>)
  <2> HIDE DEF c0
  <2>1. Has(t, i, c, R(a), A)
    BY <1>3, <1>4, <1>9, HasAfter DEF c0
  <2>2. Has(t, i, c, R(a), Meant(i.args[1]))
    BY <2>1 DEF A
  <2> HIDE DEF c
  <2>3. Compiled(t, i, Then(Then(Then(c, n), v), <<Mov(R(r), Dst(i))>>))
    BY <1>1, <2>2, TakesNext
  <2> QED
    BY <2>3 DEF c, c0
<1> DEFINE x1 == Set(R(b), "area", <<R(a)>>)
           x2 == Set(R(r), "next", <<R(a)>>)
           x3 == Do("advance", <<R(a)>>)
           y(d) == Set(R(d), "area", <<R(a)>>)
           e == <<Mov(R(r), Dst(i))>>
<1>10. /\ Compiled(t, i, Then(Then(Then(Then(l, <<x1>>), <<x2>>), <<x3>>), e))
       /\ \A d \in Writable(t, i) : d # a => Compiled(t, i, Then(Then(Then(Then(Then(l, <<x1>>), <<y(d)>>), <<x2>>), <<x3>>), e))
  BY <1>6, <1>9
<1> HIDE DEF x1, x2, x3, y, e
<1>11. Compiled(t, i, Then(Then(l, <<x1, x2, x3>>), e))
  <2>1. Then(l, <<x1, x2, x3>>) = Then(Then(Then(l, <<x1>>), <<x2>>), <<x3>>)
    BY <1>7
  <2> QED
    BY <1>10, <2>1
<1>12. ASSUME NEW d \in Writable(t, i), d # a PROVE Compiled(t, i, Then(Then(l, <<x1, y(d), x2, x3>>), e))
  <2>1. Then(l, <<x1, y(d), x2, x3>>) = Then(Then(Then(Then(l, <<x1>>), <<y(d)>>), <<x2>>), <<x3>>)
    BY <1>8
  <2> QED
    BY <1>10, <1>12, <2>1
<1> QED
  BY <1>11, <1>12 DEF l, x1, x2, x3, y, e

LEMMA A64Others ==
  ASSUME NEW t, t = "arm64", NEW i, IsInstruction(t, i), ~Wrong(t, i),
         i.op \in {"alloca", "str", "load", "gep_field", "phi", "gep", "va_start", "va_arg"} \cup Effects
  PROVE  Compiled(t, i, A64!Code(i))
<1> DEFINE W == {"x0", "x1", "x9", "x10", "x11", "x15", "shifter", "d0", "d1"}
<1>1. /\ t \in Targets /\ \A r \in W : r \in Writable(t, i) /\ r \in AllRegs(t)
      /\ \A r, q \in W : r # q => Apart(t, r, R(q))
  BY A64Regs
<1>2. CASE i.op \in {"alloca", "str"}
  <2> DEFINE name == IF i.op = "alloca" THEN "object" ELSE "string"
  <2>1. A64!Code(i) = Then(<<Set(R("x0"), name, <<>>)>>, StoreFrom(i, "x0"))
    BY <1>2, A64Code, A64Same DEF A64!Alloca, A64!Str, A64!Through0
  <2>2. MeantResult(i) = <<name>> /\ Pure(t, i) /\ name # "mov" /\ name # "mul"
    BY <1>1, <1>2, MeansNone
  <2> HIDE DEF name
  <2> QED
    BY <1>1, <2>1, <2>2, InNone
<1>3. CASE i.op = "load"
  <2>1. A64!Code(i) = Then(Then(LoadTo(i, 1, "x0"), <<Set(R("x0"), "load", <<R("x0")>>)>>), StoreFrom(i, "x0"))
    BY <1>3, A64Code, A64Same DEF A64!Load, A64!Through0, A64!Load0, Then
  <2> QED
    BY <1>1, <1>3, <2>1, Unaries, MeansOne, InOne
<1>4. CASE i.op = "gep_field"
  <2>1. A64!Code(i) = Then(Then(LoadTo(i, 1, "x0"), <<Set(R("x0"), "add", <<R("x0"), Imm(i.n)>>)>>), StoreFrom(i, "x0"))
    BY <1>4, A64Code, A64Same DEF A64!GepField, A64!Through0, A64!Load0, Then
  <2> QED
    BY <1>1, <1>4, <2>1, Unaries, MeansOne, InOne
<1>5. CASE i.op = "phi"
  <2>1. A64!Code(i) = Then(LoadTo(i, 1, "x9"), StoreFrom(i, "x9"))
    BY <1>5, A64Code, A64Same DEF A64!EdgeCopy
  <2> QED
    BY <1>1, <1>5, <2>1, Unaries, MeansOne, InOne
<1>6. CASE i.op = "gep"
  <2> DEFINE c == Then(LoadTo(i, 1, "x9"), LoadTo(i, 2, "x10"))
             u == <<Set(R("shifter"), "mul", <<R("x10"), Imm(i.n)>>), Set(R("x0"), "add", <<R("x9"), R("shifter")>>)>>
  <2>1. A64!Code(i) = Then(Then(c, u), StoreFrom(i, "x0"))
    <3>1. A64!Second(i) = R("x10")
      BY <1>1, <1>6, A64Same DEF Wrong, A64!Second
    <3> QED
      BY <1>6, <3>1, A64Code, A64Same DEF A64!Gep, A64!Through0, A64!LoadSecond, LoadTo, Then
  <2>2. "x10" # "x9" /\ "shifter" # "x9"
    OBVIOUS
  <2>3. Has2(t, i, c, R("x9"), Meant(i.args[1]), R("x10"), Meant(i.args[2]))
    BY <1>1, <1>6, <2>2, Binaries, HasTwo
  <2> HIDE DEF c
  <2> QED
    BY <1>1, <1>6, <2>1, <2>2, <2>3, InArray
<1>7. CASE i.op = "va_start"
  <2>1. Dst(i)[1] # "slot" /\ R("x9")[1] # "slot"
    BY <1>1, <1>7, NotASlot DEF Dst, Wrong
  <2> DEFINE c == <<Set(R("x9"), "list", <<>>), Set(R("x10"), "area", <<>>), Do("va_start", <<R("x9")>>)>>
  <2>2. A64!Code(i) = Then(c, <<Mov(R("x9"), Dst(i))>>)
    BY <1>7, <2>1, A64Code, A64Same DEF A64!VaStart, A64!Plain, Then
  <2>3. t \in Targets \ {"x86"} /\ "x10" # "x9"
    BY <1>1
  <2> QED
    BY <1>1, <1>7, <2>2, <2>3, StartsInReg
<1>8. CASE i.op = "va_arg"
  <2>1. Dst(i)[1] # "slot" /\ Arg(i, 1)[1] # "slot" /\ R("x9")[1] # "slot" /\ R("x10")[1] # "slot"
    BY <1>1, <1>8, NotASlot DEF Dst, Arg, Wrong
  <2> DEFINE c == <<Set(R("x11"), "area", <<R("x9")>>), Set(R("x10"), "next", <<R("x9")>>), Do("advance", <<R("x9")>>)>>
  <2>2. A64!Code(i) = Then(Then(<<Mov(Arg(i, 1), R("x9"))>>, c), <<Mov(R("x10"), Dst(i))>>)
    BY <1>8, <2>1, A64Code, A64Same DEF A64!VaArg, A64!Plain, Then
  <2>3. t \in Targets \ {"x86"} /\ "x10" # "x9" /\ "x11" # "x9"
    BY <1>1
  <2> QED
    BY <1>1, <1>8, <2>2, <2>3, TakesInReg
<1>9. CASE i.op = "store"
  <2> DEFINE c == Then(LoadTo(i, 1, "x0"), LoadTo(i, 2, "x9"))
  <2>1. A64!Code(i) = Then(c, <<Do("store", <<R("x0"), R("x9")>>)>>)
    BY <1>9, A64Code, A64Same DEF A64!Store, A64!Load0, Then
  <2>2. "x9" # "x0"
    OBVIOUS
  <2>3. Has2(t, i, c, R("x0"), Meant(i.args[1]), R("x9"), Meant(i.args[2]))
    BY <1>1, <1>9, <2>2, Binaries, HasTwo
  <2>4. i.dst = None /\ MeantEffects(t, i) = <<Told("store", <<Meant(i.args[1]), Meant(i.args[2])>>)>>
    BY <1>1, <1>9, EffectsMeant DEF Effects
  <2> HIDE DEF c
  <2> QED
    BY <1>1, <1>9, <2>1, <2>3, <2>4, TellsTwo
<1>10. CASE i.op = "memcpy"
  <2> DEFINE c == Then(LoadTo(i, 1, "x0"), LoadTo(i, 2, "x1"))
  <2>1. A64!Code(i) = Then(c, <<Do("memcpy", <<R("x0"), R("x1"), Imm(i.n)>>), Set(R("x9"), "load", <<R("x1")>>)>>)
    BY <1>10, A64Code, A64Same DEF A64!Memcpy, A64!Load0, Then
  <2>2. "x1" # "x0"
    OBVIOUS
  <2>3. Has2(t, i, c, R("x0"), Meant(i.args[1]), R("x1"), Meant(i.args[2]))
    BY <1>1, <1>10, <2>2, Binaries, HasTwo
  <2>4. i.dst = None /\ MeantEffects(t, i) = <<Told("memcpy", <<Meant(i.args[1]), Meant(i.args[2]), Imm(i.n)>>)>>
    BY <1>1, <1>10, EffectsMeant DEF Effects
  <2> HIDE DEF c
  <2> QED
    BY <1>1, <1>10, <2>1, <2>3, <2>4, TellsCopy
<1>11. CASE i.op = "cbr"
  <2> DEFINE c == LoadTo(i, 1, "x9")
  <2>1. A64!Code(i) = Then(c, <<Do("cbr", <<R("x9")>>)>>)
    BY <1>11, A64Code, A64Same DEF A64!Cbr, Then
  <2>2. Has(t, i, c, R("x9"), Meant(i.args[1]))
    BY <1>1, <1>11, Unaries, HasOne
  <2>3. i.dst = None /\ MeantEffects(t, i) = <<Told("cbr", <<Meant(i.args[1])>>)>>
    BY <1>1, <1>11, EffectsMeant DEF Effects
  <2> HIDE DEF c
  <2> QED
    BY <1>1, <1>11, <2>1, <2>2, <2>3, TellsOne
<1>12. CASE i.op = "ret" /\ i.args # <<>>
  <2> DEFINE c == LoadTo(i, 1, "x0")
  <2>1. A64!Code(i) = Then(c, <<Do("ret", <<R("x0")>>)>>)
    BY <1>12, A64Code, A64Same DEF A64!Ret, A64!Load0, Then
  <2>2. Has(t, i, c, R("x0"), Meant(i.args[1]))
    BY <1>1, <1>12, EffectsMeant, HasOne
  <2>3. i.dst = None /\ MeantEffects(t, i) = <<Told("ret", <<Meant(i.args[1])>>)>>
    BY <1>1, <1>12, EffectsMeant DEF Effects
  <2> HIDE DEF c
  <2> QED
    BY <1>1, <1>12, <2>1, <2>2, <2>3, TellsOne
<1>13. CASE i.op = "ret" /\ i.args = <<>>
  <2> DEFINE c == <<Mov(Imm(0), R("x0"))>>
  <2>1. A64!Code(i) = Then(c, <<Do("ret", <<R("x0")>>)>>)
    BY <1>13, A64Code, A64Same DEF A64!Ret, Then
  <2>2. Has(t, i, c, R("x0"), Imm(0))
    BY <1>1, HasImm
  <2>3. i.dst = None /\ MeantEffects(t, i) = <<Told("ret", <<Imm(0)>>)>>
    BY <1>1, <1>13, EffectsMeant DEF Effects
  <2> HIDE DEF c
  <2> QED
    BY <1>1, <1>13, <2>1, <2>2, <2>3, TellsOne
<1>14. CASE i.op \in {"br", "va_end"}
  <2>1. A64!Code(i) = <<>>
    BY <1>14, A64Code
  <2> QED
    BY <1>1, <1>14, <2>1, NothingDone
<1> QED
  BY <1>2, <1>3, <1>4, <1>5, <1>6, <1>7, <1>8, <1>9, <1>10, <1>11, <1>12, <1>13, <1>14 DEF Effects

-----------------------------------------------------------------------------
(* riscv.                                                                  *)
LEMMA RVRegs ==
  ASSUME NEW t, t = "riscv", NEW i
  PROVE  LET W == {"a0", "t0", "t1", "t6", "ft0", "ft1"}
         IN  /\ t \in Targets /\ W \subseteq Own(t)
             /\ \A r \in W : r \in Writable(t, i) /\ r \in AllRegs(t)
             /\ \A r, q \in W : r # q => Apart(t, r, R(q))
<1> DEFINE W == {"a0", "t0", "t1", "t6", "ft0", "ft1"}
<1>1. W \subseteq Own(t) /\ t \in Targets
  BY OwnAre DEF Targets
<1> HIDE DEF W
<1>2. \A r \in W : r \in Writable(t, i) /\ r \in AllRegs(t)
  BY <1>1, ScratchIs
<1>3. \A r, q \in W : r # q => Apart(t, r, R(q))
  BY <1>2, ApartIs
<1> QED
  BY <1>1, <1>2, <1>3 DEF W

LEMMA RVIntegers ==
  ASSUME NEW t, t = "riscv", NEW i, IsInstruction(t, i),
         i.op \in Alus \cup Divisions \cup Shifts \cup Negations \cup Widths \cup {"icmp"}
  PROVE  Compiled(t, i, RV!Code(i))
<1> DEFINE w == RV!Work(i)
           by == RV!Second(i)
<1>1. /\ t \in Targets /\ "t0" \in Own(t) /\ "t1" \in Own(t) /\ "t0" \in Writable(t, i) /\ "t1" \in Writable(t, i)
      /\ "t0" # "t1"
  BY RVRegs
<1>2. Pure(t, i) /\ i.dst # None
  BY <1>1, MeansTwo, MeansOne DEF Pure
<1>3. w \in Writable(t, i) /\ w # "t1"
  <2>1. w = IF InReg(i.dst) THEN i.dst.reg ELSE "t0"
    BY RVSame DEF RV!Work
  <2> HIDE DEF w
  <2>2. w \in Writable(t, i) /\ \A b \in Own(t) : b # "t0" => b # w
    BY <1>1, <1>2, <2>1, WorkIs
  <2> QED
    BY <1>1, <2>2
<1>4. by \in {Arg(i, 2), R("t1")}
  BY RVSame DEF RV!Second
<1>5. CASE i.op \in Alus \cup Shifts
  <2>1. RV!Code(i) = Then(Then(Then(LoadTo(i, 1, w), Copy(Arg(i, 2), by)), <<Set(R(w), i.op, <<R(w), by>>)>>), StoreFrom(i, w))
    BY <1>5, RVCode, RVSame DEF RV!Alu, RV!Shift, RV!ThroughWork, RV!LoadSecond, Then
  <2>2. MeantResult(i) = Term(i.op, <<Meant(i.args[1]), Meant(i.args[2])>>)
    BY <1>1, <1>5, MeansTwo
  <2>3. 2 \in 1..Len(i.args) /\ i.args[1].kind # "fp" /\ i.args[2].kind # "fp"
    BY <1>1, <1>5, Binaries
  <2> HIDE DEF by, w
  <2>4. Compiled(t, i, Then(Then(Then(LoadTo(i, 1, w), Copy(Arg(i, 2), by)), <<Set(R(w), i.op, <<R(w), by>>)>>), StoreFrom(i, w)))
    BY <1>1, <1>2, <1>3, <1>4, <2>2, <2>3, InSecond
  <2> QED
    BY <2>1, <2>4
<1>6. CASE i.op \in Divisions
  <2>1. RV!Code(i) = Then(Then(Then(LoadTo(i, 1, "t0"), Copy(Arg(i, 2), by)), <<Set(R(w), i.op, <<R("t0"), by>>)>>), StoreFrom(i, w))
    BY <1>6, RVCode, RVSame DEF RV!Divide, RV!ThroughWork, RV!LoadT, RV!LoadSecond, Then
  <2>2. MeantResult(i) = Term(i.op, <<Meant(i.args[1]), Meant(i.args[2])>>)
    BY <1>1, <1>6, MeansTwo
  <2>3. 2 \in 1..Len(i.args) /\ i.args[1].kind # "fp" /\ i.args[2].kind # "fp"
    BY <1>1, <1>6, Binaries
  <2> HIDE DEF by, w
  <2>4. Compiled(t, i, Then(Then(Then(LoadTo(i, 1, "t0"), Copy(Arg(i, 2), by)), <<Set(R(w), i.op, <<R("t0"), by>>)>>), StoreFrom(i, w)))
    BY <1>1, <1>2, <1>3, <1>4, <2>2, <2>3, InSecond
  <2> QED
    BY <2>1, <2>4
<1>7. CASE i.op \in Negations
  <2>1. RV!Code(i) = Then(Then(LoadTo(i, 1, w), <<Set(R(w), i.op, <<R(w)>>)>>), StoreFrom(i, w))
    BY <1>7, RVCode, RVSame DEF RV!Negate, RV!ThroughWork, Then
  <2> HIDE DEF w
  <2> QED
    BY <1>1, <1>3, <1>7, <2>1, Unaries, MeansOne, InOne
<1>8. CASE i.op \in Widths
  <2>1. RV!Code(i) = Then(Then(LoadTo(i, 1, "t0"), <<Set(R("t0"), LowByte(i.op), <<R("t0")>>)>>), StoreFrom(i, "t0"))
    BY <1>8, RVCode, RVSame DEF RV!Convert, RV!ThroughT, RV!LoadT, Then
  <2> QED
    BY <1>1, <1>8, <2>1, Unaries, MeansOne, InOne
<1>9. CASE i.op = "icmp"
  <2>1. RV!Code(i) = Then(Then(Then(LoadTo(i, 1, "t0"), Copy(Arg(i, 2), by)), <<Set(R("t0"), i.op, <<R("t0"), by>>)>>), StoreFrom(i, "t0"))
    BY <1>9, RVCode, RVSame DEF RV!Compare, RV!ThroughT, RV!LoadT, RV!LoadSecond, Then
  <2>2. MeantResult(i) = Term(i.op, <<Meant(i.args[1]), Meant(i.args[2])>>)
    BY <1>1, <1>9, MeansTwo
  <2>3. 2 \in 1..Len(i.args) /\ i.args[1].kind # "fp" /\ i.args[2].kind # "fp"
    BY <1>1, <1>9, Binaries
  <2> HIDE DEF by, w
  <2>4. Compiled(t, i, Then(Then(Then(LoadTo(i, 1, "t0"), Copy(Arg(i, 2), by)), <<Set(R("t0"), i.op, <<R("t0"), by>>)>>), StoreFrom(i, "t0")))
    BY <1>1, <1>2, <1>3, <1>4, <2>2, <2>3, InSecond
  <2> QED
    BY <2>1, <2>4
<1> QED
  BY <1>5, <1>6, <1>7, <1>8, <1>9

LEMMA RVBrings ==
  ASSUME NEW t, t = "riscv", NEW i, IsInstruction(t, i), NEW k \in 1..Len(i.args), FpOperand(i.args[k])
  PROVE  /\ Brings(t, i, i.args[k], RV!FpLoad(i.args[k], "ft0"), "ft0", "a0")
         /\ Brings(t, i, i.args[k], RV!FpLoad(i.args[k], "ft1"), "ft1", "ft0")
<1> DEFINE o == i.args[k]
<1>0. /\ t \in Targets /\ \A r \in {"a0", "t0", "ft0", "ft1"} : r \in Writable(t, i) /\ r \in AllRegs(t)
  BY RVRegs
<1>1. ASSUME NEW f \in {"ft0", "ft1"}, NEW keep \in {"a0", "ft0"} \ {f}
      PROVE  Brings(t, i, o, RV!FpLoad(o, f), f, keep)
  <2>1. /\ f \in Writable(t, i) /\ "t0" \in Writable(t, i) \ {f} /\ keep \in AllRegs(t) \ {f, "t0"} /\ keep \in AllRegs(t) \ {f}
    BY <1>0
  <2>2. CASE o.kind = "fp"
    <3>1. Brings(t, i, o, <<Mov(<<"fp", o.n>>, R("t0")), Mov(R("t0"), R(f))>>, f, keep)
      BY <1>0, <2>1, <2>2, BringsConst
    <3> QED
      BY <2>2, <3>1, RVSame DEF RV!FpLoad
  <2>3. CASE IsMem(o)
    <3>1. Brings(t, i, o, <<Mov(Slot(o), R(f))>>, f, keep) /\ o.kind # "fp"
      BY <1>0, <2>1, <2>3, BringsSlot DEF IsMem
    <3> QED
      BY <3>1, RVSame DEF RV!FpLoad
  <2> QED
    BY <2>2, <2>3 DEF FpOperand
<1> QED
  BY <1>1

LEMMA RVFloating ==
  ASSUME NEW t, t = "riscv", NEW i, IsInstruction(t, i), ~Wrong(t, i),
         i.op \in Floats \cup FromInt \cup ToInt \cup FpToFp \cup {"fneg", "fcmp"}
  PROVE  Compiled(t, i, RV!Code(i))
<1> DEFINE W == {"a0", "t0", "ft0", "ft1"}
           x == RV!FpLoad(i.args[1], "ft0")
           y == RV!FpLoad(i.args[2], "ft1")
           A == Meant(i.args[1])
           B == Meant(i.args[2])
<1>1. /\ t \in Targets /\ \A r \in W : r \in Writable(t, i) /\ r \in AllRegs(t)
  BY RVRegs
<1>2. ToSlot(t, i) /\ 1 \in 1..Len(i.args)
  BY <1>1, FpMeans
<1>3. i.op \notin FromInt => Has(t, i, x, R("ft0"), A)
  <2>1. ASSUME i.op \notin FromInt PROVE Brings(t, i, i.args[1], x, "ft0", "a0")
    BY <1>1, <1>2, <2>1, FpMeans, RVBrings
  <2> HIDE DEF x
  <2> QED
    BY <1>1, <2>1, FpFirst
<1>4. i.op \in Floats \cup {"fcmp"} => Has2(t, i, Then(x, y), R("ft0"), A, R("ft1"), B)
  <2>1. ASSUME i.op \in Floats \cup {"fcmp"}
        PROVE  Brings(t, i, i.args[1], x, "ft0", "a0") /\ Brings(t, i, i.args[2], y, "ft1", "ft0")
    <3>1. FpOperand(i.args[1]) /\ FpOperand(i.args[2]) /\ 2 \in 1..Len(i.args)
      BY <1>1, <2>1, FpMeans DEF Floats, FromInt
    <3> QED
      BY <1>2, <3>1, RVBrings
  <2> HIDE DEF x, y
  <2> QED
    BY <1>1, <2>1, FpSecond
<1> HIDE DEF x, y, A, B
<1>5. CASE i.op \in Floats
  <2>1. RV!Code(i) = Then(Then(x, y), <<Set(R("ft0"), i.op, <<R("ft0"), R("ft1")>>), Mov(R("ft0"), Slot(i.dst))>>)
    BY <1>5, RVCode, RVSame DEF RV!FpArith, RV!FpBoth, Then, x, y
  <2>2. MeantResult(i) = Term(i.op, <<A, B>>)
    BY <1>1, <1>5, FpMeans DEF A, B
  <2> QED
    BY <1>1, <1>2, <1>4, <1>5, <2>1, <2>2, FpTwo
<1>6. CASE i.op = "fneg"
  <2>1. Has(t, i, x, R("ft0"), A)
    BY <1>3, <1>6 DEF FromInt
  <2>2. RV!Code(i) = Then(x, <<Set(R("ft0"), i.op, <<R("ft0")>>), Mov(R("ft0"), Slot(i.dst))>>)
    BY <1>6, RVCode, RVSame DEF RV!FpNegate, Then, x
  <2>3. MeantResult(i) = Term(i.op, <<A>>)
    BY <1>1, <1>6, FpMeans DEF A
  <2> QED
    BY <1>1, <1>2, <2>1, <2>2, <2>3, FpOne
<1>7. CASE i.op = "fcmp"
  <2>1. i.n = 0
    BY <1>1, <1>7 DEF Wrong
  <2>2. RV!Code(i) = Then(Then(x, y), <<Set(R("t0"), i.op, <<Imm(i.n), R("ft0"), R("ft1")>>), Mov(R("t0"), Slot(i.dst))>>)
    BY <1>7, <2>1, RVCode, RVSame DEF RV!FpCompare, RV!FpBoth, Then, x, y
  <2>3. MeantResult(i) = Term(i.op, <<Imm(i.n), A, B>>)
    BY <1>1, <1>7, FpMeans DEF A, B
  <2> QED
    BY <1>1, <1>2, <1>4, <1>7, <2>2, <2>3, FpTest
<1>8. CASE i.op \in FromInt \cup ToInt \cup FpToFp
  <2> DEFINE to == IF i.op \in ToInt THEN "t0" ELSE "ft0"
             from == IF i.op \in FromInt THEN "t0" ELSE "ft0"
             z == IF i.op \in FromInt THEN <<Mov(Arg(i, 1), R("t0"))>> ELSE x
  <2>1. RV!Code(i) = Then(z, <<Set(R(to), i.op, <<R(from)>>), Mov(R(to), Slot(i.dst))>>)
    <3>1. RV!Code(i) = RV!FpConvert(i)
      BY <1>8, RVCode
    <3>2. i.op \in FromInt => (IF IsImm(i.args[1]) THEN Arg(i, 1) ELSE Slot(i.args[1])) = Arg(i, 1)
      BY <1>1, <1>8, FpMeans DEF IsImm, IsMem, Arg, Place, InReg
    <3> QED
      BY <3>1, <3>2, RVSame DEF RV!FpConvert, Then, x
  <2>2. Has(t, i, z, R(from), A)
    <3>1. i.op \in FromInt => i.args[1].kind # "fp"
      BY <1>1, <1>8, FpMeans DEF IsMem
    <3> QED
      BY <1>1, <1>2, <1>3, <3>1, HasOne DEF A
  <2>3. MeantResult(i) = Term(i.op, <<A>>)
    BY <1>1, <1>8, FpMeans DEF A
  <2>4. to \in Writable(t, i)
    BY <1>1
  <2> HIDE DEF z, to, from
  <2> QED
    BY <1>1, <1>2, <2>1, <2>2, <2>3, <2>4, FpOne
<1> QED
  BY <1>5, <1>6, <1>7, <1>8

LEMMA RVOthers ==
  ASSUME NEW t, t = "riscv", NEW i, IsInstruction(t, i), ~Wrong(t, i),
         i.op \in {"alloca", "str", "load", "gep_field", "phi", "gep", "va_start", "va_arg"} \cup Effects
  PROVE  Compiled(t, i, RV!Code(i))
<1> DEFINE W == {"a0", "t0", "t1", "t6", "ft0", "ft1"}
<1>1. /\ t \in Targets /\ \A r \in W : r \in Writable(t, i) /\ r \in AllRegs(t)
      /\ \A r, q \in W : r # q => Apart(t, r, R(q))
  BY RVRegs
<1>2. CASE i.op \in {"alloca", "str"}
  <2> DEFINE name == IF i.op = "alloca" THEN "object" ELSE "string"
  <2>1. RV!Code(i) = Then(<<Set(R("t0"), name, <<>>)>>, StoreFrom(i, "t0"))
    BY <1>2, RVCode, RVSame DEF RV!Alloca, RV!Str, RV!ThroughT
  <2>2. MeantResult(i) = <<name>> /\ Pure(t, i) /\ name # "mov" /\ name # "mul"
    BY <1>1, <1>2, MeansNone
  <2> HIDE DEF name
  <2> QED
    BY <1>1, <2>1, <2>2, InNone
<1>3. CASE i.op = "load"
  <2>1. RV!Code(i) = Then(Then(LoadTo(i, 1, "t0"), <<Set(R("t0"), "load", <<R("t0")>>)>>), StoreFrom(i, "t0"))
    BY <1>3, RVCode, RVSame DEF RV!Load, RV!ThroughT, RV!LoadT, Then
  <2> QED
    BY <1>1, <1>3, <2>1, Unaries, MeansOne, InOne
<1>4. CASE i.op = "gep_field"
  <2>1. RV!Code(i) = Then(Then(LoadTo(i, 1, "t0"), <<Set(R("t0"), "add", <<R("t0"), Imm(i.n)>>)>>), StoreFrom(i, "t0"))
    BY <1>4, RVCode, RVSame DEF RV!GepField, RV!ThroughT, RV!LoadT, Then
  <2> QED
    BY <1>1, <1>4, <2>1, Unaries, MeansOne, InOne
<1>5. CASE i.op = "phi"
  <2>1. RV!Code(i) = Then(LoadTo(i, 1, "t0"), StoreFrom(i, "t0"))
    BY <1>5, RVCode, RVSame DEF RV!EdgeCopy, RV!ThroughT, RV!LoadT
  <2> QED
    BY <1>1, <1>5, <2>1, Unaries, MeansOne, InOne
<1>6. CASE i.op = "gep"
  <2> DEFINE c == Then(LoadTo(i, 1, "t0"), LoadTo(i, 2, "t1"))
             u == <<Set(R("t1"), "mul", <<R("t1"), Imm(i.n)>>), Set(R("t0"), "add", <<R("t0"), R("t1")>>)>>
  <2>1. RV!Code(i) = Then(Then(c, u), StoreFrom(i, "t0"))
    <3>1. RV!Second(i) = R("t1")
      BY <1>1, <1>6, RVSame DEF Wrong, RV!Second
    <3> QED
      BY <1>6, <3>1, RVCode, RVSame DEF RV!Gep, RV!ThroughT, RV!LoadT, RV!LoadSecond, LoadTo, Then
  <2>2. "t1" # "t0"
    OBVIOUS
  <2>3. Has2(t, i, c, R("t0"), Meant(i.args[1]), R("t1"), Meant(i.args[2]))
    BY <1>1, <1>6, <2>2, Binaries, HasTwo
  <2> HIDE DEF c
  <2> QED
    BY <1>1, <1>6, <2>1, <2>2, <2>3, InArray
<1>7. CASE i.op = "va_start"
  <2>1. Dst(i)[1] # "slot" /\ R("t0")[1] # "slot"
    BY <1>1, <1>7, NotASlot DEF Dst, Wrong
  <2> DEFINE c == <<Set(R("t0"), "list", <<>>), Set(R("t1"), "area", <<>>), Do("va_start", <<R("t0")>>)>>
  <2>2. RV!Code(i) = Then(c, <<Mov(R("t0"), Dst(i))>>)
    BY <1>7, <2>1, RVCode, RVSame DEF RV!VaStart, RV!Plain, Then
  <2>3. t \in Targets \ {"x86"} /\ "t1" # "t0"
    BY <1>1
  <2> QED
    BY <1>1, <1>7, <2>2, <2>3, StartsInReg
<1>8. CASE i.op = "va_arg"
  <2>1. Dst(i)[1] # "slot" /\ Arg(i, 1)[1] # "slot" /\ R("t0")[1] # "slot" /\ R("t1")[1] # "slot"
    BY <1>1, <1>8, NotASlot DEF Dst, Arg, Wrong
  <2> DEFINE c == <<Set(R("t6"), "area", <<R("t0")>>), Set(R("t1"), "next", <<R("t0")>>), Do("advance", <<R("t0")>>)>>
  <2>2. RV!Code(i) = Then(Then(<<Mov(Arg(i, 1), R("t0"))>>, c), <<Mov(R("t1"), Dst(i))>>)
    BY <1>8, <2>1, RVCode, RVSame DEF RV!VaArg, RV!Plain, Then
  <2>3. t \in Targets \ {"x86"} /\ "t1" # "t0" /\ "t6" # "t0"
    BY <1>1
  <2> QED
    BY <1>1, <1>8, <2>2, <2>3, TakesInReg
<1>9. CASE i.op = "store"
  <2> DEFINE c == Then(LoadTo(i, 1, "t0"), LoadTo(i, 2, "t1"))
  <2>1. RV!Code(i) = Then(c, <<Do("store", <<R("t0"), R("t1")>>)>>)
    BY <1>9, RVCode, RVSame DEF RV!Store, RV!LoadT, Then
  <2>2. "t1" # "t0"
    OBVIOUS
  <2>3. Has2(t, i, c, R("t0"), Meant(i.args[1]), R("t1"), Meant(i.args[2]))
    BY <1>1, <1>9, <2>2, Binaries, HasTwo
  <2>4. i.dst = None /\ MeantEffects(t, i) = <<Told("store", <<Meant(i.args[1]), Meant(i.args[2])>>)>>
    BY <1>1, <1>9, EffectsMeant DEF Effects
  <2> HIDE DEF c
  <2> QED
    BY <1>1, <1>9, <2>1, <2>3, <2>4, TellsTwo
<1>10. i.op # "memcpy"
  BY <1>1 DEF Wrong
<1>11. CASE i.op = "cbr"
  <2> DEFINE c == LoadTo(i, 1, "t0")
  <2>1. RV!Code(i) = Then(c, <<Do("cbr", <<R("t0")>>)>>)
    BY <1>11, RVCode, RVSame DEF RV!Cbr, RV!LoadT, Then
  <2>2. Has(t, i, c, R("t0"), Meant(i.args[1]))
    BY <1>1, <1>11, Unaries, HasOne
  <2>3. i.dst = None /\ MeantEffects(t, i) = <<Told("cbr", <<Meant(i.args[1])>>)>>
    BY <1>1, <1>11, EffectsMeant DEF Effects
  <2> HIDE DEF c
  <2> QED
    BY <1>1, <1>11, <2>1, <2>2, <2>3, TellsOne
<1>12. CASE i.op = "ret" /\ i.args # <<>>
  <2> DEFINE c == LoadTo(i, 1, "a0")
  <2>1. RV!Code(i) = Then(c, <<Do("ret", <<R("a0")>>)>>)
    BY <1>12, RVCode, RVSame DEF RV!Ret, Then
  <2>2. Has(t, i, c, R("a0"), Meant(i.args[1]))
    BY <1>1, <1>12, EffectsMeant, HasOne
  <2>3. i.dst = None /\ MeantEffects(t, i) = <<Told("ret", <<Meant(i.args[1])>>)>>
    BY <1>1, <1>12, EffectsMeant DEF Effects
  <2> HIDE DEF c
  <2> QED
    BY <1>1, <1>12, <2>1, <2>2, <2>3, TellsOne
<1>13. CASE i.op = "ret" /\ i.args = <<>>
  <2> DEFINE c == <<Mov(Imm(0), R("a0"))>>
  <2>1. RV!Code(i) = Then(c, <<Do("ret", <<R("a0")>>)>>)
    BY <1>13, RVCode, RVSame DEF RV!Ret, Then
  <2>2. Has(t, i, c, R("a0"), Imm(0))
    BY <1>1, HasImm
  <2>3. i.dst = None /\ MeantEffects(t, i) = <<Told("ret", <<Imm(0)>>)>>
    BY <1>1, <1>13, EffectsMeant DEF Effects
  <2> HIDE DEF c
  <2> QED
    BY <1>1, <1>13, <2>1, <2>2, <2>3, TellsOne
<1>14. CASE i.op \in {"br", "va_end"}
  <2>1. RV!Code(i) = <<>>
    BY <1>14, RVCode
  <2> QED
    BY <1>1, <1>14, <2>1, NothingDone
<1> QED
  BY <1>2, <1>3, <1>4, <1>5, <1>6, <1>7, <1>8, <1>9, <1>10, <1>11, <1>12, <1>13, <1>14 DEF Effects

-----------------------------------------------------------------------------
(* arm.                                                                    *)
LEMMA A32Regs ==
  ASSUME NEW t, t = "arm", NEW i
  PROVE  LET W == {"r0", "r1", "r2", "r3", "r12", "d0", "d1"}
         IN  /\ t \in Targets /\ W \subseteq Own(t)
             /\ \A r \in W : r \in Writable(t, i) /\ r \in AllRegs(t)
             /\ \A r, q \in W : r # q => Apart(t, r, R(q))
<1> DEFINE W == {"r0", "r1", "r2", "r3", "r12", "d0", "d1"}
<1>1. W \subseteq Own(t) /\ t \in Targets
  BY OwnAre DEF Targets
<1> HIDE DEF W
<1>2. \A r \in W : r \in Writable(t, i) /\ r \in AllRegs(t)
  BY <1>1, ScratchIs
<1>3. \A r, q \in W : r # q => Apart(t, r, R(q))
  BY <1>2, ApartIs
<1> QED
  BY <1>1, <1>2, <1>3 DEF W

(* The quotient is counted in r2 while r0 and r1 hold the operands.         *)
LEMMA Counts ==
  ASSUME NEW t \in Targets, NEW i, NEW c, NEW a \in Writable(t, i), NEW A, NEW b \in Writable(t, i), NEW B,
         Has2(t, i, c, R(a), A, R(b), B), a # b, NEW d \in Writable(t, i) \ {a, b}, NEW quo, NEW rem
  PROVE  LET c2 == Then(Then(Then(c, <<Set(R(d), quo, <<R(a), R(b)>>)>>), <<Set(R(b), rem, <<R(a), R(b)>>)>>), <<Mov(R(d), R(a))>>)
         IN  Has(t, i, c2, R(a), Term(quo, <<A, B>>)) /\ Has(t, i, c2, R(b), Term(rem, <<A, B>>))
<1> DEFINE c0 == Then(c, <<Set(R(d), quo, <<R(a), R(b)>>)>>)
           c1 == Then(c0, <<Set(R(b), rem, <<R(a), R(b)>>)>>)
           c2 == Then(c1, <<Mov(R(d), R(a))>>)
           x == Term(quo, <<A, B>>)
           y == Term(rem, <<A, B>>)
<1>1. PICK m : Reach(t, i, c, m) /\ Val(t, m, R(a)) = A /\ Val(t, m, R(b)) = B /\ m.seen = <<>>
  BY DEF Has2
<1>2. /\ a \in AllRegs(t) /\ b \in AllRegs(t) /\ d \in AllRegs(t)
  BY DEF Writable
<1>3. Vals(t, m, <<R(a), R(b)>>) = <<A, B>>
  BY <1>1, TwoVals
<1> DEFINE m0 == Put(m, d, x)
           m1 == Put(m0, b, y)
           m2 == Put(m1, a, x)
<1>4. Reach(t, i, c0, m0)
  BY <1>1, <1>3, ReachSet
<1>5. m0.regs[a] = A /\ m0.regs[b] = B /\ m0.regs[d] = x /\ m0.seen = <<>>
  <2> HIDE DEF x
  <2> QED
    BY <1>1, <1>2, ReachPut, ValReg
<1> HIDE DEF c0, m0
<1>6. Vals(t, m0, <<R(a), R(b)>>) = <<A, B>>
  BY <1>5, TwoVals, ValReg
<1>7. Reach(t, i, c1, m1)
  BY <1>4, <1>6, ReachSet
<1>8. m1.regs[b] = y /\ m1.regs[d] = x /\ m1.seen = <<>>
  <2> HIDE DEF x, y
  <2> QED
    BY <1>2, <1>4, <1>5, ReachPut
<1> HIDE DEF c1, m1
<1>9. Reach(t, i, c2, m2)
  <2>1. Val(t, m1, R(d)) = x
    BY <1>8, ValReg
  <2> HIDE DEF x
  <2> QED
    BY <1>7, <2>1, ReachMov
<1>10. m2.regs[a] = x /\ m2.regs[b] = y /\ m2.seen = <<>>
  <2> HIDE DEF x, y
  <2> QED
    BY <1>2, <1>7, <1>8, ReachPut
<1> HIDE DEF c2, m2, x, y
<1>11. Has(t, i, c2, R(a), x) /\ Has(t, i, c2, R(b), y)
  BY <1>9, <1>10, ValReg DEF Has
<1> QED
  BY <1>11 DEF c2, c1, c0, x, y

LEMMA A32Integers ==
  ASSUME NEW t, t = "arm", NEW i, IsInstruction(t, i),
         i.op \in Alus \cup Divisions \cup Shifts \cup Negations \cup Widths \cup {"icmp"}
  PROVE  Compiled(t, i, A32!Code(i))
<1> DEFINE w == A32!Work(i)
<1>1. /\ t \in Targets /\ "r0" \in Own(t) /\ "r1" \in Own(t) /\ "r0" # "r1"
      /\ "r0" \in Writable(t, i) /\ "r1" \in Writable(t, i) /\ "r2" \in Writable(t, i) /\ "r3" \in Writable(t, i)
  BY A32Regs
<1>2. Pure(t, i) /\ i.dst # None
  BY <1>1, MeansTwo, MeansOne DEF Pure
<1>3. w \in Writable(t, i) /\ w # "r1"
  <2>1. w = IF InReg(i.dst) THEN i.dst.reg ELSE "r0"
    BY A32Same DEF A32!Work
  <2> HIDE DEF w
  <2>2. w \in Writable(t, i) /\ \A b \in Own(t) : b # "r0" => b # w
    BY <1>1, <1>2, <2>1, WorkIs
  <2> QED
    BY <1>1, <2>2
<1>4. A32!Second(i) \in {Arg(i, 2), R("r1")}
  BY A32Same DEF A32!Second
<1>5. CASE i.op \in Alus
  <2> DEFINE by == IF IsImm(i.args[2]) /\ i.op # "mul" THEN Arg(i, 2) ELSE A32!Second(i)
  <2>1. A32!Code(i) = Then(Then(Then(LoadTo(i, 1, w), Copy(Arg(i, 2), by)), <<Set(R(w), i.op, <<R(w), by>>)>>), StoreFrom(i, w))
    BY <1>5, A32Code, A32Same DEF A32!Alu, A32!ThroughWork, A32!LoadSecond, Then
  <2>2. MeantResult(i) = Term(i.op, <<Meant(i.args[1]), Meant(i.args[2])>>)
    BY <1>1, <1>5, MeansTwo
  <2>3. 2 \in 1..Len(i.args) /\ i.args[1].kind # "fp" /\ i.args[2].kind # "fp"
    BY <1>1, <1>5, Binaries
  <2>4. by \in {Arg(i, 2), R("r1")}
    BY <1>4
  <2> HIDE DEF by, w
  <2>5. Compiled(t, i, Then(Then(Then(LoadTo(i, 1, w), Copy(Arg(i, 2), by)), <<Set(R(w), i.op, <<R(w), by>>)>>), StoreFrom(i, w)))
    BY <1>1, <1>2, <1>3, <2>2, <2>3, <2>4, InSecond
  <2> QED
    BY <2>1, <2>5
<1>6. CASE i.op \in Divisions
  <2> DEFINE c == Then(LoadTo(i, 1, "r0"), LoadTo(i, 2, "r1"))
             s1 == Set(R("r2"), Quotient(i.op), <<R("r0"), R("r1")>>)
             s2 == Set(R("r1"), Remainder(i.op), <<R("r0"), R("r1")>>)
             s3 == Mov(R("r2"), R("r0"))
             c2 == Then(Then(Then(c, <<s1>>), <<s2>>), <<s3>>)
             r == IF IsRem(i.op) THEN "r1" ELSE "r0"
             A == Meant(i.args[1])
             B == Meant(i.args[2])
  <2>1. A32!Code(i) = Then(Then(c, <<s1, s2, s3>>), StoreFrom(i, r))
    BY <1>6, A32Code, A32Same DEF A32!Divide, A32!Load0, Then
  <2>2. Has2(t, i, c, R("r0"), A, R("r1"), B)
    BY <1>1, <1>6, Binaries, HasTwo
  <2>3. MeantResult(i) = Term(i.op, <<A, B>>)
    BY <1>1, <1>6, MeansTwo
  <2> HIDE DEF c, A, B
  <2>4. Has(t, i, c2, R("r0"), Term(Quotient(i.op), <<A, B>>)) /\ Has(t, i, c2, R("r1"), Term(Remainder(i.op), <<A, B>>))
    <3>1. "r2" \in Writable(t, i) \ {"r0", "r1"}
      BY <1>1
    <3> QED
      BY <1>1, <2>2, <3>1, Counts
  <2>5. IsSeq(c)
    BY <2>2, HasSeq
  <2> HIDE DEF s1, s2, s3
  <2>6. Then(c, <<s1, s2, s3>>) = c2
    BY <2>5, ByThree
  <2> HIDE DEF c2
  <2>7. IF IsRem(i.op) THEN Remainder(i.op) = i.op ELSE Quotient(i.op) = i.op
    BY <1>6 DEF IsRem, Remainder, Quotient, Divisions
  <2>8. Has(t, i, c2, R(r), MeantResult(i)) /\ r \in Writable(t, i)
    BY <1>1, <2>3, <2>4, <2>7
  <2> HIDE DEF r
  <2>9. Compiled(t, i, Then(c2, StoreFrom(i, r)))
    BY <1>1, <1>2, <2>8, HasResult
  <2> QED
    BY <2>1, <2>6, <2>9
<1>7. CASE i.op \in Shifts
  <2> DEFINE by == A32!Second(i)
  <2>1. A32!Code(i) = Then(Then(Then(LoadTo(i, 1, w), Copy(Arg(i, 2), by)), <<Set(R(w), i.op, <<R(w), by>>)>>), StoreFrom(i, w))
    BY <1>7, A32Code, A32Same DEF A32!Shift, A32!ThroughWork, A32!LoadSecond, Then
  <2>2. MeantResult(i) = Term(i.op, <<Meant(i.args[1]), Meant(i.args[2])>>)
    BY <1>1, <1>7, MeansTwo
  <2>3. 2 \in 1..Len(i.args) /\ i.args[1].kind # "fp" /\ i.args[2].kind # "fp"
    BY <1>1, <1>7, Binaries
  <2>4. by \in {Arg(i, 2), R("r1")}
    BY <1>4
  <2> HIDE DEF by, w
  <2>5. Compiled(t, i, Then(Then(Then(LoadTo(i, 1, w), Copy(Arg(i, 2), by)), <<Set(R(w), i.op, <<R(w), by>>)>>), StoreFrom(i, w)))
    BY <1>1, <1>2, <1>3, <2>2, <2>3, <2>4, InSecond
  <2> QED
    BY <2>1, <2>5
<1>8. CASE i.op \in Negations
  <2>1. A32!Code(i) = Then(Then(LoadTo(i, 1, w), <<Set(R(w), i.op, <<R(w)>>)>>), StoreFrom(i, w))
    BY <1>8, A32Code, A32Same DEF A32!Negate, A32!ThroughWork, Then
  <2> HIDE DEF w
  <2> QED
    BY <1>1, <1>3, <1>8, <2>1, Unaries, MeansOne, InOne
<1>9. CASE i.op \in Widths
  <2>1. A32!Code(i) = Then(Then(LoadTo(i, 1, "r0"), <<Set(R("r0"), LowByte(i.op), <<R("r0")>>)>>), StoreFrom(i, "r0"))
    BY <1>9, A32Code, A32Same DEF A32!Convert, A32!Through0, A32!Load0, Then
  <2> QED
    BY <1>1, <1>9, <2>1, Unaries, MeansOne, InOne
<1>10. CASE i.op = "icmp"
  <2> DEFINE by == IF IsImm(i.args[2]) THEN Arg(i, 2) ELSE A32!Second(i)
  <2>1. A32!Code(i) = Then(Then(Then(LoadTo(i, 1, "r0"), Copy(Arg(i, 2), by)), <<Set(R("r3"), i.op, <<R("r0"), by>>)>>), StoreFrom(i, "r3"))
    BY <1>10, A32Code, A32Same DEF A32!Compare, A32!Load0, A32!LoadSecond, Then
  <2>2. MeantResult(i) = Term(i.op, <<Meant(i.args[1]), Meant(i.args[2])>>)
    BY <1>1, <1>10, MeansTwo
  <2>3. 2 \in 1..Len(i.args) /\ i.args[1].kind # "fp" /\ i.args[2].kind # "fp"
    BY <1>1, <1>10, Binaries
  <2>4. by \in {Arg(i, 2), R("r1")}
    BY <1>4
  <2> HIDE DEF by, w
  <2>5. Compiled(t, i, Then(Then(Then(LoadTo(i, 1, "r0"), Copy(Arg(i, 2), by)), <<Set(R("r3"), i.op, <<R("r0"), by>>)>>), StoreFrom(i, "r3")))
    BY <1>1, <1>2, <1>3, <2>2, <2>3, <2>4, InSecond
  <2> QED
    BY <2>1, <2>5
<1> QED
  BY <1>5, <1>6, <1>7, <1>8, <1>9, <1>10

LEMMA A32Brings ==
  ASSUME NEW t, t = "arm", NEW i, IsInstruction(t, i), NEW k \in 1..Len(i.args), FpOperand(i.args[k])
  PROVE  /\ Brings(t, i, i.args[k], A32!FpLoad(i.args[k], "d0"), "d0", "r3")
         /\ Brings(t, i, i.args[k], A32!FpLoad(i.args[k], "d1"), "d1", "d0")
<1> DEFINE o == i.args[k]
<1>0. /\ t \in Targets /\ \A r \in {"r0", "r1", "r3", "d0", "d1"} : r \in Writable(t, i) /\ r \in AllRegs(t)
  BY A32Regs
<1>1. ASSUME NEW f \in {"d0", "d1"}, NEW keep \in {"r3", "d0"} \ {f}
      PROVE  Brings(t, i, o, A32!FpLoad(o, f), f, keep)
  <2>1. /\ f \in Writable(t, i) /\ "r0" \in Writable(t, i) \ {f} /\ keep \in AllRegs(t) \ {f, "r0"} /\ keep \in AllRegs(t) \ {f}
        /\ "r1" \in Writable(t, i) \ {f, "r0", keep}
    BY <1>0
  <2>2. CASE o.kind = "fp"
    <3>1. Brings(t, i, o, <<Mov(<<"fp", o.n>>, R("r0")), Mov(<<"fp", o.n>>, R("r1")), Mov(R("r0"), R(f))>>, f, keep)
      BY <1>0, <2>1, <2>2, BringsConst
    <3> QED
      BY <2>2, <3>1, A32Same DEF A32!FpLoad
  <2>3. CASE IsMem(o)
    <3>1. Brings(t, i, o, <<Mov(Slot(o), R(f))>>, f, keep) /\ o.kind # "fp"
      BY <1>0, <2>1, <2>3, BringsSlot DEF IsMem
    <3> QED
      BY <3>1, A32Same DEF A32!FpLoad
  <2> QED
    BY <2>2, <2>3 DEF FpOperand
<1> QED
  BY <1>1

LEMMA A32Floating ==
  ASSUME NEW t, t = "arm", NEW i, IsInstruction(t, i), ~Wrong(t, i),
         i.op \in Floats \cup FromInt \cup ToInt \cup FpToFp \cup {"fneg", "fcmp"}
  PROVE  Compiled(t, i, A32!Code(i))
<1> DEFINE W == {"r0", "r1", "r3", "d0", "d1"}
           x == A32!FpLoad(i.args[1], "d0")
           y == A32!FpLoad(i.args[2], "d1")
           A == Meant(i.args[1])
           B == Meant(i.args[2])
<1>1. /\ t \in Targets /\ \A r \in W : r \in Writable(t, i) /\ r \in AllRegs(t)
  BY A32Regs
<1>2. ToSlot(t, i) /\ 1 \in 1..Len(i.args)
  BY <1>1, FpMeans
<1>3. i.op \notin FromInt => Has(t, i, x, R("d0"), A)
  <2>1. ASSUME i.op \notin FromInt PROVE Brings(t, i, i.args[1], x, "d0", "r3")
    BY <1>1, <1>2, <2>1, FpMeans, A32Brings
  <2> HIDE DEF x
  <2> QED
    BY <1>1, <2>1, FpFirst
<1>4. i.op \in Floats \cup {"fcmp"} => Has2(t, i, Then(x, y), R("d0"), A, R("d1"), B)
  <2>1. ASSUME i.op \in Floats \cup {"fcmp"}
        PROVE  Brings(t, i, i.args[1], x, "d0", "r3") /\ Brings(t, i, i.args[2], y, "d1", "d0")
    <3>1. FpOperand(i.args[1]) /\ FpOperand(i.args[2]) /\ 2 \in 1..Len(i.args)
      BY <1>1, <2>1, FpMeans DEF Floats, FromInt
    <3> QED
      BY <1>2, <3>1, A32Brings
  <2> HIDE DEF x, y
  <2> QED
    BY <1>1, <2>1, FpSecond
<1> HIDE DEF x, y, A, B
<1>5. CASE i.op \in Floats
  <2>1. A32!Code(i) = Then(Then(x, y), <<Set(R("d0"), i.op, <<R("d0"), R("d1")>>), Mov(R("d0"), Slot(i.dst))>>)
    BY <1>5, A32Code, A32Same DEF A32!FpArith, A32!FpBoth, Then, x, y
  <2>2. MeantResult(i) = Term(i.op, <<A, B>>)
    BY <1>1, <1>5, FpMeans DEF A, B
  <2> QED
    BY <1>1, <1>2, <1>4, <1>5, <2>1, <2>2, FpTwo
<1>6. CASE i.op = "fneg"
  <2>1. Has(t, i, x, R("d0"), A)
    BY <1>3, <1>6 DEF FromInt
  <2>2. A32!Code(i) = Then(x, <<Set(R("d0"), i.op, <<R("d0")>>), Mov(R("d0"), Slot(i.dst))>>)
    BY <1>6, A32Code, A32Same DEF A32!FpNegate, Then, x
  <2>3. MeantResult(i) = Term(i.op, <<A>>)
    BY <1>1, <1>6, FpMeans DEF A
  <2> QED
    BY <1>1, <1>2, <2>1, <2>2, <2>3, FpOne
<1>7. CASE i.op = "fcmp"
  <2>1. i.n = 0
    BY <1>1, <1>7 DEF Wrong
  <2>2. A32!Code(i) = Then(Then(x, y), <<Set(R("r0"), i.op, <<Imm(i.n), R("d0"), R("d1")>>), Mov(R("r0"), Slot(i.dst))>>)
    BY <1>7, <2>1, A32Code, A32Same DEF A32!FpCompare, A32!FpBoth, Then, x, y
  <2>3. MeantResult(i) = Term(i.op, <<Imm(i.n), A, B>>)
    BY <1>1, <1>7, FpMeans DEF A, B
  <2> QED
    BY <1>1, <1>2, <1>4, <1>7, <2>2, <2>3, FpTest
<1>8. CASE i.op \in FromInt \cup ToInt \cup FpToFp
  <2> DEFINE to == IF i.op \in ToInt THEN "r0" ELSE "d0"
             from == IF i.op \in FromInt THEN "r0" ELSE "d0"
             z == IF i.op \in FromInt THEN <<Mov(Arg(i, 1), R("r0"))>> ELSE x
  <2>1. A32!Code(i) = Then(z, <<Set(R(to), i.op, <<R(from)>>), Mov(R(to), Slot(i.dst))>>)
    <3>1. A32!Code(i) = A32!FpConvert(i)
      BY <1>8, A32Code
    <3>2. i.op \in FromInt => (IF IsImm(i.args[1]) THEN Arg(i, 1) ELSE Slot(i.args[1])) = Arg(i, 1)
      BY <1>1, <1>8, FpMeans DEF IsImm, IsMem, Arg, Place, InReg
    <3> QED
      BY <3>1, <3>2, A32Same DEF A32!FpConvert, Then, x
  <2>2. Has(t, i, z, R(from), A)
    <3>1. i.op \in FromInt => i.args[1].kind # "fp"
      BY <1>1, <1>8, FpMeans DEF IsMem
    <3> QED
      BY <1>1, <1>2, <1>3, <3>1, HasOne DEF A
  <2>3. MeantResult(i) = Term(i.op, <<A>>)
    BY <1>1, <1>8, FpMeans DEF A
  <2>4. to \in Writable(t, i)
    BY <1>1
  <2> HIDE DEF z, to, from
  <2> QED
    BY <1>1, <1>2, <2>1, <2>2, <2>3, <2>4, FpOne
<1> QED
  BY <1>5, <1>6, <1>7, <1>8

LEMMA A32Others ==
  ASSUME NEW t, t = "arm", NEW i, IsInstruction(t, i), ~Wrong(t, i),
         i.op \in {"alloca", "str", "load", "gep_field", "phi", "gep", "va_start", "va_arg"} \cup Effects
  PROVE  Compiled(t, i, A32!Code(i))
<1> DEFINE W == {"r0", "r1", "r2", "r3", "r12", "d0", "d1"}
<1>1. /\ t \in Targets /\ \A r \in W : r \in Writable(t, i) /\ r \in AllRegs(t)
      /\ \A r, q \in W : r # q => Apart(t, r, R(q))
  BY A32Regs
<1>2. CASE i.op \in {"alloca", "str"}
  <2> DEFINE name == IF i.op = "alloca" THEN "object" ELSE "string"
  <2>1. A32!Code(i) = Then(<<Set(R("r0"), name, <<>>)>>, StoreFrom(i, "r0"))
    BY <1>2, A32Code, A32Same DEF A32!Alloca, A32!Str, A32!Through0
  <2>2. MeantResult(i) = <<name>> /\ Pure(t, i) /\ name # "mov" /\ name # "mul"
    BY <1>1, <1>2, MeansNone
  <2> HIDE DEF name
  <2> QED
    BY <1>1, <2>1, <2>2, InNone
<1>3. CASE i.op = "load"
  <2>1. A32!Code(i) = Then(Then(LoadTo(i, 1, "r0"), <<Set(R("r0"), "load", <<R("r0")>>)>>), StoreFrom(i, "r0"))
    BY <1>3, A32Code, A32Same DEF A32!Load, A32!Through0, A32!Load0, Then
  <2> QED
    BY <1>1, <1>3, <2>1, Unaries, MeansOne, InOne
<1>4. CASE i.op = "gep_field"
  <2>1. A32!Code(i) = Then(Then(LoadTo(i, 1, "r0"), <<Set(R("r0"), "add", <<R("r0"), Imm(i.n)>>)>>), StoreFrom(i, "r0"))
    BY <1>4, A32Code, A32Same DEF A32!GepField, A32!Through0, A32!Load0, Then
  <2> QED
    BY <1>1, <1>4, <2>1, Unaries, MeansOne, InOne
<1>5. CASE i.op = "phi"
  <2>1. A32!Code(i) = Then(LoadTo(i, 1, "r0"), StoreFrom(i, "r0"))
    BY <1>5, A32Code, A32Same DEF A32!EdgeCopy, A32!Through0, A32!Load0
  <2> QED
    BY <1>1, <1>5, <2>1, Unaries, MeansOne, InOne
<1>6. CASE i.op = "gep"
  <2> DEFINE c == Then(LoadTo(i, 1, "r0"), LoadTo(i, 2, "r1"))
             u == <<Set(R("r2"), "mul", <<R("r1"), Imm(i.n)>>), Set(R("r0"), "add", <<R("r0"), R("r2")>>)>>
  <2>1. A32!Code(i) = Then(Then(c, u), StoreFrom(i, "r0"))
    <3>1. A32!Second(i) = R("r1")
      BY <1>1, <1>6, A32Same DEF Wrong, A32!Second
    <3> QED
      BY <1>6, <3>1, A32Code, A32Same DEF A32!Gep, A32!Through0, A32!Load0, A32!LoadSecond, LoadTo, Then
  <2>2. "r1" # "r0" /\ "r2" # "r0"
    OBVIOUS
  <2>3. Has2(t, i, c, R("r0"), Meant(i.args[1]), R("r1"), Meant(i.args[2]))
    BY <1>1, <1>6, <2>2, Binaries, HasTwo
  <2> HIDE DEF c
  <2> QED
    BY <1>1, <1>6, <2>1, <2>2, <2>3, InArray
<1>7. CASE i.op = "va_start"
  <2>1. Dst(i)[1] # "slot" /\ R("r12")[1] # "slot"
    BY <1>1, <1>7, NotASlot DEF Dst, Wrong
  <2> DEFINE c == <<Set(R("r12"), "list", <<>>), Set(R("r0"), "area", <<>>), Do("va_start", <<R("r12")>>)>>
  <2>2. A32!Code(i) = Then(c, <<Mov(R("r12"), Dst(i))>>)
    BY <1>7, <2>1, A32Code, A32Same DEF A32!VaStart, A32!Plain, Then
  <2>3. t \in Targets \ {"x86"} /\ "r0" # "r12"
    BY <1>1
  <2> QED
    BY <1>1, <1>7, <2>2, <2>3, StartsInReg
<1>8. CASE i.op = "va_arg"
  <2>1. Dst(i)[1] # "slot" /\ Arg(i, 1)[1] # "slot" /\ R("r12")[1] # "slot" /\ R("r2")[1] # "slot"
    BY <1>1, <1>8, NotASlot DEF Dst, Arg, Wrong
  <2> DEFINE c == <<Set(R("r0"), "area", <<R("r12")>>), Set(R("r1"), "area", <<R("r12")>>), Set(R("r2"), "next", <<R("r12")>>), Do("advance", <<R("r12")>>)>>
  <2>2. A32!Code(i) = Then(Then(<<Mov(Arg(i, 1), R("r12"))>>, c), <<Mov(R("r2"), Dst(i))>>)
    BY <1>8, <2>1, A32Code, A32Same DEF A32!VaArg, A32!Plain, Then
  <2>3. t \in Targets \ {"x86"} /\ "r2" # "r12" /\ "r0" # "r12" /\ "r1" # "r12"
    BY <1>1
  <2>4. \A d \in Writable(t, i) : d # "r12" =>
          Compiled(t, i, Then(Then(<<Mov(Arg(i, 1), R("r12"))>>,
                                   <<Set(R("r0"), "area", <<R("r12")>>), Set(R(d), "area", <<R("r12")>>),
                                     Set(R("r2"), "next", <<R("r12")>>), Do("advance", <<R("r12")>>)>>),
                              <<Mov(R("r2"), Dst(i))>>))
    BY <1>1, <1>8, <2>3, TakesInReg
  <2> QED
    BY <1>1, <2>2, <2>3, <2>4
<1>9. CASE i.op = "store"
  <2> DEFINE c == Then(LoadTo(i, 1, "r0"), LoadTo(i, 2, "r1"))
  <2>1. A32!Code(i) = Then(c, <<Do("store", <<R("r0"), R("r1")>>)>>)
    BY <1>9, A32Code, A32Same DEF A32!Store, A32!Load0, Then
  <2>2. "r1" # "r0"
    OBVIOUS
  <2>3. Has2(t, i, c, R("r0"), Meant(i.args[1]), R("r1"), Meant(i.args[2]))
    BY <1>1, <1>9, <2>2, Binaries, HasTwo
  <2>4. i.dst = None /\ MeantEffects(t, i) = <<Told("store", <<Meant(i.args[1]), Meant(i.args[2])>>)>>
    BY <1>1, <1>9, EffectsMeant DEF Effects
  <2> HIDE DEF c
  <2> QED
    BY <1>1, <1>9, <2>1, <2>3, <2>4, TellsTwo
<1>10. CASE i.op = "memcpy"
  <2> DEFINE c == Then(LoadTo(i, 1, "r2"), LoadTo(i, 2, "r3"))
  <2>1. A32!Code(i) = Then(c, <<Do("memcpy", <<R("r2"), R("r3"), Imm(i.n)>>), Set(R("r12"), "load", <<R("r3")>>)>>)
    BY <1>10, A32Code, A32Same DEF A32!Memcpy, Then
  <2>2. "r3" # "r2"
    OBVIOUS
  <2>3. Has2(t, i, c, R("r2"), Meant(i.args[1]), R("r3"), Meant(i.args[2]))
    BY <1>1, <1>10, <2>2, Binaries, HasTwo
  <2>4. i.dst = None /\ MeantEffects(t, i) = <<Told("memcpy", <<Meant(i.args[1]), Meant(i.args[2]), Imm(i.n)>>)>>
    BY <1>1, <1>10, EffectsMeant DEF Effects
  <2> HIDE DEF c
  <2> QED
    BY <1>1, <1>10, <2>1, <2>3, <2>4, TellsCopy
<1>11. CASE i.op = "cbr"
  <2> DEFINE c == LoadTo(i, 1, "r0")
  <2>1. A32!Code(i) = Then(c, <<Do("cbr", <<R("r0")>>)>>)
    BY <1>11, A32Code, A32Same DEF A32!Cbr, A32!Load0, Then
  <2>2. Has(t, i, c, R("r0"), Meant(i.args[1]))
    BY <1>1, <1>11, Unaries, HasOne
  <2>3. i.dst = None /\ MeantEffects(t, i) = <<Told("cbr", <<Meant(i.args[1])>>)>>
    BY <1>1, <1>11, EffectsMeant DEF Effects
  <2> HIDE DEF c
  <2> QED
    BY <1>1, <1>11, <2>1, <2>2, <2>3, TellsOne
<1>12. CASE i.op = "ret" /\ i.args # <<>>
  <2> DEFINE c == LoadTo(i, 1, "r0")
  <2>1. A32!Code(i) = Then(c, <<Do("ret", <<R("r0")>>)>>)
    BY <1>12, A32Code, A32Same DEF A32!Ret, A32!Load0, Then
  <2>2. Has(t, i, c, R("r0"), Meant(i.args[1]))
    BY <1>1, <1>12, EffectsMeant, HasOne
  <2>3. i.dst = None /\ MeantEffects(t, i) = <<Told("ret", <<Meant(i.args[1])>>)>>
    BY <1>1, <1>12, EffectsMeant DEF Effects
  <2> HIDE DEF c
  <2> QED
    BY <1>1, <1>12, <2>1, <2>2, <2>3, TellsOne
<1>13. CASE i.op = "ret" /\ i.args = <<>>
  <2> DEFINE c == <<Mov(Imm(0), R("r0"))>>
  <2>1. A32!Code(i) = Then(c, <<Do("ret", <<R("r0")>>)>>)
    BY <1>13, A32Code, A32Same DEF A32!Ret, Then
  <2>2. Has(t, i, c, R("r0"), Imm(0))
    BY <1>1, HasImm
  <2>3. i.dst = None /\ MeantEffects(t, i) = <<Told("ret", <<Imm(0)>>)>>
    BY <1>1, <1>13, EffectsMeant DEF Effects
  <2> HIDE DEF c
  <2> QED
    BY <1>1, <1>13, <2>1, <2>2, <2>3, TellsOne
<1>14. CASE i.op \in {"br", "va_end"}
  <2>1. A32!Code(i) = <<>>
    BY <1>14, A32Code
  <2> QED
    BY <1>1, <1>14, <2>1, NothingDone
<1> QED
  BY <1>2, <1>3, <1>4, <1>5, <1>6, <1>7, <1>8, <1>9, <1>10, <1>11, <1>12, <1>13, <1>14 DEF Effects

-----------------------------------------------------------------------------
(* x86_64: six arguments in registers, the others pushed through %rax.     *)
X64Push(i, n) ==
  LET push[k \in 0..n] ==
        IF k = 0 THEN <<>>
        ELSE push[k-1] \o <<X64!Mov(X64!Arg(i, Len(i.args) + 1 - k), X64!R("rax")), X64!Push(X64!R("rax"))>>
  IN  push
X64Pushed(i, n) == [k \in 1..n |-> <<Mov(Arg(i, Len(i.args) + 1 - k), R("rax")), Push(R("rax"))>>]

LEMMA X64Pushes ==
  ASSUME NEW i, NEW n \in Nat
  PROVE  Rounds(X64Push(i, n), n, X64Pushed(i, n))
<1> DEFINE p == X64Pushed(i, n)
           one(h, k) == h[k-1] \o <<X64!Mov(X64!Arg(i, Len(i.args) + 1 - k), X64!R("rax")), X64!Push(X64!R("rax"))>>
           Rec(h) == h = [k \in 0..n |-> IF k = 0 THEN <<>> ELSE one(h, k)]
           push == CHOOSE h : Rec(h)
<1>1. \A h : \A k \in 1..n : one(h, k) = Then(h[k-1], p[k])
  <2> TAKE h
  <2> TAKE k \in 1..n
  <2>1. p[k] = <<X64!Mov(X64!Arg(i, Len(i.args) + 1 - k), X64!R("rax")), X64!Push(X64!R("rax"))>>
    BY X64Same DEF X64Pushed
  <2> QED
    BY <2>1 DEF Then
<1>2. \A k \in 1..n : IsSeq(p[k])
  BY LiteralIs DEF X64Pushed
<1>3. X64Push(i, n) = push
  BY DEF X64Push
<1> HIDE DEF p, one
<1>4. (\E h : Recurs(h, n, p)) /\ \A h : Recurs(h, n, p) => Rounds(h, n, p)
  BY <1>2, RoundsExist
<1>5. ASSUME NEW h PROVE Rec(h) <=> Recurs(h, n, p)
  <2>1. \A k \in 0..n : k # 0 => k \in 1..n
    OBVIOUS
  <2>2. [k \in 0..n |-> IF k = 0 THEN <<>> ELSE one(h, k)] = [k \in 0..n |-> IF k = 0 THEN <<>> ELSE Then(h[k-1], p[k])]
    BY <1>1, <2>1
  <2> QED
    BY <2>2 DEF Recurs
<1>6. Rec(push)
  <2> HIDE DEF Rec
  <2> QED
    BY <1>4, <1>5
<1> HIDE DEF push, Rec
<1> QED
  BY <1>3, <1>4, <1>5, <1>6 DEF p

LEMMA X64CallIs ==
  ASSUME NEW i, NEW s, s = StackArgs(i, X64!AREG)
  PROVE  X64!Call(i) = Then(Then(Then(Then(Then(Pad(s), X64Push(i, s)[s]), LoadArgs(i, X64!AREG)),
                                      <<Invoke(InRegs(i, X64!AREG), s)>>), Back(s, s + (s % 2))), StoreFrom(i, "rax"))
<1>1. X64!StackArgs(i, X64!AREG) = s
  BY X64Same
<1> QED
  BY <1>1, X64Same DEF X64!Call, X64!ThroughA, X64Push, Pad, Back, Then

LEMMA X64Calls ==
  ASSUME NEW t, t = "x86_64", NEW i, IsInstruction(t, i), i.op = "call"
  PROVE  Compiled(t, i, X64!Code(i))
<1> DEFINE areg == X64!AREG
           s == OnStack(t, i)
           l == Len(i.args)
<1>1. t \in Targets /\ ArgRegs[t] = 6 /\ Taken(t, i) = s + (s % 2) /\ FrameBased(t) /\ Result[t] = "rax"
  BY DEF Targets, ArgRegs, Taken, FrameBased, Result
<1>2. Len(areg) = 6 /\ Spread(t, i, areg)
  <2>1. /\ Len(areg) = 6
        /\ areg[1] = "rdi" /\ areg[2] = "rsi" /\ areg[3] = "rdx" /\ areg[4] = "rcx" /\ areg[5] = "r8" /\ areg[6] = "r9"
    BY DEF X64!AREG
  <2>2. {"rdi", "rsi", "rdx", "rcx", "r8", "r9"} \subseteq Writable(t, i)
    BY DEF Writable, AllRegs, Pool, Lost, Kept, Scratch, Spoiled
  <2> HIDE DEF areg
  <2>3. \A a \in 1..6 : a \in {1, 2, 3, 4, 5, 6}
    OBVIOUS
  <2> QED
    BY <2>1, <2>2, <2>3 DEF Spread
<1>3. /\ l \in Nat /\ DOMAIN i.args = 1..l /\ s \in 0..l /\ s \in Nat
      /\ s = (IF l > 6 THEN l - 6 ELSE 0) /\ Sp0(t) \in Int
      /\ \A k \in 0..Taken(t, i) : Sp0(t) - k \in Words
  BY <1>1, ArgCounts
<1>4. s = StackArgs(i, areg)
  BY <1>2, <1>3 DEF StackArgs
<1> DEFINE h == X64Push(i, s)
           p == X64Pushed(i, s)
<1>6. Rounds(h, s, p)
  BY <1>3, X64Pushes
<1>7. ASSUME NEW k \in 1..s PROVE Pushes(t, i, l + 1 - k, p[k])
  <2>1. l + 1 - k \in DOMAIN i.args
    BY <1>3
  <2>2. "rax" \in Writable(t, i)
    BY DEF Writable, AllRegs, Pool, Lost, Kept, Scratch
  <2>3. p[k] = <<Mov(Arg(i, l + 1 - k), R("rax")), Push(R("rax"))>>
    BY DEF X64Pushed
  <2> HIDE DEF l, p
  <2> QED
    BY <1>1, <2>1, <2>2, <2>3, PushesReg
<1> HIDE DEF s, h, p, areg
<1> DEFINE c == Then(Pad(s), h[s])
           w == s + (s % 2)
<1>11. Compiled(t, i, Then(Then(Then(Then(c, LoadArgs(i, areg)), <<Invoke(InRegs(i, areg), s)>>), Back(s, w)),
                           StoreFrom(i, Result[t])))
  <2>1. s = OnStack(t, i)
    BY DEF s
  <2> QED
    BY <1>1, <1>2, <1>6, <1>7, <2>1, PaddedCall
<1> HIDE DEF c, w
<1>12. X64!Code(i) = X64!Call(i)
  BY X64Code
<1>13. X64!Call(i) = Then(Then(Then(Then(c, LoadArgs(i, areg)), <<Invoke(InRegs(i, areg), s)>>), Back(s, w)),
                          StoreFrom(i, "rax"))
  BY <1>4, X64CallIs DEF c, w, h, areg
<1> QED
  BY <1>1, <1>11, <1>12, <1>13

-----------------------------------------------------------------------------
(* x86: every argument on the stack, a constant by a push of its own.      *)
I86Push(i, n) ==
  LET pushed(k) == IF I86!IsImm(i.args[k]) THEN <<I86!Push(I86!Arg(i, k))>>
                   ELSE I86!LoadTo(i, k, "eax") \o <<I86!Push(I86!R("eax"))>>
      push[k \in 0..n] == IF k = 0 THEN <<>> ELSE push[k-1] \o pushed(n + 1 - k)
  IN  push
I86One(i, k) == IF IsImm(i.args[k]) THEN <<Push(Arg(i, k))>> ELSE Then(LoadTo(i, k, "eax"), <<Push(R("eax"))>>)
I86Pushed(i, n) == [k \in 1..n |-> I86One(i, n + 1 - k)]

LEMMA I86OneIs ==
  ASSUME NEW i, NEW k
  PROVE  IsSeq(I86One(i, k))
<1>1. LoadTo(i, k, "eax") = <<>> \/ LoadTo(i, k, "eax") = <<Mov(Arg(i, k), R("eax"))>>
  BY DEF LoadTo, Copy
<1>2. IsSeq(LoadTo(i, k, "eax"))
  BY <1>1, NoCode, OneCode
<1>3. IsSeq(Then(LoadTo(i, k, "eax"), <<Push(R("eax"))>>))
  BY <1>2, OneCode, Thens
<1> QED
  BY <1>3, OneCode DEF I86One

LEMMA I86Pushes ==
  ASSUME NEW i, NEW n \in Nat
  PROVE  Rounds(I86Push(i, n), n, I86Pushed(i, n))
<1> DEFINE p == I86Pushed(i, n)
           pushed(k) == IF I86!IsImm(i.args[k]) THEN <<I86!Push(I86!Arg(i, k))>>
                        ELSE I86!LoadTo(i, k, "eax") \o <<I86!Push(I86!R("eax"))>>
           one(h, k) == h[k-1] \o pushed(n + 1 - k)
           Rec(h) == h = [k \in 0..n |-> IF k = 0 THEN <<>> ELSE one(h, k)]
           push == CHOOSE h : Rec(h)
<1>0. \A k : pushed(k) = I86One(i, k)
  BY I86Same DEF I86One, Then
<1>1. \A h : \A k \in 1..n : one(h, k) = Then(h[k-1], p[k])
  <2> TAKE h
  <2> TAKE k \in 1..n
  <2> HIDE DEF pushed
  <2>1. p[k] = pushed(n + 1 - k)
    BY <1>0 DEF I86Pushed
  <2> QED
    BY <2>1 DEF Then
<1>2. \A k \in 1..n : IsSeq(p[k])
  BY I86OneIs DEF I86Pushed
<1>3. I86Push(i, n) = push
  BY DEF I86Push
<1> HIDE DEF p, one
<1>4. (\E h : Recurs(h, n, p)) /\ \A h : Recurs(h, n, p) => Rounds(h, n, p)
  BY <1>2, RoundsExist
<1>5. ASSUME NEW h PROVE Rec(h) <=> Recurs(h, n, p)
  <2>1. \A k \in 0..n : k # 0 => k \in 1..n
    OBVIOUS
  <2>2. [k \in 0..n |-> IF k = 0 THEN <<>> ELSE one(h, k)] = [k \in 0..n |-> IF k = 0 THEN <<>> ELSE Then(h[k-1], p[k])]
    BY <1>1, <2>1
  <2> QED
    BY <2>2 DEF Recurs
<1>6. Rec(push)
  <2> HIDE DEF Rec
  <2> QED
    BY <1>4, <1>5
<1> HIDE DEF push, Rec
<1> QED
  BY <1>3, <1>4, <1>5, <1>6 DEF p

LEMMA I86CallIs ==
  ASSUME NEW i, NEW n, n = Len(i.args)
  PROVE  I86!Call(i) = Then(Then(Then(I86Push(i, n)[n], <<Invoke(<<>>, n)>>), Back(n, n)), StoreFrom(i, "eax"))
  BY I86Same DEF I86!Call, I86!ThroughA, I86Push, Back, Then

LEMMA I86Calls ==
  ASSUME NEW t, t = "x86", NEW i, IsInstruction(t, i), i.op = "call"
  PROVE  Compiled(t, i, I86!Code(i))
<1> DEFINE n == Len(i.args)
           h == I86Push(i, n)
           p == I86Pushed(i, n)
           e == Entry(t, i)
           f == <<>>
<1>1. t \in Targets /\ ArgRegs[t] = 0 /\ Taken(t, i) = OnStack(t, i) /\ FrameBased(t) /\ Result[t] = "eax"
  BY DEF Targets, ArgRegs, Taken, FrameBased, Result
<1>2. /\ n \in Nat /\ DOMAIN i.args = 1..n /\ OnStack(t, i) = n /\ Sp0(t) \in Int
      /\ Sp0(t) - n \in Words
  <2>1. n \in Nat /\ DOMAIN i.args = 1..n /\ Sp0(t) \in Int /\ \A k \in 0..Taken(t, i) : Sp0(t) - k \in Words
    BY <1>1, ArgCounts
  <2>2. OnStack(t, i) = n
    BY <1>1, <2>1 DEF OnStack
  <2> QED
    BY <1>1, <2>1, <2>2
<1>3. Rounds(h, n, p)
  BY <1>2, I86Pushes
<1>4. ASSUME NEW k \in 1..n PROVE Pushes(t, i, n + 1 - k, p[k])
  <2> DEFINE j == n + 1 - k
  <2>1. j \in DOMAIN i.args
    BY <1>2
  <2>2. "eax" \in Writable(t, i)
    BY DEF Writable, AllRegs, Pool, Lost, Kept, Scratch
  <2>3. p[k] = I86One(i, j)
    BY DEF I86Pushed
  <2> HIDE DEF j
  <2>4. Pushes(t, i, j, I86One(i, j))
    <3>1. CASE IsImm(i.args[j])
      BY <1>1, <2>1, <3>1, PushesConst DEF I86One
    <3>2. CASE ~IsImm(i.args[j])
      BY <1>1, <2>1, <2>2, <3>2, PushesReg DEF I86One
    <3> QED
      BY <3>1, <3>2
  <2> QED
    BY <2>3, <2>4 DEF j
<1>5. IsSeq(h[n])
  <2>1. \A k \in 1..n : IsSeq(p[k])
    BY <1>4 DEF Pushes
  <2> HIDE DEF h, p
  <2>2. \A k \in 0..n : IsSeq(h[k])
    BY <1>2, <1>3, <2>1, RoundsSeq
  <2> QED
    BY <1>2, <2>2
<1>6. Calling(t, i, <<>>, e) /\ e.sp = Sp0(t)
  BY <1>1, CallingNone, EntryIs
<1> HIDE DEF n, h, p, e
<1>7. PICK m : Calling(t, i, Then(<<>>, h[n]), m) /\ m.sp = e.sp - n /\ Stacked(t, i, n, m)
  <2>1. e.sp <= Sp0(t) /\ e.sp - n \in Words /\ n \in 0..n /\ n \in 0..Len(i.args) /\ Len(i.args) \in Nat
    BY <1>2, <1>6 DEF n
  <2>2. \A k \in 1..n : Readable(t, i, n + 1 - k, e) /\ (k > 1 => FrameBased(t) \/ ~IsMem(i.args[n + 1 - k]))
    BY <1>1 DEF Readable
  <2> DEFINE c == <<>>
  <2>3. Calling(t, i, c, e)
    BY <1>6
  <2> HIDE DEF c
  <2>4. \E m : Calling(t, i, Then(c, h[n]), m) /\ m.sp = e.sp - n /\ Stacked(t, i, n, m)
    BY <1>1, <1>3, <1>4, <2>1, <2>2, <2>3, CallingPushes DEF n
  <2> QED
    BY <2>4 DEF c
<1>8. Calling(t, i, h[n], m) /\ m.sp + n = Sp0(t) /\ (n = 0 => m.sp = Sp0(t))
  BY <1>2, <1>5, <1>6, <1>7, Thens
<1>9. Compiled(t, i, Then(Then(Then(h[n], <<Invoke(f, n)>>), Back(n, n)), StoreFrom(i, Result[t])))
  <2>1. IsSeq(f) /\ Len(f) = n - n
    BY <1>2, NoCode
  <2>2. \A a \in 1..(n - n) : Val(t, m, f[a]) = Meant(i.args[a])
    BY <1>2
  <2> HIDE DEF f
  <2> DEFINE c == h[n]
  <2> HIDE DEF c
  <2>3. Calling(t, i, c, m) /\ n \in 0..Len(i.args) /\ Len(i.args) \in Nat /\ DOMAIN i.args = 1..Len(i.args) /\ n = Len(i.args)
    BY <1>2, <1>8 DEF c, n
  <2>4. Compiled(t, i, Then(Then(Then(c, <<Invoke(f, n)>>), Back(n, n)), StoreFrom(i, Result[t])))
    <3>1. InRegisters(t, i, n, m, f)
      BY <2>1, <2>2, <2>3 DEF InRegisters
    <3> QED
      BY <1>1, <1>7, <1>8, <2>3, <3>1, CallFinish
  <2> QED
    BY <2>4 DEF c
<1>10. I86!Code(i) = I86!Call(i)
  BY I86Code
<1>11. I86!Call(i) = Then(Then(Then(h[n], <<Invoke(f, n)>>), Back(n, n)), StoreFrom(i, "eax"))
  BY I86CallIs DEF h, n
<1> QED
  BY <1>1, <1>9, <1>10, <1>11

-----------------------------------------------------------------------------
(* arm: four arguments in registers, the others pushed through r0.         *)
A32Push(i, n) ==
  LET push[k \in 0..n] ==
        IF k = 0 THEN <<>>
        ELSE push[k-1] \o A32!LoadTo(i, Len(i.args) + 1 - k, "r0") \o <<A32!Push(A32!R("r0"))>>
  IN  push
Loading(i, n, r) == [k \in 1..n |-> LoadTo(i, Len(i.args) + 1 - k, r)]
A32Pushing(n) == [k \in 1..n |-> <<Push(R("r0"))>>]
A32Pushed(i, n) == [k \in 1..n |-> Then(Loading(i, n, "r0")[k], A32Pushing(n)[k])]

LEMMA LoadingIs ==
  ASSUME NEW i, NEW n \in Nat, NEW r
  PROVE  \A k \in 1..n : IsSeq(Loading(i, n, r)[k])
<1> TAKE k \in 1..n
<1> DEFINE p == Loading(i, n, r)
<1>1. p[k] = <<>> \/ p[k] = <<Mov(Arg(i, Len(i.args) + 1 - k), R(r))>>
  BY DEF Loading, LoadTo, Copy
<1> QED
  BY <1>1, NoCode, OneCode

LEMMA A32Pushes ==
  ASSUME NEW i, NEW n \in Nat
  PROVE  Rounds(A32Push(i, n), n, A32Pushed(i, n))
<1> DEFINE p == Loading(i, n, "r0")
           q == A32Pushing(n)
           one(h, k) == h[k-1] \o A32!LoadTo(i, Len(i.args) + 1 - k, "r0") \o <<A32!Push(A32!R("r0"))>>
           Rec(h) == h = [k \in 0..n |-> IF k = 0 THEN <<>> ELSE one(h, k)]
           push == CHOOSE h : Rec(h)
<1>1. \A h : \A k \in 1..n : one(h, k) = Then(Then(h[k-1], p[k]), q[k])
  <2> TAKE h
  <2> TAKE k \in 1..n
  <2>1. p[k] = A32!LoadTo(i, Len(i.args) + 1 - k, "r0") /\ q[k] = <<A32!Push(A32!R("r0"))>>
    BY A32Same DEF Loading, A32Pushing
  <2> QED
    BY <2>1 DEF Then
<1>2. \A k \in 1..n : IsSeq(p[k]) /\ IsSeq(q[k])
  BY LoadingIs, OneCode DEF A32Pushing
<1>3. A32Push(i, n) = push
  BY DEF A32Push
<1> HIDE DEF p, q, one
<1> DEFINE b == [k \in 1..n |-> Then(p[k], q[k])]
<1>4. (\E h : Recurs2(h, n, p, q)) /\ \A h : Recurs2(h, n, p, q) => Rounds(h, n, b)
  BY <1>2, RoundsExist2
<1> HIDE DEF b
<1>5. ASSUME NEW h PROVE Rec(h) <=> Recurs2(h, n, p, q)
  <2>1. \A k \in 0..n : k # 0 => k \in 1..n
    OBVIOUS
  <2>2. [k \in 0..n |-> IF k = 0 THEN <<>> ELSE one(h, k)]
          = [k \in 0..n |-> IF k = 0 THEN <<>> ELSE Then(Then(h[k-1], p[k]), q[k])]
    BY <1>1, <2>1
  <2> QED
    BY <2>2 DEF Recurs2
<1>6. Rec(push)
  <2> HIDE DEF Rec
  <2> QED
    BY <1>4, <1>5
<1> HIDE DEF push, Rec
<1>7. b = A32Pushed(i, n)
  BY DEF b, p, q, A32Pushed
<1> QED
  BY <1>3, <1>4, <1>5, <1>6, <1>7

LEMMA A32CallIs ==
  ASSUME NEW i, NEW s, s = StackArgs(i, A32!AREG)
  PROVE  A32!Call(i) = Then(Then(Then(Then(Then(Pad(s), A32Push(i, s)[s]), LoadArgs(i, A32!AREG)),
                                      <<Invoke(InRegs(i, A32!AREG), s)>>), Back(s, s + (s % 2))), StoreFrom(i, "r0"))
<1>1. A32!StackArgs(i, A32!AREG) = s
  BY A32Same
<1> QED
  BY <1>1, A32Same DEF A32!Call, A32!Through0, A32Push, Pad, Back, Then

LEMMA A32Calls ==
  ASSUME NEW t, t = "arm", NEW i, IsInstruction(t, i), i.op = "call", ~Wrong(t, i)
  PROVE  Compiled(t, i, A32!Code(i))
<1> DEFINE areg == A32!AREG
           s == OnStack(t, i)
           l == Len(i.args)
<1>1. t \in Targets /\ ArgRegs[t] = 4 /\ Taken(t, i) = s + (s % 2) /\ Result[t] = "r0"
  BY DEF Targets, ArgRegs, Taken, Result
<1>2. Len(areg) = 4 /\ Spread(t, i, areg)
  <2>1. Len(areg) = 4 /\ areg[1] = "r0" /\ areg[2] = "r1" /\ areg[3] = "r2" /\ areg[4] = "r3"
    BY DEF A32!AREG
  <2>2. {"r0", "r1", "r2", "r3"} \subseteq Writable(t, i)
    BY DEF Writable, AllRegs, Pool, Lost, Kept, Scratch, Spoiled
  <2> HIDE DEF areg
  <2>3. \A a \in 1..4 : a \in {1, 2, 3, 4}
    OBVIOUS
  <2> QED
    BY <2>1, <2>2, <2>3 DEF Spread
<1>3. l \in Nat /\ DOMAIN i.args = 1..l /\ s \in 0..l /\ s \in Nat /\ s = (IF l > 4 THEN l - 4 ELSE 0)
  BY <1>1, ArgCounts
<1>4. s = StackArgs(i, areg)
  BY <1>2, <1>3 DEF StackArgs
<1>5. s = 0 \/ \A a \in DOMAIN i.args : IsMem(i.args[a]) => a = Len(i.args) /\ s % 2 = 0
  <2>1. s = 0 \/ s > 0
    BY <1>3
  <2> QED
    BY <2>1 DEF Wrong, ReadsLastFirst
<1> DEFINE h == A32Push(i, s)
           p == A32Pushed(i, s)
<1>6. Rounds(h, s, p)
  BY <1>3, A32Pushes
<1>7. ASSUME NEW k \in 1..s PROVE Pushes(t, i, l + 1 - k, p[k])
  <2>1. l + 1 - k \in DOMAIN i.args
    BY <1>3
  <2>2. "r0" \in Writable(t, i)
    BY DEF Writable, AllRegs, Pool, Lost, Kept, Scratch
  <2>3. p[k] = Then(LoadTo(i, l + 1 - k, "r0"), <<Push(R("r0"))>>)
    BY DEF A32Pushed, Loading, A32Pushing
  <2> HIDE DEF l, p
  <2> QED
    BY <1>1, <2>1, <2>2, <2>3, PushesReg
<1> HIDE DEF s, h, p, areg
<1> DEFINE c == Then(Pad(s), h[s])
           w == s + (s % 2)
<1>11. Compiled(t, i, Then(Then(Then(Then(c, LoadArgs(i, areg)), <<Invoke(InRegs(i, areg), s)>>), Back(s, w)),
                           StoreFrom(i, Result[t])))
  <2>1. s = OnStack(t, i)
    BY DEF s
  <2> QED
    BY <1>1, <1>2, <1>5, <1>6, <1>7, <2>1, PaddedCall
<1> HIDE DEF c, w
<1>12. A32!Code(i) = A32!Call(i)
  BY A32Code
<1>13. A32!Call(i) = Then(Then(Then(Then(c, LoadArgs(i, areg)), <<Invoke(InRegs(i, areg), s)>>), Back(s, w)),
                          StoreFrom(i, "r0"))
  BY <1>4, A32CallIs DEF c, w, h, areg
<1> QED
  BY <1>1, <1>11, <1>12, <1>13

-----------------------------------------------------------------------------
(* arm64: eight arguments in registers, the ninth in the lower of two      *)
(* words.                                                                  *)
A64Push(i, n) ==
  LET push[k \in 0..n] ==
        IF k = 0 THEN <<>>
        ELSE push[k-1] \o A64!LoadTo(i, Len(i.args) + 1 - k, "x9") \o <<A64!MoveSp(-1), A64!Push(A64!R("x9"))>>
  IN  push
A64Pushing(n) == [k \in 1..n |-> <<MoveSp(-1), Push(R("x9"))>>]
A64Pushed(i, n) == [k \in 1..n |-> Then(Loading(i, n, "x9")[k], A64Pushing(n)[k])]

LEMMA A64Pushes ==
  ASSUME NEW i, NEW n \in Nat
  PROVE  Rounds(A64Push(i, n), n, A64Pushed(i, n))
<1> DEFINE p == Loading(i, n, "x9")
           q == A64Pushing(n)
           one(h, k) == h[k-1] \o A64!LoadTo(i, Len(i.args) + 1 - k, "x9") \o <<A64!MoveSp(-1), A64!Push(A64!R("x9"))>>
           Rec(h) == h = [k \in 0..n |-> IF k = 0 THEN <<>> ELSE one(h, k)]
           push == CHOOSE h : Rec(h)
<1>1. \A h : \A k \in 1..n : one(h, k) = Then(Then(h[k-1], p[k]), q[k])
  <2> TAKE h
  <2> TAKE k \in 1..n
  <2>1. p[k] = A64!LoadTo(i, Len(i.args) + 1 - k, "x9") /\ q[k] = <<A64!MoveSp(-1), A64!Push(A64!R("x9"))>>
    BY A64Same DEF Loading, A64Pushing
  <2> QED
    BY <2>1 DEF Then
<1>2. \A k \in 1..n : IsSeq(p[k]) /\ IsSeq(q[k])
  BY LoadingIs, LiteralIs DEF A64Pushing
<1>3. A64Push(i, n) = push
  BY DEF A64Push
<1> HIDE DEF p, q, one
<1> DEFINE b == [k \in 1..n |-> Then(p[k], q[k])]
<1>4. (\E h : Recurs2(h, n, p, q)) /\ \A h : Recurs2(h, n, p, q) => Rounds(h, n, b)
  BY <1>2, RoundsExist2
<1> HIDE DEF b
<1>5. ASSUME NEW h PROVE Rec(h) <=> Recurs2(h, n, p, q)
  <2>1. \A k \in 0..n : k # 0 => k \in 1..n
    OBVIOUS
  <2>2. [k \in 0..n |-> IF k = 0 THEN <<>> ELSE one(h, k)]
          = [k \in 0..n |-> IF k = 0 THEN <<>> ELSE Then(Then(h[k-1], p[k]), q[k])]
    BY <1>1, <2>1
  <2> QED
    BY <2>2 DEF Recurs2
<1>6. Rec(push)
  <2> HIDE DEF Rec
  <2> QED
    BY <1>4, <1>5
<1> HIDE DEF push, Rec
<1>7. b = A64Pushed(i, n)
  BY DEF b, p, q, A64Pushed
<1> QED
  BY <1>3, <1>4, <1>5, <1>6, <1>7

LEMMA A64CallIs ==
  ASSUME NEW i, NEW s, s = StackArgs(i, A64!AREG)
  PROVE  A64!Call(i) = Then(Then(Then(Then(A64Push(i, s)[s], LoadArgs(i, A64!AREG)),
                                      <<Invoke(InRegs(i, A64!AREG), s)>>), Back(s, 2 * s)), StoreFrom(i, "x0"))
<1>1. A64!StackArgs(i, A64!AREG) = s
  BY A64Same
<1> QED
  BY <1>1, A64Same DEF A64!Call, A64!Through0, A64Push, Back, Then

LEMMA CallingNinth ==
  ASSUME NEW t \in Targets, NEW i, IsInstruction(t, i), i.op = "call", NEW r \in Writable(t, i),
         Len(i.args) \in DOMAIN i.args, Sp0(t) \in Int, Sp0(t) - 1 \in Words, Sp0(t) - 2 \in Words
  PROVE  \E m : /\ Calling(t, i, Then(LoadTo(i, Len(i.args), r), <<MoveSp(-1), Push(R(r))>>), m)
                /\ m.sp = Sp0(t) - 2 /\ m.mem[m.sp] = Meant(i.args[Len(i.args)])
<1> DEFINE e == Entry(t, i)
           n == Len(i.args)
           x == LoadTo(i, n, r)
           A == Meant(i.args[n])
           m1 == Put(e, r, A)
           c == <<>>
<1>1. Calling(t, i, c, e) /\ e.sp = Sp0(t)
  BY CallingNone, EntryIs
<1>2. n \in 1..Len(i.args) /\ i.args[n].kind # "fp"
  BY CallOperand
<1>3. IsSeq(x)
  <2>1. x = <<>> \/ x = <<Mov(Arg(i, n), R(r))>>
    BY DEF LoadTo, Copy
  <2> QED
    BY <2>1, NoCode, OneCode
<1>4. Then(c, x) = x
  BY <1>3, Thens
<1>5. Sane(t, e) /\ r \in AllRegs(t)
  BY EntryIs DEF Intact, Writable
<1>6. Readable(t, i, n, e)
  BY <1>1 DEF Readable
<1> HIDE DEF c, e
<1>7. Calling(t, i, x, m1)
  <2>1. Calling(t, i, Then(c, LoadTo(i, n, r)), Put(e, r, Meant(i.args[n])))
    BY <1>1, <1>2, <1>6, CallingLoads
  <2> QED
    BY <1>4, <2>1
<1>8. m1.sp = Sp0(t) /\ m1.regs[r] = A
  <2> HIDE DEF A
  <2> QED
    BY <1>1, <1>5, PutIs
<1> HIDE DEF x, m1, A
<1>9. PICK m2 : Calling(t, i, Then(x, <<MoveSp(-1)>>), m2) /\ m2.sp = Sp0(t) - 1 /\ m2.regs = m1.regs
  <2>1. m1.sp + (-1) = Sp0(t) - 1 /\ m1.sp + (-1) \in Words
    BY <1>8
  <2>2. \E m2 : Calling(t, i, Then(x, <<MoveSp(-1)>>), m2) /\ m2.sp = m1.sp + (-1) /\ m2.mem = m1.mem /\ m2.regs = m1.regs
    BY <1>7, <2>1, CallingMove
  <2> QED
    BY <2>1, <2>2
<1> DEFINE c2 == Then(x, <<MoveSp(-1)>>)
<1>10. PICK m3 : /\ Calling(t, i, Then(c2, <<Push(R(r))>>), m3) /\ m3.sp = m2.sp - 1
                 /\ m3.mem[m2.sp - 1] = Val(t, m2, R(r))
  <2>1. m2.sp - 1 \in Words /\ m2.sp <= Sp0(t)
    BY <1>9
  <2>2. Calling(t, i, c2, m2)
    BY <1>9
  <2> HIDE DEF c2
  <2>3. \A d : \E m3 : /\ Calling(t, i, Then(c2, <<Push(d)>>), m3) /\ m3.sp = m2.sp - 1 /\ m3.regs = m2.regs
                       /\ m3.mem[m2.sp - 1] = Val(t, m2, d) /\ \A w \in Words : w # m2.sp - 1 => m3.mem[w] = m2.mem[w]
    BY <2>1, <2>2, CallingPush
  <2> QED
    BY <2>3
<1>11. Then(c2, <<Push(R(r))>>) = Then(x, <<MoveSp(-1), Push(R(r))>>)
  BY <1>3, ByTwo
<1>12. Val(t, m2, R(r)) = A
  BY <1>8, <1>9 DEF Val, R
<1>13. m3.sp = Sp0(t) - 2 /\ m3.mem[m3.sp] = A
  BY <1>9, <1>10, <1>12
<1> HIDE DEF c2
<1> QED
  BY <1>10, <1>11, <1>13 DEF x, A, n

LEMMA A64Calls ==
  ASSUME NEW t, t = "arm64", NEW i, IsInstruction(t, i), i.op = "call", ~Wrong(t, i)
  PROVE  Compiled(t, i, A64!Code(i))
<1> DEFINE areg == A64!AREG
           s == OnStack(t, i)
           l == Len(i.args)
<1>1. t \in Targets /\ ArgRegs[t] = 8 /\ Taken(t, i) = 2 * s /\ Result[t] = "x0"
  BY DEF Targets, ArgRegs, Taken, Result
<1>2. Len(areg) = 8 /\ Spread(t, i, areg)
  <2>1. /\ Len(areg) = 8 /\ areg[1] = "x0" /\ areg[2] = "x1" /\ areg[3] = "x2" /\ areg[4] = "x3"
        /\ areg[5] = "x4" /\ areg[6] = "x5" /\ areg[7] = "x6" /\ areg[8] = "x7"
    BY DEF A64!AREG
  <2>2. {"x0", "x1", "x2", "x3", "x4", "x5", "x6", "x7"} \subseteq Writable(t, i)
    BY DEF Writable, AllRegs, Pool, Lost, Kept, Scratch, Spoiled
  <2> HIDE DEF areg
  <2>3. \A a \in 1..8 : a \in {1, 2, 3, 4, 5, 6, 7, 8}
    OBVIOUS
  <2> QED
    BY <2>1, <2>2, <2>3 DEF Spread
<1>3. /\ l \in Nat /\ DOMAIN i.args = 1..l /\ s \in 0..l /\ s \in Nat /\ s = (IF l > 8 THEN l - 8 ELSE 0)
      /\ Sp0(t) \in Int /\ \A k \in 0..Taken(t, i) : Sp0(t) - k \in Words
  <2>1. l \in Nat /\ DOMAIN i.args = 1..l /\ s \in 0..l /\ s \in Nat /\ s = (IF l > 8 THEN l - 8 ELSE 0)
    <3>1. t \in Targets /\ ArgRegs[t] = 8
      BY <1>1
    <3> QED
      BY <3>1, ArgCounts
  <2>2. Sp0(t) \in Int /\ \A k \in 0..Taken(t, i) : Sp0(t) - k \in Words
    BY <1>1, ArgCounts
  <2> QED
    BY <2>1, <2>2
<1>4. s = StackArgs(i, areg)
  BY <1>2, <1>3 DEF StackArgs
<1>5. s \in {0, 1} /\ (s = 0 \/ \A a \in DOMAIN i.args : IsMem(i.args[a]) => a = l)
  <2>1. ~(s > 1) /\ (s > 0 => \A a \in DOMAIN i.args : IsMem(i.args[a]) => a = l)
    BY DEF Wrong, ReadsLastFirst
  <2> QED
    BY <1>3, <2>1
<1> DEFINE h == A64Push(i, s)
           p == A64Pushed(i, s)
<1>6. Rounds(h, s, p)
  BY <1>3, A64Pushes
<1>7. s = 1 => p[1] = Then(LoadTo(i, l, "x9"), <<MoveSp(-1), Push(R("x9"))>>)
  <2>1. l + 1 - 1 = l
    BY <1>3
  <2> QED
    BY <2>1 DEF A64Pushed, Loading, A64Pushing
<1> HIDE DEF s, h, p, areg, l
<1>8. \E m : Calling(t, i, h[s], m) /\ m.sp + 2 * s = Sp0(t) /\ (s = 0 => m.sp = Sp0(t)) /\ Stacked(t, i, s, m)
  <2>1. CASE s = 0
    <3>1. h[s] = <<>>
      BY <1>6, <2>1 DEF Rounds
    <3>2. Calling(t, i, <<>>, Entry(t, i)) /\ Entry(t, i).sp = Sp0(t)
      BY <1>1, CallingNone, EntryIs
    <3>3. Stacked(t, i, s, Entry(t, i))
      BY <2>1 DEF Stacked
    <3> QED
      BY <1>3, <2>1, <3>1, <3>2, <3>3
  <2>2. CASE s = 1
    <3>1. Sp0(t) - 1 \in Words /\ Sp0(t) - 2 \in Words /\ l \in 1..l
      BY <1>1, <1>3, <2>2
    <3>2. "x9" \in Writable(t, i)
      BY DEF Writable, AllRegs, Pool, Lost, Kept, Scratch
    <3> DEFINE y == Then(LoadTo(i, l, "x9"), <<MoveSp(-1), Push(R("x9"))>>)
    <3>3. PICK m : Calling(t, i, y, m) /\ m.sp = Sp0(t) - 2 /\ m.mem[m.sp] = Meant(i.args[l])
      BY <1>1, <1>3, <3>1, <3>2, CallingNinth DEF l
    <3>4. IsSeq(y)
      BY <3>3, CallingSeq
    <3> HIDE DEF y
    <3>5. h[s] = y
      <4>1. p[1] = y
        BY <1>7, <2>2 DEF y
      <4>2. h[1] = Then(<<>>, p[1])
        <5>1. 1 \in 1..s /\ 1 - 1 = 0
          BY <2>2
        <5> QED
          BY <1>6, <5>1 DEF Rounds
      <4> QED
        BY <2>2, <3>4, <4>1, <4>2, Thens
    <3>6. m.sp \in Int /\ m.sp + 2 * s = Sp0(t)
      BY <1>3, <2>2, <3>3
    <3>7. Stacked(t, i, s, m)
      <4> SUFFICES ASSUME NEW k \in 1..s PROVE m.mem[m.sp + k - 1] = Meant(i.args[l - s + k])
        BY DEF Stacked, l
      <4>1. m.sp + k - 1 = m.sp /\ l - s + k = l
        BY <1>3, <2>2, <3>6
      <4> QED
        BY <3>3, <4>1
    <3> QED
      BY <2>2, <3>3, <3>5, <3>6, <3>7
  <2> QED
    BY <1>5, <2>1, <2>2
<1>9. PICK m : Calling(t, i, h[s], m) /\ m.sp + 2 * s = Sp0(t) /\ (s = 0 => m.sp = Sp0(t)) /\ Stacked(t, i, s, m)
  BY <1>8
<1>10. ASSUME NEW a \in 1..Len(areg), a \in DOMAIN i.args PROVE Readable(t, i, a, m)
  <2>1. CASE s = 0
    BY <1>9, <2>1 DEF Readable
  <2>2. CASE s # 0
    <3>1. a # l
      BY <1>2, <1>3, <2>2
    <3> QED
      BY <1>5, <1>10, <2>2, <3>1 DEF Readable
  <2> QED
    BY <2>1, <2>2
<1> DEFINE c == h[s]
           w == 2 * s
<1>11. Calling(t, i, c, m) /\ m.sp + w = Sp0(t) /\ s = OnStack(t, i)
  BY <1>9 DEF s
<1> HIDE DEF c, w
<1>12. Compiled(t, i, Then(Then(Then(Then(c, LoadArgs(i, areg)), <<Invoke(InRegs(i, areg), s)>>), Back(s, w)),
                           StoreFrom(i, Result[t])))
  BY <1>1, <1>2, <1>9, <1>10, <1>11, CallTail
<1>13. A64!Code(i) = A64!Call(i)
  BY A64Code
<1>14. A64!Call(i) = Then(Then(Then(Then(c, LoadArgs(i, areg)), <<Invoke(InRegs(i, areg), s)>>), Back(s, w)),
                          StoreFrom(i, "x0"))
  BY <1>4, A64CallIs DEF c, w, h, areg
<1> QED
  BY <1>1, <1>12, <1>13, <1>14

-----------------------------------------------------------------------------
(* riscv: sp moves first, then the others are stored above it.             *)
RVPut(i, n) ==
  LET put[k \in 0..n] ==
        IF k = 0 THEN <<>>
        ELSE put[k-1] \o RV!LoadTo(i, Len(RV!AREG) + k, "t0") \o <<RV!Mov(RV!R("t0"), RV!AboveSp(k - 1))>>
  IN  put
RVLoading(i, n) == [k \in 1..n |-> LoadTo(i, 8 + k, "t0")]
RVStoring(n) == [k \in 1..n |-> <<Mov(R("t0"), AboveSp(k - 1))>>]
RVStored(i, n) == [k \in 1..n |-> Then(RVLoading(i, n)[k], RVStoring(n)[k])]

LEMMA RVAreg == Len(RV!AREG) = 8
  BY DEF RV!AREG

LEMMA RVPuts ==
  ASSUME NEW i, NEW n \in Nat
  PROVE  Rounds(RVPut(i, n), n, RVStored(i, n)) /\ \A k \in 1..n : IsSeq(RVStored(i, n)[k])
<1> DEFINE p == RVLoading(i, n)
           q == RVStoring(n)
           one(h, k) == h[k-1] \o RV!LoadTo(i, Len(RV!AREG) + k, "t0") \o <<RV!Mov(RV!R("t0"), RV!AboveSp(k - 1))>>
           Rec(h) == h = [k \in 0..n |-> IF k = 0 THEN <<>> ELSE one(h, k)]
           put == CHOOSE h : Rec(h)
<1>1. \A h : \A k \in 1..n : one(h, k) = Then(Then(h[k-1], p[k]), q[k])
  <2> TAKE h
  <2> TAKE k \in 1..n
  <2>1. p[k] = RV!LoadTo(i, Len(RV!AREG) + k, "t0") /\ q[k] = <<RV!Mov(RV!R("t0"), RV!AboveSp(k - 1))>>
    BY RVAreg, RVSame DEF RVLoading, RVStoring
  <2> QED
    BY <2>1 DEF Then
<1>2. \A k \in 1..n : IsSeq(p[k]) /\ IsSeq(q[k])
  <2> TAKE k \in 1..n
  <2>1. p[k] = <<>> \/ p[k] = <<Mov(Arg(i, 8 + k), R("t0"))>>
    BY DEF RVLoading, LoadTo, Copy
  <2>2. IsSeq(p[k])
    BY <2>1, NoCode, OneCode
  <2> QED
    BY <2>2, OneCode DEF RVStoring
<1>3. RVPut(i, n) = put
  BY DEF RVPut
<1> HIDE DEF p, q, one
<1> DEFINE b == [k \in 1..n |-> Then(p[k], q[k])]
<1>4. \A k \in 1..n : IsSeq(b[k])
  <2>1. \A k \in 1..n : b[k] = Then(p[k], q[k])
    OBVIOUS
  <2> QED
    BY <1>2, <2>1, Thens
<1>5. (\E h : Recurs2(h, n, p, q)) /\ \A h : Recurs2(h, n, p, q) => Rounds(h, n, b)
  BY <1>2, RoundsExist2
<1> HIDE DEF b
<1>6. ASSUME NEW h PROVE Rec(h) <=> Recurs2(h, n, p, q)
  <2>1. \A k \in 0..n : k # 0 => k \in 1..n
    OBVIOUS
  <2>2. [k \in 0..n |-> IF k = 0 THEN <<>> ELSE one(h, k)]
          = [k \in 0..n |-> IF k = 0 THEN <<>> ELSE Then(Then(h[k-1], p[k]), q[k])]
    BY <1>1, <2>1
  <2> QED
    BY <2>2 DEF Recurs2
<1>7. Rec(put)
  <2> HIDE DEF Rec
  <2> QED
    BY <1>5, <1>6
<1> HIDE DEF put, Rec
<1>8. b = RVStored(i, n)
  BY DEF b, p, q, RVStored
<1> QED
  BY <1>3, <1>4, <1>5, <1>6, <1>7, <1>8

LEMMA RVCallIs ==
  ASSUME NEW i, NEW s, s = StackArgs(i, RV!AREG)
  PROVE  RV!Call(i) = Then(Then(Then(Then(Then(Back(s, -(s + (s % 2))), RVPut(i, s)[s]), LoadArgs(i, RV!AREG)),
                                     <<Invoke(InRegs(i, RV!AREG), s)>>), Back(s, s + (s % 2))), StoreFrom(i, "a0"))
<1>1. RV!StackArgs(i, RV!AREG) = s
  BY RVSame
<1> QED
  BY <1>1, RVSame DEF RV!Call, RV!Through, RVPut, Back, Then

LEMMA CallingPuts ==
  ASSUME NEW t \in Targets, NEW i, IsInstruction(t, i), i.op = "call", "t0" \in Writable(t, i),
         NEW s \in Nat, NEW h, Rounds(h, s, RVStored(i, s)), \A k \in 1..s : IsSeq(RVStored(i, s)[k]),
         NEW c, NEW m, Calling(t, i, c, m),
         \A k \in 1..s : /\ 8 + k \in DOMAIN i.args /\ ~IsMem(i.args[8 + k])
                         /\ m.sp + (k - 1) \in Words /\ m.sp + (k - 1) < Sp0(t)
  PROVE  \E m2 : /\ Calling(t, i, Then(c, h[s]), m2) /\ m2.sp = m.sp
                 /\ \A k \in 1..s : m2.mem[m.sp + (k - 1)] = Meant(i.args[8 + k])
<1> DEFINE b == m.sp
           p == RVStored(i, s)
           Ok(j, m2) == /\ Calling(t, i, Then(c, h[j]), m2) /\ m2.sp = b
                        /\ \A k \in 1..j : m2.mem[b + (k - 1)] = Meant(i.args[8 + k])
           S == {j \in 0..s : \E m2 : Ok(j, m2)}
<1>1. IsSeq(c) /\ b \in Int
  <2>1. IsSeq(c) /\ b \in Words
    BY CallingSeq
  <2> QED
    BY <2>1, BoundsAssumption DEF Words
<1>2. \A k \in 1..s : p[k] = Then(LoadTo(i, 8 + k, "t0"), <<Mov(R("t0"), AboveSp(k - 1))>>) /\ IsSeq(p[k])
  BY DEF RVStored, RVLoading, RVStoring
<1>3. \A k \in 1..s : IsSeq(LoadTo(i, 8 + k, "t0"))
  <2> TAKE k \in 1..s
  <2>1. LoadTo(i, 8 + k, "t0") = <<>> \/ LoadTo(i, 8 + k, "t0") = <<Mov(Arg(i, 8 + k), R("t0"))>>
    BY DEF LoadTo, Copy
  <2> QED
    BY <2>1, NoCode, OneCode
<1>4. Rounds(h, s, p)
  OBVIOUS
<1> HIDE DEF p
<1>5. \A k \in 0..s : IsSeq(h[k])
  BY <1>2, <1>4, RoundsSeq
<1>6. 0 \in S
  <2>1. h[0] = <<>> /\ Then(c, h[0]) = c
    BY <1>1, <1>4, Thens DEF Rounds
  <2>2. Ok(0, m)
    BY <2>1
  <2> HIDE DEF Ok
  <2> QED
    BY <2>2
<1>7. ASSUME NEW j \in 0..s-1, j \in S PROVE j+1 \in S
  <2>1. PICK m2 : Ok(j, m2)
    BY <1>7
  <2>2. j+1 \in 1..s /\ (j+1)-1 = j /\ j \in 0..s /\ j+1 \in 0..s
    OBVIOUS
  <2> DEFINE k == 8 + (j+1)
             A == Meant(i.args[k])
             x == LoadTo(i, k, "t0")
             c1 == Then(c, h[j])
             m3 == Put(m2, "t0", A)
  <2>3. Calling(t, i, c1, m2) /\ m2.sp = b
    BY <2>1
  <2>4. k \in DOMAIN i.args /\ ~IsMem(i.args[k]) /\ b + j \in Words /\ b + j < Sp0(t)
    BY <2>2
  <2>5. k \in 1..Len(i.args) /\ i.args[k].kind # "fp"
    BY <2>4, CallOperand
  <2>6. Calling(t, i, Then(c1, x), m3)
    <3>1. Readable(t, i, k, m2)
      BY <2>4 DEF Readable
    <3> HIDE DEF k, c1
    <3> QED
      BY <2>3, <2>5, <3>1, CallingLoads
  <2>7. m3.sp = b /\ m3.mem = m2.mem /\ m3.regs["t0"] = A
    <3>1. Sane(t, m2) /\ "t0" \in AllRegs(t)
      BY <2>3 DEF Calling, Intact, Writable
    <3> HIDE DEF A
    <3> QED
      BY <2>3, <3>1, PutIs
  <2> HIDE DEF m3, A
  <2> DEFINE c2 == Then(c1, x)
             d == <<Mov(R("t0"), AboveSp(j))>>
  <2>8. PICK m4 : /\ Calling(t, i, Then(c2, d), m4) /\ m4.sp = b /\ m4.mem[b + j] = A
                  /\ \A w \in Words : w # b + j => m4.mem[w] = m2.mem[w]
    <3>1. Calling(t, i, c2, m3) /\ m3.sp + j \in Words /\ m3.sp + j < Sp0(t)
      BY <2>4, <2>6, <2>7
    <3> HIDE DEF c2
    <3>2. \A r : \E m4 : /\ Calling(t, i, Then(c2, <<Mov(R(r), AboveSp(j))>>), m4) /\ m4.sp = m3.sp /\ m4.regs = m3.regs
                         /\ m4.mem[m3.sp + j] = m3.regs[r] /\ \A w \in Words : w # m3.sp + j => m4.mem[w] = m3.mem[w]
      BY <3>1, CallingAbove
    <3> QED
      BY <2>7, <3>2
  <2>9. Then(c2, d) = Then(c, h[j+1])
    <3>1. h[j+1] = Then(h[j], p[j+1])
      BY <1>4, <2>2 DEF Rounds
    <3>2. p[j+1] = Then(x, d) /\ IsSeq(p[j+1]) /\ IsSeq(x) /\ IsSeq(d) /\ IsSeq(h[j])
      BY <1>2, <1>3, <1>5, <2>2, OneCode
    <3> HIDE DEF x, d
    <3>3. Then(c, Then(h[j], p[j+1])) = Then(c1, Then(x, d))
      BY <1>1, <3>2, Thens
    <3>4. IsSeq(c1)
      BY <1>1, <3>2, Thens
    <3> QED
      BY <3>1, <3>2, <3>3, <3>4, Thens
  <2>10. ASSUME NEW q \in 1..(j+1) PROVE m4.mem[b + (q - 1)] = Meant(i.args[8 + q])
    <3>1. CASE q = j+1
      BY <2>2, <2>8, <3>1 DEF A
    <3>2. CASE q # j+1
      <4>1. q \in 1..j /\ q \in 1..s /\ b + (q - 1) # b + j
        BY <1>1, <2>2, <3>2
      <4>2. b + (q - 1) \in Words
        BY <4>1
      <4>3. m4.mem[b + (q - 1)] = m2.mem[b + (q - 1)]
        BY <2>8, <4>1, <4>2
      <4> QED
        BY <2>1, <4>1, <4>3
    <3> QED
      BY <3>1, <3>2
  <2>11. Ok(j+1, m4)
    BY <2>8, <2>9, <2>10
  <2> HIDE DEF Ok
  <2> QED
    BY <2>2, <2>11
<1>8. s \in 0..s /\ 0..s \subseteq S
  <2> HIDE DEF S
  <2> QED
    BY <1>6, <1>7, Induction
<1>9. PICK m2 : Ok(s, m2)
  BY <1>8
<1> QED
  BY <1>9

(* sp moves down by an even number of words.                               *)
LEMMA CallingRoom ==
  ASSUME NEW t \in Targets, NEW i, IsInstruction(t, i), i.op = "call", NEW s, s = OnStack(t, i), Taken(t, i) = s + (s % 2)
  PROVE  \E m : Calling(t, i, Back(s, -(s + (s % 2))), m) /\ m.sp = Sp0(t) - (s + (s % 2)) /\ (s = 0 => m.sp = Sp0(t))
<1> DEFINE w == s + (s % 2)
<1>1. s \in Nat /\ Sp0(t) \in Int /\ \A k \in 0..Taken(t, i) : Sp0(t) - k \in Words
  BY ArgCounts
<1>2. w \in Nat /\ (s = 0 => w = 0)
  <2>1. \A u \in Nat : u + (u % 2) \in Nat /\ (u = 0 => u + (u % 2) = 0)
    OBVIOUS
  <2> QED
    BY <1>1, <2>1
<1>3. Taken(t, i) = w
  OBVIOUS
<1> HIDE DEF w
<1>4. Sp0(t) - w \in Words /\ Sp0(t) + (-w) = Sp0(t) - w
  <2>1. w \in 0..Taken(t, i)
    BY <1>2, <1>3
  <2> QED
    BY <1>1, <1>2, <2>1
<1>5. CASE s = 0
  <2>1. Back(s, -w) = <<>>
    BY <1>5 DEF Back
  <2>2. Calling(t, i, <<>>, Entry(t, i)) /\ Entry(t, i).sp = Sp0(t)
    BY CallingNone, EntryIs
  <2>3. Entry(t, i).sp = Sp0(t) - w
    BY <1>1, <1>2, <1>5, <2>2
  <2> QED
    BY <2>1, <2>2, <2>3 DEF w
<1>6. CASE s # 0
  <2>1. Back(s, -w) = <<MoveSp(-w)>>
    BY <1>1, <1>6 DEF Back
  <2> DEFINE n == -w
  <2>2. Sp0(t) + n \in Words
    BY <1>4
  <2> HIDE DEF n
  <2>3. PICK m : Calling(t, i, <<MoveSp(n)>>, m) /\ m.sp = Sp0(t) + n
    BY <2>2, CallingStart
  <2>4. m.sp = Sp0(t) - w
    BY <1>4, <2>3 DEF n
  <2> QED
    BY <1>6, <2>1, <2>3, <2>4 DEF n, w
<1> QED
  BY <1>5, <1>6

LEMMA RVCalls ==
  ASSUME NEW t, t = "riscv", NEW i, IsInstruction(t, i), i.op = "call", ~Wrong(t, i)
  PROVE  Compiled(t, i, RV!Code(i))
<1> DEFINE areg == RV!AREG
           s == OnStack(t, i)
           l == Len(i.args)
           z == s % 2
<1>1. t \in Targets /\ ArgRegs[t] = 8 /\ Taken(t, i) = s + (s % 2) /\ Result[t] = "a0"
  BY DEF Targets, ArgRegs, Taken, Result
<1>2. Len(areg) = 8 /\ Spread(t, i, areg)
  <2>1. /\ Len(areg) = 8 /\ areg[1] = "a0" /\ areg[2] = "a1" /\ areg[3] = "a2" /\ areg[4] = "a3"
        /\ areg[5] = "a4" /\ areg[6] = "a5" /\ areg[7] = "a6" /\ areg[8] = "a7"
    BY DEF RV!AREG
  <2>2. {"a0", "a1", "a2", "a3", "a4", "a5", "a6", "a7"} \subseteq Writable(t, i)
    BY DEF Writable, AllRegs, Pool, Lost, Kept, Scratch, Spoiled
  <2> HIDE DEF areg
  <2>3. \A a \in 1..8 : a \in {1, 2, 3, 4, 5, 6, 7, 8}
    OBVIOUS
  <2> QED
    BY <2>1, <2>2, <2>3 DEF Spread
<1>3. /\ l \in Nat /\ DOMAIN i.args = 1..l /\ s \in 0..l /\ s \in Nat /\ s = (IF l > 8 THEN l - 8 ELSE 0)
      /\ Sp0(t) \in Int /\ \A k \in 0..Taken(t, i) : Sp0(t) - k \in Words
  <2>1. l \in Nat /\ DOMAIN i.args = 1..l /\ s \in 0..l /\ s \in Nat /\ s = (IF l > 8 THEN l - 8 ELSE 0)
    <3>1. t \in Targets /\ ArgRegs[t] = 8
      BY <1>1
    <3> QED
      BY <3>1, ArgCounts
  <2>2. Sp0(t) \in Int /\ \A k \in 0..Taken(t, i) : Sp0(t) - k \in Words
    BY <1>1, ArgCounts
  <2> QED
    BY <2>1, <2>2
<1>4. s = StackArgs(i, areg)
  BY <1>2, <1>3 DEF StackArgs
<1>5. s = 0 \/ \A a \in DOMAIN i.args : ~IsMem(i.args[a])
  <2>1. s > 0 => \A a \in DOMAIN i.args : ~IsMem(i.args[a])
    BY DEF Wrong, ReadsLastFirst
  <2> QED
    BY <1>3, <2>1
<1>6. z \in {0, 1}
  <2>1. \A u \in Nat : u % 2 \in {0, 1}
    OBVIOUS
  <2> QED
    BY <1>3, <2>1
<1> DEFINE h == RVPut(i, s)
<1>7. Rounds(h, s, RVStored(i, s)) /\ \A k \in 1..s : IsSeq(RVStored(i, s)[k])
  BY <1>3, RVPuts
<1>8. PICK m1 : Calling(t, i, Back(s, -(s + (s % 2))), m1) /\ m1.sp = Sp0(t) - (s + z) /\ (s = 0 => m1.sp = Sp0(t))
  BY <1>1, CallingRoom
<1> DEFINE c0 == Back(s, -(s + (s % 2)))
<1>9. Calling(t, i, c0, m1)
  BY <1>8
<1>10. Taken(t, i) = s + z /\ s = OnStack(t, i)
  BY <1>1
<1> HIDE DEF s, z, h, c0, areg, l
<1>11. ASSUME NEW k \in 1..s
       PROVE  /\ 8 + k \in DOMAIN i.args /\ ~IsMem(i.args[8 + k])
              /\ m1.sp + (k - 1) \in Words /\ m1.sp + (k - 1) < Sp0(t)
  <2>1. 8 + k \in DOMAIN i.args
    BY <1>3
  <2>2. ~IsMem(i.args[8 + k])
    BY <1>3, <1>5, <2>1
  <2> DEFINE j == s + z - (k - 1)
  <2>3. j \in 1..(s + z) /\ m1.sp + (k - 1) = Sp0(t) - j
    <3>1. s \in Nat /\ k \in 1..s /\ z \in {0, 1} /\ Sp0(t) \in Int /\ m1.sp = Sp0(t) - (s + z)
      BY <1>3, <1>6, <1>8
    <3> QED
      BY ONLY <3>1
  <2>4. j \in 0..Taken(t, i)
    BY <1>10, <2>3
  <2> HIDE DEF j
  <2>5. Sp0(t) - j \in Words /\ Sp0(t) - j < Sp0(t)
    BY <1>3, <2>3, <2>4
  <2> QED
    BY <2>1, <2>2, <2>3, <2>5
<1>12. "t0" \in Writable(t, i)
  BY DEF Writable, AllRegs, Pool, Lost, Kept, Scratch
<1>13. PICK m : /\ Calling(t, i, Then(c0, h[s]), m) /\ m.sp = m1.sp
                /\ \A k \in 1..s : m.mem[m1.sp + (k - 1)] = Meant(i.args[8 + k])
  <2> DEFINE F(k) == /\ 8 + k \in DOMAIN i.args /\ ~IsMem(i.args[8 + k])
                      /\ m1.sp + (k - 1) \in Words /\ m1.sp + (k - 1) < Sp0(t)
  <2>1. \A k \in 1..s : F(k)
    BY <1>11
  <2>2. t \in Targets /\ IsInstruction(t, i) /\ i.op = "call" /\ s \in Nat /\ Calling(t, i, c0, m1)
    BY <1>1, <1>3, <1>9
  <2> QED
    BY ONLY <1>7, <1>12, <2>1, <2>2, CallingPuts
<1>14. m.sp \in Int /\ m.sp + (s + z) = Sp0(t) /\ (s = 0 => m.sp = Sp0(t))
  <2>1. s \in Nat /\ z \in {0, 1} /\ Sp0(t) \in Int /\ m.sp = Sp0(t) - (s + z)
    BY <1>3, <1>6, <1>8, <1>13
  <2>2. m.sp \in Int /\ m.sp + (s + z) = Sp0(t)
    BY ONLY <2>1
  <2> QED
    BY <1>8, <1>13, <2>2
<1>15. Stacked(t, i, s, m)
  <2> SUFFICES ASSUME NEW k \in 1..s PROVE m.mem[m.sp + k - 1] = Meant(i.args[l - s + k])
    BY DEF Stacked, l
  <2>1. m.sp + k - 1 = m1.sp + (k - 1) /\ l - s + k = 8 + k
    BY <1>3, <1>13, <1>14
  <2> QED
    BY <1>13, <2>1
<1>16. ASSUME NEW a \in 1..Len(areg), a \in DOMAIN i.args PROVE Readable(t, i, a, m)
  BY <1>5, <1>14, <1>16 DEF Readable
<1> DEFINE c == Then(c0, h[s])
           w == s + z
<1>17. Calling(t, i, c, m) /\ m.sp + w = Sp0(t)
  BY <1>13, <1>14
<1> HIDE DEF c, w
<1>18. Compiled(t, i, Then(Then(Then(Then(c, LoadArgs(i, areg)), <<Invoke(InRegs(i, areg), s)>>), Back(s, w)),
                           StoreFrom(i, Result[t])))
  BY <1>1, <1>2, <1>10, <1>14, <1>15, <1>16, <1>17, CallTail
<1>19. RV!Code(i) = RV!Call(i)
  BY RVCode
<1>20. RV!Call(i) = Then(Then(Then(Then(c, LoadArgs(i, areg)), <<Invoke(InRegs(i, areg), s)>>), Back(s, w)),
                          StoreFrom(i, "a0"))
  BY <1>4, RVCallIs DEF c, c0, w, z, h, areg
<1> QED
  BY <1>1, <1>18, <1>19, <1>20

-----------------------------------------------------------------------------
(* Each target, each instruction that is not wrong.                        *)
LEMMA Handled ==
  ASSUME NEW t \in Targets, NEW i, IsInstruction(t, i), ~Wrong(t, i)
  PROVE  Compiled(t, i, CodeFor(t, i))
<1> DEFINE Int1 == Alus \cup Divisions \cup Shifts \cup Negations \cup Widths \cup {"icmp"}
           Fp1  == Floats \cup FromInt \cup ToInt \cup FpToFp \cup {"fneg", "fcmp"}
           Oth1 == {"alloca", "str", "load", "gep_field", "phi", "gep", "va_start", "va_arg"} \cup Effects
<1>1. i.op \in Int1 \cup Fp1 \cup Oth1 \cup {"call"}
  BY DEF IsInstruction, Ops
<1>2. CASE t = "x86_64"
  <2>1. CodeFor(t, i) = X64!Code(i)
    BY <1>2 DEF CodeFor
  <2> QED
    BY <1>1, <1>2, <2>1, X64Integers, X64Floating, X64Others, X64Calls
<1>3. CASE t = "x86"
  <2>1. CodeFor(t, i) = I86!Code(i)
    BY <1>3 DEF CodeFor
  <2> QED
    BY <1>1, <1>3, <2>1, I86Integers, I86Floating, I86Others, I86Calls
<1>4. CASE t = "arm64"
  <2>1. CodeFor(t, i) = A64!Code(i)
    BY <1>4 DEF CodeFor
  <2> QED
    BY <1>1, <1>4, <2>1, A64Integers, A64Floating, A64Others, A64Calls
<1>5. CASE t = "riscv"
  <2>1. CodeFor(t, i) = RV!Code(i)
    BY <1>5 DEF CodeFor
  <2> QED
    BY <1>1, <1>5, <2>1, RVIntegers, RVFloating, RVOthers, RVCalls
<1>6. CASE t = "arm"
  <2>1. CodeFor(t, i) = A32!Code(i)
    BY <1>6 DEF CodeFor
  <2> QED
    BY <1>1, <1>6, <2>1, A32Integers, A32Floating, A32Others, A32Calls
<1> QED
  BY <1>2, <1>3, <1>4, <1>5, <1>6 DEF Targets

-----------------------------------------------------------------------------
(* The specification.  Until an instruction that is not wrong has run,     *)
(* what is left of its code takes the machine to a state that is Good.     *)
Promise ==
  /\ Sane(target, Machine)
  /\ \E m : Runs(target, code, Machine, m) /\ Good(target, in, m)
  /\ Len(CodeFor(target, in)) \in Nat /\ Len(code) + Len(seen) <= Len(CodeFor(target, in))
IInv ==
  /\ target \in Targets /\ IsInstruction(target, in)
  /\ ~Wrong(target, in) => Promise

LEMMA ValuesAre ==
  /\ \A p : Value(p) = Val(target, Machine, p)
  /\ \A ps : Values(ps) = Vals(target, Machine, ps)
<1>1. /\ Machine.regs = regs /\ Machine.mem = mem /\ Machine.sp = sp /\ Machine.seen = seen /\ Machine.calls = calls
  BY DEF Machine
<1>2. \A p : Value(p) = Val(target, Machine, p)
  BY <1>1 DEF Value, Val
<1> QED
  BY <1>2 DEF Values, Vals

(* A step of the specification is a step of the machine, and tells the     *)
(* world no more than one thing.                                           *)
LEMMA NextIsStep ==
  ASSUME Next, Sane(target, Machine)
  PROVE  /\ code # <<>> /\ code' = Tail(code) /\ target' = target /\ in' = in
         /\ Machine' = Step(target, Head(code), Machine)
         /\ Len(seen) \in Nat /\ Len(seen') \in Nat /\ Len(seen') <= Len(seen) + 1
<1> DEFINE c == Head(code)
           m == Machine
<1>1. m.regs = regs /\ m.mem = mem /\ m.sp = sp /\ m.seen = seen /\ m.calls = calls
  BY DEF Machine
<1>2. /\ \A p : Value(p) = Val(target, m, p)
      /\ \A ps : Values(ps) = Vals(target, m, ps)
  BY ValuesAre
<1>3. IsSeq(seen) /\ Len(seen) \in Nat /\ \A e : Len(Append(seen, e)) = Len(seen) + 1
  <2>1. IsSeq(seen)
    BY <1>1 DEF Sane
  <2>2. \A e : Len(Append(seen, e)) = Len(seen) + 1
    BY <2>1 DEF IsSeq
  <2> QED
    BY <2>1, <2>2, SeqIs DEF IsSeq
<1>4. m' = [regs |-> regs', mem |-> mem', sp |-> sp', seen |-> seen', calls |-> calls']
  BY DEF Machine
<1>5. m = [regs |-> regs, mem |-> mem, sp |-> sp, seen |-> seen, calls |-> calls]
  BY DEF Machine
<1> HIDE DEF m
<1>6. CASE Assign
  <2>1. code # <<>> /\ code' = Tail(code) /\ c.do = "set" /\ target' = target /\ in' = in /\ sp' = sp /\ seen' = seen /\ calls' = calls
    BY <1>6 DEF Assign, Fetch
  <2> DEFINE x == Term(c.op, Vals(target, m, c.from))
  <2>2. Term(c.op, Values(c.from)) = x
    BY <1>2
  <2>3. CASE c.to[1] = "reg"
    <3>1. regs' = [regs EXCEPT ![c.to[2]] = x] /\ mem' = mem
      BY <1>6, <2>2, <2>3 DEF Assign
    <3>2. Step(target, c, m) = [m EXCEPT !.regs[c.to[2]] = x]
      BY <2>1, <2>3 DEF Step
    <3> HIDE DEF x, c
    <3>3. m' = Step(target, c, m)
      BY <1>1, <1>4, <1>5, <2>1, <3>1, <3>2
    <3> QED
      BY <1>3, <2>1, <3>3 DEF c, m
  <2>4. CASE c.to[1] # "reg"
    <3>1. mem' = [mem EXCEPT ![WordAt(target, m, c.to)] = x] /\ regs' = regs
      BY <1>1, <1>6, <2>2, <2>4 DEF Assign, WordAt
    <3>2. Step(target, c, m) = [m EXCEPT !.mem[WordAt(target, m, c.to)] = x]
      BY <2>1, <2>4 DEF Step
    <3> HIDE DEF x, c
    <3>3. m' = Step(target, c, m)
      BY <1>1, <1>4, <1>5, <2>1, <3>1, <3>2
    <3> QED
      BY <1>3, <2>1, <3>3 DEF c, m
  <2> QED
    BY <2>3, <2>4
<1>7. CASE TouchWorld
  <2> DEFINE e == <<c.op>> \o Vals(target, m, c.from)
  <2>1. /\ code # <<>> /\ code' = Tail(code) /\ c.do = "effect" /\ target' = target /\ in' = in
        /\ sp' = sp /\ regs' = regs /\ mem' = mem /\ calls' = calls /\ seen' = Append(seen, e)
    BY <1>2, <1>7 DEF TouchWorld, Fetch
  <2>2. Step(target, c, m) = [m EXCEPT !.seen = Append(seen, e)]
    BY <1>1, <2>1 DEF Step
  <2> HIDE DEF e, c
  <2>3. m' = Step(target, c, m)
    BY <1>4, <1>5, <2>1, <2>2
  <2> QED
    BY <1>3, <2>1, <2>3 DEF c, m
<1>8. CASE PushWord
  <2>1. /\ code # <<>> /\ code' = Tail(code) /\ c.do = "push" /\ target' = target /\ in' = in
        /\ sp' = sp - 1 /\ regs' = regs /\ mem' = [mem EXCEPT ![sp - 1] = Val(target, m, c.from)] /\ seen' = seen /\ calls' = calls
    BY <1>2, <1>8 DEF PushWord, Fetch
  <2>2. Step(target, c, m) = [m EXCEPT !.mem[sp - 1] = Val(target, m, c.from), !.sp = sp - 1]
    BY <1>1, <2>1 DEF Step
  <2> DEFINE x == Val(target, m, c.from)
  <2> HIDE DEF x
  <2>3. m' = Step(target, c, m)
    BY <1>1, <1>4, <1>5, <2>1, <2>2
  <2> QED
    BY <1>3, <2>1, <2>3 DEF c, m
<1>9. CASE AdjustSp
  <2>1. /\ code # <<>> /\ code' = Tail(code) /\ c.do = "sp" /\ target' = target /\ in' = in
        /\ sp' = sp + c.by /\ regs' = regs /\ mem' = mem /\ seen' = seen /\ calls' = calls
    BY <1>9 DEF AdjustSp, Fetch
  <2>2. Step(target, c, m) = [m EXCEPT !.sp = sp + c.by]
    BY <1>1, <2>1 DEF Step
  <2> HIDE DEF c
  <2>3. m' = Step(target, c, m)
    BY <1>4, <1>5, <2>1, <2>2
  <2> QED
    BY <1>3, <2>1, <2>3 DEF c, m
<1>10. CASE CallOut
  <2> DEFINE e == <<"call">> \o Vals(target, m, c.from) \o [k \in 1..c.stack |-> mem[sp + k - 1]]
             g == [r \in DOMAIN regs |-> CASE r = Result[target] -> <<"returned">>
                                           [] r \in Kept[target] -> regs[r]
                                           [] OTHER              -> <<"lost", r>>]
  <2>1. /\ code # <<>> /\ code' = Tail(code) /\ c.do = "call" /\ target' = target /\ in' = in
        /\ sp' = sp /\ mem' = mem /\ calls' = calls + 1 /\ regs' = g
    BY <1>10 DEF CallOut, Fetch
  <2>2. seen' = Append(seen, e)
    BY <1>2, <1>10 DEF CallOut
  <2>3. Step(target, c, m) = [m EXCEPT !.seen = Append(seen, e), !.regs = g, !.calls = calls + 1]
    BY <1>1, <2>1 DEF Step
  <2> HIDE DEF e, g, c
  <2>4. m' = Step(target, c, m)
    BY <1>4, <1>5, <2>1, <2>2, <2>3
  <2> QED
    BY <1>3, <2>1, <2>2, <2>4 DEF c, m
<1> QED
  BY <1>6, <1>7, <1>8, <1>9, <1>10 DEF Next

LEMMA InitPromise == Init => IInv
<1> SUFFICES ASSUME Init PROVE IInv
  OBVIOUS
<1>1. PICK c \in Cases : /\ target = c[1] /\ in = c[2] /\ code = CodeFor(c[1], c[2])
                         /\ regs = [r \in Pool(c[1]) \cup Scratch |-> AtEntry(c[2], r)]
                         /\ mem = [w \in Words |-> InFrame(c[1], c[2], w)]
                         /\ sp = Sp0(c[1]) /\ seen = <<>> /\ calls = 0
  BY DEF Init
<1>2. target \in Targets /\ IsInstruction(target, in)
  BY <1>1, CasesAssumption
<1>3. Machine = Entry(target, in) /\ code = CodeFor(target, in) /\ seen = <<>>
  BY <1>1 DEF Machine, Entry
<1>4. ASSUME ~Wrong(target, in) PROVE Promise
  <2>1. Compiled(target, in, code)
    BY <1>2, <1>3, <1>4, Handled
  <2>2. \E m : Runs(target, code, Machine, m) /\ Good(target, in, m)
    BY <1>3, <2>1 DEF Compiled
  <2>3. Sane(target, Machine)
    BY <1>2, <1>3, EntryIs DEF Intact
  <2>4. Len(CodeFor(target, in)) \in Nat /\ Len(code) + Len(seen) <= Len(CodeFor(target, in))
    <3>1. Len(code) \in Nat
      BY <2>2, SeqIs DEF Runs, IsSeq
    <3> QED
      BY <1>3, <3>1
  <2> QED
    BY <2>2, <2>3, <2>4 DEF Promise
<1> QED
  BY <1>2, <1>4 DEF IInv

LEMMA NextPromise == IInv /\ [Next]_vars => IInv'
<1> SUFFICES ASSUME IInv, [Next]_vars PROVE IInv'
  OBVIOUS
<1>1. CASE Next
  <2>1. target' = target /\ in' = in
    BY <1>1 DEF Next, Assign, TouchWorld, PushWord, AdjustSp, CallOut
  <2>2. ASSUME ~Wrong(target, in) PROVE Promise'
    <3>1. Promise
      BY <2>2 DEF IInv
    <3>2. /\ code # <<>> /\ code' = Tail(code) /\ Machine' = Step(target, Head(code), Machine)
          /\ Len(seen) \in Nat /\ Len(seen') \in Nat /\ Len(seen') <= Len(seen) + 1
      BY <1>1, <3>1, NextIsStep DEF Promise
    <3>3. PICK m : Runs(target, code, Machine, m) /\ Good(target, in, m)
      BY <3>1 DEF Promise
    <3>4. /\ Len(code) \in Nat /\ Len(code') = Len(code) - 1
          /\ Sane(target, Machine') /\ Runs(target, code', Machine', m)
      BY <3>2, <3>3, RunsHead
    <3> DEFINE n == Len(CodeFor(target, in))
    <3>5. n \in Nat /\ n' = n
      BY <2>1, <3>1 DEF Promise
    <3>6. Len(code') + Len(seen') <= n
      <4>1. Len(code) + Len(seen) <= n
        BY <3>1 DEF Promise
      <4> HIDE DEF n
      <4> QED
        BY <3>2, <3>4, <3>5, <4>1
    <3> QED
      BY <2>1, <3>3, <3>4, <3>5, <3>6 DEF Promise
  <2> QED
    BY <2>1, <2>2 DEF IInv
<1>2. CASE UNCHANGED vars
  BY <1>2 DEF vars, IInv, Promise, Machine
<1> QED
  BY <1>1, <1>2

-----------------------------------------------------------------------------
(* What the invariant says when the code has run.                          *)
LEMMA PromiseKept ==
  ASSUME Promise, Done
  PROVE  Good(target, in, Machine)
<1>1. PICK m : Runs(target, code, Machine, m) /\ Good(target, in, m)
  BY DEF Promise
<1>2. m = Machine
  BY <1>1, RunsNoneOnly DEF Done
<1> QED
  BY <1>1, <1>2

LEMMA MachineIs ==
  /\ Machine.regs = regs /\ Machine.mem = mem /\ Machine.sp = sp /\ Machine.seen = seen /\ Machine.calls = calls
  BY DEF Machine

(* For as long as the code of an instruction that is not wrong runs, what  *)
(* is left of it takes the machine, through states that are sane, to one   *)
(* where the result has arrived and everything else is as it was.          *)
THEOREM PromiseHolds == Spec => []IInv
  BY InitPromise, NextPromise, PTL DEF Spec

(* Every set, push, call and move of sp the five emit functions print is   *)
(* of a register the target has or of a word of the stack, sp stays in the *)
(* words the machine has, and no effect happens but those printed.         *)
THEOREM MachineSane == Spec => [](~Wrong(target, in) => TypeOK)
<1>1. ASSUME IInv, ~Wrong(target, in) PROVE TypeOK
  <2>1. Promise /\ target \in Targets
    BY <1>1 DEF IInv
  <2>2. /\ regs = [r \in Pool(target) \cup Scratch |-> regs[r]] /\ mem = [w \in Words |-> mem[w]]
        /\ sp \in Words /\ calls \in 0..1 /\ Len(code) + Len(seen) <= Len(CodeFor(target, in))
    BY <2>1, MachineIs DEF Promise, Sane
  <2>3. DOMAIN regs = Pool(target) \cup Scratch /\ DOMAIN mem = Words
    BY <2>2
  <2> QED
    BY <2>1, <2>2, <2>3 DEF TypeOK
<1>2. IInv => (~Wrong(target, in) => TypeOK)
  BY <1>1
<1> QED
  BY <1>2, PromiseHolds, PTL

(* Every emit reads each operand where the allocator put it, before        *)
(* anything overwrites it, and leaves in the result's place what the       *)
(* instruction means.                                                      *)
THEOREM ResultRight == Spec => [](~Wrong(target, in) => ResultArrives)
<1>1. ASSUME IInv, ~Wrong(target, in) PROVE ResultArrives
  <2>1. Done => Good(target, in, Machine)
    BY <1>1, PromiseKept DEF IInv
  <2>2. Value(Dst(in)) = Val(target, Machine, Dst(in))
    BY ValuesAre
  <2> QED
    BY <2>1, <2>2 DEF Good, ResultArrives
<1>2. IInv => (~Wrong(target, in) => ResultArrives)
  BY <1>1
<1> QED
  BY <1>2, PromiseHolds, PTL

(* No emit changes a register of the pool or a slot other than the         *)
(* result's; a call may lose the registers the allocator keeps clear of    *)
(* what crosses it.                                                        *)
THEOREM OthersRight == Spec => [](~Wrong(target, in) => OthersStay)
<1>1. ASSUME IInv, ~Wrong(target, in) PROVE OthersStay
  <2>1. Done => Good(target, in, Machine)
    BY <1>1, PromiseKept DEF IInv
  <2> QED
    BY <2>1, MachineIs DEF Good, OthersStay
<1>2. IInv => (~Wrong(target, in) => OthersStay)
  BY <1>1
<1> QED
  BY <1>2, PromiseHolds, PTL

(* Memory, the callee and the caller see what the instruction says: each   *)
(* argument of a call, however many there are, is in its register or its   *)
(* word above sp when the call is made.                                    *)
THEOREM WorldRight == Spec => [](~Wrong(target, in) => WorldAsMeant)
<1>1. ASSUME IInv, ~Wrong(target, in) PROVE WorldAsMeant
  <2>1. Done => Good(target, in, Machine)
    BY <1>1, PromiseKept DEF IInv
  <2> QED
    BY <2>1, MachineIs DEF Good, WorldAsMeant
<1>2. IInv => (~Wrong(target, in) => WorldAsMeant)
  BY <1>1
<1> QED
  BY <1>2, PromiseHolds, PTL

(* What emit_call pushes or makes room for, padding included, it takes     *)
(* back: sp is where it was, and the slots found from it are the same.     *)
THEOREM StackRight == Spec => [](~Wrong(target, in) => StackBalanced)
<1>1. ASSUME IInv, ~Wrong(target, in) PROVE StackBalanced
  <2>1. Done => Good(target, in, Machine)
    BY <1>1, PromiseKept DEF IInv
  <2> QED
    BY <2>1, MachineIs DEF Good, StackBalanced
<1>2. IInv => (~Wrong(target, in) => StackBalanced)
  BY <1>1
<1> QED
  BY <1>2, PromiseHolds, PTL
=============================================================================
