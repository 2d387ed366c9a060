------------------------------ MODULE IselLemmas ------------------------------
(***************************************************************************)
(* Lemmas about module Isel, whatever the target: what a run of printed    *)
(* code does, the forms most cases of a selector have, and calls with any  *)
(* number of arguments.                                                    *)
(***************************************************************************)
EXTENDS Isel, Recursion, SequenceTheorems

-----------------------------------------------------------------------------
(* Sequences.                                                              *)
Elems(s) == {s[i] : i \in DOMAIN s}
IsSeq(s) == s \in Seq(Elems(s))

LEMMA SeqIs ==
  ASSUME NEW S, NEW s \in Seq(S)
  PROVE  IsSeq(s) /\ Len(s) \in Nat /\ DOMAIN s = 1..Len(s)
<1>1. Len(s) \in Nat /\ DOMAIN s = 1..Len(s) /\ s = [i \in 1..Len(s) |-> s[i]]
  OBVIOUS
<1>2. s \in [1..Len(s) -> Elems(s)]
  BY <1>1 DEF Elems
<1>3. s \in Seq(Elems(s))
  BY <1>1, <1>2
<1> QED
  BY <1>1, <1>3 DEF IsSeq

LEMMA ConcatIs ==
  ASSUME NEW s, NEW u, IsSeq(s), IsSeq(u)
  PROVE  /\ IsSeq(s \o u) /\ Len(s) \in Nat /\ Len(u) \in Nat /\ Len(s \o u) = Len(s) + Len(u)
         /\ \A i \in 1..Len(s) : (s \o u)[i] = s[i]
         /\ \A i \in 1..Len(u) : (s \o u)[Len(s) + i] = u[i]
<1> DEFINE S == Elems(s) \cup Elems(u)
<1>1. s \in Seq(S) /\ u \in Seq(S)
  <2>1. s \in Seq(Elems(s)) /\ u \in Seq(Elems(u)) /\ Elems(s) \subseteq S /\ Elems(u) \subseteq S
    BY DEF IsSeq
  <2> HIDE DEF S
  <2> QED
    BY <2>1
<1> HIDE DEF S
<1>2. s \o u \in Seq(S)
  BY <1>1
<1>3. /\ Len(s) \in Nat /\ Len(u) \in Nat /\ Len(s \o u) = Len(s) + Len(u)
      /\ \A i \in 1..Len(s) : (s \o u)[i] = s[i]
  BY <1>1
<1>4. \A i \in 1..Len(u) : (s \o u)[Len(s) + i] = u[i]
  BY <1>1, <1>3
<1> QED
  BY <1>2, <1>3, <1>4, SeqIs

LEMMA TailIs ==
  ASSUME NEW s, IsSeq(s), s # <<>>
  PROVE  /\ IsSeq(Tail(s)) /\ Len(s) \in Nat /\ Len(s) > 0 /\ Len(Tail(s)) = Len(s) - 1 /\ Head(s) = s[1]
         /\ \A i \in 1..Len(s)-1 : Tail(s)[i] = s[i+1]
<1> DEFINE S == Elems(s)
<1>1. s \in Seq(S)
  BY DEF IsSeq
<1> HIDE DEF S
<1>2. Tail(s) \in Seq(S) /\ Len(s) \in Nat /\ Len(s) > 0 /\ Len(Tail(s)) = Len(s) - 1 /\ Head(s) = s[1]
  BY <1>1
<1>3. \A i \in 1..Len(s)-1 : Tail(s)[i] = s[i+1]
  BY <1>1, <1>2
<1> QED
  BY <1>2, <1>3, SeqIs

-----------------------------------------------------------------------------
(* What the actions do, as a function of the state m of the machine.       *)
Val(t, m, p) == CASE p[1] = "reg"  -> m.regs[p[2]]
                  [] p[1] = "slot" -> m.mem[SlotAt(t, m.sp, p[2])]
                  [] OTHER         -> p
Vals(t, m, ps) == [k \in DOMAIN ps |-> Val(t, m, ps[k])]

WordAt(t, m, to) == IF to[1] = "sp" THEN m.sp + to[2] ELSE SlotAt(t, m.sp, to[2])
Step(t, c, m) ==
  CASE c.do = "set" /\ c.to[1] = "reg" -> [m EXCEPT !.regs[c.to[2]] = Term(c.op, Vals(t, m, c.from))]
    [] c.do = "set" /\ c.to[1] # "reg" -> [m EXCEPT !.mem[WordAt(t, m, c.to)] = Term(c.op, Vals(t, m, c.from))]
    [] c.do = "effect" -> [m EXCEPT !.seen = Append(m.seen, <<c.op>> \o Vals(t, m, c.from))]
    [] c.do = "push"   -> [m EXCEPT !.mem[m.sp - 1] = Val(t, m, c.from), !.sp = m.sp - 1]
    [] c.do = "sp"     -> [m EXCEPT !.sp = m.sp + c.by]
    [] c.do = "call"   ->
         [m EXCEPT !.seen = Append(m.seen, <<"call">> \o Vals(t, m, c.from) \o [k \in 1..c.stack |-> m.mem[m.sp + k - 1]]),
                   !.regs = [r \in DOMAIN m.regs |-> CASE r = Result[t] -> <<"returned">>
                                                       [] r \in Kept[t] -> m.regs[r]
                                                       [] OTHER         -> <<"lost", r>>],
                   !.calls = m.calls + 1]

Machine == [regs |-> regs, mem |-> mem, sp |-> sp, seen |-> seen, calls |-> calls]

Sane(t, m) ==
  /\ m = [regs |-> m.regs, mem |-> m.mem, sp |-> m.sp, seen |-> m.seen, calls |-> m.calls]
  /\ m.regs = [r \in Pool(t) \cup Scratch |-> m.regs[r]] /\ m.mem = [w \in Words |-> m.mem[w]]
  /\ m.sp \in Words /\ IsSeq(m.seen) /\ m.calls \in 0..1

(* code takes the machine from m to m2, and through sane states only.      *)
Trace(t, code0, m, m2, tr) ==
  /\ tr[0] = m /\ tr[Len(code0)] = m2
  /\ \A k \in 1..Len(code0) : tr[k] = Step(t, code0[k], tr[k-1]) /\ Sane(t, tr[k])
Runs(t, code0, m, m2) == IsSeq(code0) /\ \E tr : Trace(t, code0, m, m2, tr)

LEMMA RunsNone ==
  ASSUME NEW t, NEW m
  PROVE  Runs(t, <<>>, m, m)
<1>1. IsSeq(<<>>)
  <2>1. <<>> \in Seq({})
    OBVIOUS
  <2> QED
    BY <2>1, SeqIs
<1>2. Trace(t, <<>>, m, m, [k \in {0} |-> m])
  BY DEF Trace
<1> QED
  BY <1>1, <1>2 DEF Runs

LEMMA RunsNoneOnly ==
  ASSUME NEW t, NEW m, NEW m2, Runs(t, <<>>, m, m2)
  PROVE  m2 = m
<1>1. PICK tr : Trace(t, <<>>, m, m2, tr)
  BY DEF Runs
<1> QED
  BY <1>1 DEF Trace

LEMMA RunsOne ==
  ASSUME NEW t, NEW c, NEW m, NEW m2, m2 = Step(t, c, m), Sane(t, m2)
  PROVE  Runs(t, <<c>>, m, m2)
<1>1. IsSeq(<<c>>)
  <2>1. <<c>> \in Seq({c})
    OBVIOUS
  <2> QED
    BY <2>1, SeqIs
<1> DEFINE tr == [k \in 0..1 |-> IF k = 0 THEN m ELSE m2]
<1>2. tr[0] = m /\ tr[1] = m2 /\ Len(<<c>>) = 1 /\ <<c>>[1] = c
  OBVIOUS
<1> HIDE DEF tr
<1>3. Trace(t, <<c>>, m, m2, tr)
  <2>1. \A k \in 1..1 : k = 1
    OBVIOUS
  <2>2. tr[1] = Step(t, <<c>>[1], tr[1-1]) /\ Sane(t, tr[1])
    BY <1>2
  <2> QED
    BY <1>2, <2>1, <2>2 DEF Trace
<1> QED
  BY <1>1, <1>3 DEF Runs

LEMMA RunsThen ==
  ASSUME NEW t, NEW x, NEW y, NEW m, NEW m1, NEW m2, Runs(t, x, m, m1), Runs(t, y, m1, m2)
  PROVE  Runs(t, x \o y, m, m2)
<1>1. PICK tx : Trace(t, x, m, m1, tx)
  BY DEF Runs
<1>2. PICK ty : Trace(t, y, m1, m2, ty)
  BY DEF Runs
<1>3. /\ IsSeq(x \o y) /\ Len(x) \in Nat /\ Len(y) \in Nat /\ Len(x \o y) = Len(x) + Len(y)
      /\ \A i \in 1..Len(x) : (x \o y)[i] = x[i]
      /\ \A i \in 1..Len(y) : (x \o y)[Len(x) + i] = y[i]
  BY ConcatIs DEF Runs
<1> DEFINE n == Len(x)
           k0 == Len(y)
           z == x \o y
           tr == [k \in 0..n+k0 |-> IF k <= n THEN tx[k] ELSE ty[k - n]]
<1>4. tr[0] = m /\ tr[n + k0] = m2
  <2>1. tx[0] = m /\ tx[n] = m1 /\ ty[0] = m1 /\ ty[k0] = m2
    BY <1>1, <1>2 DEF Trace
  <2> HIDE DEF n, k0
  <2>2. n \in Nat /\ k0 \in Nat
    BY <1>3 DEF n, k0
  <2> QED
    BY <2>1, <2>2
<1>5. ASSUME NEW k \in 1..n+k0 PROVE tr[k] = Step(t, z[k], tr[k-1]) /\ Sane(t, tr[k])
  <2>1. CASE k <= n
    <3>1. k \in 1..n /\ z[k] = x[k] /\ tr[k] = tx[k] /\ tr[k-1] = tx[k-1]
      BY <1>3, <2>1
    <3> QED
      BY <1>1, <3>1 DEF Trace
  <2>2. CASE k > n
    <3>1. k - n \in 1..k0 /\ k = n + (k - n) /\ tr[k] = ty[k-n]
      BY <1>3, <2>2
    <3>2. z[k] = y[k-n]
      BY <1>3, <3>1
    <3>3. tr[k-1] = ty[(k-n)-1]
      <4>1. CASE k - 1 > n
        BY <1>3, <3>1, <4>1
      <4>2. CASE k - 1 = n
        <5>1. tr[k-1] = tx[n] /\ (k-n)-1 = 0
          BY <1>3, <4>2
        <5> QED
          BY <1>1, <1>2, <5>1 DEF Trace
      <4> QED
        BY <1>3, <2>2, <4>1, <4>2
    <3> QED
      BY <1>2, <3>1, <3>2, <3>3 DEF Trace
  <2> QED
    BY <1>3, <2>1, <2>2
<1> HIDE DEF tr
<1>6. Trace(t, z, m, m2, tr)
  BY <1>3, <1>4, <1>5 DEF Trace
<1> QED
  BY <1>3, <1>6 DEF Runs

LEMMA RunsHead ==
  ASSUME NEW t, NEW x, NEW m, NEW m2, Runs(t, x, m, m2), x # <<>>
  PROVE  /\ IsSeq(x) /\ IsSeq(Tail(x)) /\ Len(x) \in Nat /\ Len(x) > 0 /\ Len(Tail(x)) = Len(x) - 1
         /\ Sane(t, Step(t, Head(x), m)) /\ Runs(t, Tail(x), Step(t, Head(x), m), m2)
<1>1. PICK tr : Trace(t, x, m, m2, tr)
  BY DEF Runs
<1>2. /\ IsSeq(Tail(x)) /\ Len(x) \in Nat /\ Len(x) > 0 /\ Len(Tail(x)) = Len(x) - 1 /\ Head(x) = x[1]
      /\ \A i \in 1..Len(x)-1 : Tail(x)[i] = x[i+1]
  BY TailIs DEF Runs
<1> DEFINE n == Len(x)
           y == Tail(x)
           m1 == Step(t, Head(x), m)
           ty == [k \in 0..n-1 |-> tr[k+1]]
<1>3. tr[1] = m1 /\ Sane(t, m1)
  <2>1. 1 \in 1..n /\ 1-1 = 0
    BY <1>2
  <2>2. tr[1] = Step(t, x[1], tr[1-1]) /\ Sane(t, tr[1]) /\ tr[0] = m
    BY <1>1, <2>1 DEF Trace
  <2> QED
    BY <1>2, <2>1, <2>2
<1>4. ty[0] = m1 /\ ty[n-1] = m2
  <2>1. tr[n] = m2
    BY <1>1 DEF Trace
  <2> HIDE DEF n, m1
  <2>2. n \in Nat /\ n > 0
    BY <1>2 DEF n
  <2> QED
    BY <1>3, <2>1, <2>2
<1>5. ASSUME NEW k \in 1..n-1 PROVE ty[k] = Step(t, y[k], ty[k-1]) /\ Sane(t, ty[k])
  <2>1. k+1 \in 1..n /\ (k+1)-1 = k /\ ty[k] = tr[k+1] /\ ty[k-1] = tr[k] /\ y[k] = x[k+1]
    BY <1>2
  <2> QED
    BY <1>1, <2>1 DEF Trace
<1> HIDE DEF ty, m1
<1>6. Trace(t, y, m1, m2, ty)
  BY <1>2, <1>4, <1>5 DEF Trace
<1> QED
  BY <1>2, <1>3, <1>6 DEF Runs, m1

-----------------------------------------------------------------------------
(* Operands.  While m is Intact, every vreg but the result is where it was *)
(* before the instruction.                                                 *)
Spoiled(t, i) == IF i.op = "call" THEN Lost[t] ELSE {}
Intact(t, i, m) ==
  /\ Sane(t, m)
  /\ \A r \in Pool(t) \ Spoiled(t, i) : R(r) # Dst(i) => m.regs[r] = AtEntry(i, r)
  /\ \A v \in 0..(NSlots - 1) :
       <<"slot", v>> # Dst(i) => m.mem[SlotAt(t, Sp0(t), v)] = InFrame(t, i, SlotAt(t, Sp0(t), v))

AllRegs(t) == Pool(t) \cup Scratch
Writable(t, i) == {r \in AllRegs(t) : r \in Pool(t) => r \in Spoiled(t, i) \/ R(r) = Dst(i)}

Put(m, r, x) == [m EXCEPT !.regs[r] = x]

LEMMA OperandIs ==
  ASSUME NEW t \in Targets, NEW i, IsInstruction(t, i), NEW k \in 1..Len(i.args)
  PROVE  /\ i.args[k] \in Vregs(t) \cup Consts \cup FpConsts
         /\ i.op = "call" => i.args[k].reg \notin Lost[t]
         /\ DOMAIN i.args = 1..Len(i.args) /\ Len(i.args) \in Nat
<1>1. i.args \in Seq(Operands(t, i.op))
  BY DEF IsInstruction
<1>2. DOMAIN i.args = 1..Len(i.args) /\ i.args[k] \in Operands(t, i.op) /\ Len(i.args) \in Nat
  BY <1>1
<1>3. Operands(t, i.op) \subseteq Vregs(t) \cup Consts \cup FpConsts
  BY DEF Operands, Spilled, Surviving
<1>4. ASSUME i.op = "call" PROVE i.args[k].reg \notin Lost[t]
  <2>1. i.args[k] \in Surviving(t) \cup Consts
    BY <1>2, <1>4 DEF Operands, Floats, ToInt, FpToFp, FromInt
  <2>2. InMemory \notin Lost[t]
    BY DEF Lost, Targets, InMemory
  <2> QED
    BY <2>1, <2>2 DEF Surviving, Consts
<1> QED
  BY <1>2, <1>3, <1>4

LEMMA OperandVal ==
  ASSUME NEW t \in Targets, NEW i, IsInstruction(t, i), NEW m, Intact(t, i, m), NEW k \in 1..Len(i.args),
         i.args[k].kind # "fp", m.sp = Sp0(t) \/ FrameBased(t) \/ ~IsMem(i.args[k])
  PROVE  Val(t, m, Arg(i, k)) = Meant(i.args[k])
<1> DEFINE o == i.args[k]
<1>1. /\ o \in Vregs(t) \cup Consts /\ (i.op = "call" => o.reg \notin Lost[t])
      /\ DOMAIN i.args = 1..Len(i.args) /\ ~SamePlace(o, i.dst) /\ o \in Args(i)
      /\ \A p \in Args(i) : SamePlace(p, o) => p = o
  BY OperandIs DEF FpConsts, IsInstruction, Args
<1>2. CASE o.kind = "imm"
  BY <1>2 DEF Arg, Place, Val, Meant, InReg, IsMem, Imm
<1>3. CASE InReg(o)
  <2>1. Arg(i, k) = <<"reg", o.reg>> /\ Meant(o) = <<"vreg", o.n>> /\ o.reg \in Pool(t) \ Spoiled(t, i)
    <3>1. o \in Vregs(t) /\ o.kind = "vreg" /\ o.reg # InMemory
      BY <1>1, <1>3 DEF InReg, Consts
    <3>2. o.reg \in Pool(t) \ Spoiled(t, i)
      BY <1>1, <3>1 DEF Vregs, Spoiled
    <3>3. Arg(i, k) = <<"reg", o.reg>> /\ Meant(o) = <<"vreg", o.n>>
      BY <3>1 DEF Arg, Place, R, Meant, InReg, IsMem
    <3> QED
      BY <3>2, <3>3
  <2>2. R(o.reg) # Dst(i)
    BY <1>1, <1>3 DEF SamePlace, Dst, Place, InReg, IsMem, R, Slot, Imm
  <2>3. m.regs[o.reg] = AtEntry(i, o.reg)
    BY <2>1, <2>2 DEF Intact
  <2>4. \A p \in Args(i) : InReg(p) /\ p.reg = o.reg => p = o
    BY <1>1, <1>3 DEF SamePlace, InReg
  <2>5. (CHOOSE p \in Args(i) : InReg(p) /\ p.reg = o.reg) = o
    BY <1>1, <1>3, <2>4
  <2>6. AtEntry(i, o.reg) = <<"vreg", o.n>>
    BY <1>1, <1>3, <2>5 DEF AtEntry
  <2> QED
    BY <2>1, <2>3, <2>6 DEF Val
<1>4. CASE IsMem(o)
  <2> DEFINE w == SlotAt(t, Sp0(t), o.n)
  <2>1. Arg(i, k) = <<"slot", o.n>> /\ Meant(o) = <<"vreg", o.n>> /\ o.n \in 0..(NSlots-1)
    BY <1>1, <1>4 DEF Arg, Place, Slot, Meant, InReg, IsMem, Vregs, Consts
  <2>2. <<"slot", o.n>> # Dst(i)
    BY <1>1, <1>4 DEF SamePlace, Dst, Place, InReg, IsMem, R, Slot, Imm
  <2>3. m.mem[w] = InFrame(t, i, w)
    BY <2>1, <2>2 DEF Intact
  <2>4. \A p \in Args(i) : IsMem(p) /\ SlotAt(t, Sp0(t), p.n) = w => p.n = o.n
    <3>1. SUFFICES ASSUME NEW p \in Args(i), IsMem(p), SlotAt(t, Sp0(t), p.n) = w PROVE p.n = o.n
      OBVIOUS
    <3>2. p \in Vregs(t)
      <4>1. PICK j \in 1..Len(i.args) : p = i.args[j]
        BY <1>1, <3>1 DEF Args
      <4> QED
        BY <3>1, <4>1, OperandIs DEF IsMem, Consts, FpConsts
    <3> QED
      BY <2>1, <3>1, <3>2, BoundsAssumption DEF SlotAt, Sp0, Vregs
  <2>5. (CHOOSE p \in Args(i) : IsMem(p) /\ SlotAt(t, Sp0(t), p.n) = w).n = o.n
    BY <1>1, <1>4, <2>4
  <2>6. InFrame(t, i, w) = <<"vreg", o.n>>
    BY <1>1, <1>4, <2>5 DEF InFrame
  <2>7. Val(t, m, Arg(i, k)) = m.mem[w]
    BY <1>4, <2>1 DEF Val, SlotAt
  <2> QED
    BY <2>1, <2>3, <2>6, <2>7
<1> QED
  BY <1>1, <1>2, <1>3, <1>4 DEF Vregs, Consts, InReg, IsMem

LEMMA OneVal == \A t, m, p : Vals(t, m, <<p>>) = <<Val(t, m, p)>>
  BY DEF Vals
LEMMA TwoVals == \A t, m, p, q : Vals(t, m, <<p, q>>) = <<Val(t, m, p), Val(t, m, q)>>
  BY DEF Vals
LEMMA ThreeVals ==
  \A t, m, p, q, s : Vals(t, m, <<p, q, s>>) = <<Val(t, m, p), Val(t, m, q), Val(t, m, s)>>
  BY DEF Vals
LEMMA NoVals == \A t, m : Vals(t, m, <<>>) = <<>>
  BY DEF Vals
LEMMA Moved == \A x : Term("mov", <<x>>) = x
  BY DEF Term

LEMMA PutIs ==
  ASSUME NEW t, NEW m, Sane(t, m), NEW r \in AllRegs(t), NEW x
  PROVE  /\ Sane(t, Put(m, r, x)) /\ Put(m, r, x).regs[r] = x
         /\ \A q \in AllRegs(t) : q # r => Put(m, r, x).regs[q] = m.regs[q]
         /\ Put(m, r, x).mem = m.mem /\ Put(m, r, x).sp = m.sp /\ Put(m, r, x).seen = m.seen
         /\ Put(m, r, x).calls = m.calls
<1> DEFINE D == Pool(t) \cup Scratch
           g == [m.regs EXCEPT ![r] = x]
<1>1. /\ m = [regs |-> m.regs, mem |-> m.mem, sp |-> m.sp, seen |-> m.seen, calls |-> m.calls]
      /\ m.regs = [q \in D |-> m.regs[q]] /\ r \in D
  BY DEF Sane, AllRegs
<1>2. Put(m, r, x) = [regs |-> g, mem |-> m.mem, sp |-> m.sp, seen |-> m.seen, calls |-> m.calls]
  BY <1>1 DEF Put
<1> HIDE DEF D
<1>3. g[r] = x /\ g = [q \in D |-> g[q]] /\ \A q \in D : q # r => g[q] = m.regs[q]
  BY <1>1
<1> QED
  BY <1>2, <1>3 DEF Sane, D, AllRegs

(* code takes the machine from m to m2 and changes registers alone.        *)
Goes(t, i, code0, m, m2) ==
  /\ Runs(t, code0, m, m2) /\ Intact(t, i, m2)
  /\ m2.mem = m.mem /\ m2.sp = m.sp /\ m2.seen = m.seen /\ m2.calls = m.calls

LEMMA Stays ==
  ASSUME NEW t, NEW i, NEW m, Intact(t, i, m)
  PROVE  Goes(t, i, <<>>, m, m)
  BY RunsNone DEF Goes

LEMMA GoesThen ==
  ASSUME NEW t, NEW i, NEW x, NEW y, NEW m, NEW m1, NEW m2, Goes(t, i, x, m, m1), Goes(t, i, y, m1, m2)
  PROVE  Goes(t, i, x \o y, m, m2)
  BY RunsThen DEF Goes

LEMMA PutKeeps ==
  ASSUME NEW t \in Targets, NEW i, NEW m, Intact(t, i, m), NEW r \in Writable(t, i), NEW x
  PROVE  Intact(t, i, Put(m, r, x))
<1>1. r \in AllRegs(t) /\ Sane(t, m)
  BY DEF Writable, Intact
<1>2. /\ Sane(t, Put(m, r, x)) /\ Put(m, r, x).mem = m.mem
      /\ \A q \in AllRegs(t) : q # r => Put(m, r, x).regs[q] = m.regs[q]
  BY <1>1, PutIs
<1> QED
  BY <1>2 DEF Intact, Writable, AllRegs

LEMMA Sets ==
  ASSUME NEW t \in Targets, NEW i, NEW m, Intact(t, i, m), NEW r \in Writable(t, i), NEW op, NEW from,
         NEW x, x = Term(op, Vals(t, m, from))
  PROVE  Goes(t, i, <<Set(R(r), op, from)>>, m, Put(m, r, x))
<1>1. r \in AllRegs(t) /\ Sane(t, m)
  BY DEF Writable, Intact
<1>2. Put(m, r, x) = Step(t, Set(R(r), op, from), m)
  BY DEF Put, Step, Set, R
<1>3. Intact(t, i, Put(m, r, x)) /\ Sane(t, Put(m, r, x))
  BY PutKeeps DEF Intact
<1>4. /\ Put(m, r, x).mem = m.mem /\ Put(m, r, x).sp = m.sp /\ Put(m, r, x).seen = m.seen
      /\ Put(m, r, x).calls = m.calls
  BY <1>1, PutIs
<1>5. Runs(t, <<Set(R(r), op, from)>>, m, Put(m, r, x))
  BY <1>2, <1>3, RunsOne
<1> QED
  BY <1>3, <1>4, <1>5 DEF Goes

(* An operand comes into a register, by a mov or because it is there.      *)
LEMMA Loads ==
  ASSUME NEW t \in Targets, NEW i, IsInstruction(t, i), NEW m, Intact(t, i, m), NEW k \in 1..Len(i.args),
         i.args[k].kind # "fp", m.sp = Sp0(t) \/ FrameBased(t) \/ ~IsMem(i.args[k]),
         NEW r \in Writable(t, i)
  PROVE  /\ Goes(t, i, <<Mov(Arg(i, k), R(r))>>, m, Put(m, r, Meant(i.args[k])))
         /\ Goes(t, i, LoadTo(i, k, r), m, Put(m, r, Meant(i.args[k])))
<1> DEFINE x == Meant(i.args[k])
<1>1. Val(t, m, Arg(i, k)) = x
  BY OperandVal
<1>2. x = Term("mov", Vals(t, m, <<Arg(i, k)>>))
  BY <1>1, OneVal, Moved
<1>3. Goes(t, i, <<Mov(Arg(i, k), R(r))>>, m, Put(m, r, x))
  BY <1>2, Sets DEF Mov
<1>4. CASE Arg(i, k) = R(r)
  <2>1. m.regs[r] = x
    BY <1>1, <1>4 DEF Val, R
  <2>2. Put(m, r, x) = m
    BY <2>1 DEF Put, Intact, Sane
  <2>3. LoadTo(i, k, r) = <<>>
    BY <1>4 DEF LoadTo, Copy
  <2> QED
    BY <1>3, <2>2, <2>3, Stays
<1>5. CASE Arg(i, k) # R(r)
  BY <1>3, <1>5 DEF LoadTo, Copy
<1> QED
  BY <1>4, <1>5

-----------------------------------------------------------------------------
(* An instruction is compiled right when its code takes the machine from   *)
(* Entry to a state that is Good.                                          *)
Entry(t, i) == [regs |-> [r \in Pool(t) \cup Scratch |-> AtEntry(i, r)], mem |-> [w \in Words |-> InFrame(t, i, w)],
                sp |-> Sp0(t), seen |-> <<>>, calls |-> 0]

Good(t, i, m) ==
  /\ i.dst # None => Val(t, m, Dst(i)) = MeantResult(i)
  /\ \A r \in Pool(t) \ (IF m.calls > 0 THEN Lost[t] ELSE {}) :
       R(r) # Dst(i) /\ ~IsList(t, i, R(r)) => m.regs[r] = AtEntry(i, r)
  /\ \A v \in 0..(NSlots - 1) :
       <<"slot", v>> # Dst(i) /\ ~IsList(t, i, <<"slot", v>>)
         => m.mem[SlotAt(t, Sp0(t), v)] = InFrame(t, i, SlotAt(t, Sp0(t), v))
  /\ m.seen = MeantEffects(t, i) /\ m.sp = Sp0(t)

Compiled(t, i, code0) == \E m : Runs(t, code0, Entry(t, i), m) /\ Good(t, i, m)

LEMMA EntryIs ==
  ASSUME NEW t \in Targets, NEW i
  PROVE  /\ Intact(t, i, Entry(t, i)) /\ Entry(t, i).sp = Sp0(t) /\ Entry(t, i).seen = <<>> /\ Entry(t, i).calls = 0
         /\ \A v \in 0..(NSlots - 1) : SlotAt(t, Sp0(t), v) \in Words
<1> DEFINE m == Entry(t, i)
<1>1. /\ m.regs = [r \in Pool(t) \cup Scratch |-> AtEntry(i, r)] /\ m.mem = [w \in Words |-> InFrame(t, i, w)]
      /\ m.sp = Sp0(t) /\ m.seen = <<>> /\ m.calls = 0
      /\ m = [regs |-> m.regs, mem |-> m.mem, sp |-> m.sp, seen |-> m.seen, calls |-> m.calls]
  BY DEF Entry
<1> HIDE DEF m
<1>2. Sp0(t) \in Words /\ \A v \in 0..(NSlots - 1) : SlotAt(t, Sp0(t), v) \in Words
  BY BoundsAssumption DEF Sp0, SlotAt, Words
<1>3. IsSeq(<<>>)
  <2>1. <<>> \in Seq({})
    OBVIOUS
  <2> QED
    BY <2>1, SeqIs
<1>4. m.regs = [r \in Pool(t) \cup Scratch |-> m.regs[r]] /\ m.mem = [w \in Words |-> m.mem[w]]
  BY <1>1
<1>5. Sane(t, m)
  BY <1>1, <1>2, <1>3, <1>4 DEF Sane
<1>6. \A r \in Pool(t) : m.regs[r] = AtEntry(i, r)
  BY <1>1
<1>7. \A v \in 0..(NSlots - 1) : m.mem[SlotAt(t, Sp0(t), v)] = InFrame(t, i, SlotAt(t, Sp0(t), v))
  BY <1>1, <1>2
<1> QED
  BY <1>1, <1>2, <1>5, <1>6, <1>7 DEF Intact, m

LEMMA IntactIsGood ==
  ASSUME NEW t \in Targets, NEW i, NEW m, Intact(t, i, m), m.sp = Sp0(t), m.seen = MeantEffects(t, i),
         i.op = "call" => m.calls = 1, i.dst # None => Val(t, m, Dst(i)) = MeantResult(i)
  PROVE  Good(t, i, m)
<1>1. ASSUME NEW r \in Pool(t) \ (IF m.calls > 0 THEN Lost[t] ELSE {}), R(r) # Dst(i)
      PROVE  m.regs[r] = AtEntry(i, r)
  <2>1. r \in Pool(t) \ Spoiled(t, i)
    <3>1. CASE i.op = "call"
      BY <1>1, <3>1 DEF Spoiled
    <3>2. CASE i.op # "call"
      BY <1>1, <3>2 DEF Spoiled
    <3> QED
      BY <3>1, <3>2
  <2> QED
    BY <1>1, <2>1 DEF Intact
<1> QED
  BY <1>1 DEF Intact, Good

(* The result comes from a register to where the vreg is.                  *)
LEMMA ResultIs ==
  ASSUME NEW t \in Targets, NEW i, IsInstruction(t, i), i.dst # None
  PROVE  \/ \E q \in Pool(t) : Dst(i) = <<"reg", q>> /\ q \in Writable(t, i)
         \/ \E v \in 0..(NSlots - 1) : Dst(i) = <<"slot", v>>
<1>1. i.dst \in Vregs(t)
  BY DEF IsInstruction, Results, Spilled, Surviving
<1>2. i.dst.kind = "vreg" /\ i.dst.n \in 0..(NSlots - 1) /\ i.dst.reg \in Pool(t) \cup {InMemory}
  BY <1>1 DEF Vregs
<1>3. CASE i.dst.reg = InMemory
  <2>1. Dst(i) = <<"slot", i.dst.n>>
    BY <1>2, <1>3 DEF Dst, Place, InReg, IsMem, Slot
  <2> QED
    BY <1>2, <2>1
<1>4. CASE i.dst.reg # InMemory
  <2>1. Dst(i) = <<"reg", i.dst.reg>>
    BY <1>2, <1>4 DEF Dst, Place, InReg, IsMem, R
  <2> QED
    BY <1>2, <1>4, <2>1 DEF Writable, AllRegs, R
<1> QED
  BY <1>3, <1>4

PutWord(m, a, x) == [m EXCEPT !.mem[a] = x]

LEMMA SlotPut ==
  ASSUME NEW t \in Targets, NEW i, NEW m, Intact(t, i, m), NEW v \in 0..(NSlots - 1), Dst(i) = <<"slot", v>>, NEW x,
         NEW m2, m2 = PutWord(m, SlotAt(t, Sp0(t), v), x)
  PROVE  /\ Intact(t, i, m2) /\ m2.mem[SlotAt(t, Sp0(t), v)] = x
         /\ m2.regs = m.regs /\ m2.sp = m.sp /\ m2.seen = m.seen /\ m2.calls = m.calls
<1> DEFINE a == SlotAt(t, Sp0(t), v)
           g == [m.mem EXCEPT ![a] = x]
<1>1. /\ m = [regs |-> m.regs, mem |-> m.mem, sp |-> m.sp, seen |-> m.seen, calls |-> m.calls]
      /\ m.mem = [w \in Words |-> m.mem[w]] /\ Sane(t, m) /\ a \in Words
  BY EntryIs DEF Sane, Intact
<1>2. m2 = [regs |-> m.regs, mem |-> g, sp |-> m.sp, seen |-> m.seen, calls |-> m.calls]
  BY <1>1 DEF PutWord
<1>3. g[a] = x /\ g = [w \in Words |-> g[w]] /\ \A w \in Words : w # a => g[w] = m.mem[w]
  <2> HIDE DEF a
  <2> QED
    BY <1>1
<1>4. \A u \in 0..(NSlots - 1) : u # v => SlotAt(t, Sp0(t), u) # a /\ SlotAt(t, Sp0(t), u) \in Words
  <2>1. \A u \in 0..(NSlots - 1) : u # v => SlotAt(t, Sp0(t), u) # a
    <3>1. CASE FrameBased(t)
      BY <3>1, BoundsAssumption DEF SlotAt
    <3>2. CASE ~FrameBased(t)
      BY <3>2, BoundsAssumption DEF SlotAt, Sp0
    <3> QED
      BY <3>1, <3>2
  <2> QED
    BY <2>1, EntryIs
<1> HIDE DEF a, g
<1>5. m2.regs = m.regs /\ m2.mem = g /\ m2.sp = m.sp /\ m2.seen = m.seen /\ m2.calls = m.calls
  BY <1>2
<1>6. Sane(t, m2)
  BY <1>1, <1>2, <1>3 DEF Sane
<1>7. \A u \in 0..(NSlots - 1) : <<"slot", u>> # Dst(i) => g[SlotAt(t, Sp0(t), u)] = InFrame(t, i, SlotAt(t, Sp0(t), u))
  <2>1. SUFFICES ASSUME NEW u \in 0..(NSlots - 1), <<"slot", u>> # Dst(i)
                 PROVE  g[SlotAt(t, Sp0(t), u)] = InFrame(t, i, SlotAt(t, Sp0(t), u))
    OBVIOUS
  <2>2. u # v
    BY <2>1
  <2>3. g[SlotAt(t, Sp0(t), u)] = m.mem[SlotAt(t, Sp0(t), u)]
    BY <1>3, <1>4, <2>2
  <2> QED
    BY <2>1, <2>3 DEF Intact
<1>8. Intact(t, i, m2)
  BY <1>5, <1>6, <1>7 DEF Intact
<1> QED
  BY <1>3, <1>5, <1>8 DEF a

Delivers(t, i, code0, m, x) ==
  \E m2 : /\ Runs(t, code0, m, m2) /\ Intact(t, i, m2) /\ Val(t, m2, Dst(i)) = x
          /\ m2.sp = m.sp /\ m2.seen = m.seen /\ m2.calls = m.calls

LEMMA Moves ==
  ASSUME NEW t \in Targets, NEW i, IsInstruction(t, i), i.dst # None, NEW m, Intact(t, i, m), m.sp = Sp0(t),
         NEW r \in AllRegs(t)
  PROVE  Delivers(t, i, <<Mov(R(r), Dst(i))>>, m, m.regs[r]) /\ Delivers(t, i, StoreFrom(i, r), m, m.regs[r])
<1> DEFINE x == m.regs[r]
           c == Mov(R(r), Dst(i))
<1>1. Term(c.op, Vals(t, m, c.from)) = x /\ c.do = "set" /\ c.to = Dst(i)
  <2>1. Val(t, m, R(r)) = x
    BY DEF Val, R
  <2>2. Term("mov", Vals(t, m, <<R(r)>>)) = x
    BY <2>1, OneVal, Moved
  <2> QED
    BY <2>2 DEF Mov, Set
<1>2. Delivers(t, i, <<c>>, m, x)
  <2>1. CASE \E q \in Pool(t) : Dst(i) = <<"reg", q>> /\ q \in Writable(t, i)
    <3>1. PICK q \in Pool(t) : Dst(i) = <<"reg", q>> /\ q \in Writable(t, i)
      BY <2>1
    <3> DEFINE m2 == Put(m, q, x)
    <3>2. Goes(t, i, <<Set(R(q), "mov", <<R(r)>>)>>, m, m2)
      BY <1>1, <3>1, Sets DEF Mov, Set
    <3>3. c = Set(R(q), "mov", <<R(r)>>)
      BY <3>1 DEF Mov, R
    <3>4. m2.regs[q] = x
      BY <3>1, PutIs DEF Intact, AllRegs
    <3>5. Val(t, m2, Dst(i)) = x
      BY <3>1, <3>4 DEF Val
    <3> HIDE DEF m2, c, x
    <3> QED
      BY <3>2, <3>3, <3>5 DEF Goes, Delivers
  <2>2. CASE \E v \in 0..(NSlots - 1) : Dst(i) = <<"slot", v>>
    <3>1. PICK v \in 0..(NSlots - 1) : Dst(i) = <<"slot", v>>
      BY <2>2
    <3> DEFINE a == SlotAt(t, Sp0(t), v)
               m2 == PutWord(m, a, x)
    <3>2. /\ Intact(t, i, m2) /\ m2.mem[a] = x
          /\ m2.regs = m.regs /\ m2.sp = m.sp /\ m2.seen = m.seen /\ m2.calls = m.calls
      BY <3>1, SlotPut
    <3>3. WordAt(t, m, c.to) = a /\ c.to[1] # "reg"
      BY <1>1, <3>1 DEF WordAt
    <3> HIDE DEF a, c
    <3>4. m2 = Step(t, c, m)
      BY <1>1, <3>3 DEF Step, PutWord
    <3> HIDE DEF m2
    <3>5. Runs(t, <<c>>, m, m2)
      BY <3>2, <3>4, RunsOne DEF Intact
    <3>6. Val(t, m2, Dst(i)) = x
      BY <3>1, <3>2 DEF Val, a
    <3> HIDE DEF x
    <3> QED
      BY <3>2, <3>5, <3>6 DEF Delivers
  <2> QED
    BY <2>1, <2>2, ResultIs
<1>3. CASE R(r) = Dst(i)
  <2>1. Val(t, m, Dst(i)) = x /\ StoreFrom(i, r) = <<>>
    BY <1>3 DEF Val, R, StoreFrom, Copy
  <2> QED
    BY <1>2, <2>1, RunsNone DEF Delivers
<1>4. CASE R(r) # Dst(i)
  BY <1>2, <1>4 DEF StoreFrom, Copy
<1> QED
  BY <1>2, <1>3, <1>4

(* A computation in registers, then the store of its result.               *)
LEMMA Stored ==
  ASSUME NEW t \in Targets, NEW i, IsInstruction(t, i), i.op # "call", i.dst # None, MeantEffects(t, i) = <<>>,
         NEW code0, NEW m, Goes(t, i, code0, Entry(t, i), m), NEW r \in AllRegs(t), m.regs[r] = MeantResult(i)
  PROVE  Compiled(t, i, code0 \o StoreFrom(i, r)) /\ Compiled(t, i, code0 \o <<Mov(R(r), Dst(i))>>)
<1>1. Intact(t, i, m) /\ m.sp = Sp0(t) /\ m.seen = <<>>
  BY EntryIs DEF Goes
<1>2. ASSUME NEW c, Delivers(t, i, c, m, m.regs[r]) PROVE Compiled(t, i, code0 \o c)
  <2>1. PICK m2 : /\ Runs(t, c, m, m2) /\ Intact(t, i, m2) /\ Val(t, m2, Dst(i)) = m.regs[r]
                  /\ m2.sp = m.sp /\ m2.seen = m.seen /\ m2.calls = m.calls
    BY <1>2 DEF Delivers
  <2>2. Runs(t, code0 \o c, Entry(t, i), m2)
    BY <2>1, RunsThen DEF Goes
  <2>3. Good(t, i, m2)
    BY <1>1, <2>1, IntactIsGood
  <2> QED
    BY <2>2, <2>3 DEF Compiled
<1> QED
  BY <1>1, <1>2, Moves

-----------------------------------------------------------------------------
(* Sequences written out.                                                  *)
LEMMA SameSeq ==
  ASSUME NEW S, NEW s \in Seq(S), NEW u \in Seq(S), Len(s) = Len(u), \A i \in 1..Len(s) : s[i] = u[i]
  PROVE  s = u
<1>1. /\ s = [i \in 1..Len(s) |-> s[i]] /\ u = [i \in 1..Len(u) |-> u[i]]
  OBVIOUS
<1> QED
  BY <1>1

LEMMA Cons ==
  ASSUME NEW S, NEW a \in S, NEW y \in Seq(S), NEW z \in Seq(S), Len(z) = Len(y) + 1, z[1] = a,
         \A k \in 1..Len(y) : z[k+1] = y[k]
  PROVE  <<a>> \o y = z
<1>1. <<a>> \in Seq(S) /\ Len(<<a>>) = 1 /\ <<a>>[1] = a
  OBVIOUS
<1> DEFINE x == <<a>>
<1> HIDE DEF x
<1>2. x \in Seq(S) /\ Len(x) = 1 /\ x[1] = a
  BY <1>1 DEF x
<1>3. IsSeq(x) /\ IsSeq(y) /\ y \in Seq(S)
  BY <1>2, SeqIs
<1>a. x \o y \in Seq(S)
  BY <1>2, <1>3
<1>4. /\ Len(y) \in Nat /\ Len(x \o y) = Len(x) + Len(y)
      /\ \A i \in 1..Len(x) : (x \o y)[i] = x[i]
      /\ \A i \in 1..Len(y) : (x \o y)[Len(x) + i] = y[i]
  BY <1>3, ConcatIs
<1>5. ASSUME NEW i \in 1..Len(z) PROVE (x \o y)[i] = z[i]
  <2>1. CASE i = 1
    BY <1>2, <1>4, <2>1
  <2>2. CASE i # 1
    <3>1. i - 1 \in 1..Len(y) /\ i = Len(x) + (i-1) /\ i = (i-1) + 1
      BY <1>2, <1>4, <2>2
    <3>2. z[(i-1)+1] = y[i-1]
      BY <3>1
    <3> QED
      BY <1>4, <3>1, <3>2
  <2> QED
    BY <2>1, <2>2
<1>6. x \o y = z
  BY <1>2, <1>a, <1>4, <1>5, SameSeq
<1> QED
  BY <1>6 DEF x

LEMMA Cons2 == \A a, b : <<a>> \o <<b>> = <<a, b>>
<1> TAKE a, b
<1> DEFINE S == {a, b}  y == <<b>>  z == <<a, b>>
<1>1. y \in Seq(S) /\ z \in Seq(S) /\ Len(y) = 1 /\ Len(z) = 2 /\ z[1] = a /\ z[2] = y[1] /\ a \in S
  OBVIOUS
<1> HIDE DEF S, y, z
<1>2. /\ a \in S /\ y \in Seq(S) /\ z \in Seq(S) /\ Len(z) = Len(y) + 1 /\ z[1] = a
      /\ \A k \in 1..Len(y) : z[k+1] = y[k]
  BY <1>1
<1>3. <<a>> \o y = z
  BY <1>2, Cons, Zenon
<1> QED
  BY <1>3 DEF y, z

LEMMA Cons3 == \A a, b, c : <<a>> \o <<b, c>> = <<a, b, c>>
<1> TAKE a, b, c
<1> DEFINE S == {a, b, c}  y == <<b, c>>  z == <<a, b, c>>
<1>1. /\ y \in Seq(S) /\ z \in Seq(S) /\ Len(y) = 2 /\ Len(z) = 3 /\ a \in S
      /\ z[1] = a /\ z[2] = y[1] /\ z[3] = y[2]
  OBVIOUS
<1> HIDE DEF S, y, z
<1>2. /\ a \in S /\ y \in Seq(S) /\ z \in Seq(S) /\ Len(z) = Len(y) + 1 /\ z[1] = a
      /\ \A k \in 1..Len(y) : z[k+1] = y[k]
  BY <1>1
<1>3. <<a>> \o y = z
  BY <1>2, Cons, Zenon
<1> QED
  BY <1>3 DEF y, z

LEMMA Cons4 == \A a, b, c, d : <<a>> \o <<b, c, d>> = <<a, b, c, d>>
<1> TAKE a, b, c, d
<1> DEFINE S == {a, b, c, d}  y == <<b, c, d>>  z == <<a, b, c, d>>
<1>1. /\ y \in Seq(S) /\ z \in Seq(S) /\ Len(y) = 3 /\ Len(z) = 4 /\ a \in S
      /\ z[1] = a /\ z[2] = y[1] /\ z[3] = y[2] /\ z[4] = y[3]
  OBVIOUS
<1> HIDE DEF S, y, z
<1>2. /\ a \in S /\ y \in Seq(S) /\ z \in Seq(S) /\ Len(z) = Len(y) + 1 /\ z[1] = a
      /\ \A k \in 1..Len(y) : z[k+1] = y[k]
  BY <1>1
<1>3. <<a>> \o y = z
  BY <1>2, Cons, Zenon
<1> QED
  BY <1>3 DEF y, z

LEMMA Cons5 == \A a, b, c, d, e : <<a>> \o <<b, c, d, e>> = <<a, b, c, d, e>>
<1> TAKE a, b, c, d, e
<1> DEFINE S == {a, b, c, d, e}  y == <<b, c, d, e>>  z == <<a, b, c, d, e>>
<1>1. /\ y \in Seq(S) /\ z \in Seq(S) /\ Len(y) = 4 /\ Len(z) = 5 /\ a \in S
      /\ z[1] = a /\ z[2] = y[1] /\ z[3] = y[2] /\ z[4] = y[3] /\ z[5] = y[4]
  OBVIOUS
<1> HIDE DEF S, y, z
<1>2. /\ a \in S /\ y \in Seq(S) /\ z \in Seq(S) /\ Len(z) = Len(y) + 1 /\ z[1] = a
      /\ \A k \in 1..Len(y) : z[k+1] = y[k]
  BY <1>1
<1>3. <<a>> \o y = z
  BY <1>2, Cons, Zenon
<1> QED
  BY <1>3 DEF y, z

(* Printed code, one instruction after the other.                          *)
LEMMA NoCode == IsSeq(<<>>)
<1>1. <<>> \in Seq({})
  OBVIOUS
<1> QED
  BY <1>1, SeqIs

LEMMA OneCode == \A c : IsSeq(<<c>>)
<1> TAKE c
<1>1. <<c>> \in Seq({c})
  OBVIOUS
<1> QED
  BY <1>1, SeqIs

LEMMA IsSame ==
  ASSUME NEW s, NEW u, IsSeq(s), IsSeq(u), Len(s) = Len(u), \A k \in 1..Len(s) : s[k] = u[k]
  PROVE  s = u
<1> DEFINE S == Elems(s) \cup Elems(u)
<1>1. s \in Seq(S) /\ u \in Seq(S)
  <2>1. s \in Seq(Elems(s)) /\ u \in Seq(Elems(u)) /\ Elems(s) \subseteq S /\ Elems(u) \subseteq S
    BY DEF IsSeq
  <2> HIDE DEF S
  <2> QED
    BY <2>1
<1> HIDE DEF S
<1> QED
  BY <1>1, SameSeq

LEMMA Regroup ==
  ASSUME NEW x, NEW y, NEW z, IsSeq(x), IsSeq(y), IsSeq(z)
  PROVE  (x \o y) \o z = x \o (y \o z)
<1>1. /\ IsSeq(x \o y) /\ Len(x) \in Nat /\ Len(y) \in Nat /\ Len(x \o y) = Len(x) + Len(y)
      /\ \A i \in 1..Len(x) : (x \o y)[i] = x[i]
      /\ \A i \in 1..Len(y) : (x \o y)[Len(x) + i] = y[i]
  BY ConcatIs
<1>2. /\ IsSeq(y \o z) /\ Len(z) \in Nat /\ Len(y \o z) = Len(y) + Len(z)
      /\ \A i \in 1..Len(y) : (y \o z)[i] = y[i]
      /\ \A i \in 1..Len(z) : (y \o z)[Len(y) + i] = z[i]
  BY ConcatIs
<1> DEFINE l == (x \o y) \o z
           r == x \o (y \o z)
<1>3. /\ IsSeq(l) /\ Len(l) = Len(x \o y) + Len(z)
      /\ \A i \in 1..Len(x \o y) : l[i] = (x \o y)[i]
      /\ \A i \in 1..Len(z) : l[Len(x \o y) + i] = z[i]
  BY <1>1, ConcatIs
<1>4. /\ IsSeq(r) /\ Len(r) = Len(x) + Len(y \o z)
      /\ \A i \in 1..Len(x) : r[i] = x[i]
      /\ \A i \in 1..Len(y \o z) : r[Len(x) + i] = (y \o z)[i]
  BY <1>2, ConcatIs
<1> HIDE DEF l, r
<1>5. Len(l) = Len(r) /\ Len(l) = Len(x) + Len(y) + Len(z)
  BY <1>1, <1>2, <1>3, <1>4
<1>6. ASSUME NEW i \in 1..Len(l) PROVE l[i] = r[i]
  <2>1. CASE i <= Len(x)
    <3>1. i \in 1..Len(x) /\ i \in 1..Len(x \o y)
      BY <1>1, <2>1
    <3>2. l[i] = (x \o y)[i] /\ (x \o y)[i] = x[i]
      BY <1>1, <1>3, <3>1
    <3> QED
      BY <1>4, <3>1, <3>2
  <2>2. CASE i > Len(x) /\ i <= Len(x) + Len(y)
    <3>1. /\ i - Len(x) \in 1..Len(y) /\ i = Len(x) + (i - Len(x)) /\ i \in 1..Len(x \o y)
          /\ i - Len(x) \in 1..Len(y \o z)
      BY <1>1, <1>2, <2>2
    <3>2. l[i] = (x \o y)[i] /\ (x \o y)[i] = y[i - Len(x)]
      BY <1>1, <1>3, <3>1
    <3>3. r[i] = (y \o z)[i - Len(x)] /\ (y \o z)[i - Len(x)] = y[i - Len(x)]
      BY <1>2, <1>4, <3>1
    <3> QED
      BY <3>2, <3>3
  <2>3. CASE i > Len(x) + Len(y)
    <3> DEFINE j == i - (Len(x) + Len(y))
    <3>1. j \in 1..Len(z) /\ i = Len(x \o y) + j /\ i = Len(x) + (Len(y) + j) /\ Len(y) + j \in 1..Len(y \o z)
      BY <1>1, <1>2, <1>5, <2>3
    <3> HIDE DEF j
    <3>2. l[i] = z[j]
      BY <1>3, <3>1
    <3>3. r[i] = (y \o z)[Len(y) + j] /\ (y \o z)[Len(y) + j] = z[j]
      BY <1>2, <1>4, <3>1
    <3> QED
      BY <3>2, <3>3
  <2> QED
    BY <1>1, <1>2, <1>5, <2>1, <2>2, <2>3
<1>7. l = r
  BY <1>3, <1>4, <1>5, <1>6, IsSame
<1> QED
  BY <1>7 DEF l, r

LEMMA NoneThen ==
  ASSUME NEW s, IsSeq(s)
  PROVE  <<>> \o s = s /\ s \o <<>> = s
<1> DEFINE e == <<>>
<1>1. IsSeq(e) /\ Len(e) = 0
  BY NoCode
<1> HIDE DEF e
<1>2. /\ IsSeq(e \o s) /\ Len(s) \in Nat /\ Len(e \o s) = Len(e) + Len(s)
      /\ \A k \in 1..Len(s) : (e \o s)[Len(e) + k] = s[k]
  BY <1>1, ConcatIs
<1>3. /\ IsSeq(s \o e) /\ Len(s \o e) = Len(s) + Len(e) /\ \A k \in 1..Len(s) : (s \o e)[k] = s[k]
  BY <1>1, ConcatIs
<1>4. e \o s = s
  <2>1. Len(e \o s) = Len(s) /\ \A k \in 1..Len(s) : 0 + k = k
    BY <1>1, <1>2
  <2>2. \A k \in 1..Len(e \o s) : (e \o s)[k] = s[k]
    BY <1>1, <1>2, <2>1
  <2> QED
    BY <1>2, <2>1, <2>2, IsSame
<1>5. s \o e = s
  <2>1. Len(s \o e) = Len(s)
    BY <1>1, <1>2, <1>3
  <2> QED
    BY <1>3, <2>1, IsSame
<1> QED
  BY <1>4, <1>5 DEF e

Then(x, y) == x \o y

LEMMA Thens ==
  /\ \A x, y : IsSeq(x) /\ IsSeq(y) => IsSeq(Then(x, y))
  /\ \A x, y, z : IsSeq(x) /\ IsSeq(y) /\ IsSeq(z) => Then(Then(x, y), z) = Then(x, Then(y, z))
  /\ \A x : IsSeq(x) => Then(<<>>, x) = x /\ Then(x, <<>>) = x
<1>1. ASSUME NEW x, NEW y, IsSeq(x), IsSeq(y) PROVE IsSeq(Then(x, y))
  BY <1>1, ConcatIs DEF Then
<1>2. ASSUME NEW x, NEW y, NEW z, IsSeq(x), IsSeq(y), IsSeq(z) PROVE Then(Then(x, y), z) = Then(x, Then(y, z))
  BY <1>2, Regroup DEF Then
<1>3. ASSUME NEW x, IsSeq(x) PROVE Then(<<>>, x) = x /\ Then(x, <<>>) = x
  BY <1>3, NoneThen DEF Then
<1> QED
  BY <1>1, <1>2, <1>3

LEMMA ByHead ==
  /\ \A a, b : <<a, b>> = Then(<<a>>, <<b>>)
  /\ \A a, b, c : <<a, b, c>> = Then(<<a>>, <<b, c>>)
  /\ \A a, b, c, d : <<a, b, c, d>> = Then(<<a>>, <<b, c, d>>)
  /\ \A a, b, c, d, e : <<a, b, c, d, e>> = Then(<<a>>, <<b, c, d, e>>)
<1>1. ASSUME NEW a, NEW b PROVE <<a, b>> = Then(<<a>>, <<b>>)
  BY Cons2 DEF Then
<1>2. ASSUME NEW a, NEW b, NEW c PROVE <<a, b, c>> = Then(<<a>>, <<b, c>>)
  BY Cons3 DEF Then
<1>3. ASSUME NEW a, NEW b, NEW c, NEW d PROVE <<a, b, c, d>> = Then(<<a>>, <<b, c, d>>)
  BY Cons4 DEF Then
<1>4. ASSUME NEW a, NEW b, NEW c, NEW d, NEW e PROVE <<a, b, c, d, e>> = Then(<<a>>, <<b, c, d, e>>)
  BY Cons5 DEF Then
<1> QED
  BY <1>1, <1>2, <1>3, <1>4

LEMMA ByTwo ==
  ASSUME NEW s, IsSeq(s), NEW a, NEW b
  PROVE  Then(s, <<a, b>>) = Then(Then(s, <<a>>), <<b>>)
<1>1. IsSeq(<<a>>) /\ IsSeq(<<b>>)
  BY OneCode
<1>2. Then(s, Then(<<a>>, <<b>>)) = Then(Then(s, <<a>>), <<b>>)
  BY <1>1, Thens
<1> QED
  BY <1>2, ByHead

LEMMA ByThree ==
  ASSUME NEW s, IsSeq(s), NEW a, NEW b, NEW c
  PROVE  Then(s, <<a, b, c>>) = Then(Then(Then(s, <<a>>), <<b>>), <<c>>)
<1>1. IsSeq(<<a>>) /\ IsSeq(<<b, c>>)
  <2>1. <<b, c>> \in Seq({b, c})
    OBVIOUS
  <2> QED
    BY <2>1, SeqIs, OneCode
<1>2. Then(s, Then(<<a>>, <<b, c>>)) = Then(Then(s, <<a>>), <<b, c>>) /\ IsSeq(Then(s, <<a>>))
  BY <1>1, Thens
<1> QED
  BY <1>2, ByHead, ByTwo

LEMMA ByFour ==
  ASSUME NEW s, IsSeq(s), NEW a, NEW b, NEW c, NEW d
  PROVE  Then(s, <<a, b, c, d>>) = Then(Then(Then(Then(s, <<a>>), <<b>>), <<c>>), <<d>>)
<1>2. IsSeq(<<a>>) /\ IsSeq(<<b, c, d>>)
  <2>1. <<b, c, d>> \in Seq({b, c, d})
    OBVIOUS
  <2> QED
    BY <2>1, SeqIs, OneCode
<1>3. Then(s, Then(<<a>>, <<b, c, d>>)) = Then(Then(s, <<a>>), <<b, c, d>>) /\ IsSeq(Then(s, <<a>>))
  BY <1>2, Thens
<1> QED
  BY <1>3, ByHead, ByThree

LEMMA OneByOne ==
  /\ \A a, b : <<a, b>> = Then(<<a>>, <<b>>)
  /\ \A a, b, c : <<a, b, c>> = Then(Then(<<a>>, <<b>>), <<c>>)
  /\ \A a, b, c, d : <<a, b, c, d>> = Then(Then(Then(<<a>>, <<b>>), <<c>>), <<d>>)
  /\ \A a, b, c, d, e : <<a, b, c, d, e>> = Then(Then(Then(Then(<<a>>, <<b>>), <<c>>), <<d>>), <<e>>)
<1>1. ASSUME NEW a, NEW b, NEW c PROVE <<a, b, c>> = Then(Then(<<a>>, <<b>>), <<c>>)
  BY OneCode, ByHead, ByTwo
<1>2. ASSUME NEW a, NEW b, NEW c, NEW d
      PROVE  <<a, b, c, d>> = Then(Then(Then(<<a>>, <<b>>), <<c>>), <<d>>)
  <2>1. IsSeq(<<a>>)
    BY OneCode
  <2>2. Then(<<a>>, <<b, c, d>>) = Then(Then(Then(<<a>>, <<b>>), <<c>>), <<d>>)
    BY <2>1, ByThree
  <2> QED
    BY <2>2, ByHead
<1>3. ASSUME NEW a, NEW b, NEW c, NEW d, NEW e
      PROVE  <<a, b, c, d, e>> = Then(Then(Then(Then(<<a>>, <<b>>), <<c>>), <<d>>), <<e>>)
  <2>1. IsSeq(<<a>>)
    BY OneCode
  <2>2. Then(<<a>>, <<b, c, d, e>>) = Then(Then(Then(Then(<<a>>, <<b>>), <<c>>), <<d>>), <<e>>)
    BY <2>1, ByFour
  <2> QED
    BY <2>2, ByHead
<1> QED
  BY <1>1, <1>2, <1>3, ByHead

LEMMA ByLast ==
  /\ \A a, b : <<a, b>> = Then(<<a>>, <<b>>)
  /\ \A a, b, c : <<a, b, c>> = Then(<<a, b>>, <<c>>)
  /\ \A a, b, c, d : <<a, b, c, d>> = Then(<<a, b, c>>, <<d>>)
  /\ \A a, b, c, d, e : <<a, b, c, d, e>> = Then(<<a, b, c, d>>, <<e>>)
<1>1. ASSUME NEW a, NEW b, NEW c PROVE <<a, b, c>> = Then(<<a, b>>, <<c>>)
  <2>1. <<a, b>> = Then(<<a>>, <<b>>)
    BY OneByOne
  <2>2. <<a, b, c>> = Then(Then(<<a>>, <<b>>), <<c>>)
    BY OneByOne
  <2> QED
    BY <2>1, <2>2
<1>2. ASSUME NEW a, NEW b, NEW c, NEW d PROVE <<a, b, c, d>> = Then(<<a, b, c>>, <<d>>)
  <2>1. <<a, b, c>> = Then(Then(<<a>>, <<b>>), <<c>>)
    BY OneByOne
  <2>2. <<a, b, c, d>> = Then(Then(Then(<<a>>, <<b>>), <<c>>), <<d>>)
    BY OneByOne
  <2> QED
    BY <2>1, <2>2
<1>3. ASSUME NEW a, NEW b, NEW c, NEW d, NEW e PROVE <<a, b, c, d, e>> = Then(<<a, b, c, d>>, <<e>>)
  <2>1. <<a, b, c, d>> = Then(Then(Then(<<a>>, <<b>>), <<c>>), <<d>>)
    BY OneByOne
  <2>2. <<a, b, c, d, e>> = Then(Then(Then(Then(<<a>>, <<b>>), <<c>>), <<d>>), <<e>>)
    BY OneByOne
  <2> QED
    BY <2>1, <2>2
<1> QED
  BY <1>1, <1>2, <1>3, OneByOne

LEMMA LiteralIs ==
  \A a, b, c, d, e : /\ IsSeq(<<a>>) /\ IsSeq(<<a, b>>) /\ IsSeq(<<a, b, c>>) /\ IsSeq(<<a, b, c, d>>)
                     /\ IsSeq(<<a, b, c, d, e>>)
<1> TAKE a, b, c, d, e
<1>1. <<a>> \in Seq({a}) /\ <<a, b>> \in Seq({a, b}) /\ <<a, b, c>> \in Seq({a, b, c})
  OBVIOUS
<1>2. <<a, b, c, d>> \in Seq({a, b, c, d}) /\ <<a, b, c, d, e>> \in Seq({a, b, c, d, e})
  OBVIOUS
<1> QED
  BY <1>1, <1>2, SeqIs

LEMMA ByFive ==
  ASSUME NEW s, IsSeq(s), NEW a, NEW b, NEW c, NEW d, NEW e
  PROVE  Then(s, <<a, b, c, d, e>>) = Then(Then(Then(Then(Then(s, <<a>>), <<b>>), <<c>>), <<d>>), <<e>>)
<1>1. IsSeq(<<a>>) /\ IsSeq(<<b, c, d, e>>)
  BY LiteralIs
<1>2. Then(s, Then(<<a>>, <<b, c, d, e>>)) = Then(Then(s, <<a>>), <<b, c, d, e>>) /\ IsSeq(Then(s, <<a>>))
  BY <1>1, Thens
<1> QED
  BY <1>2, ByHead, ByFour

-----------------------------------------------------------------------------
(* What has been printed so far takes the machine from Entry to m, where   *)
(* no vreg but the result has changed.                                     *)
Reach(t, i, code0, m) ==
  Runs(t, code0, Entry(t, i), m) /\ Intact(t, i, m) /\ m.sp = Sp0(t) /\ m.calls = 0

LEMMA ReachNone ==
  ASSUME NEW t \in Targets, NEW i
  PROVE  Reach(t, i, <<>>, Entry(t, i))
  BY EntryIs, RunsNone DEF Reach

LEMMA ReachSeq ==
  ASSUME NEW t, NEW i, NEW code0, NEW m, Reach(t, i, code0, m)
  PROVE  IsSeq(code0) /\ Sane(t, m)
  BY DEF Reach, Runs, Intact

LEMMA ReachThen ==
  ASSUME NEW t, NEW i, NEW x, NEW y, NEW m, NEW m2, Reach(t, i, x, m), Goes(t, i, y, m, m2)
  PROVE  Reach(t, i, Then(x, y), m2)
<1>1. Runs(t, x \o y, Entry(t, i), m2)
  BY RunsThen DEF Reach, Goes
<1> QED
  BY <1>1 DEF Reach, Goes, Then

LEMMA ReachSet ==
  ASSUME NEW t \in Targets, NEW i, NEW code0, NEW m, Reach(t, i, code0, m), NEW r \in Writable(t, i), NEW op, NEW from
  PROVE  Reach(t, i, Then(code0, <<Set(R(r), op, from)>>), Put(m, r, Term(op, Vals(t, m, from))))
<1>1. Goes(t, i, <<Set(R(r), op, from)>>, m, Put(m, r, Term(op, Vals(t, m, from))))
  BY Sets DEF Reach
<1> QED
  BY <1>1, ReachThen

LEMMA ReachLoad ==
  ASSUME NEW t \in Targets, NEW i, IsInstruction(t, i), NEW code0, NEW m, Reach(t, i, code0, m),
         NEW k \in 1..Len(i.args), i.args[k].kind # "fp", NEW r \in Writable(t, i)
  PROVE  /\ Reach(t, i, Then(code0, <<Mov(Arg(i, k), R(r))>>), Put(m, r, Meant(i.args[k])))
         /\ Reach(t, i, Then(code0, LoadTo(i, k, r)), Put(m, r, Meant(i.args[k])))
<1>1. /\ Goes(t, i, <<Mov(Arg(i, k), R(r))>>, m, Put(m, r, Meant(i.args[k])))
      /\ Goes(t, i, LoadTo(i, k, r), m, Put(m, r, Meant(i.args[k])))
  BY Loads DEF Reach
<1> QED
  BY <1>1, ReachThen

Saw(m, x) == [m EXCEPT !.seen = Append(m.seen, x)]

Told(op, xs) == <<op>> \o xs

LEMMA ReachDo ==
  ASSUME NEW t \in Targets, NEW i, NEW code0, NEW m, Reach(t, i, code0, m), NEW op, NEW from
  PROVE  \E m2 : /\ Reach(t, i, Then(code0, <<Do(op, from)>>), m2)
                 /\ m2.regs = m.regs /\ m2.mem = m.mem /\ m2.sp = m.sp
                 /\ m2.seen = Append(m.seen, Told(op, Vals(t, m, from)))
<1> DEFINE x == Told(op, Vals(t, m, from))
           m2 == Saw(m, x)
<1>1. m = [regs |-> m.regs, mem |-> m.mem, sp |-> m.sp, seen |-> m.seen, calls |-> m.calls] /\ IsSeq(m.seen)
  BY DEF Reach, Intact, Sane
<1>2. m2 = Step(t, Do(op, from), m)
  BY DEF Saw, Step, Do, Told
<1> HIDE DEF x
<1>3. m2 = [regs |-> m.regs, mem |-> m.mem, sp |-> m.sp, seen |-> Append(m.seen, x), calls |-> m.calls]
  <2> DEFINE y == Append(m.seen, x)
  <2>1. m2 = [m EXCEPT !.seen = y]
    BY DEF Saw
  <2> HIDE DEF y, m2
  <2>2. m2 = [regs |-> m.regs, mem |-> m.mem, sp |-> m.sp, seen |-> y, calls |-> m.calls]
    BY <1>1, <2>1
  <2> QED
    BY <2>2 DEF y
<1>4. IsSeq(Append(m.seen, x))
  <2>1. m.seen \in Seq(Elems(m.seen)) /\ Elems(m.seen) \subseteq Elems(m.seen) \cup {x}
    BY <1>1 DEF IsSeq
  <2> DEFINE S == Elems(m.seen) \cup {x}
  <2>2. m.seen \in Seq(S) /\ x \in S
    <3> HIDE DEF S
    <3>1. m.seen \in Seq(Elems(m.seen)) /\ Elems(m.seen) \subseteq S
      BY <2>1 DEF S
    <3>2. m.seen \in Seq(S)
      BY <3>1
    <3> QED
      BY <3>2 DEF S
  <2> HIDE DEF S
  <2>3. Append(m.seen, x) \in Seq(S)
    BY <2>2
  <2> QED
    BY <2>3, SeqIs
<1> HIDE DEF m2
<1>5. /\ m2.regs = m.regs /\ m2.mem = m.mem /\ m2.sp = m.sp /\ m2.seen = Append(m.seen, x) /\ m2.calls = m.calls
  BY <1>3
<1>6. Intact(t, i, m2)
  BY <1>3, <1>4, <1>5 DEF Reach, Intact, Sane
<1>7. Runs(t, <<Do(op, from)>>, m, m2)
  BY <1>2, <1>6, RunsOne DEF Intact
<1>8. Runs(t, code0 \o <<Do(op, from)>>, Entry(t, i), m2)
  BY <1>7, RunsThen DEF Reach
<1>9. Reach(t, i, Then(code0, <<Do(op, from)>>), m2)
  BY <1>5, <1>6, <1>8 DEF Reach, Then
<1> QED
  BY <1>5, <1>9 DEF x

LEMMA ReachResult ==
  ASSUME NEW t \in Targets, NEW i, IsInstruction(t, i), i.op # "call", i.dst # None, NEW code0, NEW m,
         Reach(t, i, code0, m), m.seen = MeantEffects(t, i), NEW r \in AllRegs(t), m.regs[r] = MeantResult(i)
  PROVE  /\ Compiled(t, i, Then(code0, StoreFrom(i, r)))
         /\ Compiled(t, i, Then(code0, <<Mov(R(r), Dst(i))>>))
<1>1. Intact(t, i, m) /\ m.sp = Sp0(t)
  BY DEF Reach
<1>2. ASSUME NEW c, Delivers(t, i, c, m, m.regs[r]) PROVE Compiled(t, i, Then(code0, c))
  <2>1. PICK m2 : /\ Runs(t, c, m, m2) /\ Intact(t, i, m2) /\ Val(t, m2, Dst(i)) = m.regs[r]
                  /\ m2.sp = m.sp /\ m2.seen = m.seen /\ m2.calls = m.calls
    BY <1>2 DEF Delivers
  <2>2. Runs(t, code0 \o c, Entry(t, i), m2)
    BY <2>1, RunsThen DEF Reach
  <2>3. Good(t, i, m2)
    BY <1>1, <2>1, IntactIsGood
  <2> QED
    BY <2>2, <2>3 DEF Compiled, Then
<1> QED
  BY <1>1, <1>2, Moves

LEMMA ReachEnd ==
  ASSUME NEW t \in Targets, NEW i, i.op # "call", i.dst = None, NEW code0, NEW m,
         Reach(t, i, code0, m), m.seen = MeantEffects(t, i)
  PROVE  Compiled(t, i, code0)
<1>1. Good(t, i, m)
  BY IntactIsGood DEF Reach
<1> QED
  BY <1>1 DEF Compiled, Reach

-----------------------------------------------------------------------------
(* What has been printed leaves A at p, and B at q.                        *)
Has(t, i, code0, p, A) == \E m : Reach(t, i, code0, m) /\ Val(t, m, p) = A /\ m.seen = <<>>
Has2(t, i, code0, p, A, q, B) ==
  \E m : Reach(t, i, code0, m) /\ Val(t, m, p) = A /\ Val(t, m, q) = B /\ m.seen = <<>>

LEMMA ValReg == \A t, m, r : Val(t, m, R(r)) = m.regs[r] /\ Val(t, m, <<"reg", r>>) = m.regs[r]
  BY DEF Val, R
LEMMA ValImm == \A t, m, n : Val(t, m, Imm(n)) = Imm(n) /\ Val(t, m, <<"fp", n>>) = <<"fp", n>>
  BY DEF Val, Imm

LEMMA ReachPut ==
  ASSUME NEW t, NEW i, NEW code0, NEW m, Reach(t, i, code0, m), NEW r \in Writable(t, i), NEW x
  PROVE  /\ Put(m, r, x).regs[r] = x /\ Put(m, r, x).seen = m.seen /\ Put(m, r, x).mem = m.mem
         /\ Put(m, r, x).sp = m.sp
         /\ \A q \in AllRegs(t) : q # r => Put(m, r, x).regs[q] = m.regs[q]
  BY ReachSeq, PutIs DEF Writable

LEMMA HasNone ==
  ASSUME NEW t \in Targets, NEW i, NEW r \in Writable(t, i), NEW op, NEW from, NEW x, op # "mov", op # "mul",
         \A m : <<op>> \o Vals(t, m, from) = x
  PROVE  Has(t, i, <<Set(R(r), op, from)>>, R(r), x)
<1> DEFINE m0 == Entry(t, i)
           m == Put(m0, r, Term(op, Vals(t, m0, from)))
<1>1. Reach(t, i, <<>>, m0) /\ m0.seen = <<>>
  BY ReachNone, EntryIs
<1>2. Reach(t, i, Then(<<>>, <<Set(R(r), op, from)>>), m)
  BY <1>1, ReachSet
<1>3. Then(<<>>, <<Set(R(r), op, from)>>) = <<Set(R(r), op, from)>>
  BY Thens, OneCode
<1>4. m.regs[r] = Term(op, Vals(t, m0, from)) /\ m.seen = <<>>
  BY <1>1, ReachPut
<1>5. Term(op, Vals(t, m0, from)) = x
  BY DEF Term
<1> HIDE DEF m, m0
<1> QED
  BY <1>2, <1>3, <1>4, <1>5, ValReg DEF Has

LEMMA HasOne ==
  ASSUME NEW t \in Targets, NEW i, IsInstruction(t, i), 1 \in 1..Len(i.args), i.args[1].kind # "fp",
         NEW r \in Writable(t, i)
  PROVE  /\ Has(t, i, LoadTo(i, 1, r), R(r), Meant(i.args[1]))
         /\ Has(t, i, <<Mov(Arg(i, 1), R(r))>>, R(r), Meant(i.args[1]))
<1> DEFINE m0 == Entry(t, i)
           m == Put(m0, r, Meant(i.args[1]))
<1>1. Reach(t, i, <<>>, m0) /\ m0.seen = <<>>
  BY ReachNone, EntryIs
<1>2. Reach(t, i, Then(<<>>, <<Mov(Arg(i, 1), R(r))>>), m) /\ Reach(t, i, Then(<<>>, LoadTo(i, 1, r)), m)
  BY <1>1, ReachLoad
<1>3. Then(<<>>, <<Mov(Arg(i, 1), R(r))>>) = <<Mov(Arg(i, 1), R(r))>>
  BY Thens, OneCode
<1>4. Then(<<>>, LoadTo(i, 1, r)) = LoadTo(i, 1, r)
  BY Thens, OneCode, NoCode DEF LoadTo, Copy
<1>5. m.regs[r] = Meant(i.args[1]) /\ m.seen = <<>>
  BY <1>1, ReachPut
<1> HIDE DEF m, m0
<1> QED
  BY <1>2, <1>3, <1>4, <1>5, ValReg DEF Has

(* Two operands: the first in a register, the second where it is or in     *)
(* another one.                                                            *)
LEMMA HasTwo ==
  ASSUME NEW t \in Targets, NEW i, IsInstruction(t, i), 2 \in 1..Len(i.args),
         i.args[1].kind # "fp", i.args[2].kind # "fp", NEW r \in Writable(t, i)
  PROVE  /\ Has2(t, i, LoadTo(i, 1, r), R(r), Meant(i.args[1]), Arg(i, 2), Meant(i.args[2]))
         /\ \A s \in Writable(t, i) : s # r =>
              /\ Has2(t, i, Then(LoadTo(i, 1, r), LoadTo(i, 2, s)), R(r), Meant(i.args[1]), R(s), Meant(i.args[2]))
              /\ Has2(t, i, <<Mov(Arg(i, 1), R(r)), Mov(Arg(i, 2), R(s))>>,
                      R(r), Meant(i.args[1]), R(s), Meant(i.args[2]))
<1> DEFINE A == Meant(i.args[1])
           B == Meant(i.args[2])
<1>1. 1 \in 1..Len(i.args)
  OBVIOUS
<1>2. PICK m : Reach(t, i, LoadTo(i, 1, r), m) /\ Val(t, m, R(r)) = A /\ m.seen = <<>>
  BY <1>1, HasOne DEF Has
<1>3. PICK n : Reach(t, i, <<Mov(Arg(i, 1), R(r))>>, n) /\ Val(t, n, R(r)) = A /\ n.seen = <<>>
  BY <1>1, HasOne DEF Has
<1>4. Has2(t, i, LoadTo(i, 1, r), R(r), A, Arg(i, 2), B)
  <2>1. Val(t, m, Arg(i, 2)) = B
    BY <1>2, OperandVal DEF Reach
  <2> QED
    BY <1>2, <2>1 DEF Has2
<1>5. ASSUME NEW s \in Writable(t, i), s # r
      PROVE  /\ Has2(t, i, Then(LoadTo(i, 1, r), LoadTo(i, 2, s)), R(r), A, R(s), B)
             /\ Has2(t, i, <<Mov(Arg(i, 1), R(r)), Mov(Arg(i, 2), R(s))>>, R(r), A, R(s), B)
  <2> HIDE DEF A
  <2> DEFINE m2 == Put(m, s, B)
             n2 == Put(n, s, B)
  <2>1. Reach(t, i, Then(LoadTo(i, 1, r), LoadTo(i, 2, s)), m2)
    BY <1>2, ReachLoad
  <2>2. Reach(t, i, Then(<<Mov(Arg(i, 1), R(r))>>, <<Mov(Arg(i, 2), R(s))>>), n2)
    BY <1>3, ReachLoad
  <2>3. <<Mov(Arg(i, 1), R(r)), Mov(Arg(i, 2), R(s))>> = Then(<<Mov(Arg(i, 1), R(r))>>, <<Mov(Arg(i, 2), R(s))>>)
    BY OneByOne
  <2>4. r \in AllRegs(t)
    BY DEF Writable
  <2>5. m2.regs[s] = B /\ m2.seen = <<>> /\ m2.regs[r] = A
    BY <1>2, <1>5, <2>4, ReachPut, ValReg
  <2>6. n2.regs[s] = B /\ n2.seen = <<>> /\ n2.regs[r] = A
    BY <1>3, <1>5, <2>4, ReachPut, ValReg
  <2> HIDE DEF m2, n2
  <2> QED
    BY <2>1, <2>2, <2>3, <2>5, <2>6, ValReg DEF Has2
<1> QED
  BY <1>4, <1>5

(* An instruction of the machine with the result of the IR's.              *)
LEMMA ComputesOne ==
  ASSUME NEW t \in Targets, NEW i, NEW code0, NEW p, NEW A, Has(t, i, code0, p, A), NEW r \in Writable(t, i), NEW op, NEW n
  PROVE  /\ Has(t, i, Then(code0, <<Set(R(r), op, <<p>>)>>), R(r), Term(op, <<A>>))
         /\ Has(t, i, Then(code0, <<Set(R(r), op, <<p, Imm(n)>>)>>), R(r), Term(op, <<A, Imm(n)>>))
<1>1. PICK m : Reach(t, i, code0, m) /\ Val(t, m, p) = A /\ m.seen = <<>>
  BY DEF Has
<1>2. Vals(t, m, <<p>>) = <<A>> /\ Vals(t, m, <<p, Imm(n)>>) = <<A, Imm(n)>>
  BY <1>1, OneVal, TwoVals, ValImm
<1>3. ASSUME NEW from, NEW x, Term(op, Vals(t, m, from)) = x
      PROVE  Has(t, i, Then(code0, <<Set(R(r), op, from)>>), R(r), x)
  <2>1. Reach(t, i, Then(code0, <<Set(R(r), op, from)>>), Put(m, r, x))
    BY <1>1, <1>3, ReachSet
  <2>2. Put(m, r, x).regs[r] = x /\ Put(m, r, x).seen = <<>>
    BY <1>1, ReachPut
  <2> QED
    BY <2>1, <2>2, ValReg DEF Has
<1> QED
  BY <1>2, <1>3

LEMMA ComputesTwo ==
  ASSUME NEW t \in Targets, NEW i, NEW code0, NEW p, NEW A, NEW q, NEW B, Has2(t, i, code0, p, A, q, B),
         NEW r \in Writable(t, i), NEW op
  PROVE  Has(t, i, Then(code0, <<Set(R(r), op, <<p, q>>)>>), R(r), Term(op, <<A, B>>))
<1>1. PICK m : Reach(t, i, code0, m) /\ Val(t, m, p) = A /\ Val(t, m, q) = B /\ m.seen = <<>>
  BY DEF Has2
<1>2. Vals(t, m, <<p, q>>) = <<A, B>>
  BY <1>1, TwoVals
<1> DEFINE x == Term(op, <<A, B>>)
<1>3. Reach(t, i, Then(code0, <<Set(R(r), op, <<p, q>>)>>), Put(m, r, x))
  BY <1>1, <1>2, ReachSet
<1>4. Put(m, r, x).regs[r] = x /\ Put(m, r, x).seen = <<>>
  BY <1>1, ReachPut
<1> QED
  BY <1>3, <1>4, ValReg DEF Has

(* Instructions of the IR without an effect.                               *)
Pure(t, i) == i.op # "call" /\ i.dst # None /\ MeantEffects(t, i) = <<>>

LEMMA HasResult ==
  ASSUME NEW t \in Targets, NEW i, IsInstruction(t, i), Pure(t, i), NEW code0, NEW r \in Writable(t, i),
         Has(t, i, code0, R(r), MeantResult(i))
  PROVE  /\ Compiled(t, i, Then(code0, StoreFrom(i, r)))
         /\ Compiled(t, i, Then(code0, <<Mov(R(r), Dst(i))>>))
<1>1. PICK m : Reach(t, i, code0, m) /\ Val(t, m, R(r)) = MeantResult(i) /\ m.seen = <<>>
  BY DEF Has
<1>2. m.regs[r] = MeantResult(i) /\ r \in AllRegs(t)
  BY <1>1, ValReg DEF Writable
<1> QED
  BY <1>1, <1>2, ReachResult DEF Pure

-----------------------------------------------------------------------------
(* What the instructions mean, by their operands.                          *)
LEMMA ArgsMeant ==
  ASSUME NEW i, NEW S, i.args \in Seq(S)
  PROVE  /\ Len(i.args) = 0 => i.args = <<>> /\ MeantArgs(i) = <<>>
         /\ Len(i.args) = 1 => MeantArgs(i) = <<Meant(i.args[1])>> /\ 1 \in 1..Len(i.args)
         /\ Len(i.args) = 2 => MeantArgs(i) = <<Meant(i.args[1]), Meant(i.args[2])>> /\ 1 \in 1..Len(i.args)
                               /\ 2 \in 1..Len(i.args)
<1>1. DOMAIN i.args = 1..Len(i.args) /\ MeantArgs(i) = [k \in 1..Len(i.args) |-> Meant(i.args[k])]
  BY DEF MeantArgs
<1>2. ASSUME Len(i.args) = 0 PROVE i.args = <<>> /\ MeantArgs(i) = <<>>
  <2>1. i.args = <<>>
    BY <1>2
  <2>2. MeantArgs(i) = [k \in 1..0 |-> Meant(i.args[k])]
    BY <1>1, <1>2
  <2> QED
    BY <2>1, <2>2
<1>3. ASSUME Len(i.args) = 1 PROVE MeantArgs(i) = <<Meant(i.args[1])>>
  <2>1. MeantArgs(i) = [k \in 1..1 |-> Meant(i.args[k])]
    BY <1>1, <1>3
  <2> QED
    BY <2>1
<1>4. ASSUME Len(i.args) = 2 PROVE MeantArgs(i) = <<Meant(i.args[1]), Meant(i.args[2])>>
  <2>1. MeantArgs(i) = [k \in 1..2 |-> Meant(i.args[k])]
    BY <1>1, <1>4
  <2> QED
    BY <2>1
<1> QED
  BY <1>2, <1>3, <1>4

LEMMA Shape ==
  ASSUME NEW t \in Targets, NEW i, IsInstruction(t, i)
  PROVE  /\ i.args \in Seq(Operands(t, i.op)) /\ Len(i.args) \in Arities(i.op) /\ i.dst \in Results(t, i.op)
         /\ \A k \in 1..Len(i.args) : i.args[k] \in Operands(t, i.op)
  BY DEF IsInstruction

LEMMA Binaries ==
  ASSUME NEW t \in Targets, NEW i, IsInstruction(t, i),
         i.op \in Alus \cup Divisions \cup Shifts \cup {"icmp", "gep", "store", "memcpy"}
  PROVE  /\ i.args \in Seq(Operands(t, i.op)) /\ Len(i.args) = 2 /\ 1 \in 1..Len(i.args) /\ 2 \in 1..Len(i.args)
         /\ i.args[1] \in Vregs(t) \cup Consts /\ i.args[2] \in Vregs(t) \cup Consts
         /\ i.args[1].kind # "fp" /\ i.args[2].kind # "fp"
         /\ MeantArgs(i) = <<Meant(i.args[1]), Meant(i.args[2])>>
<1>1. Len(i.args) = 2
  BY Shape DEF Arities, Alus, Divisions, Shifts, Floats
<1>2. Operands(t, i.op) = Vregs(t) \cup Consts
  BY DEF Operands, Alus, Divisions, Shifts, Floats, ToInt, FpToFp, FromInt
<1>3. /\ i.args[1] \in Vregs(t) \cup Consts /\ i.args[2] \in Vregs(t) \cup Consts
  BY <1>1, <1>2, Shape
<1> QED
  BY <1>1, <1>3, Shape, ArgsMeant DEF Vregs, Consts

LEMMA Unaries ==
  ASSUME NEW t \in Targets, NEW i, IsInstruction(t, i),
         i.op \in Negations \cup Widths \cup {"load", "gep_field", "phi", "va_arg", "cbr"}
  PROVE  /\ i.args \in Seq(Operands(t, i.op)) /\ Len(i.args) = 1 /\ 1 \in 1..Len(i.args)
         /\ i.args[1] \in Vregs(t) \cup Consts /\ i.args[1].kind # "fp"
         /\ MeantArgs(i) = <<Meant(i.args[1])>>
<1>1. Len(i.args) = 1
  BY Shape DEF Arities, Alus, Divisions, Shifts, Floats, Negations, Widths
<1>2. Operands(t, i.op) \subseteq Vregs(t) \cup Consts
  BY DEF Operands, Negations, Widths, Floats, ToInt, FpToFp, FromInt
<1>3. i.args[1] \in Vregs(t) \cup Consts
  BY <1>1, <1>2, Shape
<1> QED
  BY <1>1, <1>3, Shape, ArgsMeant DEF Vregs, Consts

LEMMA Pures ==
  ASSUME NEW t \in Targets, NEW i, IsInstruction(t, i), i.op \notin Effects, i.op \notin {"call", "va_start", "va_arg"}
  PROVE  Pure(t, i)
<1>1. i.dst # None
  <2>1. i.dst \in Vregs(t)
    BY Shape DEF Results, Spilled
  <2> QED
    BY <2>1 DEF Vregs, None
<1>2. MeantEffects(t, i) = <<>>
  BY DEF MeantEffects, Effects
<1> QED
  BY <1>1, <1>2 DEF Pure

LEMMA MeansTwo ==
  ASSUME NEW t \in Targets, NEW i, IsInstruction(t, i), i.op \in Alus \cup Divisions \cup Shifts \cup {"icmp"}
  PROVE  MeantResult(i) = Term(i.op, <<Meant(i.args[1]), Meant(i.args[2])>>) /\ Pure(t, i)
<1>1. i.op \notin Effects /\ i.op \notin {"call", "va_start", "va_arg"}
  BY DEF Effects, Alus, Divisions, Shifts
<1>2. MeantArgs(i) = <<Meant(i.args[1]), Meant(i.args[2])>>
  BY Binaries
<1>3. MeantResult(i) = Term(i.op, MeantArgs(i))
  BY DEF MeantResult, Widths, Alus, Divisions, Shifts, Negations, Floats, FromInt, ToInt, FpToFp
<1> QED
  BY <1>1, <1>2, <1>3, Pures

LEMMA MeansOne ==
  ASSUME NEW t \in Targets, NEW i, IsInstruction(t, i), i.op \in Negations \cup Widths \cup {"load", "gep_field", "phi"}
  PROVE  /\ i.op \in Widths => MeantResult(i) = Term(LowByte(i.op), <<Meant(i.args[1])>>)
         /\ i.op = "gep_field" => MeantResult(i) = Term("add", <<Meant(i.args[1]), Imm(i.n)>>)
         /\ i.op = "phi" => MeantResult(i) = Meant(i.args[1])
         /\ i.op \in Negations \cup {"load"} => MeantResult(i) = Term(i.op, <<Meant(i.args[1])>>)
         /\ Pure(t, i)
<1>1. i.op \notin Effects /\ i.op \notin {"call", "va_start", "va_arg"}
  BY DEF Effects, Negations, Widths
<1> DEFINE A == Meant(i.args[1])
<1>2. MeantArgs(i) = <<A>> /\ Pure(t, i)
  BY <1>1, Unaries, Pures
<1>3. MeantArgs(i)[1] = A
  BY <1>2
<1> HIDE DEF A
<1>4. ASSUME i.op \in Widths PROVE MeantResult(i) = Term(LowByte(i.op), <<A>>)
  <2>2. MeantResult(i) = Term(LowByte(i.op), MeantArgs(i))
    BY <1>4 DEF MeantResult, Widths, Alus, Divisions, Shifts, Negations, Floats, FromInt, ToInt, FpToFp
  <2> QED
    BY <1>2, <2>2
<1>5. ASSUME i.op = "gep_field" PROVE MeantResult(i) = Term("add", <<A, Imm(i.n)>>)
  BY <1>3, <1>5 DEF MeantResult, Widths, Alus, Divisions, Shifts, Negations, Floats, FromInt, ToInt, FpToFp
<1>6. ASSUME i.op = "phi" PROVE MeantResult(i) = A
  BY <1>3, <1>6 DEF MeantResult, Widths, Alus, Divisions, Shifts, Negations, Floats, FromInt, ToInt, FpToFp
<1>7. ASSUME i.op \in Negations \cup {"load"} PROVE MeantResult(i) = Term(i.op, <<A>>)
  <2>1. MeantResult(i) = Term(i.op, MeantArgs(i))
    BY <1>7 DEF MeantResult, Widths, Alus, Divisions, Shifts, Negations, Floats, FromInt, ToInt, FpToFp
  <2> QED
    BY <1>2, <2>1
<1> QED
  BY <1>2, <1>4, <1>5, <1>6, <1>7 DEF A

LEMMA MeansGep ==
  ASSUME NEW t \in Targets, NEW i, IsInstruction(t, i), i.op = "gep"
  PROVE  /\ MeantResult(i) = Term("add", <<Meant(i.args[1]), Term("mul", <<Meant(i.args[2]), Imm(i.n)>>)>>)
         /\ Pure(t, i)
<1>1. i.op \notin Effects /\ i.op \notin {"call", "va_start", "va_arg"}
  BY DEF Effects
<1> DEFINE A == Meant(i.args[1])
           B == Meant(i.args[2])
<1>2. MeantArgs(i) = <<A, B>> /\ Pure(t, i)
  BY <1>1, Binaries, Pures
<1>3. MeantArgs(i)[1] = A /\ MeantArgs(i)[2] = B
  BY <1>2
<1> HIDE DEF A, B
<1>4. MeantResult(i) = Term("add", <<A, Term("mul", <<B, Imm(i.n)>>)>>)
  BY <1>3 DEF MeantResult, Widths, Alus, Divisions, Shifts, Negations, Floats, FromInt, ToInt, FpToFp
<1> QED
  BY <1>2, <1>4 DEF A, B

LEMMA MeansNone ==
  ASSUME NEW t \in Targets, NEW i, IsInstruction(t, i), i.op \in {"alloca", "str"}
  PROVE  MeantResult(i) = (IF i.op = "alloca" THEN <<"object">> ELSE <<"string">>) /\ Pure(t, i)
<1>1. i.op \notin Effects /\ i.op \notin {"call", "va_start", "va_arg"}
  BY DEF Effects
<1>2. Pure(t, i)
  BY <1>1, Pures
<1>3. MeantResult(i) = (IF i.op = "alloca" THEN <<"object">> ELSE <<"string">>)
  BY DEF MeantResult, Widths, Alus, Divisions, Shifts, Negations, Floats, FromInt, ToInt, FpToFp
<1> QED
  BY <1>2, <1>3

-----------------------------------------------------------------------------
(* The shapes the selectors share.                                         *)
LEMMA InOne ==
  ASSUME NEW t \in Targets, NEW i, IsInstruction(t, i), 1 \in 1..Len(i.args), i.args[1].kind # "fp", Pure(t, i),
         NEW r \in Writable(t, i), NEW op
  PROVE  /\ MeantResult(i) = Term(op, <<Meant(i.args[1])>>) =>
              /\ Compiled(t, i, Then(Then(LoadTo(i, 1, r), <<Set(R(r), op, <<R(r)>>)>>), StoreFrom(i, r)))
              /\ Compiled(t, i, Then(<<Mov(Arg(i, 1), R(r)), Set(R(r), op, <<R(r)>>)>>, StoreFrom(i, r)))
         /\ MeantResult(i) = Term(op, <<Meant(i.args[1]), Imm(i.n)>>) =>
              /\ Compiled(t, i, Then(Then(LoadTo(i, 1, r), <<Set(R(r), op, <<R(r), Imm(i.n)>>)>>), StoreFrom(i, r)))
              /\ Compiled(t, i, Then(<<Mov(Arg(i, 1), R(r)), Set(R(r), op, <<R(r), Imm(i.n)>>)>>, StoreFrom(i, r)))
         /\ MeantResult(i) = Meant(i.args[1]) =>
              /\ Compiled(t, i, Then(LoadTo(i, 1, r), StoreFrom(i, r)))
              /\ Compiled(t, i, <<Mov(Arg(i, 1), R(r)), Mov(R(r), Dst(i))>>)
<1> DEFINE A == Meant(i.args[1])
           l == LoadTo(i, 1, r)
           v == <<Mov(Arg(i, 1), R(r))>>
<1>1. Has(t, i, l, R(r), A) /\ Has(t, i, v, R(r), A)
  BY HasOne
<1>2. ASSUME NEW c PROVE <<Mov(Arg(i, 1), R(r)), c>> = Then(v, <<c>>)
  BY OneByOne
<1> HIDE DEF A, l, v
<1>3. ASSUME NEW c, Has(t, i, c, R(r), A), MeantResult(i) = Term(op, <<A>>)
      PROVE  Compiled(t, i, Then(Then(c, <<Set(R(r), op, <<R(r)>>)>>), StoreFrom(i, r)))
  BY <1>3, ComputesOne, HasResult
<1>4. ASSUME NEW c, Has(t, i, c, R(r), A), MeantResult(i) = Term(op, <<A, Imm(i.n)>>)
      PROVE  Compiled(t, i, Then(Then(c, <<Set(R(r), op, <<R(r), Imm(i.n)>>)>>), StoreFrom(i, r)))
  BY <1>4, ComputesOne, HasResult
<1>5. MeantResult(i) = A =>
        /\ Compiled(t, i, Then(l, StoreFrom(i, r)))
        /\ Compiled(t, i, Then(v, <<Mov(R(r), Dst(i))>>))
  BY <1>1, HasResult
<1> QED
  BY <1>1, <1>2, <1>3, <1>4, <1>5 DEF A, l

LEMMA InTwo ==
  ASSUME NEW t \in Targets, NEW i, IsInstruction(t, i), 2 \in 1..Len(i.args), i.args[1].kind # "fp", i.args[2].kind # "fp",
         Pure(t, i), NEW a \in Writable(t, i), NEW r \in Writable(t, i), NEW op,
         MeantResult(i) = Term(op, <<Meant(i.args[1]), Meant(i.args[2])>>)
  PROVE  /\ Compiled(t, i, Then(Then(LoadTo(i, 1, a), <<Set(R(r), op, <<R(a), Arg(i, 2)>>)>>), StoreFrom(i, r)))
         /\ \A b \in Writable(t, i) : b # a =>
              /\ Compiled(t, i, Then(Then(Then(LoadTo(i, 1, a), LoadTo(i, 2, b)), <<Set(R(r), op, <<R(a), R(b)>>)>>),
                                     StoreFrom(i, r)))
              /\ Compiled(t, i, Then(<<Mov(Arg(i, 1), R(a)), Mov(Arg(i, 2), R(b)), Set(R(r), op, <<R(a), R(b)>>)>>,
                                     StoreFrom(i, r)))
<1> DEFINE A == Meant(i.args[1])
           B == Meant(i.args[2])
<1>1. Has2(t, i, LoadTo(i, 1, a), R(a), A, Arg(i, 2), B)
  BY HasTwo
<1>2. ASSUME NEW c, NEW q, Has2(t, i, c, R(a), A, q, B)
      PROVE  Compiled(t, i, Then(Then(c, <<Set(R(r), op, <<R(a), q>>)>>), StoreFrom(i, r)))
  <2> HIDE DEF A, B
  <2>1. MeantResult(i) = Term(op, <<A, B>>)
    BY DEF A, B
  <2> QED
    BY <1>2, <2>1, ComputesTwo, HasResult
<1>3. ASSUME NEW b \in Writable(t, i), b # a
      PROVE  /\ Compiled(t, i, Then(Then(Then(LoadTo(i, 1, a), LoadTo(i, 2, b)), <<Set(R(r), op, <<R(a), R(b)>>)>>),
                                    StoreFrom(i, r)))
             /\ Compiled(t, i, Then(<<Mov(Arg(i, 1), R(a)), Mov(Arg(i, 2), R(b)), Set(R(r), op, <<R(a), R(b)>>)>>,
                                    StoreFrom(i, r)))
  <2> DEFINE v == <<Mov(Arg(i, 1), R(a)), Mov(Arg(i, 2), R(b))>>
  <2>1. /\ Has2(t, i, Then(LoadTo(i, 1, a), LoadTo(i, 2, b)), R(a), A, R(b), B)
        /\ Has2(t, i, v, R(a), A, R(b), B)
    BY <1>3, HasTwo
  <2>2. ASSUME NEW c PROVE <<Mov(Arg(i, 1), R(a)), Mov(Arg(i, 2), R(b)), c>> = Then(v, <<c>>)
    BY ByLast
  <2> HIDE DEF v, A, B
  <2> QED
    BY <1>2, <2>1, <2>2
<1> QED
  BY <1>1, <1>2, <1>3

-----------------------------------------------------------------------------
(* Floating point: operands and results are in slots, constants come       *)
(* through the integer registers.                                          *)
LEMMA ReachMov ==
  ASSUME NEW t \in Targets, NEW i, NEW code0, NEW m, Reach(t, i, code0, m), NEW r \in Writable(t, i), NEW p
  PROVE  Reach(t, i, Then(code0, <<Mov(p, R(r))>>), Put(m, r, Val(t, m, p)))
<1>1. Reach(t, i, Then(code0, <<Set(R(r), "mov", <<p>>)>>), Put(m, r, Term("mov", Vals(t, m, <<p>>))))
  BY ReachSet
<1>2. Term("mov", Vals(t, m, <<p>>)) = Val(t, m, p)
  BY OneVal, Moved
<1> QED
  BY <1>1, <1>2 DEF Mov

FpOperand(o) == o.kind = "fp" \/ IsMem(o)

(* code puts o into f and leaves keep alone.                               *)
Brings(t, i, o, code0, f, keep) ==
  /\ IsSeq(code0)
  /\ \A c, m : Reach(t, i, c, m) =>
       \E m2 : /\ Reach(t, i, Then(c, code0), m2) /\ m2.regs[f] = Meant(o)
               /\ m2.seen = m.seen /\ m2.regs[keep] = m.regs[keep]

LEMMA BringsSlot ==
  ASSUME NEW t \in Targets, NEW i, IsInstruction(t, i), NEW k \in 1..Len(i.args), IsMem(i.args[k]),
         NEW f \in Writable(t, i), NEW keep \in AllRegs(t) \ {f}
  PROVE  Brings(t, i, i.args[k], <<Mov(Slot(i.args[k]), R(f))>>, f, keep)
<1>1. Arg(i, k) = Slot(i.args[k]) /\ i.args[k].kind # "fp"
  BY DEF Arg, Place, IsMem, InReg
<1>2. ASSUME NEW c, NEW m, Reach(t, i, c, m)
      PROVE  \E m2 : /\ Reach(t, i, Then(c, <<Mov(Slot(i.args[k]), R(f))>>), m2) /\ m2.regs[f] = Meant(i.args[k])
                     /\ m2.seen = m.seen /\ m2.regs[keep] = m.regs[keep]
  <2> DEFINE m2 == Put(m, f, Meant(i.args[k]))
  <2>1. Reach(t, i, Then(c, <<Mov(Arg(i, k), R(f))>>), m2)
    BY <1>1, <1>2, ReachLoad
  <2>2. m2.regs[f] = Meant(i.args[k]) /\ m2.seen = m.seen /\ m2.regs[keep] = m.regs[keep]
    BY <1>2, ReachPut
  <2> QED
    BY <1>1, <2>1, <2>2
<1> QED
  BY <1>2, OneCode DEF Brings

LEMMA BringsConst ==
  ASSUME NEW t \in Targets, NEW i, NEW o, o.kind = "fp",
         NEW f \in Writable(t, i), NEW r \in Writable(t, i) \ {f}, NEW keep \in AllRegs(t) \ {f, r}
  PROVE  /\ Brings(t, i, o, <<Mov(<<"fp", o.n>>, R(r)), Mov(R(r), R(f))>>, f, keep)
         /\ \A s \in Writable(t, i) \ {f, r, keep} :
              Brings(t, i, o, <<Mov(<<"fp", o.n>>, R(r)), Mov(<<"fp", o.n>>, R(s)), Mov(R(r), R(f))>>, f, keep)
         /\ \A s \in Writable(t, i) \ {f, r, keep} : \A g \in Writable(t, i) \ {f, keep} :
              Brings(t, i, o, <<Mov(<<"fp", o.n>>, R(r)), Mov(<<"fp", o.n>>, R(s)), Mov(R(r), R(f)), Mov(R(s), R(g))>>, f, keep)
<1> DEFINE x == <<"fp", o.n>>
<1>1. Meant(o) = x
  BY DEF Meant
<1>2. \A n : Val(t, n, x) = x
  BY ValImm
<1> HIDE DEF x
<1>3. ASSUME NEW c, NEW m, Reach(t, i, c, m)
      PROVE  LET m1 == Put(m, r, x)
                 m2 == Put(m1, f, x)
                 code0 == <<Mov(x, R(r)), Mov(R(r), R(f))>>
             IN  Reach(t, i, Then(c, code0), m2) /\ m2.regs[f] = x /\ m2.seen = m.seen /\ m2.regs[keep] = m.regs[keep]
  <2> DEFINE m1 == Put(m, r, x)
             m2 == Put(m1, f, x)
  <2>1. Reach(t, i, Then(c, <<Mov(x, R(r))>>), m1)
    BY <1>2, <1>3, ReachMov
  <2>2. m1.regs[r] = x /\ m1.seen = m.seen /\ m1.regs[keep] = m.regs[keep]
    BY <1>3, ReachPut
  <2>3. Val(t, m1, R(r)) = x
    BY <2>2, ValReg
  <2> HIDE DEF m1
  <2>4. Reach(t, i, Then(Then(c, <<Mov(x, R(r))>>), <<Mov(R(r), R(f))>>), m2)
    BY <2>1, <2>3, ReachMov
  <2>5. m2.regs[f] = x /\ m2.seen = m.seen /\ m2.regs[keep] = m.regs[keep]
    BY <2>1, <2>2, ReachPut
  <2>6. Then(c, <<Mov(x, R(r)), Mov(R(r), R(f))>>) = Then(Then(c, <<Mov(x, R(r))>>), <<Mov(R(r), R(f))>>)
    BY <1>3, ReachSeq, ByTwo
  <2> QED
    BY <2>4, <2>5, <2>6 DEF m1
<1>4. ASSUME NEW s \in Writable(t, i) \ {f, r, keep}, NEW g \in Writable(t, i) \ {f, keep}, NEW c, NEW m, Reach(t, i, c, m)
      PROVE  LET m1 == Put(m, r, x)
                 m2 == Put(m1, s, x)
                 m3 == Put(m2, f, x)
                 m4 == Put(m3, g, x)
                 three == <<Mov(x, R(r)), Mov(x, R(s)), Mov(R(r), R(f))>>
                 four == <<Mov(x, R(r)), Mov(x, R(s)), Mov(R(r), R(f)), Mov(R(s), R(g))>>
             IN  /\ Reach(t, i, Then(c, three), m3) /\ m3.regs[f] = x /\ m3.seen = m.seen /\ m3.regs[keep] = m.regs[keep]
                 /\ Reach(t, i, Then(c, four), m4) /\ m4.regs[f] = x /\ m4.seen = m.seen /\ m4.regs[keep] = m.regs[keep]
  <2> DEFINE m1 == Put(m, r, x)
             m2 == Put(m1, s, x)
             m3 == Put(m2, f, x)
             m4 == Put(m3, g, x)
             c1 == Then(c, <<Mov(x, R(r))>>)
             c2 == Then(c1, <<Mov(x, R(s))>>)
             c3 == Then(c2, <<Mov(R(r), R(f))>>)
             c4 == Then(c3, <<Mov(R(s), R(g))>>)
  <2>0. r \in AllRegs(t) /\ s \in AllRegs(t) /\ f \in AllRegs(t)
    BY DEF Writable
  <2>1. Reach(t, i, c1, m1)
    BY <1>2, <1>4, ReachMov
  <2>2. m1.regs[r] = x /\ m1.seen = m.seen /\ m1.regs[keep] = m.regs[keep]
    BY <1>4, ReachPut
  <2> HIDE DEF m1, c1
  <2>3. Reach(t, i, c2, m2)
    BY <1>2, <2>1, ReachMov
  <2>4. m2.regs[r] = x /\ m2.regs[s] = x /\ m2.seen = m.seen /\ m2.regs[keep] = m.regs[keep]
    BY <2>0, <2>1, <2>2, ReachPut
  <2>5. Val(t, m2, R(r)) = x
    BY <2>4, ValReg
  <2> HIDE DEF m2, c2
  <2>6. Reach(t, i, c3, m3)
    BY <2>3, <2>5, ReachMov
  <2>7. m3.regs[f] = x /\ m3.regs[s] = x /\ m3.seen = m.seen /\ m3.regs[keep] = m.regs[keep]
    BY <2>0, <2>3, <2>4, ReachPut
  <2>8. Val(t, m3, R(s)) = x
    BY <2>7, ValReg
  <2> HIDE DEF m3, c3
  <2>9. Reach(t, i, c4, m4)
    BY <2>6, <2>8, ReachMov
  <2>10. m4.regs[f] = x /\ m4.seen = m.seen /\ m4.regs[keep] = m.regs[keep]
    BY <2>0, <2>6, <2>7, ReachPut
  <2>11. Then(c, <<Mov(x, R(r)), Mov(x, R(s)), Mov(R(r), R(f))>>) = c3
    BY <1>4, ReachSeq, ByThree DEF c1, c2, c3
  <2>12. Then(c, <<Mov(x, R(r)), Mov(x, R(s)), Mov(R(r), R(f)), Mov(R(s), R(g))>>) = c4
    BY <1>4, ReachSeq, ByFour DEF c1, c2, c3
  <2> QED
    BY <2>6, <2>7, <2>9, <2>10, <2>11, <2>12 DEF m1, m2, m3
<1>5. Brings(t, i, o, <<Mov(x, R(r)), Mov(R(r), R(f))>>, f, keep)
  <2> DEFINE z == <<Mov(x, R(r)), Mov(R(r), R(f))>>
  <2>1. IsSeq(z)
    BY LiteralIs
  <2>2. ASSUME NEW c, NEW m, Reach(t, i, c, m)
        PROVE  \E m2 : Reach(t, i, Then(c, z), m2) /\ m2.regs[f] = x /\ m2.seen = m.seen /\ m2.regs[keep] = m.regs[keep]
    BY <1>3, <2>2
  <2> HIDE DEF z
  <2>3. Brings(t, i, o, z, f, keep)
    BY <1>1, <2>1, <2>2 DEF Brings
  <2> QED
    BY <2>3 DEF z
<1>6. ASSUME NEW s \in Writable(t, i) \ {f, r, keep}, NEW g \in Writable(t, i) \ {f, keep}
      PROVE  /\ Brings(t, i, o, <<Mov(x, R(r)), Mov(x, R(s)), Mov(R(r), R(f))>>, f, keep)
             /\ Brings(t, i, o, <<Mov(x, R(r)), Mov(x, R(s)), Mov(R(r), R(f)), Mov(R(s), R(g))>>, f, keep)
  <2> DEFINE y == <<Mov(x, R(r)), Mov(x, R(s)), Mov(R(r), R(f))>>
             z == <<Mov(x, R(r)), Mov(x, R(s)), Mov(R(r), R(f)), Mov(R(s), R(g))>>
  <2>1. IsSeq(y) /\ IsSeq(z)
    BY LiteralIs
  <2>2. ASSUME NEW c, NEW m, Reach(t, i, c, m)
        PROVE  /\ \E m2 : Reach(t, i, Then(c, y), m2) /\ m2.regs[f] = x /\ m2.seen = m.seen /\ m2.regs[keep] = m.regs[keep]
               /\ \E m2 : Reach(t, i, Then(c, z), m2) /\ m2.regs[f] = x /\ m2.seen = m.seen /\ m2.regs[keep] = m.regs[keep]
    BY <1>4, <1>6, <2>2
  <2> HIDE DEF y, z
  <2>3. Brings(t, i, o, y, f, keep)
    BY <1>1, <2>1, <2>2 DEF Brings
  <2>4. Brings(t, i, o, z, f, keep)
    BY <1>1, <2>1, <2>2 DEF Brings
  <2> QED
    BY <2>3, <2>4 DEF y, z
<1>7. \A s \in Writable(t, i) \ {f, r, keep} :
        Brings(t, i, o, <<Mov(x, R(r)), Mov(x, R(s)), Mov(R(r), R(f))>>, f, keep)
  <2>1. r \in Writable(t, i) \ {f, keep}
    OBVIOUS
  <2> QED
    BY <1>6, <2>1
<1> QED
  BY <1>5, <1>6, <1>7 DEF x

LEMMA FpFirst ==
  ASSUME NEW t \in Targets, NEW i, NEW o, NEW x, NEW f, NEW keep, Brings(t, i, o, x, f, keep)
  PROVE  Has(t, i, x, R(f), Meant(o))
<1>1. Reach(t, i, <<>>, Entry(t, i)) /\ Entry(t, i).seen = <<>>
  BY ReachNone, EntryIs
<1>2. Then(<<>>, x) = x
  BY Thens DEF Brings
<1>3. PICK m : Reach(t, i, Then(<<>>, x), m) /\ m.regs[f] = Meant(o) /\ m.seen = <<>>
  BY <1>1 DEF Brings
<1> QED
  BY <1>2, <1>3, ValReg DEF Has

LEMMA FpSecond ==
  ASSUME NEW t \in Targets, NEW i, NEW o, NEW p, NEW x, NEW y, NEW f, NEW g, NEW keep,
         Brings(t, i, o, x, f, keep), Brings(t, i, p, y, g, f)
  PROVE  Has2(t, i, Then(x, y), R(f), Meant(o), R(g), Meant(p))
<1>1. PICK m : Reach(t, i, x, m) /\ Val(t, m, R(f)) = Meant(o) /\ m.seen = <<>>
  BY FpFirst DEF Has
<1>2. PICK m2 : Reach(t, i, Then(x, y), m2) /\ m2.regs[g] = Meant(p) /\ m2.seen = m.seen /\ m2.regs[f] = m.regs[f]
  <2>1. \A c, n : Reach(t, i, c, n) =>
          \E n2 : Reach(t, i, Then(c, y), n2) /\ n2.regs[g] = Meant(p) /\ n2.seen = n.seen /\ n2.regs[f] = n.regs[f]
    BY DEF Brings
  <2> QED
    BY <1>1, <2>1
<1> QED
  BY <1>1, <1>2, ValReg DEF Has2

LEMMA HasKeeps ==
  ASSUME NEW t \in Targets, NEW i, NEW code0, NEW r \in AllRegs(t), NEW A, Has(t, i, code0, R(r), A),
         NEW s \in Writable(t, i) \ {r}, NEW p
  PROVE  Has(t, i, Then(code0, <<Mov(p, R(s))>>), R(r), A)
<1>1. PICK m : Reach(t, i, code0, m) /\ Val(t, m, R(r)) = A /\ m.seen = <<>>
  BY DEF Has
<1> DEFINE m2 == Put(m, s, Val(t, m, p))
<1>2. Reach(t, i, Then(code0, <<Mov(p, R(s))>>), m2)
  BY <1>1, ReachMov
<1>3. m2.regs[r] = A /\ m2.seen = <<>>
  BY <1>1, ReachPut, ValReg
<1> HIDE DEF m2
<1> QED
  BY <1>2, <1>3, ValReg DEF Has

LEMMA HasSeq ==
  ASSUME NEW t, NEW i, NEW c, NEW p, NEW A
  PROVE  /\ Has(t, i, c, p, A) => IsSeq(c)
         /\ \A q, B : Has2(t, i, c, p, A, q, B) => IsSeq(c)
  BY ReachSeq DEF Has, Has2

ToSlot(t, i) == IsInstruction(t, i) /\ Pure(t, i) /\ Dst(i) = Slot(i.dst)

LEMMA FpOne ==
  ASSUME NEW t \in Targets, NEW i, ToSlot(t, i), NEW c, NEW p, NEW A, Has(t, i, c, p, A),
         NEW r \in Writable(t, i), NEW op, MeantResult(i) = Term(op, <<A>>)
  PROVE  Compiled(t, i, Then(c, <<Set(R(r), op, <<p>>), Mov(R(r), Slot(i.dst))>>))
<1>1. Has(t, i, Then(c, <<Set(R(r), op, <<p>>)>>), R(r), MeantResult(i))
  BY ComputesOne
<1>2. Compiled(t, i, Then(Then(c, <<Set(R(r), op, <<p>>)>>), <<Mov(R(r), Slot(i.dst))>>))
  BY <1>1, HasResult DEF ToSlot
<1> QED
  BY <1>2, HasSeq, ByTwo

LEMMA FpTwo ==
  ASSUME NEW t \in Targets, NEW i, ToSlot(t, i), NEW c, NEW p, NEW A, NEW q, NEW B, Has2(t, i, c, p, A, q, B),
         NEW r \in Writable(t, i), NEW op, MeantResult(i) = Term(op, <<A, B>>)
  PROVE  Compiled(t, i, Then(c, <<Set(R(r), op, <<p, q>>), Mov(R(r), Slot(i.dst))>>))
<1>1. Has(t, i, Then(c, <<Set(R(r), op, <<p, q>>)>>), R(r), MeantResult(i))
  BY ComputesTwo
<1>2. Compiled(t, i, Then(Then(c, <<Set(R(r), op, <<p, q>>)>>), <<Mov(R(r), Slot(i.dst))>>))
  BY <1>1, HasResult DEF ToSlot
<1>3. IsSeq(c)
  BY HasSeq
<1> QED
  BY <1>2, <1>3, ByTwo

LEMMA FpTest ==
  ASSUME NEW t \in Targets, NEW i, ToSlot(t, i), NEW c, NEW p, NEW A, NEW q, NEW B, Has2(t, i, c, p, A, q, B),
         NEW r \in Writable(t, i), NEW op, NEW n, MeantResult(i) = Term(op, <<Imm(n), A, B>>)
  PROVE  /\ Compiled(t, i, Then(c, <<Set(R(r), op, <<Imm(n), p, q>>), Mov(R(r), Slot(i.dst))>>))
         /\ Compiled(t, i, Then(Then(c, <<Set(R(r), op, <<Imm(n), p, q>>)>>), StoreFrom(i, r)))
<1>1. PICK m : Reach(t, i, c, m) /\ Val(t, m, p) = A /\ Val(t, m, q) = B /\ m.seen = <<>>
  BY DEF Has2
<1>2. Vals(t, m, <<Imm(n), p, q>>) = <<Imm(n), A, B>>
  BY <1>1, ThreeVals, ValImm
<1> DEFINE s == <<Set(R(r), op, <<Imm(n), p, q>>)>>
           m2 == Put(m, r, MeantResult(i))
<1>3. Reach(t, i, Then(c, s), m2)
  BY <1>1, <1>2, ReachSet
<1>4. m2.regs[r] = MeantResult(i) /\ m2.seen = <<>>
  BY <1>1, ReachPut
<1> HIDE DEF s, m2
<1>5. Has(t, i, Then(c, s), R(r), MeantResult(i))
  BY <1>3, <1>4, ValReg DEF Has
<1>6. /\ Compiled(t, i, Then(Then(c, s), <<Mov(R(r), Slot(i.dst))>>))
      /\ Compiled(t, i, Then(Then(c, s), StoreFrom(i, r)))
  BY <1>5, HasResult DEF ToSlot
<1>7. Then(c, <<Set(R(r), op, <<Imm(n), p, q>>), Mov(R(r), Slot(i.dst))>>) = Then(Then(c, s), <<Mov(R(r), Slot(i.dst))>>)
  <2>1. IsSeq(c)
    BY HasSeq
  <2> QED
    BY <2>1, ByTwo DEF s
<1> QED
  BY <1>6, <1>7 DEF s

LEMMA FpMeans ==
  ASSUME NEW t \in Targets, NEW i, IsInstruction(t, i),
         i.op \in Floats \cup FromInt \cup ToInt \cup FpToFp \cup {"fneg", "fcmp"}
  PROVE  /\ ToSlot(t, i) /\ 1 \in 1..Len(i.args)
         /\ i.op \notin FromInt => FpOperand(i.args[1])
         /\ i.op \in FromInt => (IsMem(i.args[1]) \/ i.args[1].kind = "imm")
         /\ i.op \in Floats => /\ 2 \in 1..Len(i.args) /\ FpOperand(i.args[2])
                               /\ MeantResult(i) = Term(i.op, <<Meant(i.args[1]), Meant(i.args[2])>>)
         /\ i.op = "fcmp" => /\ 2 \in 1..Len(i.args) /\ FpOperand(i.args[2])
                             /\ MeantResult(i) = Term(i.op, <<Imm(i.n), Meant(i.args[1]), Meant(i.args[2])>>)
         /\ i.op \in FromInt \cup ToInt \cup FpToFp \cup {"fneg"} => MeantResult(i) = Term(i.op, <<Meant(i.args[1])>>)
<1>1. i.op \notin Effects /\ i.op \notin {"call", "va_start", "va_arg"}
  BY DEF Effects, Floats, FromInt, ToInt, FpToFp
<1>2. ToSlot(t, i)
  <2>1. i.dst \in Spilled(t)
    BY Shape DEF Results, Effects, Floats, FromInt, ToInt, FpToFp
  <2>2. Dst(i) = Slot(i.dst)
    BY <2>1 DEF Spilled, Dst, Place, InReg, IsMem
  <2> QED
    BY <1>1, <2>2, Pures DEF ToSlot
<1>3. /\ i.op \in Floats \cup {"fcmp"} => Len(i.args) = 2
      /\ i.op \notin Floats \cup {"fcmp"} => Len(i.args) = 1
  BY Shape DEF Arities, Alus, Divisions, Shifts, Floats, FromInt, ToInt, FpToFp
<1>4. /\ i.op \notin FromInt => Operands(t, i.op) \subseteq Spilled(t) \cup FpConsts
      /\ i.op \in FromInt => Operands(t, i.op) \subseteq Spilled(t) \cup Consts
  BY DEF Operands, Floats, FromInt, ToInt, FpToFp
<1>5. /\ 1 \in 1..Len(i.args) /\ (i.op \in Floats \cup {"fcmp"} => 2 \in 1..Len(i.args))
  BY <1>3, Shape, ArgsMeant
<1>6. ASSUME i.op \notin FromInt, NEW k \in 1..Len(i.args) PROVE FpOperand(i.args[k])
  BY <1>4, <1>6, Shape DEF Spilled, FpConsts, FpOperand
<1>7. ASSUME i.op \in FromInt PROVE IsMem(i.args[1]) \/ i.args[1].kind = "imm"
  BY <1>4, <1>5, <1>7, Shape DEF Spilled, Consts
<1>8. /\ Len(i.args) = 1 => MeantArgs(i) = <<Meant(i.args[1])>>
      /\ Len(i.args) = 2 => MeantArgs(i) = <<Meant(i.args[1]), Meant(i.args[2])>>
  BY Shape, ArgsMeant
<1>9. ASSUME i.op # "fcmp" PROVE MeantResult(i) = Term(i.op, MeantArgs(i))
  BY <1>9 DEF MeantResult, Widths, Alus, Divisions, Shifts, Negations, Floats, FromInt, ToInt, FpToFp
<1>10. ASSUME i.op = "fcmp" PROVE MeantResult(i) = Term(i.op, <<Imm(i.n), Meant(i.args[1]), Meant(i.args[2])>>)
  <2> DEFINE x == <<Imm(i.n)>>
  <2>1. MeantResult(i) = Term(i.op, Then(x, MeantArgs(i)))
    <3> HIDE DEF x
    <3>1. MeantResult(i) = Term(i.op, <<Imm(i.n)>> \o MeantArgs(i))
      BY <1>10 DEF MeantResult, Widths, Alus, Divisions, Shifts, Negations, Floats, FromInt, ToInt, FpToFp
    <3> QED
      BY <3>1 DEF Then, x
  <2>2. Then(x, <<Meant(i.args[1]), Meant(i.args[2])>>) = <<Imm(i.n), Meant(i.args[1]), Meant(i.args[2])>>
    BY ByHead
  <2>3. MeantArgs(i) = <<Meant(i.args[1]), Meant(i.args[2])>>
    BY <1>3, <1>8, <1>10
  <2> QED
    BY <2>1, <2>2, <2>3
<1>11. i.op \in Floats => i.op # "fcmp"
  BY DEF Floats
<1>12. i.op \in FromInt \cup ToInt \cup FpToFp \cup {"fneg"} => i.op \notin Floats \cup {"fcmp"}
  BY DEF Floats, FromInt, ToInt, FpToFp
<1>13. i.op = "fcmp" \/ i.op \in Floats => i.op \notin FromInt
  BY DEF Floats, FromInt
<1> QED
  BY <1>2, <1>3, <1>5, <1>6, <1>7, <1>8, <1>9, <1>10, <1>11, <1>12, <1>13

-----------------------------------------------------------------------------
(* What the world outside sees.                                            *)
LEMMA FirstSeen == \A x : Append(<<>>, x) = <<x>>
  OBVIOUS

Added(s, e) == Append(s, e)
LEMMA AddedIs ==
  ASSUME NEW S, NEW s \in Seq(S), NEW e \in S
  PROVE  /\ Added(s, e) \in Seq(S) /\ Len(Added(s, e)) = Len(s) + 1
         /\ \A k \in 1..Len(s) : Added(s, e)[k] = s[k]
         /\ Added(s, e)[Len(s) + 1] = e
  BY AppendProperties DEF Added

LEMMA AddedThird == \A a, b, c : Added(<<a, b>>, c) = <<a, b, c>>
<1> TAKE a, b, c
<1> DEFINE S == {a, b, c}  y == <<a, b>>  z == <<a, b, c>>
<1>1. /\ y \in Seq(S) /\ z \in Seq(S) /\ Len(y) = 2 /\ Len(z) = 3 /\ c \in S
      /\ y[1] = z[1] /\ y[2] = z[2] /\ z[3] = c
  OBVIOUS
<1> HIDE DEF S, y, z
<1>5. y \in Seq(S) /\ c \in S
  BY <1>1
<1>2. /\ Added(y, c) \in Seq(S) /\ Len(Added(y, c)) = Len(y) + 1
      /\ \A k \in 1..Len(y) : Added(y, c)[k] = y[k]
      /\ Added(y, c)[Len(y) + 1] = c
  BY <1>5, AddedIs, Zenon
<1>3. \A k \in 1..3 : Added(y, c)[k] = z[k]
  BY <1>1, <1>2
<1>4. Added(y, c) = z
  BY <1>1, <1>2, <1>3, SameSeq
<1> QED
  BY <1>4 DEF y, z

Unseen(m) == m.seen = <<>>
SawOne(m, x) == m.seen = <<x>>

LEMMA ReachTells ==
  ASSUME NEW t \in Targets, NEW i, NEW c, NEW m, Reach(t, i, c, m), Unseen(m), NEW op, NEW from
  PROVE  \E m2 : /\ Reach(t, i, Then(c, <<Do(op, from)>>), m2) /\ m2.regs = m.regs
                 /\ SawOne(m2, Told(op, Vals(t, m, from)))
<1>1. PICK m2 : /\ Reach(t, i, Then(c, <<Do(op, from)>>), m2) /\ m2.regs = m.regs
                /\ m2.seen = Append(m.seen, Told(op, Vals(t, m, from)))
  BY ReachDo
<1>2. m2.seen = <<Told(op, Vals(t, m, from))>>
  BY <1>1, FirstSeen DEF Unseen
<1> QED
  BY <1>1, <1>2 DEF SawOne

LEMMA TellsOne ==
  ASSUME NEW t \in Targets, NEW i, i.op # "call", i.dst = None, NEW c, NEW p, NEW A, Has(t, i, c, p, A),
         NEW op, MeantEffects(t, i) = <<Told(op, <<A>>)>>
  PROVE  Compiled(t, i, Then(c, <<Do(op, <<p>>)>>))
<1>1. PICK m : Reach(t, i, c, m) /\ Val(t, m, p) = A /\ m.seen = <<>>
  BY DEF Has
<1> DEFINE f == <<p>>
<1>2. Vals(t, m, f) = <<A>>
  BY <1>1, OneVal
<1> HIDE DEF f
<1>4. Reach(t, i, c, m) /\ Unseen(m)
  BY <1>1 DEF Unseen
<1>3. PICK m2 : Reach(t, i, Then(c, <<Do(op, f)>>), m2) /\ SawOne(m2, Told(op, Vals(t, m, f)))
  BY <1>4, ReachTells
<1> QED
  BY <1>2, <1>3, ReachEnd DEF f, SawOne

LEMMA TellsTwo ==
  ASSUME NEW t \in Targets, NEW i, i.op # "call", i.dst = None, NEW c, NEW p, NEW A, NEW q, NEW B,
         Has2(t, i, c, p, A, q, B), NEW op, MeantEffects(t, i) = <<Told(op, <<A, B>>)>>
  PROVE  Compiled(t, i, Then(c, <<Do(op, <<p, q>>)>>))
<1>1. PICK m : Reach(t, i, c, m) /\ Val(t, m, p) = A /\ Val(t, m, q) = B /\ m.seen = <<>>
  BY DEF Has2
<1> DEFINE f == <<p, q>>
<1>2. Vals(t, m, f) = <<A, B>>
  BY <1>1, TwoVals
<1> HIDE DEF f
<1>4. Reach(t, i, c, m) /\ Unseen(m)
  BY <1>1 DEF Unseen
<1>3. PICK m2 : Reach(t, i, Then(c, <<Do(op, f)>>), m2) /\ SawOne(m2, Told(op, Vals(t, m, f)))
  BY <1>4, ReachTells
<1> QED
  BY <1>2, <1>3, ReachEnd DEF f, SawOne

LEMMA TellsCopy ==
  ASSUME NEW t \in Targets, NEW i, i.op # "call", i.dst = None, NEW c, NEW p, NEW A, NEW q, NEW B,
         Has2(t, i, c, p, A, q, B), NEW op, NEW n, MeantEffects(t, i) = <<Told(op, <<A, B, Imm(n)>>)>>,
         NEW r \in Writable(t, i), NEW lop, NEW from
  PROVE  Compiled(t, i, Then(c, <<Do(op, <<p, q, Imm(n)>>), Set(R(r), lop, from)>>))
<1>1. PICK m : Reach(t, i, c, m) /\ Val(t, m, p) = A /\ Val(t, m, q) = B /\ m.seen = <<>>
  BY DEF Has2
<1> DEFINE f == <<p, q, Imm(n)>>
<1>2. Vals(t, m, f) = <<A, B, Imm(n)>>
  BY <1>1, ThreeVals, ValImm
<1> DEFINE d == <<Do(op, f)>>
           l == <<Set(R(r), lop, from)>>
<1> HIDE DEF f
<1>8. Reach(t, i, c, m) /\ Unseen(m)
  BY <1>1 DEF Unseen
<1>3. PICK m2 : Reach(t, i, Then(c, d), m2) /\ SawOne(m2, Told(op, Vals(t, m, f)))
  BY <1>8, ReachTells
<1>4. Reach(t, i, Then(Then(c, d), l), Put(m2, r, Term(lop, Vals(t, m2, from))))
  BY <1>3, ReachSet
<1>5. Put(m2, r, Term(lop, Vals(t, m2, from))).seen = MeantEffects(t, i)
  BY <1>2, <1>3, ReachPut DEF f, SawOne
<1>6. Compiled(t, i, Then(Then(c, d), l))
  BY <1>4, <1>5, ReachEnd
<1>7. Then(c, <<Do(op, f), Set(R(r), lop, from)>>) = Then(Then(c, d), l)
  BY <1>1, ReachSeq, ByTwo
<1> QED
  BY <1>6, <1>7 DEF f

LEMMA EffectsMeant ==
  ASSUME NEW t \in Targets, NEW i, IsInstruction(t, i)
  PROVE  /\ i.op \in Effects => i.dst = None
         /\ i.op = "store" => MeantEffects(t, i) = <<Told("store", <<Meant(i.args[1]), Meant(i.args[2])>>)>>
         /\ i.op = "memcpy" =>
              MeantEffects(t, i) = <<Told("memcpy", <<Meant(i.args[1]), Meant(i.args[2]), Imm(i.n)>>)>>
         /\ i.op = "cbr" => MeantEffects(t, i) = <<Told("cbr", <<Meant(i.args[1])>>)>>
         /\ i.op = "ret" /\ i.args = <<>> => MeantEffects(t, i) = <<Told("ret", <<Imm(0)>>)>>
         /\ i.op = "ret" /\ i.args # <<>> =>
              /\ MeantEffects(t, i) = <<Told("ret", <<Meant(i.args[1])>>)>>
              /\ 1 \in 1..Len(i.args) /\ i.args[1].kind # "fp"
         /\ i.op \in {"br", "va_end"} => MeantEffects(t, i) = <<>>
<1>1. ASSUME i.op \in Effects PROVE i.dst = None
  <2>1. Results(t, i.op) = {None}
    BY <1>1 DEF Results, Effects, Floats, FromInt, ToInt, FpToFp
  <2> QED
    BY <2>1, Shape
<1>2. \A op, args : op \notin {"mov", "mul"} => Term(op, args) = Told(op, args)
  BY DEF Term, Told
<1>3. ASSUME i.op = "store" PROVE MeantEffects(t, i) = <<Told("store", <<Meant(i.args[1]), Meant(i.args[2])>>)>>
  <2>1. MeantArgs(i) = <<Meant(i.args[1]), Meant(i.args[2])>>
    BY <1>3, Binaries
  <2>2. MeantEffects(t, i) = <<Term("store", MeantArgs(i))>>
    BY <1>3 DEF MeantEffects
  <2> QED
    BY <1>2, <2>1, <2>2
<1>4. ASSUME i.op = "memcpy"
      PROVE  MeantEffects(t, i) = <<Told("memcpy", <<Meant(i.args[1]), Meant(i.args[2]), Imm(i.n)>>)>>
  <2> DEFINE A == Meant(i.args[1])
             B == Meant(i.args[2])
             n == Imm(i.n)
  <2>1. MeantArgs(i) = <<A, B>>
    BY <1>4, Binaries
  <2> HIDE DEF A, B, n
  <2>2. Added(<<A, B>>, n) = <<A, B, n>>
    BY AddedThird
  <2>3. MeantEffects(t, i) = <<Term("memcpy", Added(MeantArgs(i), n))>>
    BY <1>4 DEF MeantEffects, n, Added
  <2> QED
    BY <1>2, <2>1, <2>2, <2>3 DEF A, B, n
<1>5. ASSUME i.op = "cbr" PROVE MeantEffects(t, i) = <<Told("cbr", <<Meant(i.args[1])>>)>>
  <2>1. MeantArgs(i) = <<Meant(i.args[1])>>
    BY <1>5, Unaries
  <2>2. MeantEffects(t, i) = <<Term("cbr", MeantArgs(i))>>
    BY <1>5 DEF MeantEffects
  <2> QED
    BY <1>2, <2>1, <2>2
<1>6. ASSUME i.op = "ret", i.args = <<>> PROVE MeantEffects(t, i) = <<Told("ret", <<Imm(0)>>)>>
  <2>1. MeantEffects(t, i) = <<Term("ret", <<Imm(0)>>)>>
    BY <1>6 DEF MeantEffects
  <2> QED
    BY <1>2, <2>1
<1>7. ASSUME i.op = "ret", i.args # <<>>
      PROVE  /\ MeantEffects(t, i) = <<Told("ret", <<Meant(i.args[1])>>)>>
             /\ 1 \in 1..Len(i.args) /\ i.args[1].kind # "fp"
  <2>1. Len(i.args) \in {0, 1} /\ Operands(t, i.op) = Vregs(t) \cup Consts
    BY <1>7, Shape DEF Arities, Operands, Alus, Divisions, Shifts, Floats, ToInt, FpToFp, FromInt
  <2>2. Len(i.args) = 1
    BY <1>7, <2>1, Shape, ArgsMeant
  <2>3. MeantArgs(i) = <<Meant(i.args[1])>> /\ 1 \in 1..Len(i.args)
    BY <2>2, Shape, ArgsMeant
  <2>4. i.args[1] \in Vregs(t) \cup Consts
    BY <2>1, <2>3, Shape
  <2>5. i.args[1].kind # "fp"
    BY <2>4 DEF Vregs, Consts
  <2>6. MeantEffects(t, i) = <<Term("ret", MeantArgs(i))>>
    BY <1>7 DEF MeantEffects
  <2> QED
    BY <1>2, <2>3, <2>5, <2>6
<1>8. i.op \in {"br", "va_end"} => MeantEffects(t, i) = <<>>
  BY DEF MeantEffects
<1> QED
  BY <1>1, <1>3, <1>4, <1>5, <1>6, <1>7, <1>8

-----------------------------------------------------------------------------
(* What stays when another register is set.                                *)
Apart(t, r, p) == p[1] = "reg" => p[2] \in AllRegs(t) \ {r}

LEMMA ApartIs == \A t, r : /\ \A q \in AllRegs(t) : q # r => Apart(t, r, R(q))
                           /\ \A n : Apart(t, r, Imm(n))
  BY DEF Apart, R, Imm

LEMMA ValPut ==
  ASSUME NEW t, NEW i, NEW code0, NEW m, Reach(t, i, code0, m), NEW r \in Writable(t, i), NEW x, NEW p, Apart(t, r, p)
  PROVE  Val(t, Put(m, r, x), p) = Val(t, m, p)
<1>1. /\ Put(m, r, x).mem = m.mem /\ Put(m, r, x).sp = m.sp
      /\ \A q \in AllRegs(t) : q # r => Put(m, r, x).regs[q] = m.regs[q]
  BY ReachPut
<1>2. CASE p[1] = "reg"
  BY <1>1, <1>2 DEF Apart, Val
<1>3. CASE p[1] # "reg"
  BY <1>1, <1>3 DEF Val
<1> QED
  BY <1>2, <1>3

LEMMA Has2After ==
  ASSUME NEW t \in Targets, NEW i, NEW c, NEW p, NEW A, NEW q, NEW B, Has2(t, i, c, p, A, q, B),
         NEW r \in Writable(t, i), Apart(t, r, p), Apart(t, r, q), NEW op, NEW from
  PROVE  Has2(t, i, Then(c, <<Set(R(r), op, from)>>), p, A, q, B)
<1>1. PICK m : Reach(t, i, c, m) /\ Val(t, m, p) = A /\ Val(t, m, q) = B /\ m.seen = <<>>
  BY DEF Has2
<1> DEFINE m2 == Put(m, r, Term(op, Vals(t, m, from)))
<1>2. Reach(t, i, Then(c, <<Set(R(r), op, from)>>), m2)
  BY <1>1, ReachSet
<1>3. Val(t, m2, p) = A /\ Val(t, m2, q) = B /\ m2.seen = <<>>
  BY <1>1, ValPut, ReachPut
<1> HIDE DEF m2
<1> QED
  BY <1>2, <1>3 DEF Has2

(* A third place keeps what it has while the result is computed.           *)
LEMMA ThirdHas ==
  ASSUME NEW t \in Targets, NEW i, NEW c, NEW p, NEW A, NEW q, NEW B, Has2(t, i, c, p, A, q, B),
         NEW r \in Writable(t, i), Apart(t, r, p), Apart(t, r, q), NEW op, NEW from,
         NEW x, \A m : Val(t, m, p) = A /\ Val(t, m, q) = B => Term(op, Vals(t, m, from)) = x
  PROVE  Has2(t, i, Then(c, <<Set(R(r), op, from)>>), p, A, R(r), x)
<1>1. PICK m : Reach(t, i, c, m) /\ Val(t, m, p) = A /\ Val(t, m, q) = B /\ m.seen = <<>>
  BY DEF Has2
<1>2. Term(op, Vals(t, m, from)) = x
  BY <1>1
<1> DEFINE m2 == Put(m, r, x)
<1>3. Reach(t, i, Then(c, <<Set(R(r), op, from)>>), m2)
  BY <1>1, <1>2, ReachSet
<1>4. Val(t, m2, p) = A /\ m2.seen = <<>> /\ m2.regs[r] = x
  BY <1>1, ValPut, ReachPut
<1> HIDE DEF m2
<1> QED
  BY <1>3, <1>4, ValReg DEF Has2

LEMMA Has2Has ==
  ASSUME NEW t, NEW i, NEW c, NEW p, NEW A, NEW q, NEW B, Has2(t, i, c, p, A, q, B)
  PROVE  Has(t, i, c, p, A) /\ Has(t, i, c, q, B)
  BY DEF Has, Has2

(* The quotient where the dividend was, the remainder in d.                *)
LEMMA Divides ==
  ASSUME NEW t \in Targets, NEW i, NEW c, NEW a \in Writable(t, i), NEW A, NEW q, NEW B,
         Has2(t, i, c, R(a), A, q, B), NEW d \in Writable(t, i), d # a, Apart(t, d, q), NEW rem, NEW quo
  PROVE  LET c2 == Then(c, <<Set(R(d), rem, <<R(a), q>>), Set(R(a), quo, <<R(a), q>>)>>)
         IN  Has(t, i, c2, R(d), Term(rem, <<A, B>>)) /\ Has(t, i, c2, R(a), Term(quo, <<A, B>>))
<1> DEFINE s == <<Set(R(d), rem, <<R(a), q>>)>>
           u == <<Set(R(a), quo, <<R(a), q>>)>>
           x == Term(rem, <<A, B>>)
<1>1. a \in AllRegs(t) /\ d \in AllRegs(t)
  BY DEF Writable
<1>2. Has2(t, i, Then(c, s), R(a), A, q, B)
  BY <1>1, ApartIs, Has2After
<1>3. Has(t, i, Then(Then(c, s), u), R(a), Term(quo, <<A, B>>))
  BY <1>2, ComputesTwo
<1>4. Has2(t, i, Then(c, s), R(a), A, R(d), x)
  <2>1. \A m : Val(t, m, R(a)) = A /\ Val(t, m, q) = B => Term(rem, Vals(t, m, <<R(a), q>>)) = x
    BY TwoVals
  <2> HIDE DEF x
  <2> QED
    BY <1>1, <2>1, ApartIs, ThirdHas
<1>5. Has(t, i, Then(Then(c, s), u), R(d), x)
  <2> HIDE DEF x
  <2>1. PICK m : Reach(t, i, Then(c, s), m) /\ Val(t, m, R(a)) = A /\ Val(t, m, R(d)) = x /\ m.seen = <<>>
    BY <1>4 DEF Has2
  <2> DEFINE m2 == Put(m, a, Term(quo, Vals(t, m, <<R(a), q>>)))
  <2>2. Reach(t, i, Then(Then(c, s), u), m2)
    BY <2>1, ReachSet
  <2>3. Apart(t, a, R(d))
    BY <1>1, ApartIs
  <2>4. Val(t, m2, R(d)) = x /\ m2.seen = <<>>
    BY <2>1, <2>3, ValPut, ReachPut
  <2> HIDE DEF m2, u, s
  <2> QED
    BY <2>2, <2>4 DEF Has
<1>6. IsSeq(c)
  BY HasSeq
<1>7. Then(c, <<Set(R(d), rem, <<R(a), q>>), Set(R(a), quo, <<R(a), q>>)>>) = Then(Then(c, s), u)
  BY <1>6, ByTwo
<1> QED
  BY <1>3, <1>5, <1>7

(* base + index * size.                                                    *)
LEMMA Scales ==
  ASSUME NEW t \in Targets, NEW i, NEW c, NEW a \in Writable(t, i), NEW A, NEW q, NEW B,
         Has2(t, i, c, R(a), A, q, B), NEW s \in Writable(t, i), s # a, NEW d \in Writable(t, i), NEW n
  PROVE  Has(t, i, Then(c, <<Set(R(s), "mul", <<q, Imm(n)>>), Set(R(d), "add", <<R(a), R(s)>>)>>),
             R(d), Term("add", <<A, Term("mul", <<B, Imm(n)>>)>>))
<1> DEFINE u == <<Set(R(s), "mul", <<q, Imm(n)>>)>>
           v == <<Set(R(d), "add", <<R(a), R(s)>>)>>
           x == Term("mul", <<B, Imm(n)>>)
<1>1. PICK m : Reach(t, i, c, m) /\ Val(t, m, R(a)) = A /\ Val(t, m, q) = B /\ m.seen = <<>>
  BY DEF Has2
<1>2. Term("mul", Vals(t, m, <<q, Imm(n)>>)) = x
  BY <1>1, TwoVals, ValImm
<1> HIDE DEF x
<1> DEFINE m2 == Put(m, s, x)
<1>3. Reach(t, i, Then(c, u), m2)
  BY <1>1, <1>2, ReachSet
<1>4. a \in AllRegs(t)
  BY DEF Writable
<1>5. Val(t, m2, R(a)) = A /\ m2.seen = <<>> /\ m2.regs[s] = x
  BY <1>1, <1>4, ApartIs, ValPut, ReachPut
<1> HIDE DEF m2
<1>6. Has2(t, i, Then(c, u), R(a), A, R(s), x)
  BY <1>3, <1>5, ValReg DEF Has2
<1>7. Has(t, i, Then(Then(c, u), v), R(d), Term("add", <<A, x>>))
  BY <1>6, ComputesTwo
<1>8. IsSeq(c)
  BY HasSeq
<1>9. Then(c, <<Set(R(s), "mul", <<q, Imm(n)>>), Set(R(d), "add", <<R(a), R(s)>>)>>) = Then(Then(c, u), v)
  BY <1>8, ByTwo
<1> QED
  BY <1>7, <1>9 DEF x

(* The second operand where it is, or in a register of its own.            *)
LEMMA SecondIs ==
  ASSUME NEW t \in Targets, NEW i, IsInstruction(t, i), 2 \in 1..Len(i.args), i.args[1].kind # "fp", i.args[2].kind # "fp",
         NEW a \in Writable(t, i), NEW b \in Writable(t, i), a # b, NEW by \in {Arg(i, 2), R(b)}
  PROVE  Has2(t, i, Then(LoadTo(i, 1, a), Copy(Arg(i, 2), by)), R(a), Meant(i.args[1]), by, Meant(i.args[2]))
<1>1. CASE by = Arg(i, 2)
  <2>1. Has2(t, i, LoadTo(i, 1, a), R(a), Meant(i.args[1]), by, Meant(i.args[2]))
    BY <1>1, HasTwo
  <2>2. Then(LoadTo(i, 1, a), Copy(Arg(i, 2), by)) = LoadTo(i, 1, a)
    BY <1>1, <2>1, HasSeq, Thens DEF Copy
  <2> QED
    BY <2>1, <2>2
<1>2. CASE by = R(b)
  BY <1>2, HasTwo DEF LoadTo
<1> QED
  BY <1>1, <1>2

LEMMA InSecond ==
  ASSUME NEW t \in Targets, NEW i, IsInstruction(t, i), 2 \in 1..Len(i.args), i.args[1].kind # "fp", i.args[2].kind # "fp",
         Pure(t, i), NEW a \in Writable(t, i), NEW b \in Writable(t, i), a # b, NEW by \in {Arg(i, 2), R(b)},
         NEW r \in Writable(t, i), NEW op, MeantResult(i) = Term(op, <<Meant(i.args[1]), Meant(i.args[2])>>)
  PROVE  Compiled(t, i, Then(Then(Then(LoadTo(i, 1, a), Copy(Arg(i, 2), by)), <<Set(R(r), op, <<R(a), by>>)>>),
                             StoreFrom(i, r)))
<1> DEFINE c == Then(LoadTo(i, 1, a), Copy(Arg(i, 2), by))
<1>1. Has2(t, i, c, R(a), Meant(i.args[1]), by, Meant(i.args[2]))
  BY SecondIs
<1> HIDE DEF c
<1>2. Has(t, i, Then(c, <<Set(R(r), op, <<R(a), by>>)>>), R(r), MeantResult(i))
  BY <1>1, ComputesTwo
<1> QED
  BY <1>2, HasResult DEF c

-----------------------------------------------------------------------------
(* Registers the selectors use.                                            *)
Own(t) == Scratch \ Pool(t)

LEMMA ScratchIs ==
  ASSUME NEW t \in Targets, NEW i, NEW r \in Own(t)
  PROVE  r \in Writable(t, i) /\ r \in AllRegs(t) /\ r \notin Pool(t)
  BY DEF Own, Writable, AllRegs

LEMMA OwnAre ==
  /\ {"rax", "rcx", "rdx", "r10", "r11", "xmm0", "xmm1"} \subseteq Own("x86_64")
  /\ {"eax", "ecx", "edx", "xmm0", "xmm1", "xmm2"} \subseteq Own("x86")
  /\ {"x0", "x1", "x2", "x3", "x4", "x5", "x6", "x7", "x9", "x10", "x11", "x15", "shifter", "d0", "d1"} \subseteq Own("arm64")
  /\ {"a0", "a1", "a2", "a3", "a4", "a5", "a6", "a7", "t0", "t1", "t6", "ft0", "ft1"} \subseteq Own("riscv")
  /\ {"r0", "r1", "r2", "r3", "r12", "d0", "d1"} \subseteq Own("arm")
<1>1. {"rax", "rcx", "rdx", "r10", "r11", "xmm0", "xmm1"} \subseteq Own("x86_64")
  BY DEF Own, Pool, Lost, Kept, Scratch
<1>2. {"eax", "ecx", "edx", "xmm0", "xmm1", "xmm2"} \subseteq Own("x86")
  BY DEF Own, Pool, Lost, Kept, Scratch
<1>3. {"x0", "x1", "x2", "x3", "x4", "x5", "x6", "x7", "x9", "x10", "x11", "x15", "shifter", "d0", "d1"} \subseteq Own("arm64")
  BY DEF Own, Pool, Lost, Kept, Scratch
<1>4. {"a0", "a1", "a2", "a3", "a4", "a5", "a6", "a7", "t0", "t1", "t6", "ft0", "ft1"} \subseteq Own("riscv")
  BY DEF Own, Pool, Lost, Kept, Scratch
<1>5. {"r0", "r1", "r2", "r3", "r12", "d0", "d1"} \subseteq Own("arm")
  BY DEF Own, Pool, Lost, Kept, Scratch
<1> QED
  BY <1>1, <1>2, <1>3, <1>4, <1>5

LEMMA WorkIs ==
  ASSUME NEW t \in Targets, NEW i, IsInstruction(t, i), i.dst # None, NEW s \in Own(t),
         NEW w, w = IF InReg(i.dst) THEN i.dst.reg ELSE s
  PROVE  w \in Writable(t, i) /\ \A b \in Own(t) : b # s => b # w
<1>1. CASE InReg(i.dst)
  <2>1. Dst(i) = R(i.dst.reg)
    BY <1>1 DEF Dst, Place, InReg, IsMem
  <2>2. i.dst.reg \in Pool(t) /\ i.dst.reg \in Writable(t, i)
    BY <1>1, <2>1, ResultIs DEF R
  <2> QED
    BY <1>1, <2>2, ScratchIs
<1>2. CASE ~InReg(i.dst)
  BY <1>2, ScratchIs
<1> QED
  BY <1>1, <1>2

LEMMA OperandApart ==
  ASSUME NEW t \in Targets, NEW i, IsInstruction(t, i), NEW k \in 1..Len(i.args), NEW r \in Own(t)
  PROVE  Apart(t, r, Arg(i, k))
<1>1. i.args[k] \in Vregs(t) \cup Consts \cup FpConsts
  BY OperandIs
<1>2. CASE InReg(i.args[k])
  <2>1. Arg(i, k) = R(i.args[k].reg)
    BY <1>2 DEF Arg, Place, InReg, IsMem
  <2>3. i.args[k].reg \in Pool(t)
    BY <1>1, <1>2 DEF InReg, Vregs, Consts, FpConsts
  <2> QED
    BY <2>1, <2>3, ScratchIs, ApartIs DEF AllRegs
<1>3. CASE ~InReg(i.args[k])
  BY <1>3 DEF Arg, Place, Apart, Slot, Imm
<1> QED
  BY <1>2, <1>3

-----------------------------------------------------------------------------
(* The selectors print instructions of the same machine, one case for each *)
(* kind of instruction of the IR.                                          *)
LEMMA X64Same ==
  /\ \A a : X64!Dst(a) = Dst(a) /\ X64!Slot(a) = Slot(a) /\ X64!Imm(a) = Imm(a) /\ X64!R(a) = R(a)
  /\ \A a : X64!Push(a) = Push(a) /\ X64!MoveSp(a) = MoveSp(a) /\ X64!AboveSp(a) = AboveSp(a) /\ X64!InReg(a) = InReg(a)
  /\ \A a : X64!IsMem(a) = IsMem(a) /\ X64!IsImm(a) = IsImm(a) /\ X64!IsRem(a) = IsRem(a) /\ X64!Quotient(a) = Quotient(a)
  /\ \A a : X64!Remainder(a) = Remainder(a) /\ X64!LowByte(a) = LowByte(a)
  /\ \A a, k : X64!StoreFrom(a, k) = StoreFrom(a, k) /\ X64!Copy(a, k) = Copy(a, k) /\ X64!Arg(a, k) = Arg(a, k) /\ X64!Mov(a, k) = Mov(a, k)
  /\ \A a, k : X64!Do(a, k) = Do(a, k) /\ X64!Invoke(a, k) = Invoke(a, k) /\ X64!LoadArgs(a, k) = LoadArgs(a, k) /\ X64!StackArgs(a, k) = StackArgs(a, k)
  /\ \A a, k : X64!InRegs(a, k) = InRegs(a, k)
  /\ \A a, k, r : X64!LoadTo(a, k, r) = LoadTo(a, k, r) /\ X64!Set(a, k, r) = Set(a, k, r)
  /\ \A a, r, c : X64!Through(a, r, c) = Then(c, StoreFrom(a, r))
  /\ X64!Alus = Alus /\ X64!Divisions = Divisions /\ X64!Shifts = Shifts /\ X64!Negations = Negations /\ X64!Widths = Widths
  /\ X64!Floats = Floats /\ X64!FromInt = FromInt /\ X64!ToInt = ToInt /\ X64!FpToFp = FpToFp /\ X64!None = None
  BY DEF X64!LoadTo, LoadTo, X64!StoreFrom, StoreFrom, X64!Copy, Copy, X64!Arg, Arg, X64!Dst, Dst,
         X64!Slot, Slot, X64!Imm, Imm, X64!Set, Set, X64!Mov, Mov, X64!Do, Do, X64!R, R, X64!Push, Push,
         X64!MoveSp, MoveSp, X64!Invoke, Invoke, X64!AboveSp, AboveSp, X64!InReg, InReg, X64!IsMem, IsMem,
         X64!IsImm, IsImm, X64!IsRem, IsRem, X64!Quotient, Quotient, X64!Remainder, Remainder,
         X64!LowByte, LowByte, X64!LoadArgs, LoadArgs, X64!StackArgs, StackArgs, X64!InRegs, InRegs,
         X64!Alus, Alus, X64!Divisions, Divisions, X64!Shifts, Shifts, X64!Negations, Negations,
         X64!Widths, Widths, X64!Floats, Floats, X64!FromInt, FromInt, X64!ToInt, ToInt,
         X64!FpToFp, FpToFp, X64!None, None, X64!Place, Place, X64!InMemory, InMemory, X64!Through, Then

LEMMA X64Code ==
  ASSUME NEW i
  PROVE  /\ i.op \in Alus => X64!Code(i) = X64!Alu(i)
         /\ i.op \in Divisions => X64!Code(i) = X64!Divide(i)
         /\ i.op \in Shifts => X64!Code(i) = X64!Shift(i)
         /\ i.op \in Negations => X64!Code(i) = X64!Negate(i)
         /\ i.op = "icmp" => X64!Code(i) = X64!Compare(i)
         /\ i.op \in Widths => X64!Code(i) = X64!Convert(i)
         /\ i.op \in Floats => X64!Code(i) = X64!FpArith(i)
         /\ i.op = "fneg" => X64!Code(i) = X64!FpNegate(i)
         /\ i.op = "fcmp" => X64!Code(i) = X64!FpCompare(i)
         /\ i.op \in FromInt \cup ToInt \cup FpToFp => X64!Code(i) = X64!FpConvert(i)
         /\ i.op = "alloca" => X64!Code(i) = X64!Alloca(i)
         /\ i.op = "load" => X64!Code(i) = X64!Load(i)
         /\ i.op = "store" => X64!Code(i) = X64!Store(i)
         /\ i.op = "memcpy" => X64!Code(i) = X64!Memcpy(i)
         /\ i.op = "gep" => X64!Code(i) = X64!Gep(i)
         /\ i.op = "gep_field" => X64!Code(i) = X64!GepField(i)
         /\ i.op = "str" => X64!Code(i) = X64!Str(i)
         /\ i.op = "call" => X64!Code(i) = X64!Call(i)
         /\ i.op = "ret" => X64!Code(i) = X64!Ret(i)
         /\ i.op = "cbr" => X64!Code(i) = X64!Cbr(i)
         /\ i.op = "phi" => X64!Code(i) = X64!EdgeCopy(i)
         /\ i.op = "va_start" => X64!Code(i) = X64!VaStart(i)
         /\ i.op = "va_arg" => X64!Code(i) = X64!VaArg(i)
         /\ i.op \in {"br", "va_end"} => X64!Code(i) = <<>>
  BY X64Same DEF X64!Code, Alus, Divisions, Shifts, Negations, Widths, Floats, FromInt, ToInt, FpToFp

LEMMA I86Same ==
  /\ \A a : I86!Dst(a) = Dst(a) /\ I86!Slot(a) = Slot(a) /\ I86!Imm(a) = Imm(a) /\ I86!R(a) = R(a)
  /\ \A a : I86!Push(a) = Push(a) /\ I86!MoveSp(a) = MoveSp(a) /\ I86!AboveSp(a) = AboveSp(a) /\ I86!InReg(a) = InReg(a)
  /\ \A a : I86!IsMem(a) = IsMem(a) /\ I86!IsImm(a) = IsImm(a) /\ I86!IsRem(a) = IsRem(a) /\ I86!Quotient(a) = Quotient(a)
  /\ \A a : I86!Remainder(a) = Remainder(a) /\ I86!LowByte(a) = LowByte(a)
  /\ \A a, k : I86!StoreFrom(a, k) = StoreFrom(a, k) /\ I86!Copy(a, k) = Copy(a, k) /\ I86!Arg(a, k) = Arg(a, k) /\ I86!Mov(a, k) = Mov(a, k)
  /\ \A a, k : I86!Do(a, k) = Do(a, k) /\ I86!Invoke(a, k) = Invoke(a, k) /\ I86!LoadArgs(a, k) = LoadArgs(a, k) /\ I86!StackArgs(a, k) = StackArgs(a, k)
  /\ \A a, k : I86!InRegs(a, k) = InRegs(a, k)
  /\ \A a, k, r : I86!LoadTo(a, k, r) = LoadTo(a, k, r) /\ I86!Set(a, k, r) = Set(a, k, r)
  /\ \A a, r, c : I86!Through(a, r, c) = Then(c, StoreFrom(a, r))
  /\ I86!Alus = Alus /\ I86!Divisions = Divisions /\ I86!Shifts = Shifts /\ I86!Negations = Negations /\ I86!Widths = Widths
  /\ I86!Floats = Floats /\ I86!FromInt = FromInt /\ I86!ToInt = ToInt /\ I86!FpToFp = FpToFp /\ I86!None = None
  BY DEF I86!LoadTo, LoadTo, I86!StoreFrom, StoreFrom, I86!Copy, Copy, I86!Arg, Arg, I86!Dst, Dst,
         I86!Slot, Slot, I86!Imm, Imm, I86!Set, Set, I86!Mov, Mov, I86!Do, Do, I86!R, R, I86!Push, Push,
         I86!MoveSp, MoveSp, I86!Invoke, Invoke, I86!AboveSp, AboveSp, I86!InReg, InReg, I86!IsMem, IsMem,
         I86!IsImm, IsImm, I86!IsRem, IsRem, I86!Quotient, Quotient, I86!Remainder, Remainder,
         I86!LowByte, LowByte, I86!LoadArgs, LoadArgs, I86!StackArgs, StackArgs, I86!InRegs, InRegs,
         I86!Alus, Alus, I86!Divisions, Divisions, I86!Shifts, Shifts, I86!Negations, Negations,
         I86!Widths, Widths, I86!Floats, Floats, I86!FromInt, FromInt, I86!ToInt, ToInt,
         I86!FpToFp, FpToFp, I86!None, None, I86!Place, Place, I86!InMemory, InMemory, I86!Through, Then

LEMMA I86Code ==
  ASSUME NEW i
  PROVE  /\ i.op \in Alus => I86!Code(i) = I86!Alu(i)
         /\ i.op \in Divisions => I86!Code(i) = I86!Divide(i)
         /\ i.op \in Shifts => I86!Code(i) = I86!Shift(i)
         /\ i.op \in Negations => I86!Code(i) = I86!Negate(i)
         /\ i.op = "icmp" => I86!Code(i) = I86!Compare(i)
         /\ i.op \in Widths => I86!Code(i) = I86!Convert(i)
         /\ i.op \in Floats => I86!Code(i) = I86!FpArith(i)
         /\ i.op = "fneg" => I86!Code(i) = I86!FpNegate(i)
         /\ i.op = "fcmp" => I86!Code(i) = I86!FpCompare(i)
         /\ i.op \in FromInt \cup ToInt \cup FpToFp => I86!Code(i) = I86!FpConvert(i)
         /\ i.op = "alloca" => I86!Code(i) = I86!Alloca(i)
         /\ i.op = "load" => I86!Code(i) = I86!Load(i)
         /\ i.op = "store" => I86!Code(i) = I86!Store(i)
         /\ i.op = "memcpy" => I86!Code(i) = I86!Memcpy(i)
         /\ i.op = "gep" => I86!Code(i) = I86!Gep(i)
         /\ i.op = "gep_field" => I86!Code(i) = I86!GepField(i)
         /\ i.op = "str" => I86!Code(i) = I86!Str(i)
         /\ i.op = "call" => I86!Code(i) = I86!Call(i)
         /\ i.op = "ret" => I86!Code(i) = I86!Ret(i)
         /\ i.op = "cbr" => I86!Code(i) = I86!Cbr(i)
         /\ i.op = "phi" => I86!Code(i) = I86!EdgeCopy(i)
         /\ i.op = "va_start" => I86!Code(i) = I86!VaStart(i)
         /\ i.op = "va_arg" => I86!Code(i) = I86!VaArg(i)
         /\ i.op \in {"br", "va_end"} => I86!Code(i) = <<>>
  BY I86Same DEF I86!Code, Alus, Divisions, Shifts, Negations, Widths, Floats, FromInt, ToInt, FpToFp

LEMMA A64Same ==
  /\ \A a : A64!Dst(a) = Dst(a) /\ A64!Slot(a) = Slot(a) /\ A64!Imm(a) = Imm(a) /\ A64!R(a) = R(a)
  /\ \A a : A64!Push(a) = Push(a) /\ A64!MoveSp(a) = MoveSp(a) /\ A64!AboveSp(a) = AboveSp(a) /\ A64!InReg(a) = InReg(a)
  /\ \A a : A64!IsMem(a) = IsMem(a) /\ A64!IsImm(a) = IsImm(a) /\ A64!IsRem(a) = IsRem(a) /\ A64!Quotient(a) = Quotient(a)
  /\ \A a : A64!Remainder(a) = Remainder(a) /\ A64!LowByte(a) = LowByte(a)
  /\ \A a, k : A64!StoreFrom(a, k) = StoreFrom(a, k) /\ A64!Copy(a, k) = Copy(a, k) /\ A64!Arg(a, k) = Arg(a, k) /\ A64!Mov(a, k) = Mov(a, k)
  /\ \A a, k : A64!Do(a, k) = Do(a, k) /\ A64!Invoke(a, k) = Invoke(a, k) /\ A64!LoadArgs(a, k) = LoadArgs(a, k) /\ A64!StackArgs(a, k) = StackArgs(a, k)
  /\ \A a, k : A64!InRegs(a, k) = InRegs(a, k)
  /\ \A a, k, r : A64!LoadTo(a, k, r) = LoadTo(a, k, r) /\ A64!Set(a, k, r) = Set(a, k, r)
  /\ \A a, r, c : A64!Through(a, r, c) = Then(c, StoreFrom(a, r))
  /\ A64!Alus = Alus /\ A64!Divisions = Divisions /\ A64!Shifts = Shifts /\ A64!Negations = Negations /\ A64!Widths = Widths
  /\ A64!Floats = Floats /\ A64!FromInt = FromInt /\ A64!ToInt = ToInt /\ A64!FpToFp = FpToFp /\ A64!None = None
  BY DEF A64!LoadTo, LoadTo, A64!StoreFrom, StoreFrom, A64!Copy, Copy, A64!Arg, Arg, A64!Dst, Dst,
         A64!Slot, Slot, A64!Imm, Imm, A64!Set, Set, A64!Mov, Mov, A64!Do, Do, A64!R, R, A64!Push, Push,
         A64!MoveSp, MoveSp, A64!Invoke, Invoke, A64!AboveSp, AboveSp, A64!InReg, InReg, A64!IsMem, IsMem,
         A64!IsImm, IsImm, A64!IsRem, IsRem, A64!Quotient, Quotient, A64!Remainder, Remainder,
         A64!LowByte, LowByte, A64!LoadArgs, LoadArgs, A64!StackArgs, StackArgs, A64!InRegs, InRegs,
         A64!Alus, Alus, A64!Divisions, Divisions, A64!Shifts, Shifts, A64!Negations, Negations,
         A64!Widths, Widths, A64!Floats, Floats, A64!FromInt, FromInt, A64!ToInt, ToInt,
         A64!FpToFp, FpToFp, A64!None, None, A64!Place, Place, A64!InMemory, InMemory, A64!Through, Then

LEMMA A64Code ==
  ASSUME NEW i
  PROVE  /\ i.op \in Alus => A64!Code(i) = A64!Alu(i)
         /\ i.op \in Divisions => A64!Code(i) = A64!Divide(i)
         /\ i.op \in Shifts => A64!Code(i) = A64!Shift(i)
         /\ i.op \in Negations => A64!Code(i) = A64!Negate(i)
         /\ i.op = "icmp" => A64!Code(i) = A64!Compare(i)
         /\ i.op \in Widths => A64!Code(i) = A64!Convert(i)
         /\ i.op \in Floats => A64!Code(i) = A64!FpArith(i)
         /\ i.op = "fneg" => A64!Code(i) = A64!FpNegate(i)
         /\ i.op = "fcmp" => A64!Code(i) = A64!FpCompare(i)
         /\ i.op \in FromInt \cup ToInt \cup FpToFp => A64!Code(i) = A64!FpConvert(i)
         /\ i.op = "alloca" => A64!Code(i) = A64!Alloca(i)
         /\ i.op = "load" => A64!Code(i) = A64!Load(i)
         /\ i.op = "store" => A64!Code(i) = A64!Store(i)
         /\ i.op = "memcpy" => A64!Code(i) = A64!Memcpy(i)
         /\ i.op = "gep" => A64!Code(i) = A64!Gep(i)
         /\ i.op = "gep_field" => A64!Code(i) = A64!GepField(i)
         /\ i.op = "str" => A64!Code(i) = A64!Str(i)
         /\ i.op = "call" => A64!Code(i) = A64!Call(i)
         /\ i.op = "ret" => A64!Code(i) = A64!Ret(i)
         /\ i.op = "cbr" => A64!Code(i) = A64!Cbr(i)
         /\ i.op = "phi" => A64!Code(i) = A64!EdgeCopy(i)
         /\ i.op = "va_start" => A64!Code(i) = A64!VaStart(i)
         /\ i.op = "va_arg" => A64!Code(i) = A64!VaArg(i)
         /\ i.op \in {"br", "va_end"} => A64!Code(i) = <<>>
  BY A64Same DEF A64!Code, Alus, Divisions, Shifts, Negations, Widths, Floats, FromInt, ToInt, FpToFp

LEMMA RVSame ==
  /\ \A a : RV!Dst(a) = Dst(a) /\ RV!Slot(a) = Slot(a) /\ RV!Imm(a) = Imm(a) /\ RV!R(a) = R(a)
  /\ \A a : RV!Push(a) = Push(a) /\ RV!MoveSp(a) = MoveSp(a) /\ RV!AboveSp(a) = AboveSp(a) /\ RV!InReg(a) = InReg(a)
  /\ \A a : RV!IsMem(a) = IsMem(a) /\ RV!IsImm(a) = IsImm(a) /\ RV!IsRem(a) = IsRem(a) /\ RV!Quotient(a) = Quotient(a)
  /\ \A a : RV!Remainder(a) = Remainder(a) /\ RV!LowByte(a) = LowByte(a)
  /\ \A a, k : RV!StoreFrom(a, k) = StoreFrom(a, k) /\ RV!Copy(a, k) = Copy(a, k) /\ RV!Arg(a, k) = Arg(a, k) /\ RV!Mov(a, k) = Mov(a, k)
  /\ \A a, k : RV!Do(a, k) = Do(a, k) /\ RV!Invoke(a, k) = Invoke(a, k) /\ RV!LoadArgs(a, k) = LoadArgs(a, k) /\ RV!StackArgs(a, k) = StackArgs(a, k)
  /\ \A a, k : RV!InRegs(a, k) = InRegs(a, k)
  /\ \A a, k, r : RV!LoadTo(a, k, r) = LoadTo(a, k, r) /\ RV!Set(a, k, r) = Set(a, k, r)
  /\ \A a, r, c : RV!Through(a, r, c) = Then(c, StoreFrom(a, r))
  /\ RV!Alus = Alus /\ RV!Divisions = Divisions /\ RV!Shifts = Shifts /\ RV!Negations = Negations /\ RV!Widths = Widths
  /\ RV!Floats = Floats /\ RV!FromInt = FromInt /\ RV!ToInt = ToInt /\ RV!FpToFp = FpToFp /\ RV!None = None
  BY DEF RV!LoadTo, LoadTo, RV!StoreFrom, StoreFrom, RV!Copy, Copy, RV!Arg, Arg, RV!Dst, Dst,
         RV!Slot, Slot, RV!Imm, Imm, RV!Set, Set, RV!Mov, Mov, RV!Do, Do, RV!R, R, RV!Push, Push,
         RV!MoveSp, MoveSp, RV!Invoke, Invoke, RV!AboveSp, AboveSp, RV!InReg, InReg, RV!IsMem, IsMem,
         RV!IsImm, IsImm, RV!IsRem, IsRem, RV!Quotient, Quotient, RV!Remainder, Remainder,
         RV!LowByte, LowByte, RV!LoadArgs, LoadArgs, RV!StackArgs, StackArgs, RV!InRegs, InRegs,
         RV!Alus, Alus, RV!Divisions, Divisions, RV!Shifts, Shifts, RV!Negations, Negations,
         RV!Widths, Widths, RV!Floats, Floats, RV!FromInt, FromInt, RV!ToInt, ToInt, RV!FpToFp, FpToFp,
         RV!None, None, RV!Place, Place, RV!InMemory, InMemory, RV!Through, Then

LEMMA RVCode ==
  ASSUME NEW i
  PROVE  /\ i.op \in Alus => RV!Code(i) = RV!Alu(i)
         /\ i.op \in Divisions => RV!Code(i) = RV!Divide(i)
         /\ i.op \in Shifts => RV!Code(i) = RV!Shift(i)
         /\ i.op \in Negations => RV!Code(i) = RV!Negate(i)
         /\ i.op = "icmp" => RV!Code(i) = RV!Compare(i)
         /\ i.op \in Widths => RV!Code(i) = RV!Convert(i)
         /\ i.op \in Floats => RV!Code(i) = RV!FpArith(i)
         /\ i.op = "fneg" => RV!Code(i) = RV!FpNegate(i)
         /\ i.op = "fcmp" => RV!Code(i) = RV!FpCompare(i)
         /\ i.op \in FromInt \cup ToInt \cup FpToFp => RV!Code(i) = RV!FpConvert(i)
         /\ i.op = "alloca" => RV!Code(i) = RV!Alloca(i)
         /\ i.op = "load" => RV!Code(i) = RV!Load(i)
         /\ i.op = "store" => RV!Code(i) = RV!Store(i)
         /\ i.op = "memcpy" => RV!Code(i) = RV!Memcpy(i)
         /\ i.op = "gep" => RV!Code(i) = RV!Gep(i)
         /\ i.op = "gep_field" => RV!Code(i) = RV!GepField(i)
         /\ i.op = "str" => RV!Code(i) = RV!Str(i)
         /\ i.op = "call" => RV!Code(i) = RV!Call(i)
         /\ i.op = "ret" => RV!Code(i) = RV!Ret(i)
         /\ i.op = "cbr" => RV!Code(i) = RV!Cbr(i)
         /\ i.op = "phi" => RV!Code(i) = RV!EdgeCopy(i)
         /\ i.op = "va_start" => RV!Code(i) = RV!VaStart(i)
         /\ i.op = "va_arg" => RV!Code(i) = RV!VaArg(i)
         /\ i.op \in {"br", "va_end"} => RV!Code(i) = <<>>
  BY RVSame DEF RV!Code, Alus, Divisions, Shifts, Negations, Widths, Floats, FromInt, ToInt, FpToFp

LEMMA A32Same ==
  /\ \A a : A32!Dst(a) = Dst(a) /\ A32!Slot(a) = Slot(a) /\ A32!Imm(a) = Imm(a) /\ A32!R(a) = R(a)
  /\ \A a : A32!Push(a) = Push(a) /\ A32!MoveSp(a) = MoveSp(a) /\ A32!AboveSp(a) = AboveSp(a) /\ A32!InReg(a) = InReg(a)
  /\ \A a : A32!IsMem(a) = IsMem(a) /\ A32!IsImm(a) = IsImm(a) /\ A32!IsRem(a) = IsRem(a) /\ A32!Quotient(a) = Quotient(a)
  /\ \A a : A32!Remainder(a) = Remainder(a) /\ A32!LowByte(a) = LowByte(a)
  /\ \A a, k : A32!StoreFrom(a, k) = StoreFrom(a, k) /\ A32!Copy(a, k) = Copy(a, k) /\ A32!Arg(a, k) = Arg(a, k) /\ A32!Mov(a, k) = Mov(a, k)
  /\ \A a, k : A32!Do(a, k) = Do(a, k) /\ A32!Invoke(a, k) = Invoke(a, k) /\ A32!LoadArgs(a, k) = LoadArgs(a, k) /\ A32!StackArgs(a, k) = StackArgs(a, k)
  /\ \A a, k : A32!InRegs(a, k) = InRegs(a, k)
  /\ \A a, k, r : A32!LoadTo(a, k, r) = LoadTo(a, k, r) /\ A32!Set(a, k, r) = Set(a, k, r)
  /\ \A a, r, c : A32!Through(a, r, c) = Then(c, StoreFrom(a, r))
  /\ A32!Alus = Alus /\ A32!Divisions = Divisions /\ A32!Shifts = Shifts /\ A32!Negations = Negations /\ A32!Widths = Widths
  /\ A32!Floats = Floats /\ A32!FromInt = FromInt /\ A32!ToInt = ToInt /\ A32!FpToFp = FpToFp /\ A32!None = None
  BY DEF A32!LoadTo, LoadTo, A32!StoreFrom, StoreFrom, A32!Copy, Copy, A32!Arg, Arg, A32!Dst, Dst,
         A32!Slot, Slot, A32!Imm, Imm, A32!Set, Set, A32!Mov, Mov, A32!Do, Do, A32!R, R, A32!Push, Push,
         A32!MoveSp, MoveSp, A32!Invoke, Invoke, A32!AboveSp, AboveSp, A32!InReg, InReg, A32!IsMem, IsMem,
         A32!IsImm, IsImm, A32!IsRem, IsRem, A32!Quotient, Quotient, A32!Remainder, Remainder,
         A32!LowByte, LowByte, A32!LoadArgs, LoadArgs, A32!StackArgs, StackArgs, A32!InRegs, InRegs,
         A32!Alus, Alus, A32!Divisions, Divisions, A32!Shifts, Shifts, A32!Negations, Negations,
         A32!Widths, Widths, A32!Floats, Floats, A32!FromInt, FromInt, A32!ToInt, ToInt,
         A32!FpToFp, FpToFp, A32!None, None, A32!Place, Place, A32!InMemory, InMemory, A32!Through, Then

LEMMA A32Code ==
  ASSUME NEW i
  PROVE  /\ i.op \in Alus => A32!Code(i) = A32!Alu(i)
         /\ i.op \in Divisions => A32!Code(i) = A32!Divide(i)
         /\ i.op \in Shifts => A32!Code(i) = A32!Shift(i)
         /\ i.op \in Negations => A32!Code(i) = A32!Negate(i)
         /\ i.op = "icmp" => A32!Code(i) = A32!Compare(i)
         /\ i.op \in Widths => A32!Code(i) = A32!Convert(i)
         /\ i.op \in Floats => A32!Code(i) = A32!FpArith(i)
         /\ i.op = "fneg" => A32!Code(i) = A32!FpNegate(i)
         /\ i.op = "fcmp" => A32!Code(i) = A32!FpCompare(i)
         /\ i.op \in FromInt \cup ToInt \cup FpToFp => A32!Code(i) = A32!FpConvert(i)
         /\ i.op = "alloca" => A32!Code(i) = A32!Alloca(i)
         /\ i.op = "load" => A32!Code(i) = A32!Load(i)
         /\ i.op = "store" => A32!Code(i) = A32!Store(i)
         /\ i.op = "memcpy" => A32!Code(i) = A32!Memcpy(i)
         /\ i.op = "gep" => A32!Code(i) = A32!Gep(i)
         /\ i.op = "gep_field" => A32!Code(i) = A32!GepField(i)
         /\ i.op = "str" => A32!Code(i) = A32!Str(i)
         /\ i.op = "call" => A32!Code(i) = A32!Call(i)
         /\ i.op = "ret" => A32!Code(i) = A32!Ret(i)
         /\ i.op = "cbr" => A32!Code(i) = A32!Cbr(i)
         /\ i.op = "phi" => A32!Code(i) = A32!EdgeCopy(i)
         /\ i.op = "va_start" => A32!Code(i) = A32!VaStart(i)
         /\ i.op = "va_arg" => A32!Code(i) = A32!VaArg(i)
         /\ i.op \in {"br", "va_end"} => A32!Code(i) = <<>>
  BY A32Same DEF A32!Code, Alus, Divisions, Shifts, Negations, Widths, Floats, FromInt, ToInt, FpToFp

-----------------------------------------------------------------------------
(* More shapes: results without operands, quotients and remainders,        *)
(* elements of arrays, lists of arguments.                                 *)
LEMMA InNone ==
  ASSUME NEW t \in Targets, NEW i, IsInstruction(t, i), Pure(t, i), NEW r \in Writable(t, i), NEW op, op # "mov", op # "mul",
         MeantResult(i) = <<op>>
  PROVE  /\ Compiled(t, i, Then(<<Set(R(r), op, <<>>)>>, StoreFrom(i, r)))
         /\ Compiled(t, i, <<Set(R(r), op, <<>>), Mov(R(r), Dst(i))>>)
<1>1. \A m : <<op>> \o Vals(t, m, <<>>) = <<op>>
  <2>1. <<op>> \o <<>> = <<op>>
    BY NoneThen, OneCode
  <2> QED
    BY <2>1, NoVals
<1> DEFINE e == <<>>
           x == <<op>>
<1> HIDE DEF e, x
<1>2. Has(t, i, <<Set(R(r), op, e)>>, R(r), x)
  <2>1. \A m : <<op>> \o Vals(t, m, e) = x
    BY <1>1 DEF e, x
  <2> QED
    BY <2>1, HasNone
<1>3. MeantResult(i) = x
  BY DEF x
<1>4. /\ Compiled(t, i, Then(<<Set(R(r), op, e)>>, StoreFrom(i, r)))
      /\ Compiled(t, i, Then(<<Set(R(r), op, e)>>, <<Mov(R(r), Dst(i))>>))
  BY <1>2, <1>3, HasResult
<1> QED
  BY <1>4, ByHead DEF e

LEMMA InDivide ==
  ASSUME NEW t \in Targets, NEW i, IsInstruction(t, i), Pure(t, i), i.op \in Divisions, NEW c, NEW a \in Writable(t, i), NEW q,
         Has2(t, i, c, R(a), Meant(i.args[1]), q, Meant(i.args[2])), NEW d \in Writable(t, i), d # a, Apart(t, d, q),
         NEW r, r = IF IsRem(i.op) THEN d ELSE a
  PROVE  Compiled(t, i, Then(Then(c, <<Set(R(d), Remainder(i.op), <<R(a), q>>), Set(R(a), Quotient(i.op), <<R(a), q>>)>>),
                             StoreFrom(i, r)))
<1> DEFINE A == Meant(i.args[1])
           B == Meant(i.args[2])
           c2 == Then(c, <<Set(R(d), Remainder(i.op), <<R(a), q>>), Set(R(a), Quotient(i.op), <<R(a), q>>)>>)
<1>1. Has(t, i, c2, R(d), Term(Remainder(i.op), <<A, B>>)) /\ Has(t, i, c2, R(a), Term(Quotient(i.op), <<A, B>>))
  BY Divides
<1>2. MeantResult(i) = Term(i.op, <<A, B>>)
  BY MeansTwo
<1> HIDE DEF A, B, c2
<1>3. IF IsRem(i.op) THEN Remainder(i.op) = i.op ELSE Quotient(i.op) = i.op
  BY DEF IsRem, Remainder, Quotient, Divisions
<1>4. Has(t, i, c2, R(r), MeantResult(i)) /\ r \in Writable(t, i)
  BY <1>1, <1>2, <1>3
<1>5. Compiled(t, i, Then(c2, StoreFrom(i, r)))
  BY <1>4, HasResult
<1> QED
  BY <1>5 DEF c2

LEMMA InArray ==
  ASSUME NEW t \in Targets, NEW i, IsInstruction(t, i), i.op = "gep", NEW c, NEW a \in Writable(t, i), NEW q,
         Has2(t, i, c, R(a), Meant(i.args[1]), q, Meant(i.args[2])), NEW s \in Writable(t, i), s # a,
         NEW d \in Writable(t, i)
  PROVE  Compiled(t, i, Then(Then(c, <<Set(R(s), "mul", <<q, Imm(i.n)>>), Set(R(d), "add", <<R(a), R(s)>>)>>), StoreFrom(i, d)))
<1> DEFINE c2 == Then(c, <<Set(R(s), "mul", <<q, Imm(i.n)>>), Set(R(d), "add", <<R(a), R(s)>>)>>)
<1>1. Has(t, i, c2, R(d), MeantResult(i)) /\ Pure(t, i)
  BY Scales, MeansGep
<1> HIDE DEF c2
<1>2. Compiled(t, i, Then(c2, StoreFrom(i, d)))
  BY <1>1, HasResult
<1> QED
  BY <1>2 DEF c2

LEMMA HasAfter ==
  ASSUME NEW t \in Targets, NEW i, NEW c, NEW p, NEW A, Has(t, i, c, p, A),
         NEW r \in Writable(t, i), Apart(t, r, p), NEW op, NEW from
  PROVE  Has(t, i, Then(c, <<Set(R(r), op, from)>>), p, A)
<1>1. PICK m : Reach(t, i, c, m) /\ Val(t, m, p) = A /\ m.seen = <<>>
  BY DEF Has
<1> DEFINE m2 == Put(m, r, Term(op, Vals(t, m, from)))
<1>2. Reach(t, i, Then(c, <<Set(R(r), op, from)>>), m2)
  BY <1>1, ReachSet
<1>3. Val(t, m2, p) = A /\ m2.seen = <<>>
  BY <1>1, ValPut, ReachPut
<1> HIDE DEF m2
<1> QED
  BY <1>2, <1>3 DEF Has

(* Something is told of a while the result is in r.                        *)
LEMMA ThenTells ==
  ASSUME NEW t \in Targets, NEW i, IsInstruction(t, i), i.op # "call", i.dst # None, NEW c, NEW a, NEW A, NEW r \in AllRegs(t),
         Has2(t, i, c, R(a), A, R(r), MeantResult(i)), NEW op, MeantEffects(t, i) = <<Told(op, <<A>>)>>,
         NEW s \in Writable(t, i), s # r, NEW sop, NEW from
  PROVE  /\ Compiled(t, i, Then(Then(c, <<Do(op, <<R(a)>>)>>), <<Mov(R(r), Dst(i))>>))
         /\ Compiled(t, i, Then(Then(Then(c, <<Do(op, <<R(a)>>)>>), <<Set(R(s), sop, from)>>), <<Mov(R(r), Dst(i))>>))
<1>1. PICK m : Reach(t, i, c, m) /\ Val(t, m, R(a)) = A /\ Val(t, m, R(r)) = MeantResult(i) /\ m.seen = <<>>
  BY DEF Has2
<1> DEFINE f == <<R(a)>>
<1>2. Vals(t, m, f) = <<A>>
  BY <1>1, OneVal
<1> HIDE DEF f
<1>3. Reach(t, i, c, m) /\ Unseen(m)
  BY <1>1 DEF Unseen
<1>4. PICK m2 : Reach(t, i, Then(c, <<Do(op, f)>>), m2) /\ m2.regs = m.regs /\ SawOne(m2, Told(op, Vals(t, m, f)))
  BY <1>3, ReachTells
<1>5. m2.regs[r] = MeantResult(i) /\ m2.seen = MeantEffects(t, i)
  BY <1>1, <1>2, <1>4, ValReg DEF SawOne
<1>6. Compiled(t, i, Then(Then(c, <<Do(op, f)>>), <<Mov(R(r), Dst(i))>>))
  BY <1>4, <1>5, ReachResult
<1> DEFINE m3 == Put(m2, s, Term(sop, Vals(t, m2, from)))
<1>7. Reach(t, i, Then(Then(c, <<Do(op, f)>>), <<Set(R(s), sop, from)>>), m3)
  BY <1>4, ReachSet
<1>8. m3.regs[r] = MeantResult(i) /\ m3.seen = MeantEffects(t, i)
  BY <1>4, <1>5, ReachPut
<1> HIDE DEF m3
<1>9. Compiled(t, i, Then(Then(Then(c, <<Do(op, f)>>), <<Set(R(s), sop, from)>>), <<Mov(R(r), Dst(i))>>))
  BY <1>7, <1>8, ReachResult
<1> QED
  BY <1>6, <1>9 DEF f

LEMMA ListMeans ==
  ASSUME NEW t \in Targets, NEW i, IsInstruction(t, i)
  PROVE  /\ i.op = "va_start" => /\ i.dst # None /\ MeantResult(i) = <<"list">>
                                 /\ t # "x86" => MeantEffects(t, i) = <<Told("va_start", <<<<"list">>>>)>>
                                 /\ t = "x86" => MeantEffects(t, i) = <<>>
         /\ i.op = "va_arg" => /\ i.dst # None /\ MeantResult(i) = Term("next", <<Meant(i.args[1])>>)
                               /\ t # "x86" => MeantEffects(t, i) = <<Told("advance", <<Meant(i.args[1])>>)>>
                               /\ t = "x86" => MeantEffects(t, i) = <<>>
<1>1. ASSUME i.op \in {"va_start", "va_arg"} PROVE i.dst # None
  <2>1. i.dst \in Vregs(t)
    BY <1>1, Shape DEF Results, Effects, Floats, FromInt, ToInt, FpToFp
  <2> QED
    BY <2>1 DEF Vregs, None
<1>2. ASSUME i.op = "va_start"
      PROVE  /\ MeantResult(i) = <<"list">> /\ (t # "x86" => MeantEffects(t, i) = <<Told("va_start", <<<<"list">>>>)>>)
             /\ t = "x86" => MeantEffects(t, i) = <<>>
  <2>1. MeantResult(i) = <<"list">>
    BY <1>2 DEF MeantResult, Widths, Alus, Divisions, Shifts, Negations, Floats, FromInt, ToInt, FpToFp
  <2>2. Told("va_start", <<<<"list">>>>) = <<"va_start", <<"list">>>>
    <3> DEFINE x == <<"list">>
    <3> HIDE DEF x
    <3>1. Told("va_start", <<x>>) = <<"va_start", x>>
      BY Cons2 DEF Told
    <3> QED
      BY <3>1 DEF x
  <2>3. t # "x86" => MeantEffects(t, i) = <<<<"va_start", <<"list">>>>>>
    BY <1>2 DEF MeantEffects
  <2>4. t = "x86" => MeantEffects(t, i) = <<>>
    BY <1>2 DEF MeantEffects
  <2> QED
    BY <2>1, <2>2, <2>3, <2>4
<1>3. ASSUME i.op = "va_arg"
      PROVE  /\ MeantResult(i) = Term("next", <<Meant(i.args[1])>>)
             /\ t # "x86" => MeantEffects(t, i) = <<Told("advance", <<Meant(i.args[1])>>)>>
             /\ t = "x86" => MeantEffects(t, i) = <<>>
  <2> DEFINE x == <<Meant(i.args[1])>>
  <2>1. MeantArgs(i) = x
    BY <1>3, Unaries
  <2> HIDE DEF x
  <2>2. MeantResult(i) = Term("next", x)
    BY <1>3, <2>1 DEF MeantResult, Widths, Alus, Divisions, Shifts, Negations, Floats, FromInt, ToInt, FpToFp
  <2>3. Term("advance", x) = Told("advance", x)
    BY DEF Term, Told
  <2>4. (t # "x86" => MeantEffects(t, i) = <<Term("advance", x)>>) /\ (t = "x86" => MeantEffects(t, i) = <<>>)
    BY <1>3, <2>1 DEF MeantEffects
  <2> QED
    BY <2>2, <2>3, <2>4 DEF x
<1> QED
  BY <1>1, <1>2, <1>3

(* The list is made in a, the world is told of it.                         *)
LEMMA StartsList ==
  ASSUME NEW t \in Targets \ {"x86"}, NEW i, IsInstruction(t, i), i.op = "va_start", NEW a \in Writable(t, i),
         NEW b \in Writable(t, i) \ {a}, NEW name, NEW from
  PROVE  /\ Compiled(t, i, <<Set(R(a), "list", <<>>), Do("va_start", <<R(a)>>), Set(R(b), name, from), Mov(R(a), Dst(i))>>)
         /\ Compiled(t, i, Then(<<Set(R(a), "list", <<>>), Set(R(b), name, from), Do("va_start", <<R(a)>>)>>,
                                <<Mov(R(a), Dst(i))>>))
<1> DEFINE x == <<"list">>
           l == <<Set(R(a), "list", <<>>)>>
           w == <<Do("va_start", <<R(a)>>)>>
           v == <<Set(R(b), name, from)>>
<1>1. MeantResult(i) = x /\ MeantEffects(t, i) = <<Told("va_start", <<x>>)>> /\ i.dst # None
  BY ListMeans
<1> HIDE DEF x
<1>2. Has(t, i, l, R(a), x)
  <2>1. \A m : <<"list">> \o Vals(t, m, <<>>) = x
    <3>1. <<"list">> \o <<>> = x
      BY NoneThen, OneCode DEF x
    <3> QED
      BY <3>1, NoVals
  <2> DEFINE e == <<>>
  <2> HIDE DEF e
  <2>2. \A m : <<"list">> \o Vals(t, m, e) = x
    BY <2>1 DEF e
  <2>3. Has(t, i, <<Set(R(a), "list", e)>>, R(a), x)
    BY <2>2, HasNone
  <2> QED
    BY <2>3 DEF e
<1>3. a \in AllRegs(t) /\ b \in AllRegs(t)
  BY DEF Writable
<1> HIDE DEF l
<1>4. Has(t, i, Then(l, v), R(a), x)
  BY <1>2, <1>3, ApartIs, HasAfter
<1>5. \A c : Has(t, i, c, R(a), x) => Has2(t, i, c, R(a), x, R(a), x)
  BY DEF Has, Has2
<1> HIDE DEF v, w
<1>6. ASSUME NEW c, Has(t, i, c, R(a), x)
      PROVE  /\ Compiled(t, i, Then(Then(c, w), <<Mov(R(a), Dst(i))>>))
             /\ Compiled(t, i, Then(Then(Then(c, w), v), <<Mov(R(a), Dst(i))>>))
  <2>1. Has2(t, i, c, R(a), x, R(a), MeantResult(i))
    BY <1>1, <1>5, <1>6
  <2>2. i.op # "call" /\ b # a
    OBVIOUS
  <2> QED
    BY <1>1, <1>3, <2>1, <2>2, ThenTells DEF v, w
<1>7. Compiled(t, i, Then(Then(Then(l, w), v), <<Mov(R(a), Dst(i))>>))
  BY <1>2, <1>6
<1>8. Compiled(t, i, Then(Then(Then(l, v), w), <<Mov(R(a), Dst(i))>>))
  BY <1>4, <1>6
<1>9. /\ \A d : <<Set(R(a), "list", <<>>), Do("va_start", <<R(a)>>), Set(R(b), name, from), d>> = Then(Then(Then(l, w), v), <<d>>)
      /\ <<Set(R(a), "list", <<>>), Set(R(b), name, from), Do("va_start", <<R(a)>>)>> = Then(Then(l, v), w)
  BY OneByOne DEF l, v, w
<1> QED
  BY <1>7, <1>8, <1>9

(* The next argument comes into r, the list at a moves on.                 *)
LEMMA TakesNext ==
  ASSUME NEW t \in Targets \ {"x86"}, NEW i, IsInstruction(t, i), i.op = "va_arg", NEW a \in AllRegs(t), NEW c,
         Has(t, i, c, R(a), Meant(i.args[1])), NEW r \in Writable(t, i) \ {a}
  PROVE  Compiled(t, i, Then(Then(Then(c, <<Set(R(r), "next", <<R(a)>>)>>), <<Do("advance", <<R(a)>>)>>), <<Mov(R(r), Dst(i))>>))
<1> DEFINE A == Meant(i.args[1])
           x == Term("next", <<A>>)
           c2 == Then(c, <<Set(R(r), "next", <<R(a)>>)>>)
<1>1. PICK m : Reach(t, i, c, m) /\ Val(t, m, R(a)) = A /\ m.seen = <<>>
  BY DEF Has
<1>2. Term("next", Vals(t, m, <<R(a)>>)) = x
  BY <1>1, OneVal
<1>3. MeantResult(i) = x /\ MeantEffects(t, i) = <<Told("advance", <<A>>)>> /\ i.dst # None
  BY ListMeans
<1> HIDE DEF x, A
<1>4. Reach(t, i, c2, Put(m, r, x))
  BY <1>1, <1>2, ReachSet
<1>5. Put(m, r, x).regs[a] = A /\ Put(m, r, x).regs[r] = x /\ Put(m, r, x).seen = <<>>
  BY <1>1, ReachPut, ValReg
<1>6. Has2(t, i, c2, R(a), A, R(r), x)
  BY <1>4, <1>5, ValReg DEF Has2
<1>7. r \in AllRegs(t)
  BY DEF Writable
<1>8. i.op # "call" /\ a # r
  OBVIOUS
<1> DEFINE d == <<Do("advance", <<R(a)>>)>>
<1> HIDE DEF c2
<1>9. Has2(t, i, c2, R(a), A, R(r), MeantResult(i))
  BY <1>3, <1>6
<1>10. Compiled(t, i, Then(Then(c2, d), <<Mov(R(r), Dst(i))>>))
  <2>1. \E s \in Writable(t, i) : s # r
    BY OwnAre, ScratchIs DEF Targets
  <2>2. PICK s \in Writable(t, i) : s # r
    BY <2>1
  <2> QED
    BY <1>3, <1>7, <1>8, <1>9, <2>2, ThenTells
<1> QED
  BY <1>10 DEF c2

LEMMA Pairs == \A a, b, c, d : <<a, b, c, d>> = Then(<<a, b>>, <<c, d>>)
<1> TAKE a, b, c, d
<1>1. Then(<<a, b>>, <<c, d>>) = Then(Then(<<a, b>>, <<c>>), <<d>>)
  <2> DEFINE x == <<a, b>>
  <2>1. IsSeq(x)
    BY LiteralIs
  <2> HIDE DEF x
  <2>2. Then(x, <<c, d>>) = Then(Then(x, <<c>>), <<d>>)
    BY <2>1, ByTwo
  <2> QED
    BY <2>2 DEF x
<1>2. <<a, b>> = Then(<<a>>, <<b>>)
  BY OneByOne
<1>3. <<a, b, c, d>> = Then(Then(Then(<<a>>, <<b>>), <<c>>), <<d>>)
  BY OneByOne
<1> QED
  BY <1>1, <1>2, <1>3

LEMMA InBoth ==
  ASSUME NEW t \in Targets, NEW i, IsInstruction(t, i), 2 \in 1..Len(i.args), i.args[1].kind # "fp", i.args[2].kind # "fp",
         Pure(t, i), NEW a \in Writable(t, i), NEW b \in Writable(t, i), b # a, NEW r \in Writable(t, i), NEW op,
         MeantResult(i) = Term(op, <<Meant(i.args[1]), Meant(i.args[2])>>)
  PROVE  /\ Compiled(t, i, Then(Then(Then(LoadTo(i, 1, a), LoadTo(i, 2, b)), <<Set(R(r), op, <<R(a), R(b)>>)>>), StoreFrom(i, r)))
         /\ Compiled(t, i, Then(<<Mov(Arg(i, 1), R(a)), Mov(Arg(i, 2), R(b)), Set(R(r), op, <<R(a), R(b)>>)>>, StoreFrom(i, r)))
  BY InTwo

(* The same for what has two operands that are not floating-point ones.    *)
LEMMA BinaryForms ==
  ASSUME NEW t \in Targets, NEW i, IsInstruction(t, i), i.op \in Alus \cup Divisions \cup Shifts \cup {"icmp"},
         NEW a \in Writable(t, i), NEW r \in Writable(t, i)
  PROVE  /\ Compiled(t, i, Then(Then(LoadTo(i, 1, a), <<Set(R(r), i.op, <<R(a), Arg(i, 2)>>)>>), StoreFrom(i, r)))
         /\ \A b \in Writable(t, i) : b # a => Compiled(t, i, Then(Then(Then(LoadTo(i, 1, a), LoadTo(i, 2, b)), <<Set(R(r), i.op, <<R(a), R(b)>>)>>), StoreFrom(i, r)))
         /\ \A b \in Writable(t, i) : b # a =>
              Compiled(t, i, Then(<<Mov(Arg(i, 1), R(a)), Mov(Arg(i, 2), R(b)), Set(R(r), i.op, <<R(a), R(b)>>)>>,
                                  StoreFrom(i, r)))
<1>1. 2 \in 1..Len(i.args) /\ i.args[1].kind # "fp" /\ i.args[2].kind # "fp"
  BY Binaries
<1>2. Pure(t, i) /\ MeantResult(i) = Term(i.op, <<Meant(i.args[1]), Meant(i.args[2])>>)
  BY MeansTwo
<1>3. Compiled(t, i, Then(Then(LoadTo(i, 1, a), <<Set(R(r), i.op, <<R(a), Arg(i, 2)>>)>>), StoreFrom(i, r)))
  BY <1>1, <1>2, InTwo
<1>4. ASSUME NEW b \in Writable(t, i), b # a
      PROVE  Compiled(t, i, Then(<<Mov(Arg(i, 1), R(a)), Mov(Arg(i, 2), R(b)), Set(R(r), i.op, <<R(a), R(b)>>)>>,
                                 StoreFrom(i, r)))
  BY <1>1, <1>2, <1>4, InBoth
<1>5. ASSUME NEW b \in Writable(t, i), b # a
      PROVE  Compiled(t, i, Then(Then(Then(LoadTo(i, 1, a), LoadTo(i, 2, b)), <<Set(R(r), i.op, <<R(a), R(b)>>)>>), StoreFrom(i, r)))
  BY <1>1, <1>2, <1>5, InBoth
<1> QED
  BY <1>3, <1>4, <1>5

-----------------------------------------------------------------------------
(* Calls: while the arguments are put where the callee finds them, sp      *)
(* moves and words below the frame are written.                            *)
Calling(t, i, c, m) == Runs(t, c, Entry(t, i), m) /\ Intact(t, i, m) /\ Unseen(m) /\ m.calls = 0
Readable(t, i, k, m) == m.sp = Sp0(t) \/ FrameBased(t) \/ ~IsMem(i.args[k])

LEMMA WordPut ==
  ASSUME NEW t, NEW m, Sane(t, m), NEW a \in Words, NEW x, NEW m2, m2 = PutWord(m, a, x)
  PROVE  /\ Sane(t, m2) /\ m2.mem[a] = x /\ \A w \in Words : w # a => m2.mem[w] = m.mem[w]
         /\ m2.regs = m.regs /\ m2.sp = m.sp /\ m2.seen = m.seen /\ m2.calls = m.calls
<1> DEFINE g == [m.mem EXCEPT ![a] = x]
<1>1. /\ m = [regs |-> m.regs, mem |-> m.mem, sp |-> m.sp, seen |-> m.seen, calls |-> m.calls]
      /\ m.mem = [w \in Words |-> m.mem[w]]
  BY DEF Sane
<1>2. m2 = [regs |-> m.regs, mem |-> g, sp |-> m.sp, seen |-> m.seen, calls |-> m.calls]
  BY <1>1 DEF PutWord
<1>3. g[a] = x /\ g = [w \in Words |-> g[w]] /\ \A w \in Words : w # a => g[w] = m.mem[w]
  BY <1>1
<1> HIDE DEF g
<1>4. m2.regs = m.regs /\ m2.mem = g /\ m2.sp = m.sp /\ m2.seen = m.seen /\ m2.calls = m.calls
  BY <1>2
<1>5. Sane(t, m2)
  BY <1>1, <1>2, <1>3 DEF Sane
<1> QED
  BY <1>3, <1>4, <1>5

LEMMA CallingNone ==
  ASSUME NEW t \in Targets, NEW i
  PROVE  Calling(t, i, <<>>, Entry(t, i))
  BY EntryIs, RunsNone DEF Calling, Unseen

LEMMA CallingSeq ==
  ASSUME NEW t, NEW i, NEW c, NEW m, Calling(t, i, c, m)
  PROVE  IsSeq(c) /\ Sane(t, m) /\ m.sp \in Words
  BY DEF Calling, Runs, Intact, Sane

LEMMA CallingThen ==
  ASSUME NEW t, NEW i, NEW c, NEW m, Calling(t, i, c, m), NEW y, NEW m2, Goes(t, i, y, m, m2)
  PROVE  Calling(t, i, Then(c, y), m2) /\ m2.mem = m.mem /\ m2.sp = m.sp
<1>1. Runs(t, c, Entry(t, i), m) /\ Runs(t, y, m, m2) /\ Intact(t, i, m2) /\ m2.seen = m.seen /\ m2.calls = m.calls
      /\ m2.mem = m.mem /\ m2.sp = m.sp
  BY DEF Calling, Goes
<1>2. Runs(t, Then(c, y), Entry(t, i), m2)
  BY <1>1, RunsThen DEF Then
<1> QED
  BY <1>1, <1>2 DEF Calling, Unseen

LEMMA CallingLoads ==
  ASSUME NEW t \in Targets, NEW i, IsInstruction(t, i), NEW c, NEW m, Calling(t, i, c, m), NEW k \in 1..Len(i.args),
         i.args[k].kind # "fp", Readable(t, i, k, m), NEW r \in Writable(t, i)
  PROVE  /\ Calling(t, i, Then(c, LoadTo(i, k, r)), Put(m, r, Meant(i.args[k])))
         /\ Calling(t, i, Then(c, <<Mov(Arg(i, k), R(r))>>), Put(m, r, Meant(i.args[k])))
<1>1. Intact(t, i, m)
  BY DEF Calling
<1>2. /\ Goes(t, i, <<Mov(Arg(i, k), R(r))>>, m, Put(m, r, Meant(i.args[k])))
      /\ Goes(t, i, LoadTo(i, k, r), m, Put(m, r, Meant(i.args[k])))
  BY <1>1, Loads DEF Readable
<1> QED
  BY <1>2, CallingThen

LEMMA SlotsAbove ==
  ASSUME NEW t \in Targets, NEW v \in 0..(NSlots - 1)
  PROVE  SlotAt(t, Sp0(t), v) >= Sp0(t) /\ SlotAt(t, Sp0(t), v) \in Words /\ Sp0(t) \in Int
<1>1. SlotAt(t, Sp0(t), v) \in Words
  BY EntryIs
<1>2. CASE FrameBased(t)
  BY <1>1, <1>2, BoundsAssumption DEF SlotAt, Sp0
<1>3. CASE ~FrameBased(t)
  BY <1>1, <1>3, BoundsAssumption DEF SlotAt, Sp0
<1> QED
  BY <1>2, <1>3

LEMMA BelowPut ==
  ASSUME NEW t \in Targets, NEW i, NEW m, Intact(t, i, m), NEW a \in Words, a < Sp0(t), NEW x, NEW m2, m2 = PutWord(m, a, x)
  PROVE  /\ Intact(t, i, m2) /\ m2.mem[a] = x /\ \A w \in Words : w # a => m2.mem[w] = m.mem[w]
         /\ m2.regs = m.regs /\ m2.sp = m.sp /\ m2.seen = m.seen /\ m2.calls = m.calls
<1>1. /\ Sane(t, m2) /\ m2.mem[a] = x /\ \A w \in Words : w # a => m2.mem[w] = m.mem[w]
      /\ m2.regs = m.regs /\ m2.sp = m.sp /\ m2.seen = m.seen /\ m2.calls = m.calls
  <2>1. Sane(t, m)
    BY DEF Intact
  <2> QED
    BY <2>1, WordPut
<1>2. ASSUME NEW v \in 0..(NSlots - 1), <<"slot", v>> # Dst(i)
      PROVE  m2.mem[SlotAt(t, Sp0(t), v)] = InFrame(t, i, SlotAt(t, Sp0(t), v))
  <2>1. SlotAt(t, Sp0(t), v) # a /\ SlotAt(t, Sp0(t), v) \in Words
    <3>1. a \in Int /\ SlotAt(t, Sp0(t), v) \in Int
      BY SlotsAbove, BoundsAssumption DEF Words
    <3> QED
      BY <3>1, SlotsAbove
  <2>2. m.mem[SlotAt(t, Sp0(t), v)] = InFrame(t, i, SlotAt(t, Sp0(t), v))
    BY <1>2 DEF Intact
  <2> QED
    BY <1>1, <2>1, <2>2
<1> QED
  BY <1>1, <1>2 DEF Intact

LEMMA SpPut ==
  ASSUME NEW t, NEW i, NEW m, Intact(t, i, m), NEW s \in Words, NEW m2, m2 = [m EXCEPT !.sp = s]
  PROVE  /\ Intact(t, i, m2) /\ m2.sp = s /\ m2.mem = m.mem
         /\ m2.regs = m.regs /\ m2.seen = m.seen /\ m2.calls = m.calls
<1>1. m = [regs |-> m.regs, mem |-> m.mem, sp |-> m.sp, seen |-> m.seen, calls |-> m.calls] /\ Sane(t, m)
  BY DEF Sane, Intact
<1>2. m2 = [regs |-> m.regs, mem |-> m.mem, sp |-> s, seen |-> m.seen, calls |-> m.calls]
  BY <1>1
<1>3. /\ m2.sp = s /\ m2.mem = m.mem /\ m2.regs = m.regs /\ m2.seen = m.seen /\ m2.calls = m.calls
  BY <1>2
<1>4. Sane(t, m2)
  BY <1>1, <1>2, <1>3 DEF Sane
<1> QED
  BY <1>3, <1>4 DEF Intact

LEMMA CallingStep ==
  ASSUME NEW t, NEW i, NEW c, NEW m, Calling(t, i, c, m), NEW d, NEW m2, m2 = Step(t, d, m), Intact(t, i, m2),
         m2.seen = m.seen, m2.calls = m.calls
  PROVE  Calling(t, i, Then(c, <<d>>), m2)
<1>1. Runs(t, <<d>>, m, m2)
  BY RunsOne DEF Intact
<1>2. Runs(t, Then(c, <<d>>), Entry(t, i), m2)
  BY <1>1, RunsThen DEF Then, Calling
<1> QED
  BY <1>2 DEF Calling, Unseen

LEMMA CallingMove ==
  ASSUME NEW t, NEW i, NEW c, NEW m, Calling(t, i, c, m), NEW n, m.sp + n \in Words
  PROVE  \E m2 : Calling(t, i, Then(c, <<MoveSp(n)>>), m2) /\ m2.sp = m.sp + n /\ m2.mem = m.mem /\ m2.regs = m.regs
<1> DEFINE m2 == [m EXCEPT !.sp = m.sp + n]
<1>1. Intact(t, i, m)
  BY DEF Calling
<1>2. /\ Intact(t, i, m2) /\ m2.sp = m.sp + n /\ m2.mem = m.mem
      /\ m2.regs = m.regs /\ m2.seen = m.seen /\ m2.calls = m.calls
  <2> DEFINE s == m.sp + n
  <2>1. s \in Words /\ m2 = [m EXCEPT !.sp = s]
    OBVIOUS
  <2> HIDE DEF s, m2
  <2>2. /\ Intact(t, i, m2) /\ m2.sp = s /\ m2.mem = m.mem
        /\ m2.regs = m.regs /\ m2.seen = m.seen /\ m2.calls = m.calls
    BY <1>1, <2>1, SpPut
  <2> QED
    BY <2>2 DEF s
<1>3. m2 = Step(t, MoveSp(n), m)
  BY DEF Step, MoveSp
<1> HIDE DEF m2
<1>4. Calling(t, i, Then(c, <<MoveSp(n)>>), m2)
  BY <1>2, <1>3, CallingStep
<1> QED
  BY <1>2, <1>4

LEMMA CallingPush ==
  ASSUME NEW t \in Targets, NEW i, NEW c, NEW m, Calling(t, i, c, m), m.sp - 1 \in Words, m.sp <= Sp0(t), NEW p
  PROVE  \E m2 : /\ Calling(t, i, Then(c, <<Push(p)>>), m2) /\ m2.sp = m.sp - 1 /\ m2.regs = m.regs
                 /\ m2.mem[m.sp - 1] = Val(t, m, p) /\ \A w \in Words : w # m.sp - 1 => m2.mem[w] = m.mem[w]
<1> DEFINE a == m.sp - 1
           x == Val(t, m, p)
           m1 == PutWord(m, a, x)
           m2 == [m1 EXCEPT !.sp = a]
<1>1. Intact(t, i, m)
  BY DEF Calling
<1>2. m.sp \in Int /\ Sp0(t) \in Int
  BY <1>1, BoundsAssumption DEF Intact, Sane, Words, Sp0
<1>3. a \in Words /\ a < Sp0(t)
  BY <1>2
<1>4. m2 = Step(t, Push(p), m)
  <2>1. Step(t, Push(p), m) = [m EXCEPT !.mem[m.sp - 1] = Val(t, m, p), !.sp = m.sp - 1]
    BY DEF Step, Push
  <2> QED
    BY <2>1 DEF PutWord
<1> HIDE DEF a, x
<1>5. /\ Intact(t, i, m1) /\ m1.mem[a] = x /\ \A w \in Words : w # a => m1.mem[w] = m.mem[w]
      /\ m1.regs = m.regs /\ m1.sp = m.sp /\ m1.seen = m.seen /\ m1.calls = m.calls
  BY <1>1, <1>3, BelowPut
<1> HIDE DEF m1
<1>6. /\ Intact(t, i, m2) /\ m2.sp = a /\ m2.mem = m1.mem
      /\ m2.regs = m1.regs /\ m2.seen = m1.seen /\ m2.calls = m1.calls
  BY <1>3, <1>5, SpPut
<1> HIDE DEF m2
<1>7. Calling(t, i, Then(c, <<Push(p)>>), m2)
  BY <1>4, <1>5, <1>6, CallingStep
<1> QED
  BY <1>5, <1>6, <1>7 DEF a, x

LEMMA CallingAbove ==
  ASSUME NEW t \in Targets, NEW i, NEW c, NEW m, Calling(t, i, c, m), NEW k, m.sp + k \in Words, m.sp + k < Sp0(t), NEW r
  PROVE  \E m2 : /\ Calling(t, i, Then(c, <<Mov(R(r), AboveSp(k))>>), m2) /\ m2.sp = m.sp /\ m2.regs = m.regs
                 /\ m2.mem[m.sp + k] = m.regs[r] /\ \A w \in Words : w # m.sp + k => m2.mem[w] = m.mem[w]
<1> DEFINE a == m.sp + k
           x == m.regs[r]
           d == Mov(R(r), AboveSp(k))
           m2 == PutWord(m, a, x)
<1>1. Intact(t, i, m)
  BY DEF Calling
<1>2. Term(d.op, Vals(t, m, d.from)) = x /\ d.do = "set" /\ d.to[1] # "reg" /\ WordAt(t, m, d.to) = a
  <2>1. Val(t, m, R(r)) = x
    BY DEF Val, R
  <2>2. Term("mov", Vals(t, m, <<R(r)>>)) = x
    BY <2>1, OneVal, Moved
  <2> QED
    BY <2>2 DEF Mov, Set, AboveSp, WordAt
<1> HIDE DEF d, a, x
<1>3. m2 = Step(t, d, m)
  BY <1>2 DEF Step, PutWord
<1>4. /\ Intact(t, i, m2) /\ m2.mem[a] = x /\ \A w \in Words : w # a => m2.mem[w] = m.mem[w]
      /\ m2.regs = m.regs /\ m2.sp = m.sp /\ m2.seen = m.seen /\ m2.calls = m.calls
  <2>1. a \in Words /\ a < Sp0(t)
    BY DEF a
  <2> QED
    BY <1>1, <2>1, BelowPut
<1> HIDE DEF m2
<1>5. Calling(t, i, Then(c, <<d>>), m2)
  BY <1>3, <1>4, CallingStep
<1> QED
  BY <1>4, <1>5 DEF a, x, d

-----------------------------------------------------------------------------
(* Code printed in a loop: h[k] is what the first k rounds print.          *)
Rounds(h, n, p) == h[0] = <<>> /\ \A k \in 1..n : h[k] = Then(h[k-1], p[k])
Recurs(h, n, p) == h = [k \in 0..n |-> IF k = 0 THEN <<>> ELSE Then(h[k-1], p[k])]

LEMMA RoundsSeq ==
  ASSUME NEW n \in Nat, NEW p, \A k \in 1..n : IsSeq(p[k]), NEW h, Rounds(h, n, p)
  PROVE  \A k \in 0..n : IsSeq(h[k])
<1> DEFINE S == {k \in 0..n : IsSeq(h[k])}
<1>1. 0 \in S
  BY NoCode DEF Rounds
<1>2. ASSUME NEW k \in 0..n-1, k \in S PROVE k+1 \in S
  <2>1. h[k+1] = Then(h[k], p[k+1]) /\ IsSeq(p[k+1]) /\ IsSeq(h[k]) /\ k+1 \in 0..n
    <3>1. k+1 \in 1..n /\ (k+1)-1 = k
      OBVIOUS
    <3> QED
      BY <1>2, <3>1 DEF Rounds
  <2> QED
    BY <2>1, Thens
<1>3. 0..n \subseteq S
  <2> HIDE DEF S
  <2> QED
    BY <1>1, <1>2, Induction
<1> QED
  BY <1>3

LEMMA RoundsExist ==
  ASSUME NEW n \in Nat, NEW p, \A k \in 1..n : IsSeq(p[k])
  PROVE  (\E h : Recurs(h, n, p)) /\ \A h : Recurs(h, n, p) => Rounds(h, n, p)
<1> DEFINE E == UNION {Elems(p[k]) : k \in 1..n}
           V == Seq(E)
           step == [k \in 1..n |-> [s \in V |-> Then(s, p[k])]]
           none == <<>>
<1>1. \A k \in 1..n : p[k] \in V
  <2> TAKE k \in 1..n
  <2>1. p[k] \in Seq(Elems(p[k])) /\ Elems(p[k]) \subseteq E
    BY DEF IsSeq
  <2> HIDE DEF E
  <2> QED
    BY <2>1
<1>2. \A k \in 1..n : \A s \in V : Then(s, p[k]) \in V
  <2> HIDE DEF E
  <2> QED
    BY <1>1 DEF Then
<1>3. none \in V
  OBVIOUS
<1>4. step \in [1..n -> [V -> V]]
  <2> HIDE DEF V
  <2> QED
    BY <1>2
<1>5. \A k \in 1..n : \A s \in V : step[k][s] = Then(s, p[k])
  OBVIOUS
<1> HIDE DEF E, V, step, none
<1>6. PICK h \in [0..n -> V] : h[0] = none /\ \A k \in 1..n : h[k] = step[k][h[k-1]]
  BY ONLY <1>3, <1>4, n \in Nat, Iterates
<1>7. \A k \in 1..n : h[k] = Then(h[k-1], p[k])
  <2>1. \A k \in 1..n : k-1 \in 0..n
    OBVIOUS
  <2> QED
    BY <1>5, <1>6, <2>1
<1>8. Recurs(h, n, p)
  <2>1. h = [k \in 0..n |-> h[k]] /\ \A k \in 0..n : k # 0 => k \in 1..n
    BY <1>6
  <2>2. h[0] = <<>>
    BY <1>6 DEF none
  <2>3. [k \in 0..n |-> h[k]] = [k \in 0..n |-> IF k = 0 THEN <<>> ELSE Then(h[k-1], p[k])]
    BY <1>7, <2>1, <2>2
  <2> QED
    BY <2>1, <2>3 DEF Recurs
<1>9. ASSUME NEW e, Recurs(e, n, p) PROVE Rounds(e, n, p)
  <2> DEFINE g == e
  <2>1. g = [k \in 0..n |-> IF k = 0 THEN <<>> ELSE Then(e[k-1], p[k])]
    BY <1>9 DEF Recurs
  <2> HIDE DEF g
  <2>2. 0 \in 0..n /\ \A k \in 1..n : k \in 0..n /\ k # 0
    OBVIOUS
  <2>3. g[0] = <<>> /\ \A k \in 1..n : g[k] = Then(e[k-1], p[k])
    BY <2>1, <2>2
  <2> QED
    BY <2>3 DEF g, Rounds
<1> QED
  BY <1>8, <1>9

(* The first arguments come into their registers.                          *)
ArgLoad(i, areg) == [a \in 1..Len(areg) |-> IF a \in DOMAIN i.args THEN LoadTo(i, a, areg[a]) ELSE <<>>]

LEMMA LoadArgsIs ==
  ASSUME NEW i, NEW areg, Len(areg) \in Nat
  PROVE  /\ \E h : LoadArgs(i, areg) = h[Len(areg)] /\ Rounds(h, Len(areg), ArgLoad(i, areg))
         /\ \A a \in 1..Len(areg) : IsSeq(ArgLoad(i, areg)[a])
<1> DEFINE n == Len(areg)
           p == ArgLoad(i, areg)
           some == {a \in DOMAIN i.args : a <= n}
           one(h, a) == h[a-1] \o (IF a \in some THEN LoadTo(i, a, areg[a]) ELSE <<>>)
           Rec(h) == h = [a \in 0..n |-> IF a = 0 THEN <<>> ELSE one(h, a)]
           from == CHOOSE h : Rec(h)
<1>1. \A h : \A a \in 1..n : one(h, a) = Then(h[a-1], p[a])
  <2> TAKE h
  <2> TAKE a \in 1..n
  <2>1. p[a] = IF a \in some THEN LoadTo(i, a, areg[a]) ELSE <<>>
    BY DEF ArgLoad
  <2> QED
    BY <2>1 DEF Then
<1>2. \A a \in 1..n : IsSeq(p[a])
  <2> TAKE a \in 1..n
  <2>1. p[a] = <<>> \/ p[a] = <<Mov(Arg(i, a), R(areg[a]))>>
    BY DEF ArgLoad, LoadTo, Copy
  <2> QED
    BY <2>1, NoCode, OneCode
<1>3. LoadArgs(i, areg) = from[n]
  BY DEF LoadArgs
<1> HIDE DEF p, n, one
<1>4. n \in Nat
  BY DEF n
<1>5. (\E h : Recurs(h, n, p)) /\ \A h : Recurs(h, n, p) => Rounds(h, n, p)
  BY <1>2, <1>4, RoundsExist
<1>6. ASSUME NEW h PROVE Rec(h) <=> Recurs(h, n, p)
  <2>1. \A a \in 0..n : a # 0 => a \in 1..n
    BY <1>4
  <2>2. [a \in 0..n |-> IF a = 0 THEN <<>> ELSE one(h, a)] = [a \in 0..n |-> IF a = 0 THEN <<>> ELSE Then(h[a-1], p[a])]
    BY <1>1, <2>1
  <2> QED
    BY <2>2 DEF Recurs
<1>7. Rec(from)
  <2> HIDE DEF Rec
  <2> QED
    BY <1>5, <1>6
<1> HIDE DEF from, Rec
<1> QED
  BY <1>2, <1>3, <1>5, <1>6, <1>7 DEF n, p

Loaded(i, areg, n, m) == \A a \in 1..n : a \in DOMAIN i.args => m.regs[areg[a]] = Meant(i.args[a])
Spread(t, i, areg) == \A a, b \in 1..Len(areg) : areg[a] \in Writable(t, i) /\ (areg[a] = areg[b] => a = b)

LEMMA CallOperand ==
  ASSUME NEW t \in Targets, NEW i, IsInstruction(t, i), i.op = "call", NEW k \in DOMAIN i.args
  PROVE  i.args[k].kind # "fp" /\ k \in 1..Len(i.args) /\ DOMAIN i.args = 1..Len(i.args) /\ Len(i.args) \in Nat
<1>1. i.args \in Seq(Operands(t, "call")) /\ Operands(t, "call") = Surviving(t) \cup Consts
  BY DEF IsInstruction, Operands, Floats, ToInt, FpToFp, FromInt
<1>2. DOMAIN i.args = 1..Len(i.args) /\ Len(i.args) \in Nat /\ i.args[k] \in Surviving(t) \cup Consts
  BY <1>1
<1> QED
  BY <1>2 DEF Surviving, Vregs, Consts

LEMMA CallingArgs ==
  ASSUME NEW t \in Targets, NEW i, IsInstruction(t, i), i.op = "call", NEW areg, Len(areg) \in Nat, Spread(t, i, areg),
         NEW c, NEW m, Calling(t, i, c, m), \A a \in 1..Len(areg) : a \in DOMAIN i.args => Readable(t, i, a, m)
  PROVE  \E m2 : /\ Calling(t, i, Then(c, LoadArgs(i, areg)), m2) /\ Loaded(i, areg, Len(areg), m2)
                 /\ m2.sp = m.sp /\ m2.mem = m.mem
<1> DEFINE n == Len(areg)
           p == ArgLoad(i, areg)
<1>1. PICK h : LoadArgs(i, areg) = h[n] /\ Rounds(h, n, p)
  BY LoadArgsIs
<1>2. \A a \in 1..n : IsSeq(p[a])
  BY LoadArgsIs
<1>3. \A a \in 1..n : p[a] = IF a \in DOMAIN i.args THEN LoadTo(i, a, areg[a]) ELSE <<>>
  BY DEF ArgLoad
<1> HIDE DEF p
<1>4. \A a \in 0..n : IsSeq(h[a])
  BY <1>1, <1>2, RoundsSeq
<1> DEFINE Ok(a, m2) == Calling(t, i, Then(c, h[a]), m2) /\ Loaded(i, areg, a, m2) /\ m2.sp = m.sp /\ m2.mem = m.mem
           S == {a \in 0..n : \E m2 : Ok(a, m2)}
<1>5. IsSeq(c)
  BY CallingSeq
<1>6. 0 \in S
  <2>1. h[0] = <<>> /\ Then(c, h[0]) = c
    BY <1>1, <1>5, Thens DEF Rounds
  <2>2. Loaded(i, areg, 0, m)
    BY DEF Loaded
  <2>3. Ok(0, m)
    BY <2>1, <2>2
  <2> HIDE DEF Ok
  <2> QED
    BY <2>3
<1>7. ASSUME NEW a \in 0..n-1, a \in S PROVE a+1 \in S
  <2>1. PICK m2 : Ok(a, m2)
    BY <1>7
  <2>2. a+1 \in 1..n /\ (a+1)-1 = a /\ a \in 0..n
    OBVIOUS
  <2>3. h[a+1] = Then(h[a], p[a+1])
    BY <1>1, <2>2 DEF Rounds
  <2>4. Then(c, h[a+1]) = Then(Then(c, h[a]), p[a+1])
    BY <1>2, <1>4, <1>5, <2>2, <2>3, Thens
  <2>5. Calling(t, i, Then(c, h[a]), m2) /\ IsSeq(Then(c, h[a]))
    BY <1>4, <1>5, <2>1, <2>2, Thens
  <2>6. CASE a+1 \in DOMAIN i.args
    <3> DEFINE r == areg[a+1]
               x == Meant(i.args[a+1])
               m3 == Put(m2, r, x)
    <3>1. a+1 \in 1..Len(i.args) /\ i.args[a+1].kind # "fp" /\ r \in Writable(t, i)
      BY <2>2, <2>6, CallOperand DEF Spread
    <3>2. Readable(t, i, a+1, m2)
      BY <2>1, <2>2, <2>6 DEF Readable
    <3>3. Calling(t, i, Then(Then(c, h[a]), LoadTo(i, a+1, r)), m3)
      BY <2>5, <3>1, <3>2, CallingLoads
    <3>4. p[a+1] = LoadTo(i, a+1, r)
      BY <1>3, <2>2, <2>6
    <3>5. /\ m3.regs[r] = x /\ \A q \in AllRegs(t) : q # r => m3.regs[q] = m2.regs[q]
          /\ m3.mem = m2.mem /\ m3.sp = m2.sp
      <4>1. Sane(t, m2) /\ r \in AllRegs(t)
        BY <2>5, <3>1 DEF Calling, Intact, Writable
      <4> HIDE DEF r, x
      <4> QED
        BY <4>1, PutIs
    <3>6. Loaded(i, areg, a+1, m3)
      <4> SUFFICES ASSUME NEW b \in 1..(a+1), b \in DOMAIN i.args PROVE m3.regs[areg[b]] = Meant(i.args[b])
        BY DEF Loaded
      <4>1. CASE b = a+1
        BY <3>5, <4>1
      <4>2. CASE b # a+1
        <5>1. b \in 1..a /\ b \in 1..n
          BY <4>2, <2>2
        <5>2. m2.regs[areg[b]] = Meant(i.args[b])
          BY <2>1, <5>1 DEF Loaded
        <5>3. areg[b] \in AllRegs(t) /\ areg[b] # r
          BY <2>2, <4>2, <5>1 DEF Spread, Writable
        <5> HIDE DEF m3, r
        <5> QED
          BY <3>5, <5>2, <5>3
      <4> QED
        BY <4>1, <4>2
    <3>7. Ok(a+1, m3)
      BY <2>1, <2>4, <3>3, <3>4, <3>5, <3>6
    <3> HIDE DEF Ok, m3
    <3> QED
      BY <2>2, <3>7
  <2>7. CASE a+1 \notin DOMAIN i.args
    <3>1. p[a+1] = <<>> /\ Then(Then(c, h[a]), p[a+1]) = Then(c, h[a])
      BY <1>3, <2>2, <2>5, <2>7, Thens
    <3>2. Loaded(i, areg, a+1, m2)
      <4> SUFFICES ASSUME NEW b \in 1..(a+1), b \in DOMAIN i.args PROVE m2.regs[areg[b]] = Meant(i.args[b])
        BY DEF Loaded
      <4>1. b \in 1..a
        BY <2>2, <2>7
      <4> QED
        BY <2>1, <4>1 DEF Loaded
    <3>3. Ok(a+1, m2)
      BY <2>1, <2>4, <3>1, <3>2
    <3> HIDE DEF Ok
    <3> QED
      BY <2>2, <3>3
  <2> QED
    BY <2>6, <2>7
<1>8. n \in 0..n /\ 0..n \subseteq S
  <2> HIDE DEF S
  <2> QED
    BY <1>6, <1>7, Induction
<1>9. \E m2 : Ok(n, m2)
  BY <1>8
<1> QED
  BY <1>1, <1>9

(* The same for rounds of two pieces.                                      *)
Recurs2(h, n, p, q) == h = [k \in 0..n |-> IF k = 0 THEN <<>> ELSE Then(Then(h[k-1], p[k]), q[k])]

LEMMA RoundsExist2 ==
  ASSUME NEW n \in Nat, NEW p, NEW q, \A k \in 1..n : IsSeq(p[k]) /\ IsSeq(q[k])
  PROVE  /\ \E h : Recurs2(h, n, p, q)
         /\ \A h : Recurs2(h, n, p, q) => Rounds(h, n, [k \in 1..n |-> Then(p[k], q[k])])
<1> DEFINE b == [k \in 1..n |-> Then(p[k], q[k])]
<1>1. \A k \in 1..n : b[k] = Then(p[k], q[k])
  OBVIOUS
<1> HIDE DEF b
<1>2. \A k \in 1..n : IsSeq(b[k])
  BY <1>1, Thens
<1>3. ASSUME NEW s, IsSeq(s), NEW k \in 1..n PROVE Then(Then(s, p[k]), q[k]) = Then(s, b[k])
  BY <1>1, <1>3, Thens
<1>4. \A k \in 0..n : k # 0 => k \in 1..n /\ k-1 \in 0..n
  OBVIOUS
<1>5. \E h : Recurs2(h, n, p, q)
  <2>1. PICK h : Recurs(h, n, b) /\ Rounds(h, n, b)
    BY <1>2, RoundsExist
  <2>2. \A k \in 0..n : IsSeq(h[k])
    BY <1>2, <2>1, RoundsSeq
  <2>3. \A k \in 0..n : k # 0 => Then(Then(h[k-1], p[k]), q[k]) = Then(h[k-1], b[k])
    BY <1>3, <1>4, <2>2
  <2>4. [k \in 0..n |-> IF k = 0 THEN <<>> ELSE Then(Then(h[k-1], p[k]), q[k])]
          = [k \in 0..n |-> IF k = 0 THEN <<>> ELSE Then(h[k-1], b[k])]
    BY <2>3
  <2>5. Recurs2(h, n, p, q)
    BY <2>1, <2>4 DEF Recurs, Recurs2
  <2> QED
    BY <2>5
<1>6. ASSUME NEW e, Recurs2(e, n, p, q) PROVE Rounds(e, n, b)
  <2> DEFINE g == e
  <2>1. g = [k \in 0..n |-> IF k = 0 THEN <<>> ELSE Then(Then(e[k-1], p[k]), q[k])]
    BY <1>6 DEF Recurs2
  <2> HIDE DEF g
  <2>2. 0 \in 0..n /\ \A k \in 1..n : k \in 0..n /\ k # 0
    OBVIOUS
  <2>3. g[0] = <<>> /\ \A k \in 1..n : g[k] = Then(Then(e[k-1], p[k]), q[k])
    BY <2>1, <2>2
  <2>4. e[0] = <<>> /\ \A k \in 1..n : e[k] = Then(Then(e[k-1], p[k]), q[k])
    BY <2>3 DEF g
  <2> DEFINE S == {k \in 0..n : IsSeq(e[k])}
  <2>5. 0 \in S
    BY <2>4, NoCode
  <2>6. ASSUME NEW k \in 0..n-1, k \in S PROVE k+1 \in S
    <3>1. k+1 \in 1..n /\ (k+1)-1 = k /\ k+1 \in 0..n
      OBVIOUS
    <3>2. e[k+1] = Then(Then(e[k], p[k+1]), q[k+1]) /\ IsSeq(e[k]) /\ IsSeq(p[k+1]) /\ IsSeq(q[k+1])
      BY <2>4, <2>6, <3>1
    <3> QED
      BY <3>1, <3>2, Thens
  <2>7. 0..n \subseteq S
    <3> HIDE DEF S
    <3> QED
      BY <2>5, <2>6, Induction
  <2>8. \A k \in 1..n : e[k] = Then(e[k-1], b[k])
    <3> TAKE k \in 1..n
    <3>1. IsSeq(e[k-1])
      BY <2>7
    <3> QED
      BY <1>3, <2>4, <3>1
  <2> QED
    BY <2>4, <2>8 DEF Rounds
<1> QED
  BY <1>5, <1>6 DEF b

-----------------------------------------------------------------------------
(* Arguments pushed one after the other, the last one first.               *)
Pushes(t, i, k, p) ==
  /\ IsSeq(p)
  /\ \A c, m : Calling(t, i, c, m) /\ Readable(t, i, k, m) /\ m.sp - 1 \in Words /\ m.sp <= Sp0(t) =>
       \E m2 : /\ Calling(t, i, Then(c, p), m2) /\ m2.sp = m.sp - 1 /\ m2.mem[m.sp - 1] = Meant(i.args[k])
               /\ \A w \in Words : w # m.sp - 1 => m2.mem[w] = m.mem[w]

LEMMA PushesReg ==
  ASSUME NEW t \in Targets, NEW i, IsInstruction(t, i), i.op = "call", NEW k \in DOMAIN i.args, NEW r \in Writable(t, i)
  PROVE  /\ Pushes(t, i, k, Then(LoadTo(i, k, r), <<Push(R(r))>>))
         /\ Pushes(t, i, k, <<Mov(Arg(i, k), R(r)), Push(R(r))>>)
<1>1. k \in 1..Len(i.args) /\ i.args[k].kind # "fp"
  BY CallOperand
<1> DEFINE x == LoadTo(i, k, r)
           y == <<Mov(Arg(i, k), R(r))>>
           d == <<Push(R(r))>>
           A == Meant(i.args[k])
<1>2. IsSeq(x) /\ IsSeq(y) /\ IsSeq(d)
  <2>1. x = <<>> \/ x = <<Mov(Arg(i, k), R(r))>>
    BY DEF LoadTo, Copy
  <2> QED
    BY <2>1, NoCode, OneCode
<1>3. <<Mov(Arg(i, k), R(r)), Push(R(r))>> = Then(y, d)
  BY ByHead
<1>4. \A c, m : Calling(t, i, c, m) /\ Readable(t, i, k, m) =>
        Calling(t, i, Then(c, x), Put(m, r, A)) /\ Calling(t, i, Then(c, y), Put(m, r, A))
  BY <1>1, CallingLoads
<1> HIDE DEF x, y, d
<1>5. ASSUME NEW z \in {x, y} PROVE Pushes(t, i, k, Then(z, d))
  <2>1. IsSeq(z) /\ IsSeq(Then(z, d))
    BY <1>2, <1>5, Thens
  <2>2. ASSUME NEW c, NEW m, Calling(t, i, c, m), Readable(t, i, k, m), m.sp - 1 \in Words, m.sp <= Sp0(t)
        PROVE  \E m2 : /\ Calling(t, i, Then(c, Then(z, d)), m2) /\ m2.sp = m.sp - 1 /\ m2.mem[m.sp - 1] = A
                       /\ \A w \in Words : w # m.sp - 1 => m2.mem[w] = m.mem[w]
    <3> DEFINE m1 == Put(m, r, A)
    <3>1. Calling(t, i, Then(c, z), m1)
      BY <1>4, <1>5, <2>2
    <3>2. m1.sp = m.sp /\ m1.mem = m.mem /\ m1.regs[r] = A
      <4>1. Sane(t, m) /\ r \in AllRegs(t)
        BY <2>2, CallingSeq DEF Writable
      <4> HIDE DEF A
      <4> QED
        BY <4>1, PutIs
    <3> HIDE DEF m1
    <3>3. Val(t, m1, R(r)) = A
      BY <3>2 DEF Val, R
    <3>4. PICK m2 : /\ Calling(t, i, Then(Then(c, z), d), m2) /\ m2.sp = m1.sp - 1 /\ m2.mem[m1.sp - 1] = Val(t, m1, R(r))
                    /\ \A w \in Words : w # m1.sp - 1 => m2.mem[w] = m1.mem[w]
      BY <2>2, <3>1, <3>2, CallingPush DEF d
    <3>5. Then(Then(c, z), d) = Then(c, Then(z, d))
      BY <1>2, <2>1, <2>2, CallingSeq, Thens
    <3> QED
      BY <3>2, <3>3, <3>4, <3>5
  <2> QED
    BY <2>1, <2>2 DEF Pushes
<1> QED
  BY <1>3, <1>5 DEF x, d

LEMMA PushesConst ==
  ASSUME NEW t \in Targets, NEW i, IsInstruction(t, i), i.op = "call", NEW k \in DOMAIN i.args, IsImm(i.args[k])
  PROVE  Pushes(t, i, k, <<Push(Arg(i, k))>>)
<1>1. i.args[k].kind = "imm"
  BY CallOperand DEF IsImm
<1>2. \A m : Val(t, m, Arg(i, k)) = Meant(i.args[k])
  BY <1>1 DEF Val, Arg, Place, Meant, Imm, InReg, IsMem
<1>3. \A c, m : Calling(t, i, c, m) /\ m.sp - 1 \in Words /\ m.sp <= Sp0(t) =>
        \E m2 : /\ Calling(t, i, Then(c, <<Push(Arg(i, k))>>), m2) /\ m2.sp = m.sp - 1 /\ m2.regs = m.regs
                /\ m2.mem[m.sp - 1] = Val(t, m, Arg(i, k)) /\ \A w \in Words : w # m.sp - 1 => m2.mem[w] = m.mem[w]
  BY CallingPush
<1> QED
  BY <1>2, <1>3, OneCode DEF Pushes

Stacked(t, i, s, m) == \A k \in 1..s : m.mem[m.sp + k - 1] = Meant(i.args[Len(i.args) - s + k])

LEMMA CallingPushes ==
  ASSUME NEW t \in Targets, NEW i, IsInstruction(t, i), i.op = "call", Len(i.args) \in Nat, NEW s \in 0..Len(i.args),
         NEW p, NEW h, Rounds(h, s, p), \A k \in 1..s : Pushes(t, i, Len(i.args) + 1 - k, p[k]),
         NEW c, NEW m, Calling(t, i, c, m), m.sp <= Sp0(t), m.sp - s \in Words,
         \A k \in 1..s : Readable(t, i, Len(i.args) + 1 - k, m)
                           /\ (k > 1 => FrameBased(t) \/ ~IsMem(i.args[Len(i.args) + 1 - k]))
  PROVE  \E m2 : Calling(t, i, Then(c, h[s]), m2) /\ m2.sp = m.sp - s /\ Stacked(t, i, s, m2)
<1> DEFINE l == Len(i.args)
           b == m.sp
           Ok(j, m2) == /\ Calling(t, i, Then(c, h[j]), m2) /\ m2.sp = b - j
                        /\ \A q \in 1..j : m2.mem[b - q] = Meant(i.args[l + 1 - q])
           S == {j \in 0..s : \E m2 : Ok(j, m2)}
<1>1. IsSeq(c) /\ b \in Words /\ b \in Int /\ l \in Nat /\ s \in Nat /\ b <= Sp0(t) /\ Sp0(t) \in Int
  <2>1. b \in Words /\ IsSeq(c)
    BY CallingSeq
  <2>2. b \in Int
    BY <2>1, BoundsAssumption DEF Words
  <2>3. Sp0(t) \in Int
    BY BoundsAssumption DEF Sp0
  <2> QED
    BY <2>1, <2>2, <2>3
<1>2. \A k \in 0..s : b - k \in Words /\ b - k \in Int
  BY <1>1, BoundsAssumption DEF Words
<1>0. \A k \in 1..s : Readable(t, i, l + 1 - k, m) /\ (k > 1 => FrameBased(t) \/ ~IsMem(i.args[l + 1 - k]))
                      /\ Pushes(t, i, l + 1 - k, p[k])
  OBVIOUS
<1> HIDE DEF l
<1>3. \A k \in 1..s : IsSeq(p[k])
  BY DEF Pushes
<1>4. \A k \in 0..s : IsSeq(h[k])
  BY <1>3, RoundsSeq
<1>5. 0 \in S
  <2>1. h[0] = <<>> /\ Then(c, h[0]) = c
    BY <1>1, Thens DEF Rounds
  <2>2. Ok(0, m)
    <3>1. m.sp = b - 0
      BY <1>1
    <3> QED
      BY <2>1, <3>1
  <2> HIDE DEF Ok
  <2> QED
    BY <2>2
<1>6. ASSUME NEW j \in 0..s-1, j \in S PROVE j+1 \in S
  <2>1. PICK m2 : Ok(j, m2)
    BY <1>6
  <2>2. j+1 \in 1..s /\ (j+1)-1 = j /\ j \in 0..s /\ l + 1 - (j+1) = l - j /\ j \in Nat /\ j+1 \in 0..s
    <3>1. s \in Int /\ l \in Int
      BY <1>1
    <3>2. j \in Int /\ j >= 0 /\ j <= s-1
      OBVIOUS
    <3> QED
      BY ONLY <3>1, <3>2
  <2>3. h[j+1] = Then(h[j], p[j+1])
    BY <2>2 DEF Rounds
  <2>4. Then(c, h[j+1]) = Then(Then(c, h[j]), p[j+1])
    BY <1>1, <1>3, <1>4, <2>2, <2>3, Thens
  <2>5. Pushes(t, i, l - j, p[j+1])
    BY <1>0, <2>2
  <2>6. Readable(t, i, l - j, m2)
    <3>1. Readable(t, i, l - j, m) /\ (j+1 > 1 => FrameBased(t) \/ ~IsMem(i.args[l - j]))
      BY <1>0, <2>2
    <3>2. CASE j = 0
      <4>1. m2.sp = m.sp
        BY <1>1, <2>1, <3>2
      <4> QED
        BY <3>1, <4>1 DEF Readable
    <3>3. CASE j # 0
      BY <3>1, <3>3 DEF Readable
    <3> QED
      BY <3>2, <3>3
  <2>7. m2.sp - 1 = b - (j+1) /\ m2.sp - 1 \in Words /\ m2.sp <= Sp0(t) /\ b \in Int
    <3>1. Sp0(t) \in Int /\ b <= Sp0(t) /\ b \in Int /\ m2.sp = b - j
      BY <1>1, <2>1
    <3> QED
      BY <1>2, <2>2, <3>1
  <2>8. Calling(t, i, Then(c, h[j]), m2)
    BY <2>1
  <2>9. PICK m3 : /\ Calling(t, i, Then(Then(c, h[j]), p[j+1]), m3) /\ m3.sp = m2.sp - 1
                  /\ m3.mem[m2.sp - 1] = Meant(i.args[l - j])
                  /\ \A w \in Words : w # m2.sp - 1 => m3.mem[w] = m2.mem[w]
    <3> DEFINE y == p[j+1]
               c1 == Then(c, h[j])
               k == l - j
    <3> HIDE DEF y, c1, k, b
    <3>1. Pushes(t, i, k, y) /\ Readable(t, i, k, m2) /\ Calling(t, i, c1, m2) /\ m2.sp - 1 \in Words /\ m2.sp <= Sp0(t)
      BY <2>5, <2>6, <2>7, <2>8 DEF y, c1, k
    <3>2. \E m3 : /\ Calling(t, i, Then(c1, y), m3) /\ m3.sp = m2.sp - 1
                  /\ m3.mem[m2.sp - 1] = Meant(i.args[k])
                  /\ \A w \in Words : w # m2.sp - 1 => m3.mem[w] = m2.mem[w]
      BY <3>1 DEF Pushes
    <3> QED
      BY <3>2 DEF y, c1, k
  <2>10. ASSUME NEW q \in 1..(j+1) PROVE m3.mem[b - q] = Meant(i.args[l + 1 - q])
    <3>1. CASE q = j+1
      BY <2>2, <2>7, <2>9, <3>1
    <3>2. CASE q # j+1
      <4>1. q \in 1..j /\ q \in 0..s /\ b - q # b - (j+1)
        BY <2>7, <3>2
      <4>2. m3.mem[b - q] = m2.mem[b - q]
        BY <1>2, <2>7, <2>9, <4>1
      <4> QED
        BY <2>1, <4>1, <4>2
    <3> QED
      BY <3>1, <3>2
  <2>11. Ok(j+1, m3)
    BY <2>4, <2>7, <2>9, <2>10
  <2> HIDE DEF Ok
  <2> QED
    BY <2>2, <2>11
<1>7. s \in 0..s /\ 0..s \subseteq S
  <2> HIDE DEF S
  <2>1. s \in Nat /\ s \in 0..s
    BY <1>1
  <2> QED
    BY <1>5, <1>6, <2>1, Induction
<1>8. PICK m2 : Ok(s, m2)
  BY <1>7
<1>9. Stacked(t, i, s, m2)
  <2> SUFFICES ASSUME NEW k \in 1..s PROVE m2.mem[m2.sp + k - 1] = Meant(i.args[l - s + k])
    BY DEF Stacked, l
  <2>1. b \in Int /\ k \in Int
    BY <1>1
  <2>2. s+1-k \in 1..s /\ m2.sp + k - 1 = b - (s+1-k) /\ l + 1 - (s+1-k) = l - s + k
    <3>1. s \in Int /\ l \in Int /\ m2.sp = b - s
      BY <1>1, <1>8
    <3>2. k >= 1 /\ k <= s
      OBVIOUS
    <3> HIDE DEF b
    <3> QED
      BY ONLY <2>1, <3>1, <3>2
  <2>3. m2.mem[b - (s+1-k)] = Meant(i.args[l + 1 - (s+1-k)])
    BY <1>8, <2>2
  <2> QED
    BY <2>2, <2>3
<1> QED
  BY <1>8, <1>9

(* The callee is called: sp and memory stay, the result is returned.       *)
Returned(t, i, c, m) ==
  /\ Runs(t, c, Entry(t, i), m) /\ Intact(t, i, m) /\ m.calls = 1
  /\ SawOne(m, Told("call", MeantArgs(i))) /\ m.regs[Result[t]] = <<"returned">>

OnStackAt(m, s) == [k \in 1..s |-> m.mem[m.sp + k - 1]]

LEMMA CallStep ==
  ASSUME NEW t \in Targets, NEW i, i.op = "call", NEW c, NEW m, Calling(t, i, c, m), NEW f, NEW s,
         Told("call", Vals(t, m, f)) \o OnStackAt(m, s) = Told("call", MeantArgs(i)), IsSeq(Told("call", MeantArgs(i)))
  PROVE  \E m2 : Returned(t, i, Then(c, <<Invoke(f, s)>>), m2) /\ m2.sp = m.sp /\ m2.mem = m.mem
<1> DEFINE x == Told("call", MeantArgs(i))
           g == [r \in DOMAIN m.regs |-> CASE r = Result[t] -> <<"returned">>
                                           [] r \in Kept[t] -> m.regs[r]
                                           [] OTHER         -> <<"lost", r>>]
           e == <<x>>
           m2 == [regs |-> g, mem |-> m.mem, sp |-> m.sp, seen |-> e, calls |-> 1]
<1>1. /\ m = [regs |-> m.regs, mem |-> m.mem, sp |-> m.sp, seen |-> m.seen, calls |-> m.calls]
      /\ m.seen = <<>> /\ m.calls = 0 /\ Sane(t, m) /\ Intact(t, i, m)
      /\ m.regs = [r \in Pool(t) \cup Scratch |-> m.regs[r]]
  BY DEF Calling, Unseen, Intact, Sane
<1>2. Append(m.seen, x) = e
  BY <1>1, FirstSeen
<1>3. Step(t, Invoke(f, s), m) = m2
  <2>1. x = (<<"call">> \o Vals(t, m, f)) \o [k \in 1..s |-> m.mem[m.sp + k - 1]]
    BY DEF Told, OnStackAt
  <2> HIDE DEF x
  <2>2. Step(t, Invoke(f, s), m) = [m EXCEPT !.seen = Append(m.seen, x), !.regs = g, !.calls = m.calls + 1]
    BY <2>1 DEF Step, Invoke
  <2> HIDE DEF g, e
  <2>3. m.calls + 1 = 1
    BY <1>1
  <2> QED
    BY <1>1, <1>2, <2>2, <2>3
<1>4. IsSeq(e)
  BY OneCode
<1>6. Result[t] \in Scratch /\ Result[t] \notin Pool(t)
  <2>1. CASE t = "x86_64"
    BY <2>1 DEF Result, Scratch, Pool, Lost, Kept
  <2>2. CASE t = "x86"
    BY <2>2 DEF Result, Scratch, Pool, Lost, Kept
  <2>3. CASE t = "arm64"
    BY <2>3 DEF Result, Scratch, Pool, Lost, Kept
  <2>4. CASE t = "riscv"
    BY <2>4 DEF Result, Scratch, Pool, Lost, Kept
  <2>5. CASE t = "arm"
    BY <2>5 DEF Result, Scratch, Pool, Lost, Kept
  <2> QED
    BY <2>1, <2>2, <2>3, <2>4, <2>5 DEF Targets
<1>5. /\ g = [r \in Pool(t) \cup Scratch |-> g[r]]
      /\ \A r \in Pool(t) \cup Scratch : /\ r = Result[t] => g[r] = <<"returned">>
                                         /\ r # Result[t] /\ r \in Kept[t] => g[r] = m.regs[r]
  <2> DEFINE D == Pool(t) \cup Scratch
             v(r) == CASE r = Result[t] -> <<"returned">>
                       [] r \in Kept[t] -> m.regs[r]
                       [] OTHER         -> <<"lost", r>>
  <2>1. DOMAIN m.regs = D
    BY <1>1
  <2>2. g = [r \in D |-> v(r)]
    BY <2>1
  <2>3. Result[t] \notin Kept[t]
    BY <1>6 DEF Pool
  <2>4. \A r : /\ r = Result[t] => v(r) = <<"returned">>
               /\ r # Result[t] /\ r \in Kept[t] => v(r) = m.regs[r]
    BY <2>3
  <2> HIDE DEF g, v, D
  <2>5. g = [r \in D |-> g[r]] /\ \A r \in D : g[r] = v(r)
    BY <2>2
  <2> QED
    BY <2>4, <2>5 DEF D
<1>7. \A r \in Pool(t) \ Lost[t] : r \in Kept[t]
  BY DEF Pool
<1> HIDE DEF g, e, x
<1>8. Sane(t, m2)
  BY <1>1, <1>4, <1>5 DEF Sane
<1>9. Intact(t, i, m2)
  <2>1. \A r \in Pool(t) \ Spoiled(t, i) : R(r) # Dst(i) => g[r] = AtEntry(i, r)
    <3> TAKE r \in Pool(t) \ Spoiled(t, i)
    <3>1. r \in Kept[t] /\ r # Result[t] /\ r \in Pool(t) \cup Scratch
      BY <1>6, <1>7 DEF Spoiled
    <3>2. g[r] = m.regs[r]
      BY <1>5, <3>1
    <3> QED
      BY <1>1, <3>2 DEF Intact
  <2> QED
    BY <1>1, <1>8, <2>1 DEF Intact
<1>10. Runs(t, Then(c, <<Invoke(f, s)>>), Entry(t, i), m2)
  <2>1. Runs(t, <<Invoke(f, s)>>, m, m2)
    <3> HIDE DEF m2
    <3> QED
      BY <1>3, <1>8, RunsOne
  <2> HIDE DEF m2
  <2> QED
    BY <2>1, RunsThen DEF Then, Calling
<1>11. m2.calls = 1 /\ m2.seen = <<x>> /\ m2.regs[Result[t]] = <<"returned">> /\ m2.sp = m.sp /\ m2.mem = m.mem
  BY <1>5, <1>6 DEF e
<1> HIDE DEF m2
<1> QED
  BY <1>9, <1>10, <1>11 DEF Returned, SawOne, x

LEMMA ThenIs ==
  ASSUME NEW s, NEW u, IsSeq(s), IsSeq(u)
  PROVE  /\ IsSeq(Then(s, u)) /\ Len(s) \in Nat /\ Len(u) \in Nat /\ Len(Then(s, u)) = Len(s) + Len(u)
         /\ \A i \in 1..Len(s) : Then(s, u)[i] = s[i]
         /\ \A i \in 1..Len(u) : Then(s, u)[Len(s) + i] = u[i]
<1>1. /\ IsSeq(s \o u) /\ Len(s) \in Nat /\ Len(u) \in Nat /\ Len(s \o u) = Len(s) + Len(u)
      /\ \A i \in 1..Len(s) : (s \o u)[i] = s[i]
      /\ \A i \in 1..Len(u) : (s \o u)[Len(s) + i] = u[i]
  BY ConcatIs
<1> QED
  BY <1>1 DEF Then

LEMMA JoinIs ==
  ASSUME NEW u, NEW v, NEW z, NEW r \in Nat, NEW s \in Nat, IsSeq(u), IsSeq(v), IsSeq(z),
         Len(u) = r, Len(v) = s, Len(z) = r + s,
         \A a \in 1..r : u[a] = z[a], \A k \in 1..s : v[k] = z[r + k]
  PROVE  Then(u, v) = z
<1>1. /\ IsSeq(Then(u, v)) /\ Len(Then(u, v)) = r + s
      /\ \A a \in 1..r : Then(u, v)[a] = u[a]
      /\ \A k \in 1..s : Then(u, v)[r + k] = v[k]
  <2>1. IsSeq(Then(u, v))
    BY ThenIs
  <2>2. Len(Then(u, v)) = Len(u) + Len(v)
    BY ThenIs
  <2>3. \A a \in 1..Len(u) : Then(u, v)[a] = u[a]
    BY ThenIs
  <2>4. \A k \in 1..Len(v) : Then(u, v)[Len(u) + k] = v[k]
    BY ONLY IsSeq(u), IsSeq(v), ThenIs
  <2> QED
    BY <2>1, <2>2, <2>3, <2>4
<1>2. \A k \in 1..(r + s) : Then(u, v)[k] = z[k]
  <2> TAKE k \in 1..(r + s)
  <2>1. CASE k <= r
    BY <1>1, <2>1
  <2>2. CASE ~(k <= r)
    <3>1. k - r \in 1..s /\ r + (k - r) = k
      BY <2>2
    <3> QED
      BY <1>1, <3>1
  <2> QED
    BY <2>1, <2>2
<1> QED
  BY <1>1, <1>2, IsSame

LEMMA TableSeq ==
  ASSUME NEW n \in Nat, NEW g, g = [k \in 1..n |-> g[k]]
  PROVE  IsSeq(g) /\ Len(g) = n
<1> DEFINE E == {g[k] : k \in 1..n}
<1>1. g \in [1..n -> E]
  OBVIOUS
<1> HIDE DEF E
<1>2. g \in Seq(E) /\ Len(g) = n
  BY <1>1
<1> QED
  BY <1>2, SeqIs

(* Registers f hold the arguments that are not among the last s.           *)
InRegisters(t, i, s, m, f) ==
  /\ IsSeq(f) /\ Len(f) = Len(i.args) - s
  /\ \A a \in 1..(Len(i.args) - s) : Val(t, m, f[a]) = Meant(i.args[a])

LEMMA CallSees ==
  ASSUME NEW t, NEW i, NEW m, Len(i.args) \in Nat, DOMAIN i.args = 1..Len(i.args), NEW s \in 0..Len(i.args),
         NEW f, InRegisters(t, i, s, m, f), Stacked(t, i, s, m)
  PROVE  Told("call", Vals(t, m, f)) \o OnStackAt(m, s) = Told("call", MeantArgs(i)) /\ IsSeq(Told("call", MeantArgs(i)))
<1> DEFINE n == Len(i.args)
           r == n - s
           u == [a \in 1..r |-> Meant(i.args[a])]
           v == [k \in 1..s |-> Meant(i.args[r + k])]
           z == MeantArgs(i)
           c == <<"call">>
<1>1. n \in Nat /\ s \in Nat /\ r \in Nat /\ r + s = n
  OBVIOUS
<1>2. Vals(t, m, f) = u
  <2>1. DOMAIN f = 1..r
    BY SeqIs DEF InRegisters, IsSeq
  <2> QED
    BY <2>1 DEF InRegisters, Vals
<1>3. OnStackAt(m, s) = v
  BY DEF OnStackAt, Stacked
<1>4. z = [k \in 1..n |-> Meant(i.args[k])]
  BY DEF MeantArgs
<1> HIDE DEF n, r
<1>5. IsSeq(u) /\ Len(u) = r
  <2>1. u = [a \in 1..r |-> u[a]]
    OBVIOUS
  <2> HIDE DEF u
  <2> QED
    BY <1>1, <2>1, TableSeq
<1>6. IsSeq(v) /\ Len(v) = s
  <2>1. v = [k \in 1..s |-> v[k]]
    OBVIOUS
  <2> HIDE DEF v
  <2> QED
    BY <1>1, <2>1, TableSeq
<1>7. IsSeq(z) /\ Len(z) = n
  <2>1. z = [k \in 1..n |-> z[k]]
    BY <1>4
  <2> HIDE DEF z
  <2> QED
    BY <1>1, <2>1, TableSeq
<1>8. IsSeq(c)
  BY OneCode
<1>9. \A a \in 1..r : u[a] = z[a]
  BY <1>1, <1>4
<1>10. \A k \in 1..s : v[k] = z[r + k]
  BY <1>1, <1>4
<1> HIDE DEF u, v, z, c
<1>11. Then(u, v) = z
  BY ONLY <1>1, <1>5, <1>6, <1>7, <1>9, <1>10, JoinIs
<1>12. (c \o u) \o v = c \o z
  <2>1. Then(Then(c, u), v) = Then(c, Then(u, v))
    BY <1>5, <1>6, <1>8, Thens
  <2> QED
    BY <1>11, <2>1 DEF Then
<1>13. IsSeq(c \o z)
  BY <1>7, <1>8, ConcatIs
<1> QED
  BY <1>2, <1>3, <1>12, <1>13 DEF Told, c, z

LEMMA ReturnedMove ==
  ASSUME NEW t, NEW i, NEW c, NEW m, Returned(t, i, c, m), NEW n, m.sp + n \in Words
  PROVE  \E m2 : Returned(t, i, Then(c, <<MoveSp(n)>>), m2) /\ m2.sp = m.sp + n
<1> DEFINE s == m.sp + n
           m2 == [m EXCEPT !.sp = s]
<1>1. m2 = Step(t, MoveSp(n), m)
  BY DEF Step, MoveSp
<1>2. Intact(t, i, m) /\ s \in Words
  BY DEF Returned
<1> HIDE DEF s
<1>3. /\ Intact(t, i, m2) /\ m2.sp = s /\ m2.mem = m.mem
      /\ m2.regs = m.regs /\ m2.seen = m.seen /\ m2.calls = m.calls
  BY <1>2, SpPut
<1> HIDE DEF m2
<1>4. Runs(t, <<MoveSp(n)>>, m, m2)
  BY <1>1, <1>3, RunsOne DEF Intact
<1>5. Runs(t, Then(c, <<MoveSp(n)>>), Entry(t, i), m2)
  BY <1>4, RunsThen DEF Then, Returned
<1>6. Returned(t, i, Then(c, <<MoveSp(n)>>), m2)
  BY <1>3, <1>5 DEF Returned, SawOne
<1> QED
  BY <1>3, <1>6 DEF s

LEMMA ReturnedGood ==
  ASSUME NEW t \in Targets, NEW i, IsInstruction(t, i), i.op = "call", NEW c, NEW m, Returned(t, i, c, m), m.sp = Sp0(t)
  PROVE  Compiled(t, i, Then(c, StoreFrom(i, Result[t])))
<1> DEFINE r == Result[t]
           x == <<"returned">>
<1>1. MeantEffects(t, i) = <<Told("call", MeantArgs(i))>> /\ (i.dst # None => MeantResult(i) = x)
  <2>1. Term("call", MeantArgs(i)) = Told("call", MeantArgs(i))
    BY DEF Term, Told
  <2>2. i.op = "call"
    OBVIOUS
  <2> QED
    BY <2>1, <2>2 DEF MeantEffects, MeantResult, Alus, Divisions, Shifts, Negations, Floats, FromInt, ToInt, FpToFp, Widths
<1>2. m.seen = MeantEffects(t, i) /\ m.calls = 1 /\ Intact(t, i, m) /\ Runs(t, c, Entry(t, i), m) /\ m.regs[r] = x
  BY <1>1 DEF Returned, SawOne
<1>3. r \in AllRegs(t)
  BY DEF Targets, Result, AllRegs, Scratch
<1> HIDE DEF r, x
<1>4. CASE i.dst = None
  <2>1. StoreFrom(i, r) = <<>> /\ IsSeq(c)
    BY <1>2, <1>4 DEF StoreFrom, Runs
  <2>2. Then(c, StoreFrom(i, r)) = c
    BY <2>1, Thens
  <2>3. Good(t, i, m)
    BY <1>2, <1>4, IntactIsGood
  <2> QED
    BY <1>2, <2>2, <2>3 DEF Compiled, r
<1>5. CASE i.dst # None
  <2>1. Delivers(t, i, StoreFrom(i, r), m, m.regs[r])
    BY <1>2, <1>3, <1>5, Moves
  <2>2. PICK m2 : /\ Runs(t, StoreFrom(i, r), m, m2) /\ Intact(t, i, m2) /\ Val(t, m2, Dst(i)) = x
                  /\ m2.sp = m.sp /\ m2.seen = m.seen /\ m2.calls = m.calls
    BY <1>2, <2>1 DEF Delivers
  <2>3. Good(t, i, m2)
    BY <1>1, <1>2, <1>5, <2>2, IntactIsGood
  <2>4. Runs(t, Then(c, StoreFrom(i, r)), Entry(t, i), m2)
    BY <1>2, <2>2, RunsThen DEF Then
  <2> QED
    BY <2>3, <2>4 DEF Compiled, r
<1> QED
  BY <1>4, <1>5

(* The arguments are in place: the call, the way back of sp, the result.   *)
Back(s, k) == IF s > 0 THEN <<MoveSp(k)>> ELSE <<>>

LEMMA CallHappens ==
  ASSUME NEW t \in Targets, NEW i, IsInstruction(t, i), i.op = "call", NEW c, NEW m, Calling(t, i, c, m),
         Len(i.args) \in Nat, DOMAIN i.args = 1..Len(i.args), NEW s \in 0..Len(i.args),
         NEW f, InRegisters(t, i, s, m, f), Stacked(t, i, s, m)
  PROVE  \E m2 : Returned(t, i, Then(c, <<Invoke(f, s)>>), m2) /\ m2.sp = m.sp
<1>1. Told("call", Vals(t, m, f)) \o OnStackAt(m, s) = Told("call", MeantArgs(i)) /\ IsSeq(Told("call", MeantArgs(i)))
  BY CallSees
<1>2. \E m2 : Returned(t, i, Then(c, <<Invoke(f, s)>>), m2) /\ m2.sp = m.sp /\ m2.mem = m.mem
  BY <1>1, CallStep
<1> QED
  BY <1>2

LEMMA CallFinish ==
  ASSUME NEW t \in Targets, NEW i, IsInstruction(t, i), i.op = "call", NEW c, NEW m, Calling(t, i, c, m),
         Len(i.args) \in Nat, DOMAIN i.args = 1..Len(i.args), NEW s \in 0..Len(i.args),
         NEW f, InRegisters(t, i, s, m, f), Stacked(t, i, s, m),
         NEW k, m.sp + k = Sp0(t), s = 0 => m.sp = Sp0(t)
  PROVE  Compiled(t, i, Then(Then(Then(c, <<Invoke(f, s)>>), Back(s, k)), StoreFrom(i, Result[t])))
<1>1. \E m2 : Returned(t, i, Then(c, <<Invoke(f, s)>>), m2) /\ m2.sp = m.sp
  BY CallHappens
<1> DEFINE d == <<Invoke(f, s)>>
<1>2. PICK m2 : Returned(t, i, Then(c, d), m2) /\ m2.sp = m.sp
  BY <1>1
<1> HIDE DEF d
<1>3. CASE s = 0
  <2>1. Back(s, k) = <<>> /\ IsSeq(Then(c, d))
    BY <1>2, <1>3 DEF Back, Returned, Runs
  <2>2. Then(Then(c, d), Back(s, k)) = Then(c, d)
    BY <2>1, Thens
  <2>3. Compiled(t, i, Then(Then(c, d), StoreFrom(i, Result[t])))
    BY <1>2, <1>3, ReturnedGood
  <2> QED
    BY <2>2, <2>3 DEF d
<1>4. CASE s # 0
  <2>0. m2.sp + k \in Words
    <3>1. Entry(t, i).sp = Sp0(t) /\ Entry(t, i).sp \in Words
      BY EntryIs DEF Intact, Sane
    <3> QED
      BY <1>2, <3>1
  <2>1. Back(s, k) = <<MoveSp(k)>>
    BY <1>4 DEF Back
  <2>2. PICK m3 : Returned(t, i, Then(Then(c, d), <<MoveSp(k)>>), m3) /\ m3.sp = m2.sp + k
    BY <1>2, <2>0, ReturnedMove
  <2>3. Compiled(t, i, Then(Then(Then(c, d), <<MoveSp(k)>>), StoreFrom(i, Result[t])))
    BY <1>2, <2>2, ReturnedGood
  <2> QED
    BY <2>1, <2>3 DEF d
<1> QED
  BY <1>3, <1>4

LEMMA ArgCounts ==
  ASSUME NEW t \in Targets, NEW i, IsInstruction(t, i), i.op = "call", NEW s, s = OnStack(t, i)
  PROVE  /\ Len(i.args) \in Nat /\ DOMAIN i.args = 1..Len(i.args) /\ s \in 0..Len(i.args) /\ s \in Nat
         /\ ArgRegs[t] \in Nat /\ Len(i.args) - s <= ArgRegs[t] /\ (s > 0 => Len(i.args) - s = ArgRegs[t])
         /\ s = (IF Len(i.args) > ArgRegs[t] THEN Len(i.args) - ArgRegs[t] ELSE 0)
         /\ Sp0(t) \in Int /\ Sp0(t) \in Words /\ \A k \in 0..Taken(t, i) : Sp0(t) - k \in Words
<1>1. Len(i.args) \in Nat /\ DOMAIN i.args = 1..Len(i.args)
  BY DEF IsInstruction
<1>2. ArgRegs[t] \in Nat
  BY DEF ArgRegs, Targets
<1>3. s = (IF Len(i.args) > ArgRegs[t] THEN Len(i.args) - ArgRegs[t] ELSE 0)
  BY DEF OnStack
<1>4. Taken(t, i) <= Depth /\ NSlots \in Nat /\ Depth \in Nat
  BY BoundsAssumption DEF IsInstruction
<1>5. s \in 0..Len(i.args) /\ s \in Nat /\ Len(i.args) - s <= ArgRegs[t] /\ (s > 0 => Len(i.args) - s = ArgRegs[t])
  BY <1>1, <1>2, <1>3
<1>6. Taken(t, i) \in Int
  <2>1. Taken(t, i) = s \/ Taken(t, i) = 2 * s \/ Taken(t, i) = s + (s % 2)
    BY DEF Taken
  <2> QED
    BY <1>5, <2>1
<1>7. Sp0(t) \in {-NSlots, 0}
  BY DEF Sp0
<1>8. \A k \in 0..Depth : Sp0(t) - k \in Words
  BY <1>4, <1>7 DEF Words
<1>9. Sp0(t) \in Int /\ Sp0(t) \in Words
  BY <1>4, <1>7 DEF Words
<1> QED
  BY <1>1, <1>2, <1>3, <1>4, <1>5, <1>6, <1>8, <1>9

(* From the arguments on the stack to the result.                          *)
LEMMA CallTail ==
  ASSUME NEW t \in Targets, NEW i, IsInstruction(t, i), i.op = "call", NEW s, s = OnStack(t, i),
         NEW areg, Len(areg) = ArgRegs[t], Spread(t, i, areg),
         NEW c, NEW m, Calling(t, i, c, m), Stacked(t, i, s, m),
         \A a \in 1..Len(areg) : a \in DOMAIN i.args => Readable(t, i, a, m),
         NEW k, m.sp + k = Sp0(t), s = 0 => m.sp = Sp0(t)
  PROVE  Compiled(t, i, Then(Then(Then(Then(c, LoadArgs(i, areg)), <<Invoke(InRegs(i, areg), s)>>), Back(s, k)),
                             StoreFrom(i, Result[t])))
<1> DEFINE n == Len(i.args)
           f == InRegs(i, areg)
           L == Len(areg)
<1>1. /\ n \in Nat /\ DOMAIN i.args = 1..n /\ s \in 0..n /\ s \in Nat /\ L \in Nat /\ n - s <= L
      /\ s = (IF n > L THEN n - L ELSE 0)
  BY ArgCounts
<1>2. PICK m2 : /\ Calling(t, i, Then(c, LoadArgs(i, areg)), m2) /\ Loaded(i, areg, L, m2)
                /\ m2.sp = m.sp /\ m2.mem = m.mem
  BY <1>1, CallingArgs
<1>3. Stacked(t, i, s, m2)
  BY <1>2 DEF Stacked
<1>4. StackArgs(i, areg) = s /\ n - s \in Nat
  BY <1>1 DEF StackArgs
<1>5. f = [a \in 1..(n - s) |-> R(areg[a])]
  BY <1>4 DEF InRegs
<1>6. IsSeq(f) /\ Len(f) = n - s
  <2> DEFINE g == f
  <2>1. g = [a \in 1..(n - s) |-> g[a]]
    BY <1>5
  <2> HIDE DEF g
  <2>2. IsSeq(g) /\ Len(g) = n - s
    BY <1>4, <2>1, TableSeq
  <2> QED
    BY <2>2 DEF g
<1>7. ASSUME NEW a \in 1..(n - s) PROVE Val(t, m2, f[a]) = Meant(i.args[a])
  <2>1. a \in 1..L /\ a \in DOMAIN i.args
    BY <1>1
  <2>2. m2.regs[areg[a]] = Meant(i.args[a])
    BY <1>2, <2>1 DEF Loaded
  <2>3. f[a] = R(areg[a])
    BY <1>5
  <2> QED
    BY <2>2, <2>3 DEF Val, R
<1> DEFINE e == Then(c, LoadArgs(i, areg))
<1> HIDE DEF f, e
<1>8. Compiled(t, i, Then(Then(Then(e, <<Invoke(f, s)>>), Back(s, k)), StoreFrom(i, Result[t])))
  <2>1. Calling(t, i, e, m2)
    BY <1>2 DEF e
  <2>2. InRegisters(t, i, s, m2, f)
    BY <1>6, <1>7 DEF InRegisters, n
  <2>3. m2.sp + k = Sp0(t) /\ (s = 0 => m2.sp = Sp0(t))
    BY <1>2
  <2> QED
    BY <1>1, <1>3, <2>1, <2>2, <2>3, CallFinish
<1> QED
  BY <1>8 DEF e, f

LEMMA CallingStart ==
  ASSUME NEW t \in Targets, NEW i, NEW n, Sp0(t) + n \in Words
  PROVE  \E m : Calling(t, i, <<MoveSp(n)>>, m) /\ m.sp = Sp0(t) + n
<1> DEFINE e == Entry(t, i)
<1>1. Calling(t, i, <<>>, e) /\ e.sp = Sp0(t)
  BY CallingNone, EntryIs
<1> HIDE DEF e
<1>2. PICK m : Calling(t, i, Then(<<>>, <<MoveSp(n)>>), m) /\ m.sp = e.sp + n
  BY <1>1, CallingMove
<1>3. Then(<<>>, <<MoveSp(n)>>) = <<MoveSp(n)>>
  BY OneCode, Thens
<1> QED
  BY <1>1, <1>2, <1>3

(* A word of padding makes the number of words pushed even.                *)
Pad(s) == IF s % 2 = 1 THEN <<MoveSp(-1)>> ELSE <<>>

LEMMA CallingPad ==
  ASSUME NEW t \in Targets, NEW i, IsInstruction(t, i), i.op = "call", NEW s, s = OnStack(t, i), Taken(t, i) = s + (s % 2)
  PROVE  \E m : Calling(t, i, Pad(s), m) /\ m.sp = Sp0(t) - (s % 2)
<1>1. s \in Nat /\ Sp0(t) \in Int /\ \A k \in 0..Taken(t, i) : Sp0(t) - k \in Words
  BY ArgCounts
<1>2. CASE s % 2 = 1
  <2>1. Sp0(t) + (-1) = Sp0(t) - 1 /\ 1 \in 0..Taken(t, i)
    BY <1>1, <1>2
  <2>2. Sp0(t) + (-1) \in Words /\ Pad(s) = <<MoveSp(-1)>>
    BY <1>1, <1>2, <2>1 DEF Pad
  <2>3. PICK m : Calling(t, i, <<MoveSp(-1)>>, m) /\ m.sp = Sp0(t) + (-1)
    BY <2>2, CallingStart
  <2>4. m.sp = Sp0(t) - (s % 2)
    BY <1>2, <2>1, <2>3
  <2>5. Calling(t, i, Pad(s), m)
    BY <2>2, <2>3
  <2> QED
    BY <2>4, <2>5
<1>3. CASE s % 2 # 1
  <2>1. s % 2 = 0 /\ Pad(s) = <<>>
    BY <1>1, <1>3 DEF Pad
  <2>2. Calling(t, i, <<>>, Entry(t, i)) /\ Entry(t, i).sp = Sp0(t)
    BY CallingNone, EntryIs
  <2>3. Calling(t, i, Pad(s), Entry(t, i))
    BY <2>1, <2>2
  <2>4. Entry(t, i).sp = Sp0(t) - (s % 2)
    BY <1>1, <2>1, <2>2
  <2> QED
    BY <2>3, <2>4
<1> QED
  BY <1>2, <1>3

(* Calls that push what the registers do not take.                         *)
LEMMA PaddedCall ==
  ASSUME NEW t \in Targets, NEW i, IsInstruction(t, i), i.op = "call", NEW s, s = OnStack(t, i), Taken(t, i) = s + (s % 2),
         NEW areg, Len(areg) = ArgRegs[t], Spread(t, i, areg), NEW h, NEW p, Rounds(h, s, p),
         \A k \in 1..s : Pushes(t, i, Len(i.args) + 1 - k, p[k]),
         FrameBased(t) \/ s = 0 \/ \A a \in DOMAIN i.args : IsMem(i.args[a]) => a = Len(i.args) /\ s % 2 = 0
  PROVE  Compiled(t, i, Then(Then(Then(Then(Then(Pad(s), h[s]), LoadArgs(i, areg)), <<Invoke(InRegs(i, areg), s)>>),
                                  Back(s, s + (s % 2))), StoreFrom(i, Result[t])))
<1> DEFINE l == Len(i.args)
           z == s % 2
           w == s + z
<1>1. /\ l \in Nat /\ DOMAIN i.args = 1..l /\ s \in 0..l /\ s \in Nat /\ l - s <= ArgRegs[t]
      /\ (s > 0 => l - s = ArgRegs[t]) /\ ArgRegs[t] \in Nat
      /\ Sp0(t) \in Int /\ \A k \in 0..Taken(t, i) : Sp0(t) - k \in Words
  BY ArgCounts
<1>2. z \in {0, 1} /\ (s = 0 => z = 0)
  <2>1. \A u \in Nat : u % 2 \in {0, 1} /\ (u = 0 => u % 2 = 0)
    OBVIOUS
  <2> QED
    BY <1>1, <2>1
<1>3. PICK m1 : Calling(t, i, Pad(s), m1) /\ m1.sp = Sp0(t) - z
  BY CallingPad
<1>4. FrameBased(t) \/ s = 0 \/ \A a \in DOMAIN i.args : IsMem(i.args[a]) => a = l /\ z = 0
  OBVIOUS
<1>5. Taken(t, i) = s + z
  OBVIOUS
<1> HIDE DEF l, z
<1>6. m1.sp <= Sp0(t) /\ m1.sp - s \in Words
  <2>1. s + z \in 0..(s + z) /\ m1.sp - s = Sp0(t) - (s + z) /\ m1.sp <= Sp0(t)
    <3>1. s \in Int /\ s >= 0 /\ z \in Int /\ z >= 0 /\ Sp0(t) \in Int /\ m1.sp = Sp0(t) - z
      BY <1>1, <1>2, <1>3
    <3> QED
      BY ONLY <3>1
  <2>2. Sp0(t) - (s + z) \in Words
    BY <1>1, <1>5, <2>1
  <2> QED
    BY <2>1, <2>2
<1>7. ASSUME NEW k \in 1..s
      PROVE  Readable(t, i, l + 1 - k, m1) /\ (k > 1 => FrameBased(t) \/ ~IsMem(i.args[l + 1 - k]))
  <2>1. k \in Int /\ 1 <= k /\ k <= s /\ l + 1 - k \in 1..l /\ s # 0
    BY <1>1
  <2>2. CASE FrameBased(t)
    BY <2>2 DEF Readable
  <2>3. CASE ~FrameBased(t) /\ IsMem(i.args[l + 1 - k])
    <3>1. l + 1 - k = l /\ z = 0
      BY <1>1, <1>4, <2>1, <2>3
    <3>2. k = 1 /\ m1.sp = Sp0(t)
      BY <1>1, <1>3, <2>1, <3>1
    <3> QED
      BY <3>2 DEF Readable
  <2> QED
    BY <2>2, <2>3 DEF Readable
<1>8. PICK m2 : Calling(t, i, Then(Pad(s), h[s]), m2) /\ m2.sp = m1.sp - s /\ Stacked(t, i, s, m2)
  BY <1>1, <1>3, <1>6, <1>7, CallingPushes DEF l
<1>9. m2.sp + w = Sp0(t) /\ (s = 0 => m2.sp = Sp0(t))
  BY <1>1, <1>2, <1>3, <1>8
<1>10. ASSUME NEW a \in 1..Len(areg), a \in DOMAIN i.args PROVE Readable(t, i, a, m2)
  <2>1. CASE FrameBased(t)
    BY <2>1 DEF Readable
  <2>2. CASE s = 0
    BY <1>9, <2>2 DEF Readable
  <2>3. CASE ~FrameBased(t) /\ s # 0
    <3>1. a # l
      BY <1>1, <2>3
    <3> QED
      BY <1>4, <1>10, <2>3, <3>1 DEF Readable
  <2> QED
    BY <2>1, <2>2, <2>3
<1> DEFINE c == Then(Pad(s), h[s])
<1> HIDE DEF c, w
<1>11. Compiled(t, i, Then(Then(Then(Then(c, LoadArgs(i, areg)), <<Invoke(InRegs(i, areg), s)>>), Back(s, w)),
                           StoreFrom(i, Result[t])))
  <2>1. Calling(t, i, c, m2)
    BY <1>8 DEF c
  <2> QED
    BY <1>8, <1>9, <1>10, <2>1, CallTail
<1> QED
  BY <1>11 DEF c, w, z
===============================================================================
