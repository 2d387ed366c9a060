--------------------------------- MODULE Isel ---------------------------------
(***************************************************************************)
(* The machine runs the instructions src/targets/.../isel.c prints for one *)
(* instruction of the IR.  Registers and words of the stack hold terms     *)
(* over the values the vregs had before, so that a value read too late, in *)
(* the wrong place or after something else was written there shows.        *)
(*                                                                         *)
(* Slots lie at fixed words below the frame pointer on x86_64 and x86, and *)
(* above sp, wherever it stands, on arm64, riscv and arm.                  *)
(***************************************************************************)
EXTENDS Asm, FiniteSets

CONSTANTS
  Cases,     \* what may be compiled: <<target, instruction>>
  NSlots,    \* bound: slots of the frame
  Depth      \* bound: words below sp

ASSUME BoundsAssumption == NSlots \in Nat /\ Depth \in Nat

X64 == INSTANCE X86_64
I86 == INSTANCE X86
A64 == INSTANCE Arm64
RV  == INSTANCE Riscv
A32 == INSTANCE Arm

Targets == {"x86_64", "x86", "arm64", "riscv", "arm"}
CodeFor(t, in) == CASE t = "x86_64" -> X64!Code(in)
                    [] t = "x86"    -> I86!Code(in)
                    [] t = "arm64"  -> A64!Code(in)
                    [] t = "riscv"  -> RV!Code(in)
                    [] t = "arm"    -> A32!Code(in)

(* The pools, of which a call keeps the second part. *)
Lost == [x86_64 |-> {"rsi", "rdi", "r8", "r9"}, x86 |-> {}, arm64 |-> {"x12", "x13", "x14"},
         riscv |-> {"t2", "t3", "t4", "t5"}, arm |-> {}]
Kept == [x86_64 |-> {"rbx", "r12", "r13", "r14", "r15"}, x86 |-> {"ebx", "esi", "edi"},
         arm64 |-> {"x19", "x20", "x21", "x22", "x23"},
         riscv |-> {"s1", "s2", "s3", "s4", "s5"},
         arm |-> {"r4", "r5", "r6", "r7", "r8", "r9", "r10", "r11"}]
Pool(t)   == Lost[t] \cup Kept[t]
Result    == [x86_64 |-> "rax", x86 |-> "eax", arm64 |-> "x0", riscv |-> "a0", arm |-> "r0"]
Scratch   == {"rax", "rcx", "rdx", "r10", "r11", "eax", "ecx", "edx",
              "x0", "x1", "x2", "x3", "x4", "x5", "x6", "x7", "x9", "x10", "x11", "x15", "shifter",
              "a0", "a1", "a2", "a3", "a4", "a5", "a6", "a7", "t0", "t1", "t6",
              "r0", "r1", "r2", "r3", "r12",
              "xmm0", "xmm1", "xmm2", "d0", "d1", "ft0", "ft1"}
Registers == UNION {Pool(t) : t \in Targets} \cup Scratch

FrameBased(t)  == t \in {"x86_64", "x86"}
Sp0(t)         == IF FrameBased(t) THEN -NSlots ELSE 0
SlotAt(t, s, v) == IF FrameBased(t) THEN -(v + 1) ELSE s + v
Words          == -(NSlots + Depth)..(NSlots + Depth)

(* What a selector is given: operands with the places the allocator may    *)
(* give them.  What floating point works on is in memory (forced spills),  *)
(* an operand or result of a call is in no register the call loses, and    *)
(* neither two operands nor an operand and the result share a place.       *)
Vregs(t) == [kind : {"vreg"}, n : 0..(NSlots - 1), reg : Pool(t) \cup {InMemory}]
Consts   == [kind : {"imm"}, n : Int, reg : {InMemory}]
FpConsts == [kind : {"fp"}, n : Nat, reg : {InMemory}]
Spilled(t)   == {o \in Vregs(t) : IsMem(o)}
Surviving(t) == {o \in Vregs(t) : o.reg \notin Lost[t]}

Effects == {"store", "memcpy", "ret", "cbr", "br", "va_end"}   \* without a result
Ops     == Alus \cup Divisions \cup Shifts \cup Negations \cup Widths \cup Floats \cup FromInt \cup ToInt
             \cup FpToFp \cup Effects \cup {"icmp", "fcmp", "fneg", "alloca", "load", "gep", "gep_field",
                 "str", "phi", "call", "va_start", "va_arg"}
Arities(op) ==
  CASE op \in Alus \cup Divisions \cup Shifts \cup Floats
              \cup {"icmp", "fcmp", "gep", "store", "memcpy"}   -> {2}
    [] op \in {"alloca", "str", "va_start", "br"}               -> {0}
    [] op = "ret"                                               -> {0, 1}
    [] op = "call"                                              -> Nat
    [] OTHER                                                    -> {1}
Operands(t, op) ==
  CASE op \in Floats \cup ToInt \cup FpToFp \cup {"fneg", "fcmp"} -> Spilled(t) \cup FpConsts
    [] op \in FromInt                                           -> Spilled(t) \cup Consts
    [] op \in {"va_arg", "va_end"}                              -> Vregs(t)
    [] op = "call"                                              -> Surviving(t) \cup Consts
    [] OTHER                                                    -> Vregs(t) \cup Consts
Results(t, op) ==
  CASE op \in Effects -> {None}
    [] op \in Floats \cup FromInt \cup ToInt \cup FpToFp \cup {"fneg", "fcmp"} -> Spilled(t)
    [] op = "call"    -> Surviving(t) \cup {None}
    [] OTHER          -> Vregs(t)

SamePlace(o, p) == o.kind = "vreg" /\ p.kind = "vreg" /\ (o.n = p.n \/ (InReg(o) /\ o.reg = p.reg))

(* Words the arguments of a call take on the stack, with their padding. *)
ArgRegs == [x86_64 |-> 6, x86 |-> 0, arm64 |-> 8, riscv |-> 8, arm |-> 4]
OnStack(t, i)  == IF i.op = "call" /\ Len(i.args) > ArgRegs[t] THEN Len(i.args) - ArgRegs[t] ELSE 0
Taken(t, i)    == CASE t = "x86"   -> OnStack(t, i)
                    [] t = "arm64" -> 2 * OnStack(t, i)
                    [] OTHER       -> OnStack(t, i) + (OnStack(t, i) % 2)

IsInstruction(t, i) ==
  /\ i.op \in Ops /\ i.n \in Int
  /\ i.args \in Seq(Operands(t, i.op)) /\ Len(i.args) \in Arities(i.op)
  /\ i.dst \in Results(t, i.op)
  /\ \A k \in DOMAIN i.args : ~SamePlace(i.args[k], i.dst)
  /\ \A j, k \in DOMAIN i.args : SamePlace(i.args[j], i.args[k]) => i.args[j] = i.args[k]
  /\ Taken(t, i) <= Depth

ASSUME CasesAssumption == \A c \in Cases : c[1] \in Targets /\ IsInstruction(c[1], c[2])

VARIABLES
  target, in,
  code,    \* what is left to run
  regs, mem, sp,
  seen,    \* what the world outside has seen of the function
  calls    \* calls made

vars == <<target, in, code, regs, mem, sp, seen, calls>>

-----------------------------------------------------------------------------
(* Terms.  A vreg that is no operand is known by its place. *)
Args(i) == {i.args[k] : k \in DOMAIN i.args}
AtEntry(i, r) ==
  IF \E o \in Args(i) : InReg(o) /\ o.reg = r
  THEN <<"vreg", (CHOOSE o \in Args(i) : InReg(o) /\ o.reg = r).n>>
  ELSE <<"old", r>>
InFrame(t, i, w) ==
  IF \E o \in Args(i) : IsMem(o) /\ SlotAt(t, Sp0(t), o.n) = w
  THEN <<"vreg", (CHOOSE o \in Args(i) : IsMem(o) /\ SlotAt(t, Sp0(t), o.n) = w).n>>
  ELSE <<"word", w>>

Init == \E c \in Cases :
  /\ target = c[1]
  /\ in = c[2]
  /\ code = CodeFor(c[1], c[2])
  /\ regs = [r \in Pool(c[1]) \cup Scratch |-> AtEntry(c[2], r)]
  /\ mem = [w \in Words |-> InFrame(c[1], c[2], w)]
  /\ sp = Sp0(c[1])
  /\ seen = <<>>
  /\ calls = 0

Value(p) == CASE p[1] = "reg"  -> regs[p[2]]
              [] p[1] = "slot" -> mem[SlotAt(target, sp, p[2])]
              [] OTHER         -> p
Values(ps) == [k \in DOMAIN ps |-> Value(ps[k])]
Term(op, args) == CASE op = "mov"                              -> args[1]
                    [] op = "mul" /\ args[2] = Imm(1)          -> args[1]
                    [] OTHER                                   -> <<op>> \o args

Fetch(what) == code # <<>> /\ Head(code).do = what /\ code' = Tail(code)

Assign ==
  /\ Fetch("set")
  /\ LET c == Head(code)
         x == Term(c.op, Values(c.from))
     IN  IF c.to[1] = "reg" THEN regs' = [regs EXCEPT ![c.to[2]] = x] /\ UNCHANGED mem
         ELSE /\ mem' = [mem EXCEPT ![IF c.to[1] = "sp" THEN sp + c.to[2]
                                      ELSE SlotAt(target, sp, c.to[2])] = x]
              /\ UNCHANGED regs
  /\ UNCHANGED <<target, in, sp, seen, calls>>

TouchWorld ==
  /\ Fetch("effect")
  /\ seen' = Append(seen, <<Head(code).op>> \o Values(Head(code).from))
  /\ UNCHANGED <<target, in, regs, mem, sp, calls>>

PushWord ==
  /\ Fetch("push")
  /\ mem' = [mem EXCEPT ![sp - 1] = Value(Head(code).from)]
  /\ sp' = sp - 1
  /\ UNCHANGED <<target, in, regs, seen, calls>>

AdjustSp ==
  /\ Fetch("sp")
  /\ sp' = sp + Head(code).by
  /\ UNCHANGED <<target, in, regs, mem, seen, calls>>

(* The callee finds its arguments in registers and in the words from sp    *)
(* up, and leaves its result; what it need not keep is lost.               *)
CallOut ==
  /\ Fetch("call")
  /\ LET onStack == [k \in 1..Head(code).stack |-> mem[sp + k - 1]]
     IN  seen' = Append(seen, <<"call">> \o Values(Head(code).from) \o onStack)
  /\ regs' = [r \in DOMAIN regs |-> CASE r = Result[target] -> <<"returned">>
                                     [] r \in Kept[target]  -> regs[r]
                                     [] OTHER               -> <<"lost", r>>]
  /\ calls' = calls + 1
  /\ UNCHANGED <<target, in, mem, sp>>

Next == Assign \/ TouchWorld \/ PushWord \/ AdjustSp \/ CallOut

Spec == Init /\ [][Next]_vars

-----------------------------------------------------------------------------
(* What the instruction means, over the values its operands had at first.  *)
Meant(o) == CASE o.kind = "vreg" -> <<"vreg", o.n>>
              [] o.kind = "imm"  -> Imm(o.n)
              [] OTHER           -> <<"fp", o.n>>
MeantArgs(i) == [k \in DOMAIN i.args |-> Meant(i.args[k])]

MeantResult(i) ==
  LET args == MeantArgs(i)
  IN  CASE i.op \in Alus \cup Divisions \cup Shifts \cup Negations \cup Floats \cup FromInt
                    \cup ToInt \cup FpToFp \cup {"icmp", "fneg", "load"} -> Term(i.op, args)
        [] i.op = "fcmp"      -> Term(i.op, <<Imm(i.n)>> \o args)
        [] i.op \in Widths    -> Term(LowByte(i.op), args)
        [] i.op = "gep"       -> Term("add", <<args[1], Term("mul", <<args[2], Imm(i.n)>>)>>)
        [] i.op = "gep_field" -> Term("add", <<args[1], Imm(i.n)>>)
        [] i.op = "phi"       -> args[1]
        [] i.op = "call"      -> <<"returned">>
        [] i.op = "alloca"    -> <<"object">>
        [] i.op = "str"       -> <<"string">>
        [] i.op = "va_start"  -> <<"list">>
        [] i.op = "va_arg"    -> Term("next", args)

MeantEffects(t, i) ==
  LET args == MeantArgs(i)
  IN  CASE i.op \in {"store", "call", "cbr"} -> <<Term(i.op, args)>>
        [] i.op = "memcpy" -> <<Term(i.op, Append(args, Imm(i.n)))>>
        [] i.op = "ret"    -> <<Term(i.op, IF i.args = <<>> THEN <<Imm(0)>> ELSE args)>>
        [] i.op = "va_start" /\ t # "x86" -> <<<<i.op, <<"list">>>>>>
        [] i.op = "va_arg" /\ t # "x86"   -> <<Term("advance", args)>>
        [] OTHER -> <<>>

Done == code = <<>>

(* A list of x86 is the address of the next argument: taking an argument   *)
(* gives the vreg that holds it a new value.                               *)
IsList(t, i, p) == t = "x86" /\ i.op = "va_arg" /\ p = Arg(i, 1)

(* What the selectors get wrong, target by target: the instructions of     *)
(* which nothing below is promised.                                        *)
ReadsLastFirst(t, i) ==   \* before sp moves
  t = "arm64" \/ (t = "arm" /\ OnStack(t, i) % 2 = 0)
Wrong(t, i) ==
  \/ i.op = "gep" /\ t = "x86_64" /\ i.n \in {2, 4, 8}
  \/ i.op = "gep" /\ t \in {"arm64", "riscv", "arm"} /\ InReg(i.args[2])
  \/ i.op = "memcpy" /\ t \in {"x86_64", "x86", "riscv"}
  \/ i.op = "va_arg" /\ t = "x86_64" /\ i.dst.reg # "rbx"
  \/ i.op = "va_start" /\ t \in {"arm64", "riscv", "arm"} /\ IsMem(i.dst)
  \/ i.op = "va_arg" /\ t \in {"arm64", "riscv", "arm"} /\ (IsMem(i.dst) \/ IsMem(i.args[1]))
  \/ OnStack(t, i) > 0 /\ t \in {"arm64", "riscv", "arm"}
       /\ \E k \in DOMAIN i.args : IsMem(i.args[k]) /\ ~(k = Len(i.args) /\ ReadsLastFirst(t, i))
  \/ OnStack(t, i) > 1 /\ t = "arm64"
  \/ i.op = "fcmp" /\ i.n # 0 /\ t \in {"riscv", "arm"}
  \/ i.op = "fcmp" /\ i.n > 5 /\ t = "arm64"

-----------------------------------------------------------------------------
TypeOK ==
  /\ target \in Targets
  /\ DOMAIN regs = Pool(target) \cup Scratch
  /\ DOMAIN mem = Words
  /\ sp \in Words
  /\ Len(code) + Len(seen) <= Len(CodeFor(target, in))
  /\ calls \in 0..1

(* When the printed instructions have run, the place of the result holds   *)
(* what the instruction means: every operand was read where the allocator  *)
(* had put it, before anything overwrote it.  Each case of each emit.      *)
ResultArrives == (Done /\ in.dst # None) => Value(Dst(in)) = MeantResult(in)

(* No vreg but the result changes, whichever register of the pool or slot  *)
(* it is in; a call may lose the first part of the pool, where the         *)
(* allocator leaves nothing that crosses it.                               *)
OthersStay ==
  Done => /\ \A r \in Pool(target) \ (IF calls > 0 THEN Lost[target] ELSE {}) :
               R(r) # Dst(in) /\ ~IsList(target, in, R(r)) => regs[r] = AtEntry(in, r)
          /\ \A v \in 0..(NSlots - 1) :
               LET slot == <<"slot", v>>
                   w == SlotAt(target, Sp0(target), v)
               IN  slot # Dst(in) /\ ~IsList(target, in, slot) => mem[w] = InFrame(target, in, w)

(* Memory outside the frame, the callee and the caller see what the        *)
(* instruction says: the value stored and where, every argument of a call  *)
(* in its place, whether in a register or on the stack.                    *)
WorldAsMeant == Done => seen = MeantEffects(target, in)

(* sp is back where it was, whatever was pushed: slots and the epilogue    *)
(* are found from it.                                                      *)
StackBalanced == Done => sp = Sp0(target)
===============================================================================
