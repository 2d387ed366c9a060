--------------------------------- MODULE Arm ---------------------------------
(***************************************************************************)
(* The instructions src/targets/arm/isel.c prints.  Slots are addressed    *)
(* from sp and are words of four bytes, what an eight-byte value does in   *)
(* one is not modelled; r0 to r3 and r12 hold no vreg.                     *)
(***************************************************************************)
EXTENDS Asm

AREG == <<"r0", "r1", "r2", "r3">>

Through0(in, code) == Through(in, "r0", code)
Load0(in) == LoadTo(in, 1, "r0")

Work(in) == IF InReg(in.dst) THEN in.dst.reg ELSE "r0"
ThroughWork(in, code) == Through(in, Work(in), code)

(* The second operand in a register: a vreg's own, else r1. *)
Second(in)     == IF InReg(in.args[2]) THEN Arg(in, 2) ELSE R("r1")
LoadSecond(in) == Copy(Arg(in, 2), Second(in))

Alu(in) ==   \* a constant stands in the instruction, except in mul
  LET inline == IsImm(in.args[2]) /\ in.op # "mul"
      by == IF inline THEN Arg(in, 2) ELSE Second(in)
  IN  ThroughWork(in, LoadTo(in, 1, Work(in)) \o Copy(Arg(in, 2), by)
                        \o <<Set(R(Work(in)), in.op, <<R(Work(in)), by>>)>>)
(* __aeabi_idivmod and __aeabi_uidivmod, printed after the functions: they *)
(* count the quotient in r2.                                               *)
Divide(in) ==
  Through(in, IF IsRem(in.op) THEN "r1" ELSE "r0",
    Load0(in) \o LoadTo(in, 2, "r1")
      \o <<Set(R("r2"), Quotient(in.op), <<R("r0"), R("r1")>>),
           Set(R("r1"), Remainder(in.op), <<R("r0"), R("r1")>>), Mov(R("r2"), R("r0"))>>)
Shift(in) ==
  ThroughWork(in, LoadTo(in, 1, Work(in)) \o LoadSecond(in)
                    \o <<Set(R(Work(in)), in.op, <<R(Work(in)), Second(in)>>)>>)
Negate(in) ==
  ThroughWork(in, LoadTo(in, 1, Work(in)) \o <<Set(R(Work(in)), in.op, <<R(Work(in))>>)>>)
Compare(in) ==
  LET by == IF IsImm(in.args[2]) THEN Arg(in, 2) ELSE Second(in)
  IN  Through(in, "r3", Load0(in) \o Copy(Arg(in, 2), by)
                          \o <<Set(R("r3"), in.op, <<R("r0"), by>>)>>)
Convert(in) == Through0(in, Load0(in) \o <<Set(R("r0"), LowByte(in.op), <<R("r0")>>)>>)

-----------------------------------------------------------------------------
(* Floating point: from and to the slots, in d0 and d1; fcmp tests for     *)
(* equality whatever its predicate is.                                     *)
FpLoad(o, d) ==
  IF o.kind = "fp"
  THEN <<Mov(<<"fp", o.n>>, R("r0")), Mov(<<"fp", o.n>>, R("r1")), Mov(R("r0"), R(d))>>
  ELSE <<Mov(Slot(o), R(d))>>
FpBoth(in) == FpLoad(in.args[1], "d0") \o FpLoad(in.args[2], "d1")
FpArith(in) ==
  FpBoth(in) \o <<Set(R("d0"), in.op, <<R("d0"), R("d1")>>), Mov(R("d0"), Slot(in.dst))>>
FpNegate(in) ==
  FpLoad(in.args[1], "d0") \o <<Set(R("d0"), in.op, <<R("d0")>>), Mov(R("d0"), Slot(in.dst))>>
FpCompare(in) ==
  FpBoth(in) \o <<Set(R("r0"), in.op, <<Imm(0), R("d0"), R("d1")>>), Mov(R("r0"), Slot(in.dst))>>
FpConvert(in) ==
  LET to == IF in.op \in ToInt THEN R("r0") ELSE R("d0")
      from == IF in.op \in FromInt THEN R("r0") ELSE R("d0")
  IN  (IF in.op \notin FromInt THEN FpLoad(in.args[1], "d0")
       ELSE <<Mov(IF IsImm(in.args[1]) THEN Arg(in, 1) ELSE Slot(in.args[1]), R("r0"))>>)
        \o <<Set(to, in.op, <<from>>), Mov(to, Slot(in.dst))>>

-----------------------------------------------------------------------------
Alloca(in) == Through0(in, <<Set(R("r0"), "object", <<>>)>>)
Load(in)   == Through0(in, Load0(in) \o <<Set(R("r0"), "load", <<R("r0")>>)>>)
Store(in)  == Load0(in) \o LoadTo(in, 2, "r1") \o <<Do("store", <<R("r0"), R("r1")>>)>>
Memcpy(in) ==   \* word by word through r12
  LoadTo(in, 1, "r2") \o LoadTo(in, 2, "r3")
    \o <<Do("memcpy", <<R("r2"), R("r3"), Imm(in.n)>>), Set(R("r12"), "load", <<R("r3")>>)>>
(* r1 is scaled by the shifter or by way of r2: right only when the index  *)
(* has been loaded into it.                                                *)
Gep(in) ==
  Through0(in, Load0(in) \o LoadSecond(in)
                 \o <<Set(R("r2"), "mul", <<R("r1"), Imm(in.n)>>),
                      Set(R("r0"), "add", <<R("r0"), R("r2")>>)>>)
GepField(in) == Through0(in, Load0(in) \o <<Set(R("r0"), "add", <<R("r0"), Imm(in.n)>>)>>)
Str(in)      == Through0(in, <<Set(R("r0"), "string", <<>>)>>)

-----------------------------------------------------------------------------
Call(in) ==   \* sp moves as the arguments are pushed
  LET k == StackArgs(in, AREG)
      pad == k % 2
      push[i \in 0..k] ==
        IF i = 0 THEN <<>>
        ELSE push[i-1] \o LoadTo(in, Len(in.args) + 1 - i, "r0") \o <<Push(R("r0"))>>
  IN  Through0(in, (IF pad = 1 THEN <<MoveSp(-1)>> ELSE <<>>) \o push[k] \o LoadArgs(in, AREG)
                     \o <<Invoke(InRegs(in, AREG), k)>>
                     \o (IF k > 0 THEN <<MoveSp(k + pad)>> ELSE <<>>))
Ret(in) == (IF in.args = <<>> THEN <<Mov(Imm(0), R("r0"))>> ELSE Load0(in))
             \o <<Do("ret", <<R("r0")>>)>>
Cbr(in) == Load0(in) \o <<Do("cbr", <<R("r0")>>)>>
EdgeCopy(in) == Through0(in, Load0(in))

(* mov, whatever the place: the assembler takes no slot there. *)
Plain(from, to) == IF "slot" \in {from[1], to[1]} THEN <<Refused>> ELSE <<Mov(from, to)>>
VaStart(in) ==
  <<Set(R("r12"), "list", <<>>), Set(R("r0"), "area", <<>>), Do("va_start", <<R("r12")>>)>>
    \o Plain(R("r12"), Dst(in))
VaArg(in) ==
  Plain(Arg(in, 1), R("r12"))
    \o <<Set(R("r0"), "area", <<R("r12")>>), Set(R("r1"), "area", <<R("r12")>>),
         Set(R("r2"), "next", <<R("r12")>>), Do("advance", <<R("r12")>>)>>
    \o Plain(R("r2"), Dst(in))

Code(in) ==
  CASE in.op \in Alus      -> Alu(in)
    [] in.op \in Divisions -> Divide(in)
    [] in.op \in Shifts    -> Shift(in)
    [] in.op \in Negations -> Negate(in)
    [] in.op = "icmp"      -> Compare(in)
    [] in.op \in Widths    -> Convert(in)
    [] in.op \in Floats    -> FpArith(in)
    [] in.op = "fneg"      -> FpNegate(in)
    [] in.op = "fcmp"      -> FpCompare(in)
    [] in.op \in FromInt \cup ToInt \cup FpToFp -> FpConvert(in)
    [] in.op = "alloca"    -> Alloca(in)
    [] in.op = "load"      -> Load(in)
    [] in.op = "store"     -> Store(in)
    [] in.op = "memcpy"    -> Memcpy(in)
    [] in.op = "gep"       -> Gep(in)
    [] in.op = "gep_field" -> GepField(in)
    [] in.op = "str"       -> Str(in)
    [] in.op = "call"      -> Call(in)
    [] in.op = "ret"       -> Ret(in)
    [] in.op = "cbr"       -> Cbr(in)
    [] in.op = "phi"       -> EdgeCopy(in)
    [] in.op = "va_start"  -> VaStart(in)
    [] in.op = "va_arg"    -> VaArg(in)
    [] OTHER               -> <<>>       \* br, va_end
=============================================================================
