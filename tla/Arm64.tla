-------------------------------- MODULE Arm64 --------------------------------
(***************************************************************************)
(* The instructions src/targets/arm64/isel.c prints.  Slots are addressed  *)
(* from sp; x0 to x11 and x15 hold no vreg.                                *)
(***************************************************************************)
EXTENDS Asm

AREG == <<"x0", "x1", "x2", "x3", "x4", "x5", "x6", "x7">>

Through0(in, code) == Through(in, "x0", code)
Load0(in) == LoadTo(in, 1, "x0")

Work(in) == IF InReg(in.dst) THEN in.dst.reg ELSE "x9"
ThroughWork(in, code) == Through(in, Work(in), code)

(* The second operand in a register: a vreg's own, else x10. *)
Second(in)     == IF InReg(in.args[2]) THEN Arg(in, 2) ELSE R("x10")
LoadSecond(in) == Copy(Arg(in, 2), Second(in))

Alu(in) ==   \* a constant stands in the instruction, except in mul
  LET inline == IsImm(in.args[2]) /\ in.op # "mul"
      by == IF inline THEN Arg(in, 2) ELSE Second(in)
  IN  ThroughWork(in, LoadTo(in, 1, Work(in)) \o Copy(Arg(in, 2), by)
                        \o <<Set(R(Work(in)), in.op, <<R(Work(in)), by>>)>>)
Divide(in) ==
  ThroughWork(in, LoadTo(in, 1, "x9") \o LoadSecond(in)
    \o (IF IsRem(in.op) THEN <<Set(R("x15"), Quotient(in.op), <<R("x9"), Second(in)>>)>> ELSE <<>>)
    \o <<Set(R(Work(in)), in.op, <<R("x9"), Second(in)>>)>>)
Shift(in) ==
  ThroughWork(in, LoadTo(in, 1, Work(in)) \o LoadSecond(in)
                    \o <<Set(R(Work(in)), in.op, <<R(Work(in)), Second(in)>>)>>)
Negate(in) ==
  ThroughWork(in, LoadTo(in, 1, Work(in)) \o <<Set(R(Work(in)), in.op, <<R(Work(in))>>)>>)
Compare(in) ==
  LET by == IF IsImm(in.args[2]) THEN Arg(in, 2) ELSE Second(in)
  IN  Through0(in, LoadTo(in, 1, "x9") \o Copy(Arg(in, 2), by)
                     \o <<Set(R("x0"), in.op, <<R("x9"), by>>)>>)
Convert(in) == Through0(in, Load0(in) \o <<Set(R("x0"), LowByte(in.op), <<R("x0")>>)>>)

-----------------------------------------------------------------------------
(* Floating point: from and to the slots, in d0 and d1. *)
FpLoad(o, d) ==
  IF o.kind = "fp" THEN <<Mov(<<"fp", o.n>>, R("x9")), Mov(R("x9"), R(d))>>
  ELSE <<Mov(Slot(o), R(d))>>
FpBoth(in) == FpLoad(in.args[1], "d0") \o FpLoad(in.args[2], "d1")
FpArith(in) ==
  FpBoth(in) \o <<Set(R("d0"), in.op, <<R("d0"), R("d1")>>), Mov(R("d0"), Slot(in.dst))>>
FpNegate(in) ==
  FpLoad(in.args[1], "d0") \o <<Set(R("d0"), in.op, <<R("d0")>>), Mov(R("d0"), Slot(in.dst))>>
FpCompare(in) ==   \* the last two predicates, ord and uno, test for equality
  LET pred == IF in.n < 6 THEN in.n ELSE 0
  IN  FpBoth(in) \o <<Set(R("x0"), in.op, <<Imm(pred), R("d0"), R("d1")>>),
                      Mov(R("x0"), Slot(in.dst))>>
FpConvert(in) ==
  LET to == IF in.op \in ToInt THEN R("x0") ELSE R("d0")
      from == IF in.op \in FromInt THEN R("x0") ELSE R("d0")
  IN  (IF in.op \notin FromInt THEN FpLoad(in.args[1], "d0")
       ELSE <<Mov(IF IsImm(in.args[1]) THEN Arg(in, 1) ELSE Slot(in.args[1]), R("x0"))>>)
        \o <<Set(to, in.op, <<from>>), Mov(to, Slot(in.dst))>>

-----------------------------------------------------------------------------
Alloca(in) == Through0(in, <<Set(R("x0"), "object", <<>>)>>)
Load(in)   == Through0(in, Load0(in) \o <<Set(R("x0"), "load", <<R("x0")>>)>>)
Store(in)  == Load0(in) \o LoadTo(in, 2, "x9") \o <<Do("store", <<R("x0"), R("x9")>>)>>
MemcpyThroughX12(in) ==
  Load0(in) \o LoadTo(in, 2, "x1")
    \o <<Do("memcpy", <<R("x0"), R("x1"), Imm(in.n)>>), Set(R("x12"), "load", <<R("x1")>>)>>
Memcpy(in) ==   \* word by word through x9
  Load0(in) \o LoadTo(in, 2, "x1")
    \o <<Do("memcpy", <<R("x0"), R("x1"), Imm(in.n)>>), Set(R("x9"), "load", <<R("x1")>>)>>
(* x10 is scaled by the shifter or multiplied by x11: right only when the  *)
(* index has been loaded into it.                                          *)
Gep(in) ==
  Through0(in, LoadTo(in, 1, "x9") \o LoadSecond(in)
                 \o <<Set(R("shifter"), "mul", <<R("x10"), Imm(in.n)>>),
                      Set(R("x0"), "add", <<R("x9"), R("shifter")>>)>>)
GepField(in) == Through0(in, Load0(in) \o <<Set(R("x0"), "add", <<R("x0"), Imm(in.n)>>)>>)
Str(in)      == Through0(in, <<Set(R("x0"), "string", <<>>)>>)

-----------------------------------------------------------------------------
Call(in) ==   \* str x9, [sp, #-16]!: two words for each argument on the stack
  LET k == StackArgs(in, AREG)
      push[i \in 0..k] ==
        IF i = 0 THEN <<>>
        ELSE push[i-1] \o LoadTo(in, Len(in.args) + 1 - i, "x9")
                       \o <<MoveSp(-1), Push(R("x9"))>>
  IN  Through0(in, push[k] \o LoadArgs(in, AREG) \o <<Invoke(InRegs(in, AREG), k)>>
                     \o (IF k > 0 THEN <<MoveSp(2 * k)>> ELSE <<>>))
Ret(in) == (IF in.args = <<>> THEN <<Mov(Imm(0), R("x0"))>> ELSE Load0(in))
             \o <<Do("ret", <<R("x0")>>)>>
Cbr(in) == LoadTo(in, 1, "x9") \o <<Do("cbr", <<R("x9")>>)>>
EdgeCopy(in) == Through(in, "x9", LoadTo(in, 1, "x9"))

(* mov, whatever the place: the assembler takes no slot there. *)
Plain(from, to) == IF "slot" \in {from[1], to[1]} THEN <<Refused>> ELSE <<Mov(from, to)>>
VaStart(in) ==
  <<Set(R("x9"), "list", <<>>), Set(R("x10"), "area", <<>>), Do("va_start", <<R("x9")>>)>>
    \o Plain(R("x9"), Dst(in))
VaArg(in) ==
  Plain(Arg(in, 1), R("x9"))
    \o <<Set(R("x11"), "area", <<R("x9")>>), Set(R("x10"), "next", <<R("x9")>>),
         Do("advance", <<R("x9")>>)>>
    \o Plain(R("x10"), Dst(in))

Code(in) ==
  CASE in.op \in Alus      -> Alu(in)
    [] in.op \in Divisions -> Divide(in)
    [] in.op \in Shifts    -> Shift(in)
    [] in.op \in Negations -> Negate(in)
    [] in.op = "icmp"      -> Compare(in)
    [] in.op \in Widths    -> Convert(in)
    [] in.op \in Floats    -> FpArith(in)
    [] in.op = "fneg"      -> FpNegate(in)
    [] in.op = "fcmp"      -> FpCompare(in)
    [] in.op \in FromInt \cup ToInt \cup FpToFp -> FpConvert(in)
    [] in.op = "alloca"    -> Alloca(in)
    [] in.op = "load"      -> Load(in)
    [] in.op = "store"     -> Store(in)
    [] in.op = "memcpy"    -> Memcpy(in)
    [] in.op = "gep"       -> Gep(in)
    [] in.op = "gep_field" -> GepField(in)
    [] in.op = "str"       -> Str(in)
    [] in.op = "call"      -> Call(in)
    [] in.op = "ret"       -> Ret(in)
    [] in.op = "cbr"       -> Cbr(in)
    [] in.op = "phi"       -> EdgeCopy(in)
    [] in.op = "va_start"  -> VaStart(in)
    [] in.op = "va_arg"    -> VaArg(in)
    [] OTHER               -> <<>>       \* br, va_end
=============================================================================
