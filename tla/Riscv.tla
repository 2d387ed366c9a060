-------------------------------- MODULE Riscv --------------------------------
(***************************************************************************)
(* The instructions src/targets/riscv/isel.c prints.  Slots are addressed  *)
(* from sp; t0, t1, t6 and the a registers hold no vreg.                   *)
(***************************************************************************)
EXTENDS Asm

AREG == <<"a0", "a1", "a2", "a3", "a4", "a5", "a6", "a7">>

ThroughT(in, code) == Through(in, "t0", code)
LoadT(in) == LoadTo(in, 1, "t0")

Work(in) == IF InReg(in.dst) THEN in.dst.reg ELSE "t0"
ThroughWork(in, code) == Through(in, Work(in), code)

(* The second operand in a register: a vreg's own, else t1. *)
Second(in)     == IF InReg(in.args[2]) THEN Arg(in, 2) ELSE R("t1")
LoadSecond(in) == Copy(Arg(in, 2), Second(in))

Alu(in) ==   \* and the shifts
  ThroughWork(in, LoadTo(in, 1, Work(in)) \o LoadSecond(in)
                    \o <<Set(R(Work(in)), in.op, <<R(Work(in)), Second(in)>>)>>)
Shift(in) == Alu(in)
Divide(in) ==
  ThroughWork(in, LoadT(in) \o LoadSecond(in)
                    \o <<Set(R(Work(in)), in.op, <<R("t0"), Second(in)>>)>>)
Negate(in) ==
  ThroughWork(in, LoadTo(in, 1, Work(in)) \o <<Set(R(Work(in)), in.op, <<R(Work(in))>>)>>)
Compare(in) ==
  ThroughT(in, LoadT(in) \o LoadSecond(in) \o <<Set(R("t0"), in.op, <<R("t0"), Second(in)>>)>>)
Convert(in) == ThroughT(in, LoadT(in) \o <<Set(R("t0"), LowByte(in.op), <<R("t0")>>)>>)

-----------------------------------------------------------------------------
(* Floating point: from and to the slots, in ft0 and ft1; fcmp tests for   *)
(* equality whatever its predicate is.                                     *)
FpLoad(o, f) ==
  IF o.kind = "fp" THEN <<Mov(<<"fp", o.n>>, R("t0")), Mov(R("t0"), R(f))>>
  ELSE <<Mov(Slot(o), R(f))>>
FpBoth(in) == FpLoad(in.args[1], "ft0") \o FpLoad(in.args[2], "ft1")
FpArith(in) ==
  FpBoth(in) \o <<Set(R("ft0"), in.op, <<R("ft0"), R("ft1")>>), Mov(R("ft0"), Slot(in.dst))>>
FpNegate(in) ==
  FpLoad(in.args[1], "ft0") \o <<Set(R("ft0"), in.op, <<R("ft0")>>), Mov(R("ft0"), Slot(in.dst))>>
FpCompare(in) ==
  FpBoth(in) \o <<Set(R("t0"), in.op, <<Imm(0), R("ft0"), R("ft1")>>), Mov(R("t0"), Slot(in.dst))>>
FpConvert(in) ==
  LET to == IF in.op \in ToInt THEN R("t0") ELSE R("ft0")
      from == IF in.op \in FromInt THEN R("t0") ELSE R("ft0")
  IN  (IF in.op \notin FromInt THEN FpLoad(in.args[1], "ft0")
       ELSE <<Mov(IF IsImm(in.args[1]) THEN Arg(in, 1) ELSE Slot(in.args[1]), R("t0"))>>)
        \o <<Set(to, in.op, <<from>>), Mov(to, Slot(in.dst))>>

-----------------------------------------------------------------------------
Alloca(in) == ThroughT(in, <<Set(R("t0"), "object", <<>>)>>)
Load(in)   == ThroughT(in, LoadT(in) \o <<Set(R("t0"), "load", <<R("t0")>>)>>)
Store(in)  == LoadT(in) \o LoadTo(in, 2, "t1") \o <<Do("store", <<R("t0"), R("t1")>>)>>
Memcpy(in) ==   \* word by word through t2, which may hold a vreg
  LoadT(in) \o LoadTo(in, 2, "t1")
    \o <<Do("memcpy", <<R("t0"), R("t1"), Imm(in.n)>>), Set(R("t2"), "load", <<R("t1")>>)>>
Gep(in) ==   \* t1 is scaled: right only when the index has been loaded into it
  ThroughT(in, LoadT(in) \o LoadSecond(in)
                 \o <<Set(R("t1"), "mul", <<R("t1"), Imm(in.n)>>),
                      Set(R("t0"), "add", <<R("t0"), R("t1")>>)>>)
GepField(in) == ThroughT(in, LoadT(in) \o <<Set(R("t0"), "add", <<R("t0"), Imm(in.n)>>)>>)
Str(in)      == ThroughT(in, <<Set(R("t0"), "string", <<>>)>>)

-----------------------------------------------------------------------------
Call(in) ==   \* sp moves first, by an even number of words
  LET k == StackArgs(in, AREG)
      room == k + (k % 2)
      put[i \in 0..k] ==
        IF i = 0 THEN <<>>
        ELSE put[i-1] \o LoadTo(in, Len(AREG) + i, "t0") \o <<Mov(R("t0"), AboveSp(i - 1))>>
  IN  Through(in, "a0",
        (IF k > 0 THEN <<MoveSp(-room)>> ELSE <<>>) \o put[k] \o LoadArgs(in, AREG)
          \o <<Invoke(InRegs(in, AREG), k)>> \o (IF k > 0 THEN <<MoveSp(room)>> ELSE <<>>))
Ret(in) == (IF in.args = <<>> THEN <<Mov(Imm(0), R("a0"))>> ELSE LoadTo(in, 1, "a0"))
             \o <<Do("ret", <<R("a0")>>)>>
Cbr(in) == LoadT(in) \o <<Do("cbr", <<R("t0")>>)>>
EdgeCopy(in) == ThroughT(in, LoadT(in))

(* mv, whatever the place: the assembler takes no slot there. *)
Plain(from, to) == IF "slot" \in {from[1], to[1]} THEN <<Refused>> ELSE <<Mov(from, to)>>
VaStart(in) ==
  <<Set(R("t0"), "list", <<>>), Set(R("t1"), "area", <<>>), Do("va_start", <<R("t0")>>)>>
    \o Plain(R("t0"), Dst(in))
VaArg(in) ==
  Plain(Arg(in, 1), R("t0"))
    \o <<Set(R("t6"), "area", <<R("t0")>>), Set(R("t1"), "next", <<R("t0")>>),
         Do("advance", <<R("t0")>>)>>
    \o Plain(R("t1"), Dst(in))

Code(in) ==
  CASE in.op \in Alus      -> Alu(in)
    [] in.op \in Divisions -> Divide(in)
    [] in.op \in Shifts    -> Shift(in)
    [] in.op \in Negations -> Negate(in)
    [] in.op = "icmp"      -> Compare(in)
    [] in.op \in Widths    -> Convert(in)
    [] in.op \in Floats    -> FpArith(in)
    [] in.op = "fneg"      -> FpNegate(in)
    [] in.op = "fcmp"      -> FpCompare(in)
    [] in.op \in FromInt \cup ToInt \cup FpToFp -> FpConvert(in)
    [] in.op = "alloca"    -> Alloca(in)
    [] in.op = "load"      -> Load(in)
    [] in.op = "store"     -> Store(in)
    [] in.op = "memcpy"    -> Memcpy(in)
    [] in.op = "gep"       -> Gep(in)
    [] in.op = "gep_field" -> GepField(in)
    [] in.op = "str"       -> Str(in)
    [] in.op = "call"      -> Call(in)
    [] in.op = "ret"       -> Ret(in)
    [] in.op = "cbr"       -> Cbr(in)
    [] in.op = "phi"       -> EdgeCopy(in)
    [] in.op = "va_start"  -> VaStart(in)
    [] in.op = "va_arg"    -> VaArg(in)
    [] OTHER               -> <<>>       \* br, va_end
=============================================================================
