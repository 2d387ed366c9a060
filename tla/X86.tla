--------------------------------- MODULE X86 ---------------------------------
(***************************************************************************)
(* The instructions src/targets/x86/isel.c prints.  %eax, %edx and %ecx    *)
(* hold no vreg; a slot is a word of four bytes, what an eight-byte value  *)
(* does in one is not modelled.                                            *)
(***************************************************************************)
EXTENDS Asm

ThroughA(in, code) == Through(in, "eax", code)
LoadA(in) == LoadTo(in, 1, "eax")

Work(in) == IF InReg(in.dst) THEN in.dst.reg ELSE "eax"
Alu(in) ==
  Through(in, Work(in),
          LoadTo(in, 1, Work(in)) \o <<Set(R(Work(in)), in.op, <<R(Work(in)), Arg(in, 2)>>)>>)

DivideThroughEdx(in) ==
  Through(in, IF IsRem(in.op) THEN "edx" ELSE "eax",
    LoadA(in) \o LoadTo(in, 2, "edx")
      \o <<Set(R("edx"), Remainder(in.op), <<R("eax"), R("edx")>>),
           Set(R("eax"), Quotient(in.op), <<R("eax"), R("edx")>>)>>)
(* The divisor stays where it is unless it is a constant. *)
Divide(in) ==
  LET by == IF IsImm(in.args[2]) THEN R("ecx") ELSE Arg(in, 2)
  IN  Through(in, IF IsRem(in.op) THEN "edx" ELSE "eax",
        LoadA(in) \o Copy(Arg(in, 2), by)
          \o <<Set(R("edx"), Remainder(in.op), <<R("eax"), by>>),
               Set(R("eax"), Quotient(in.op), <<R("eax"), by>>)>>)
Shift(in) ==
  ThroughA(in, LoadA(in) \o LoadTo(in, 2, "ecx")
                 \o <<Set(R("eax"), in.op, <<R("eax"), R("ecx")>>)>>)
Negate(in)  == ThroughA(in, LoadA(in) \o <<Set(R("eax"), in.op, <<R("eax")>>)>>)
Compare(in) == ThroughA(in, LoadA(in) \o <<Set(R("eax"), in.op, <<R("eax"), Arg(in, 2)>>)>>)
Convert(in) == ThroughA(in, LoadA(in) \o <<Set(R("eax"), LowByte(in.op), <<R("eax")>>)>>)

-----------------------------------------------------------------------------
(* Floating point: from and to the slots; a constant is put together from  *)
(* %eax and %edx, the upper half by way of the next %xmm register.         *)
FpLoad(o, x, upper) ==
  IF o.kind = "fp"
  THEN <<Mov(<<"fp", o.n>>, R("eax")), Mov(<<"fp", o.n>>, R("edx")),
         Mov(R("eax"), R(x)), Mov(R("edx"), R(upper))>>
  ELSE <<Mov(Slot(o), R(x))>>
FpBoth(in) == FpLoad(in.args[1], "xmm0", "xmm1") \o FpLoad(in.args[2], "xmm1", "xmm2")
FpArith(in) ==
  FpBoth(in) \o <<Set(R("xmm0"), in.op, <<R("xmm0"), R("xmm1")>>), Mov(R("xmm0"), Slot(in.dst))>>
FpNegate(in) ==
  FpLoad(in.args[1], "xmm0", "xmm1")
    \o <<Mov(Imm(0), R("eax")), Mov(R("eax"), R("xmm1")), Mov(R("eax"), R("xmm2")),
         Set(R("xmm0"), in.op, <<R("xmm0")>>), Mov(R("xmm0"), Slot(in.dst))>>
FpCompare(in) ==
  FpBoth(in) \o <<Set(R("eax"), in.op, <<Imm(in.n), R("xmm0"), R("xmm1")>>), Mov(R("eax"), Slot(in.dst))>>
FpConvert(in) ==
  LET to == IF in.op \in ToInt THEN R("eax") ELSE R("xmm0")
      from == IF in.op \in FromInt THEN R("eax") ELSE R("xmm0")
  IN  (IF in.op \notin FromInt THEN FpLoad(in.args[1], "xmm0", "xmm1")
       ELSE <<Mov(IF IsImm(in.args[1]) THEN Arg(in, 1) ELSE Slot(in.args[1]), R("eax"))>>)
        \o <<Set(to, in.op, <<from>>), Mov(to, Slot(in.dst))>>

-----------------------------------------------------------------------------
Alloca(in) == ThroughA(in, <<Set(R("eax"), "object", <<>>)>>)
Load(in)   == ThroughA(in, LoadA(in) \o <<Set(R("eax"), "load", <<R("eax")>>)>>)
Store(in)  == LoadA(in) \o LoadTo(in, 2, "ecx") \o <<Do("store", <<R("eax"), R("ecx")>>)>>
Memcpy(in) ==   \* rep movsb moves both pointers on
  LoadTo(in, 1, "edi") \o LoadTo(in, 2, "esi")
    \o <<Mov(Imm(in.n), R("ecx")), Do("memcpy", <<R("edi"), R("esi"), R("ecx")>>),
         Set(R("edi"), "add", <<R("edi"), R("ecx")>>), Set(R("esi"), "add", <<R("esi"), R("ecx")>>)>>
Gep(in) ==
  ThroughA(in, LoadA(in) \o LoadTo(in, 2, "ecx")
                 \o <<Set(R("ecx"), "mul", <<R("ecx"), Imm(in.n)>>),
                      Set(R("eax"), "add", <<R("eax"), R("ecx")>>)>>)
GepField(in) == ThroughA(in, LoadA(in) \o <<Set(R("eax"), "add", <<R("eax"), Imm(in.n)>>)>>)
Str(in)      == ThroughA(in, <<Set(R("eax"), "string", <<>>)>>)

-----------------------------------------------------------------------------
CallFirstArgumentFirst(in) ==
  LET n == Len(in.args)
      push[k \in 0..n] ==
        IF k = 0 THEN <<>> ELSE push[k-1] \o LoadTo(in, k, "eax") \o <<Push(R("eax"))>>
  IN  ThroughA(in, push[n] \o <<Invoke(<<>>, n), MoveSp(n)>>)
Call(in) ==   \* every argument on the stack, the last one first
  LET n == Len(in.args)
      pushed(i) == IF IsImm(in.args[i]) THEN <<Push(Arg(in, i))>>
                   ELSE LoadTo(in, i, "eax") \o <<Push(R("eax"))>>
      push[k \in 0..n] == IF k = 0 THEN <<>> ELSE push[k-1] \o pushed(n + 1 - k)
  IN  ThroughA(in, push[n] \o <<Invoke(<<>>, n)>> \o (IF n > 0 THEN <<MoveSp(n)>> ELSE <<>>))
Ret(in) == (IF in.args = <<>> THEN <<Mov(Imm(0), R("eax"))>> ELSE LoadA(in))
             \o <<Do("ret", <<R("eax")>>)>>
Cbr(in) == LoadA(in) \o <<Do("cbr", <<R("eax")>>)>>
EdgeCopy(in) == ThroughA(in, LoadA(in))

(* A list is the address of the next argument; va_arg moves it on where it *)
(* lies.                                                                   *)
VaStart(in) == <<Set(R("eax"), "list", <<>>), Mov(R("eax"), Dst(in))>>
VaArg(in) ==
  <<Mov(Arg(in, 1), R("eax")), Set(R("edx"), "next", <<R("eax")>>),
    Set(R("eax"), "advance", <<R("eax")>>), Mov(R("eax"), Arg(in, 1)), Mov(R("edx"), Dst(in))>>

Code(in) ==
  CASE in.op \in Alus      -> Alu(in)
    [] in.op \in Divisions -> Divide(in)
    [] in.op \in Shifts    -> Shift(in)
    [] in.op \in Negations -> Negate(in)
    [] in.op = "icmp"      -> Compare(in)
    [] in.op \in Widths    -> Convert(in)
    [] in.op \in Floats    -> FpArith(in)
    [] in.op = "fneg"      -> FpNegate(in)
    [] in.op = "fcmp"      -> FpCompare(in)
    [] in.op \in FromInt \cup ToInt \cup FpToFp -> FpConvert(in)
    [] in.op = "alloca"    -> Alloca(in)
    [] in.op = "load"      -> Load(in)
    [] in.op = "store"     -> Store(in)
    [] in.op = "memcpy"    -> Memcpy(in)
    [] in.op = "gep"       -> Gep(in)
    [] in.op = "gep_field" -> GepField(in)
    [] in.op = "str"       -> Str(in)
    [] in.op = "call"      -> Call(in)
    [] in.op = "ret"       -> Ret(in)
    [] in.op = "cbr"       -> Cbr(in)
    [] in.op = "phi"       -> EdgeCopy(in)
    [] in.op = "va_start"  -> VaStart(in)
    [] in.op = "va_arg"    -> VaArg(in)
    [] OTHER               -> <<>>       \* br, va_end
=============================================================================
