-------------------------------- MODULE X86_64 --------------------------------
(***************************************************************************)
(* The instructions src/targets/x86_64/isel.c prints.  Two register sets   *)
(* never meet: %r10, %r11, %rax, %rcx and %rdx hold no vreg.               *)
(***************************************************************************)
EXTENDS Asm

AREG == <<"rdi", "rsi", "rdx", "rcx", "r8", "r9">>

Through10(in, code) == Through(in, "r10", code)
ThroughA(in, code)  == Through(in, "rax", code)

(* In the register of the result, or in %r10. *)
Work(in) == IF InReg(in.dst) THEN in.dst.reg ELSE "r10"
Alu(in) ==
  Through(in, Work(in),
          LoadTo(in, 1, Work(in)) \o <<Set(R(Work(in)), in.op, <<R(Work(in)), Arg(in, 2)>>)>>)

Divide(in) ==   \* %rdx holds the upper half, then the remainder
  Through(in, IF IsRem(in.op) THEN "rdx" ELSE "rax",
    <<Mov(Arg(in, 1), R("rax")), Mov(Arg(in, 2), R("rcx")),
      Set(R("rdx"), Remainder(in.op), <<R("rax"), R("rcx")>>),
      Set(R("rax"), Quotient(in.op), <<R("rax"), R("rcx")>>)>>)

Shift(in) ==
  Through10(in, <<Mov(Arg(in, 1), R("r10")), Mov(Arg(in, 2), R("rcx")),
                  Set(R("r10"), in.op, <<R("r10"), R("rcx")>>)>>)
Negate(in) == Through10(in, <<Mov(Arg(in, 1), R("r10")), Set(R("r10"), in.op, <<R("r10")>>)>>)
Compare(in) ==
  ThroughA(in, <<Mov(Arg(in, 1), R("r10")), Mov(Arg(in, 2), R("r11")),
                 Set(R("rax"), in.op, <<R("r10"), R("r11")>>)>>)
Convert(in) ==
  ThroughA(in, <<Mov(Arg(in, 1), R("rax")), Set(R("rax"), LowByte(in.op), <<R("rax")>>)>>)

-----------------------------------------------------------------------------
(* Floating point: from and to the slots, in %xmm0 and %xmm1. *)
FpLoad(o, x) ==
  IF o.kind = "fp" THEN <<Mov(<<"fp", o.n>>, R("rax")), Mov(R("rax"), R(x))>>
  ELSE <<Mov(Slot(o), R(x))>>
FpArith(in) ==
  FpLoad(in.args[1], "xmm0") \o FpLoad(in.args[2], "xmm1")
    \o <<Set(R("xmm0"), in.op, <<R("xmm0"), R("xmm1")>>), Mov(R("xmm0"), Slot(in.dst))>>
FpNegate(in) ==
  FpLoad(in.args[1], "xmm0")
    \o <<Mov(Imm(0), R("rax")), Mov(R("rax"), R("xmm1")),
         Set(R("xmm0"), in.op, <<R("xmm0")>>), Mov(R("xmm0"), Slot(in.dst))>>
FpCompare(in) ==
  ThroughA(in, FpLoad(in.args[1], "xmm0") \o FpLoad(in.args[2], "xmm1")
                 \o <<Set(R("rax"), in.op, <<Imm(in.n), R("xmm0"), R("xmm1")>>)>>)
FpConvert(in) ==
  LET to == IF in.op \in ToInt THEN R("rax") ELSE R("xmm0")
      from == IF in.op \in FromInt THEN R("rax") ELSE R("xmm0")
  IN  (IF in.op \in FromInt THEN <<Mov(Arg(in, 1), R("rax"))>>
       ELSE FpLoad(in.args[1], "xmm0"))
        \o <<Set(to, in.op, <<from>>), Mov(to, Slot(in.dst))>>

-----------------------------------------------------------------------------
Alloca(in) == <<Set(R("rax"), "object", <<>>), Mov(R("rax"), Dst(in))>>
Load(in)   == ThroughA(in, <<Mov(Arg(in, 1), R("rax")), Set(R("rax"), "load", <<R("rax")>>)>>)
Store(in)  ==
  <<Mov(Arg(in, 1), R("rax")), Mov(Arg(in, 2), R("rcx")), Do("store", <<R("rax"), R("rcx")>>)>>
Memcpy(in) ==   \* rep movsb moves both pointers on
  <<Mov(Arg(in, 1), R("rdi")), Mov(Arg(in, 2), R("rsi")), Mov(Imm(in.n), R("rcx")),
    Do("memcpy", <<R("rdi"), R("rsi"), R("rcx")>>),
    Set(R("rdi"), "add", <<R("rdi"), R("rcx")>>), Set(R("rsi"), "add", <<R("rsi"), R("rcx")>>)>>
(* Elements of 2, 4 and 8 bytes: leaq (r10,r11,2), without the % of the    *)
(* registers.                                                              *)
Gep(in) ==
  Through10(in,
    <<Mov(Arg(in, 1), R("r10")), Mov(Arg(in, 2), R("r11"))>>
      \o IF in.n \in {2, 4, 8} THEN <<Refused>>
         ELSE <<Set(R("r11"), "mul", <<R("r11"), Imm(in.n)>>),
                Set(R("r10"), "add", <<R("r10"), R("r11")>>)>>)
GepField(in) ==
  Through10(in, <<Mov(Arg(in, 1), R("r10")), Set(R("r10"), "add", <<R("r10"), Imm(in.n)>>)>>)
Str(in) == <<Set(R("rax"), "string", <<>>), Mov(R("rax"), Dst(in))>>

-----------------------------------------------------------------------------
CallForgetsPadding(in) ==
  LET k == StackArgs(in, AREG)
      push[i \in 0..k] ==
        IF i = 0 THEN <<>>
        ELSE push[i-1] \o <<Mov(Arg(in, Len(in.args) + 1 - i), R("rax")), Push(R("rax"))>>
  IN  ThroughA(in, (IF k % 2 = 1 THEN <<MoveSp(-1)>> ELSE <<>>) \o push[k] \o LoadArgs(in, AREG)
                     \o <<Invoke(InRegs(in, AREG), k)>> \o (IF k > 0 THEN <<MoveSp(k)>> ELSE <<>>))
Call(in) ==   \* a word of padding keeps %rsp a multiple of 16
  LET k == StackArgs(in, AREG)
      pad == k % 2
      push[i \in 0..k] ==
        IF i = 0 THEN <<>>
        ELSE push[i-1] \o <<Mov(Arg(in, Len(in.args) + 1 - i), R("rax")), Push(R("rax"))>>
  IN  ThroughA(in, (IF pad = 1 THEN <<MoveSp(-1)>> ELSE <<>>) \o push[k] \o LoadArgs(in, AREG)
                     \o <<Invoke(InRegs(in, AREG), k)>>
                     \o (IF k > 0 THEN <<MoveSp(k + pad)>> ELSE <<>>))
Ret(in) == <<Mov(IF in.args = <<>> THEN Imm(0) ELSE Arg(in, 1), R("rax")),
             Do("ret", <<R("rax")>>)>>
Cbr(in) == <<Mov(Arg(in, 1), R("rax")), Do("cbr", <<R("rax")>>)>>
EdgeCopy(in) == <<Mov(Arg(in, 1), R("r10")), Mov(R("r10"), Dst(in))>>

(* The list lies in the frame; va_arg takes the next argument through %rbx. *)
VaStart(in) ==
  <<Set(R("rax"), "list", <<>>), Do("va_start", <<R("rax")>>), Set(R("rcx"), "save area", <<>>),
    Mov(R("rax"), Dst(in))>>
VaArg(in) ==
  <<Mov(Arg(in, 1), R("rax")), Set(R("rdx"), "area", <<R("rax")>>),
    Set(R("rbx"), "next", <<R("rax")>>), Do("advance", <<R("rax")>>), Mov(R("rbx"), Dst(in))>>

Code(in) ==
  CASE in.op \in Alus      -> Alu(in)
    [] in.op \in Divisions -> Divide(in)
    [] in.op \in Shifts    -> Shift(in)
    [] in.op \in Negations -> Negate(in)
    [] in.op = "icmp"      -> Compare(in)
    [] in.op \in Widths    -> Convert(in)
    [] in.op \in Floats    -> FpArith(in)
    [] in.op = "fneg"      -> FpNegate(in)
    [] in.op = "fcmp"      -> FpCompare(in)
    [] in.op \in FromInt \cup ToInt \cup FpToFp -> FpConvert(in)
    [] in.op = "alloca"    -> Alloca(in)
    [] in.op = "load"      -> Load(in)
    [] in.op = "store"     -> Store(in)
    [] in.op = "memcpy"    -> Memcpy(in)
    [] in.op = "gep"       -> Gep(in)
    [] in.op = "gep_field" -> GepField(in)
    [] in.op = "str"       -> Str(in)
    [] in.op = "call"      -> Call(in)
    [] in.op = "ret"       -> Ret(in)
    [] in.op = "cbr"       -> Cbr(in)
    [] in.op = "phi"       -> EdgeCopy(in)
    [] in.op = "va_start"  -> VaStart(in)
    [] in.op = "va_arg"    -> VaArg(in)
    [] OTHER               -> <<>>       \* br, va_end
=============================================================================
