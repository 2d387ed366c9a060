-------------------------------- MODULE MCIsel --------------------------------
(***************************************************************************)
(* Every instruction on every target with its operands in memory, in a     *)
(* register a call loses, in one it keeps, or constant.  Places are those  *)
(* the allocator may give: the result shares none with an operand (module  *)
(* Allocation), an operand or result of a call is in no register it loses, *)
(* and what a floating-point instruction works on is in memory.            *)
(***************************************************************************)
EXTENDS Isel

Some == [x86_64 |-> {"rsi", "rdi", "rbx", "r12"}, x86 |-> {"ebx", "esi", "edi"},
         arm64 |-> {"x12", "x13", "x19", "x20"}, riscv |-> {"t2", "t3", "s1", "s2"},
         arm |-> {"r4", "r5", "r11"}]
Places(t, lost) == {InMemory} \cup (Some[t] \ (IF lost THEN {} ELSE Lost[t]))

Ins(op, args, dst, n) == [op |-> op, args |-> args, dst |-> dst, n |-> n]

OneArg(t)  == {Vreg(1, r) : r \in Places(t, TRUE)} \cup {Const(5)}
TwoArgs(t) ==
  {<<a, b>> \in OneArg(t) \X ({Vreg(2, r) : r \in Places(t, TRUE)} \cup {Const(6)}) :
     InReg(a) => a.reg # b.reg}
    \cup {<<a, a>> : a \in OneArg(t)}
FpArgs == {Vreg(1, InMemory), FpConst(1)}
InSlot == Vreg(0, InMemory)

Binary(t)  == {Ins(op, as, d, 0) : op \in {"sub", "mul", "and", "sdiv", "urem", "shl", "icmp"},
                                   as \in TwoArgs(t), d \in {Vreg(0, r) : r \in Places(t, TRUE)}}
Geps(t)    == {Ins("gep", as, d, n) : as \in TwoArgs(t), d \in {Vreg(0, r) : r \in Places(t, TRUE)},
                                      n \in {1, 4, 12}}
Unary(t)   == {Ins(op, <<a>>, d, 3) : op \in {"not", "sext", "trunc", "load", "gep_field", "phi"},
                                      a \in OneArg(t), d \in {Vreg(0, r) : r \in Places(t, TRUE)}}
VaArgs(t)  == {Ins("va_arg", <<a>>, d, 0) : a \in OneArg(t) \ {Const(5)},
                                            d \in {Vreg(0, r) : r \in Places(t, TRUE)}}
Nullary(t) == {Ins(op, <<>>, Vreg(0, r), 0) : op \in {"alloca", "str", "va_start"},
                                              r \in Places(t, TRUE)}
Outside(t) == {Ins(op, as, None, 3) : op \in {"store", "memcpy"}, as \in TwoArgs(t)}
                \cup {Ins(op, <<a>>, None, 0) : op \in {"ret", "cbr"}, a \in OneArg(t)}
                \cup {Ins("ret", <<>>, None, 0)}
Fps        == {Ins(op, <<a, b>>, InSlot, 0) : op \in {"fsub", "fcmp"}, a \in FpArgs,
                                              b \in {Vreg(2, InMemory), FpConst(2)}}
                \cup {Ins("fcmp", <<a, a>>, InSlot, p) : a \in FpArgs, p \in {2, 7}}
                \cup {Ins(op, <<a>>, InSlot, 0) : op \in {"fneg", "fptosi", "fpext"}, a \in FpArgs}
                \cup {Ins("sitofp", <<a>>, InSlot, 0) : a \in {Vreg(1, InMemory), Const(5)}}

(* Calls with two arguments, and with one and two more than the registers  *)
(* take; the ones between the first and the last are constants.            *)
Called(t) ==
  LET first == {Vreg(1, r) : r \in Places(t, FALSE)} \cup {Const(5)}
      last  == {Vreg(2, r) : r \in Places(t, FALSE)} \cup {Const(6)}
      args(n, a, b) == [k \in 1..n |-> IF k = 1 THEN a ELSE IF k = n THEN b ELSE Const(10 + k)]
  IN  {Ins("call", args(n, a, b), d, 0) :
         n \in {2, 3, ArgRegs[t] + 1, ArgRegs[t] + 2}, a \in first, b \in last,
         d \in {Vreg(0, r) : r \in Places(t, FALSE)} \cup {None}}

AllOf(t) == {i \in Binary(t) \cup Geps(t) \cup Unary(t) \cup VaArgs(t) \cup Nullary(t)
                     \cup Outside(t) \cup Fps \cup Called(t) : IsInstruction(t, i)}

MCCases == {c \in UNION {{t} \X AllOf(t) : t \in Targets} : ~Wrong(c[1], c[2])}

(* An element of an array, the index in a register. *)
GepCases == {c \in UNION {{t} \X Geps(t) : t \in {"arm64", "riscv", "arm"}} :
               IsInstruction(c[1], c[2]) /\ c[2].n = 4 /\ InReg(c[2].args[2])}
===============================================================================
