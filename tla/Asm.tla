--------------------------------- MODULE Asm ---------------------------------
(***************************************************************************)
(* What the five src/targets/.../isel.c have in common: the operands of an *)
(* instruction of the IR, each with the place the register allocator gave  *)
(* it, and the instructions of the machine that are printed for it.        *)
(*                                                                         *)
(* An instruction is [op, args, dst, n]: a sequence of operands, the       *)
(* operand of its result (None without one) and pred or args[2], the       *)
(* number a gep, a gep_field, a memcpy or an fcmp carries.  Its type is as wide as a *)
(* register: canon prints nothing for it (module Machine has the others).  *)
(***************************************************************************)
EXTENDS Integers, Sequences

InMemory == "memory"   \* reg_of[v] < 0

Vreg(v, r) == [kind |-> "vreg", n |-> v, reg |-> r]
Const(c)   == [kind |-> "imm",  n |-> c, reg |-> InMemory]
FpConst(i) == [kind |-> "fp",   n |-> i, reg |-> InMemory]
None       == [kind |-> "none", n |-> 0, reg |-> InMemory]

InReg(o) == o.kind = "vreg" /\ o.reg # InMemory
IsMem(o) == o.kind = "vreg" /\ o.reg = InMemory
IsImm(o) == o.kind \in {"imm", "fp"}

-----------------------------------------------------------------------------
(* Places: a register, the slot of a vreg, a constant, a word above sp.    *)
R(r)       == <<"reg", r>>
Imm(c)     == <<"imm", c>>
Slot(o)    == <<"slot", o.n>>
AboveSp(k) == <<"sp", k>>

(* op_str: a floating-point immediate is printed as zero. *)
Place(o) == CASE InReg(o)         -> R(o.reg)
              [] IsMem(o)         -> Slot(o)
              [] o.kind = "imm"   -> Imm(o.n)
              [] OTHER            -> Imm(0)
Arg(in, i) == Place(in.args[i])
Dst(in)    == Place(in.dst)

(* Printed instructions: one that leaves op of the values at from in to,   *)
(* one that touches the world outside the function, a push, a change of sp *)
(* by n words, a call, and one the assembler refuses.                      *)
Set(to, op, from) == [do |-> "set", to |-> to, op |-> op, from |-> from]
Mov(from, to)     == Set(to, "mov", <<from>>)
Do(op, from)      == [do |-> "effect", op |-> op, from |-> from]
Push(from)        == [do |-> "push", from |-> from]
MoveSpInBytes(n)  == [do |-> "sp", by |-> 8 * n]
MoveSp(n)         == [do |-> "sp", by |-> n]
Invoke(regs, k)   == [do |-> "call", from |-> regs, stack |-> k]
Refused           == Do("does not assemble", <<>>)

(* load_to and store_from: nothing when it is there already. *)
Copy(from, to) == IF from = to THEN <<>> ELSE <<Mov(from, to)>>
LoadTo(in, i, r) == Copy(Arg(in, i), R(r))
StoreFrom(in, r) == IF in.dst = None THEN <<>> ELSE Copy(R(r), Dst(in))

(* Result o in register r: code that computes it there, then the store. *)
Through(in, r, code) == code \o StoreFrom(in, r)

(* The registers that take the first arguments of a call, one after the    *)
(* other.                                                                  *)
LoadArgs(in, areg) ==
  LET some == {a \in DOMAIN in.args : a <= Len(areg)}
      from[a \in 0..Len(areg)] ==
        IF a = 0 THEN <<>>
        ELSE from[a-1] \o (IF a \in some THEN LoadTo(in, a, areg[a]) ELSE <<>>)
  IN  from[Len(areg)]
StackArgs(in, areg) == IF Len(in.args) > Len(areg) THEN Len(in.args) - Len(areg) ELSE 0
InRegs(in, areg) == [a \in 1..(Len(in.args) - StackArgs(in, areg)) |-> R(areg[a])]

-----------------------------------------------------------------------------
Alus      == {"add", "sub", "mul", "and", "or", "xor"}
Divisions == {"sdiv", "udiv", "srem", "urem"}
Shifts    == {"shl", "lshr", "ashr"}
Negations == {"neg", "not"}
Widths    == {"zext", "sext", "trunc"}   \* each takes the low byte
Floats    == {"fadd", "fsub", "fmul", "fdiv"}
FromInt   == {"sitofp", "uitofp"}
ToInt     == {"fptosi", "fptoui"}
FpToFp    == {"fpext", "fptrunc"}

LowByte(op) == IF op = "sext" THEN "sign of byte" ELSE "byte"
Quotient(op) == IF op \in {"sdiv", "srem"} THEN "sdiv" ELSE "udiv"
Remainder(op) == IF op \in {"sdiv", "srem"} THEN "srem" ELSE "urem"
IsRem(op) == op \in {"srem", "urem"}
=============================================================================
