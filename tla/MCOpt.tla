------------------------------- MODULE MCOpt --------------------------------
(* Families of functions of one i32 parameter for module Opt.  Vregs are   *)
(* numbered as they are defined.                                           *)
EXTENDS Opt

CONSTANTS
  Families,    \* names of the families of functions of a run
  ParamBase,   \* PARAM_BASE: the vreg of the parameter
  SharedTypes  \* TRUE: one object per type (ir_builder.c); FALSE: one per
               \* instruction (lookup_ty of ir_parse.c)

P    == <<"vreg", ParamBase>>
V(v) == <<"vreg", v>>
C    == {Imm(0), Imm(1), Imm(2)}

Instr(op, ty, dst, args, pred, labels) ==
  [op |-> op, ty |-> <<ty, 0>>, dst |-> dst, args |-> args, pred |-> pred, labels |-> labels]
Op(op, v, args)    == Instr(op, "i32", v, args, 0, <<>>)
TyOp(op, ty, v, args) == Instr(op, ty, v, args, 0, <<>>)
Icmp(pred, v, x, y) == Instr("icmp", "i32", v, <<x, y>>, Pred[pred], <<>>)
Phi(v, x, y, from) == Instr("phi", "i32", v, <<x, y>>, 0, from)
Br(l)              == Instr("br", "void", NoVreg, <<>>, 0, <<l>>)
Cbr(x, l, m)       == Instr("cbr", "void", NoVreg, <<x>>, 0, <<l, m>>)
Ret(x)             == Op("ret", NoVreg, <<x>>)

Block(name, ins) == [name |-> name, ins |-> ins]
Typed(blocks) ==
  IF SharedTypes THEN blocks
  ELSE [b \in DOMAIN blocks |-> [blocks[b] EXCEPT !.ins =
          Eager([k \in DOMAIN @ |-> [@[k] EXCEPT !.ty = <<@[1], 10 * b + k>>]])]]
Fn(blocks)    == [params |-> {ParamBase}, blocks |-> Eager(Typed(blocks))]
Straight(ins) == Fn(<<Block("a", ins)>>)

MCInputsOf(g) ==
  {[params |-> [v \in {ParamBase} |-> x], returned |-> 3, frame |-> 1,
    variadic |-> <<1, 2>>] : x \in {-3, 0, 5}}

-----------------------------------------------------------------------------
(* Two operations, the second on the result of the first.  Constants stay  *)
(* small enough for every constant result to fit an int.                   *)
Binary == {"add", "sub", "mul", "and", "or", "xor", "sdiv", "srem", "udiv", "urem"}
First ==
  {Op(op, 0, <<P, c>>) : op \in {"add", "sub", "mul", "and", "udiv", "urem", "lshr"}, c \in C}
  \cup {Op(op, 0, <<c, P>>) : op \in {"sub", "mul", "or"}, c \in C}
  \cup {Op("add", 0, <<Imm(1), Imm(1)>>), Op("sub", 0, <<Imm(1), Imm(2)>>),
        Op("not", 0, <<P>>), Icmp("ult", 0, P, Imm(2)), Icmp("sge", 0, P, P),
        Op("zext", 0, <<P>>)}
Second ==
  UNION {{Op(op, 1, <<V(0), x>>), Op(op, 1, <<x, V(0)>>)} :
           op \in Binary, x \in C \cup {P, V(0)}}
  \cup {Op(op, 1, <<V(0), x>>) : op \in Shifts, x \in C}
  \cup {Op("neg", 1, <<V(0)>>), Op("sext", 1, <<V(0)>>), Icmp("sle", 1, V(0), Imm(1)),
        Icmp("ne", 1, V(0), V(0))}
TwoOps == {Straight(<<a, b, Ret(V(1))>>) : a \in First, b \in Second}

(* Three operations, the last on the results of the first two. *)
Closed(v, X) ==
  UNION {{Op("add", v, <<x, Imm(2)>>), Op("mul", v, <<x, Imm(2)>>), Op("xor", v, <<Imm(0), x>>),
          Op("sub", v, <<P, x>>)} : x \in X}
ThreeOps == {Straight(<<a, b, Op(op, 2, <<V(0), V(1)>>), Ret(V(2))>>) :
               a \in Closed(0, {P}), b \in Closed(1, {P, V(0)}), op \in {"sub", "or"}}

StraightPrograms == TwoOps \cup ThreeOps

-----------------------------------------------------------------------------
Conds == {Icmp("eq", 0, P, P), Icmp("sgt", 0, P, Imm(1)), Icmp("slt", 0, Imm(2), Imm(1)),
          Op("and", 0, <<P, Imm(0)>>), Op("srem", 0, <<P, Imm(2)>>)}
Arm(v)   == {Op("add", v, <<P, Imm(0)>>), Op("mul", v, <<P, Imm(2)>>),
             Op("add", v, <<Imm(2), Imm(1)>>)}
Diamonds ==
  {Fn(<<Block("a", <<c, Cbr(V(0), "b", "c")>>), Block("b", <<x, Br("d")>>),
        Block("c", <<y, Br("d")>>),
        Block("d", <<Phi(3, p[1], p[2], <<"b", "c">>), z, Ret(V(4))>>)>>) :
     c \in Conds, x \in Arm(1), y \in Arm(2),
     p \in {<<V(1), V(2)>>, <<P, P>>, <<Imm(0), Imm(0)>>, <<Imm(2), Imm(2)>>, <<V(1), V(0)>>},
     z \in {Op("add", 4, <<V(3), Imm(1)>>), Icmp("ule", 4, V(3), V(3))}}

(* A loop whose body comes before or after the exit in the layout. *)
Loops ==
  LET entry(i) == Block("a", <<i, Br("h")>>)
      head(x)  == Block("h", <<Phi(1, x, V(3), <<"a", "b">>), Icmp("slt", 2, V(1), Imm(2)),
                               Cbr(V(2), "b", "x")>>)
      body(n)  == Block("b", <<n, Br("h")>>)
      exit     == Block("x", <<Op("call", 4, <<V(1)>>), Ret(V(1))>>)
  IN  {Fn(<<entry(i), head(x)>> \o (IF last THEN <<exit, body(n)>> ELSE <<body(n), exit>>)) :
         i \in {Op("mul", 0, <<P, Imm(1)>>), Op("sub", 0, <<Imm(0), Imm(1)>>)},
         x \in {V(0), P, Imm(0)},
         n \in {Op("add", 3, <<V(1), Imm(1)>>), Op("sub", 3, <<V(1), V(0)>>),
                Op("mul", 3, <<V(1), Imm(2)>>)},
         last \in BOOLEAN}

BlockPrograms == Diamonds \cup Loops

-----------------------------------------------------------------------------
(* Stores, loads and calls on two cells of the frame, vregs 0 and 1. *)
Effects(v, latest) ==
  {Op("store", NoVreg, <<P, V(0)>>), Op("store", NoVreg, <<Imm(1), V(0)>>),
   Op("store", NoVreg, <<latest, V(1)>>), Op("load", v, <<V(0)>>), Op("load", v, <<V(1)>>),
   TyOp("load", "i8", v, <<V(0)>>), Op("call", v, <<latest>>)}
Latest(ins) == LET D == {k \in DOMAIN ins : ins[k].dst # NoVreg}
               IN  IF D = {} THEN P ELSE V(ins[Max(D)].dst)
Longer(S) == UNION {{Append(ins, e) : e \in Effects(Len(ins) + 2, Latest(ins))} : ins \in S}
MemoryPrograms ==
  {Straight(<<Op("alloca", 0, <<Imm(1)>>), Op("alloca", 1, <<Imm(1)>>)>> \o ins \o
            <<Op("call", NoVreg, <<P>>), Ret(Latest(ins))>>) :
     ins \in Longer(Longer(Longer(Longer({<<>>}))))}

-----------------------------------------------------------------------------
(* Two objects of two cells, vregs 0 and 1, pointers into them, 2 to 4, of *)
(* which two are equal, and three stores, loads and copies through them.   *)
Field(v, x, off) == Instr("gep_field", "s", v, <<x>>, off, <<>>)
Gep(v, x, i)     == Instr("gep", "i32", v, <<x, i>>, 1, <<>>)
Memcpy(x, y, n)  == Instr("memcpy", "none", NoVreg, <<x, y, Imm(n)>>, 0, <<>>)
Pointers(i, j) ==
  <<Op("alloca", 0, <<Imm(2)>>), Op("alloca", 1, <<Imm(2)>>),
    Field(2, V(0), 1), i, j>>
Through(v, latest) ==
  {Op("store", NoVreg, <<x, V(p)>>) : x \in {P, latest}, p \in {0, 3, 4}}
  \cup {Op("load", v, <<V(p)>>) : p \in {0, 2, 3, 4}}
  \cup {Memcpy(V(0), V(1), 2), Memcpy(V(1), V(2), 1)}
Further(S) == UNION {{Append(ins, e) : e \in Through(Len(ins) + 5, Latest(ins))} : ins \in S}
PointerPrograms ==
  {Straight(Pointers(g[1], g[2]) \o ins \o
            <<Op("load", 10, <<V(2)>>), Op("call", NoVreg, <<V(10)>>), Ret(Latest(ins))>>) :
     g \in {<<Field(3, V(0), 0), Field(4, V(0), 1)>>, <<Gep(3, V(0), Imm(1)), Gep(4, V(0), P)>>},
     ins \in Further(Further(Further({<<>>})))}

-----------------------------------------------------------------------------
(* Floating-point immediates beside ints of the same number; strings; the  *)
(* arguments of a variadic function, of two types.                         *)
Fp(i) == <<"fp", i>>
Float2(op, v, x, y) == Instr(op, "f64", v, <<x, y>>, 0, <<>>)
FloatPrograms ==
  {Straight(<<Op("alloca", 0, <<Imm(1)>>), TyOp("store", "f64", NoVreg, <<x, V(0)>>),
              TyOp("load", "f64", 1, <<V(0)>>), Float2("fadd", 2, V(1), y), a,
              Instr("fcmp", "f64", 4, <<V(2), V(3)>>, q, <<>>),
              Instr("fcmp", "f64", 5, <<V(2), V(3)>>, 1, <<>>),
              Op("call", NoVreg, <<V(4)>>), Op("fptosi", 6, <<V(3)>>), Op("add", 7, <<V(5), V(6)>>),
              Ret(V(7))>>) :
     x \in {Fp(0), Fp(1), Imm(0), P}, y \in {Fp(0), Fp(1), V(1)}, q \in {0, 1},
     a \in {Float2("fadd", 3, V(1), Fp(0)), Float2("fmul", 3, V(2), Fp(1)),
            Op("sitofp", 3, <<P>>), Op("fneg", 3, <<V(2)>>)}}
  \cup {Fn(<<Block("a", <<c, Cbr(V(0), "b", "c")>>), Block("b", <<Br("d")>>), Block("c", <<Br("d")>>),
             Block("d", <<Phi(3, x, y, <<"b", "c">>), Op("fptosi", 4, <<V(3)>>), Ret(V(4))>>)>>) :
          c \in Conds, x \in {Fp(0), Fp(1), Imm(0)}, y \in {Fp(0), Imm(0)}}
StringPrograms ==
  {Straight(<<Op("str", 0, <<Imm(i)>>), Op("str", 1, <<Imm(j)>>), Op("icmp", 2, <<V(0), V(1)>>),
              Gep(3, V(1), V(2)), Op("call", NoVreg, <<V(3)>>), Ret(V(2))>>) : i \in 0..1, j \in 0..1}
VariadicPrograms ==
  {Straight(<<Op("va_start", 0, <<>>), Op("va_arg", 1, <<V(0)>>), TyOp("va_arg", "i64", 2, <<V(0)>>),
              o, Op("va_end", NoVreg, <<V(0)>>), Ret(V(3))>>) :
     o \in {Op("sub", 3, <<V(1), V(2)>>), Op("mul", 3, <<V(2), V(1)>>)}}
UnreachablePrograms ==
  {Fn(<<Block("a", <<c, Cbr(V(0), "b", "c")>>), Block("b", <<Op("unreachable", NoVreg, <<>>)>>),
        Block("c", <<Ret(x)>>)>>) : c \in Conds, x \in {P, V(0)}}
OtherPrograms == UnreachablePrograms \cup FloatPrograms \cup StringPrograms \cup VariadicPrograms

-----------------------------------------------------------------------------
(* Each of these misleads one pass. *)
Chains ==
  {Straight(<<Op(op, 0, <<P>>), Op(op, 1, <<V(0)>>), Ret(V(1))>>) : op \in {"zext", "sext"}}
SignBit ==
  {Straight(<<Op("shl", 0, <<Imm(1), Imm(W32-1)>>), Op("lshr", 1, <<V(0), Imm(1)>>), Ret(V(1))>>)}
UnusedVariadic ==
  {Straight(<<Op("va_start", 0, <<>>), Op("va_arg", 1, <<V(0)>>), Op("va_arg", 2, <<V(0)>>),
              Ret(V(2))>>)}
(* Two arguments of one type: with shared types they are one expression. *)
TwoVariadic ==
  {Straight(<<Op("va_start", 0, <<>>), Op("va_arg", 1, <<V(0)>>), Op("va_arg", 2, <<V(0)>>),
              Op("sub", 3, <<V(1), V(2)>>), Ret(V(3))>>)}
(* A byte is stored with more bits than it has, and loaded. *)
NarrowStore ==
  {Straight(<<Op("alloca", 0, <<Imm(1)>>), TyOp("store", "i8", NoVreg, <<P, V(0)>>),
              TyOp("load", "i8", 1, <<V(0)>>), Ret(V(1))>>)}
LateConstant ==
  {Fn(<<Block("a", <<Br("h")>>),
        Block("h", <<Phi(1, Imm(0), V(3), <<"a", "b">>), Icmp("slt", 2, V(1), P),
                     Cbr(V(2), "b", "x")>>),
        Block("b", <<Op("add", 3, <<Imm(0), Imm(6)>>), Br("h")>>),
        Block("x", <<Ret(V(1))>>)>>)}
Repeat ==
  {Straight(<<Op("mul", 0, <<P, P>>), Op("mul", 1, <<P, P>>), Op("sub", 2, <<V(0), V(1)>>),
              Ret(V(2))>>)}
(* One store, then n loads of the cell and n calls with what they loaded. *)
Reloads(n) ==
  {Straight(<<Op("alloca", 0, <<Imm(1)>>), Op("store", NoVreg, <<P, V(0)>>)>>
            \o [k \in 1..n |-> Op("load", k, <<V(0)>>)]
            \o [k \in 1..n |-> Op("call", NoVreg, <<V(k)>>)] \o <<Ret(P)>>)}

FamilyOf(name) ==
  CASE name = "straight" -> StraightPrograms
    [] name = "blocks"   -> BlockPrograms
    [] name = "memory"   -> MemoryPrograms
    [] name = "pointers" -> PointerPrograms
    [] name = "others"   -> OtherPrograms
    [] name = "chains"   -> Chains
    [] name = "two_variadic" -> TwoVariadic
    [] name = "narrow_store" -> NarrowStore
    [] name = "sign_bit" -> SignBit
    [] name = "unused_variadic" -> UnusedVariadic
    [] name = "late_constant"   -> LateConstant
    [] name = "repeat"   -> Repeat
    [] name = "reloads"  -> Reloads(Total + 1)
MCPrograms == UNION {FamilyOf(name) : name \in Families}
=============================================================================
