------------------------------- MODULE Builder --------------------------------
(***************************************************************************)
(* The programmatic builder, src/ir/ir_builder.c: a client calls its       *)
(* operations in any order its header allows.  An operation appends        *)
(* instructions to the insertion block and returns a value; placeholders   *)
(* may be used before they are defined, and ir_builder_finalize rewrites   *)
(* them.                                                                   *)
(*                                                                         *)
(* An IRValue is [is, n]: "vreg" with its number, "int" or "fp" with the   *)
(* constant.  Of an instruction only dst and args are kept: no operation   *)
(* looks at the op, type, pred and labels it writes.                       *)
(***************************************************************************)
EXTENDS IR

CONSTANTS
  AliasCap,    \* entries of the alias tables at first, 1024 in the code
  FuncCap,     \* functions of a new module, 8 in the code
  MaxHops,     \* aliases resolve_vreg follows, 32 in the code
  MaxCallArgs, \* 16 in the code
  Ints, Fps,   \* the constants clients use,
  Literals,    \* and those they give an instruction directly, a bound
  MaxFuncs, MaxBlocks, MaxParams,   \* bounds: functions, blocks and parameters of a
  MaxInstrs, MaxPlaceholders        \* function, instructions and placeholders of the module

VARIABLES
  funcs,      \* functions, each a sequence of blocks, each a sequence of instructions
  array,      \* m->funcs as an array
  cur_func,   \* pointer to the current function, index 0 for none
  cur_block,  \* <<function, block>>, or <<0, 0>>
  next_vreg,
  alias,      \* alias_known, alias_vreg, alias_const and alias_is_fp
  fp,         \* the table of floating-point immediates
  placeholders, \* ghost: <<function, vreg>> of every placeholder
  finalized     \* ghost: has the client called nothing since it was finalized?

vars == <<funcs, array, cur_func, cur_block, next_vreg, alias, fp, placeholders, finalized>>

V(v) == [is |-> "vreg", n |-> v]

Unknown    == [is |-> "unknown", n |-> -1]
Aliases(n) == [v \in 0..n-1 |-> Unknown]

Init ==
  /\ funcs = <<>>
  /\ array = [n |-> 0, cap |-> FuncCap, gen |-> 0]
  /\ cur_func = PointerTo(array, 0) /\ cur_block = <<0, 0>>
  /\ next_vreg = 0
  /\ alias = Aliases(AliasCap)
  /\ fp = EmptyFp
  /\ placeholders = {} /\ finalized = FALSE

f == cur_func.index
Building == f # 0 /\ cur_block[1] = f

Written ==   \* instructions of the module
  Cardinality(UNION {UNION {{<<g, b>>} \X DOMAIN funcs[g][b] : b \in DOMAIN funcs[g]} : g \in DOMAIN funcs})

(* ir_builder_func: m->funcs may move; the pointer is taken after that.    *)
PointerBefore(a) == PointerTo(a, a.n + 1)   \* variant: taken before realloc
NewPointer(a)    == PointerTo(Pushed(a), a.n + 1)
Func ==
  /\ Len(funcs) < MaxFuncs /\ (f = 0 \/ Written \in 1..MaxInstrs-1)
  /\ funcs' = Append(funcs, <<>>)
  /\ array' = Pushed(array)
  /\ cur_func' = NewPointer(array)
  /\ next_vreg' = 0
  /\ alias' = [v \in DOMAIN alias |-> Unknown]
  /\ finalized' = FALSE
  /\ UNCHANGED <<cur_block, fp, placeholders>>

(* ir_builder_block; the bound lets blocks come before instructions. *)
Block ==
  /\ f # 0
  /\ Len(funcs[f]) < MaxBlocks /\ \A b \in DOMAIN funcs[f] : funcs[f][b] = <<>>
  /\ funcs' = [funcs EXCEPT ![f] = Append(@, <<>>)]
  /\ UNCHANGED <<array, cur_func, cur_block, next_vreg, alias, fp, placeholders, finalized>>

(* ir_set_insert; of the block that is the current one, it changes nothing. *)
SetInsert ==
  /\ f # 0
  /\ \E b \in DOMAIN funcs[f] : cur_block # <<f, b>> /\ cur_block' = <<f, b>>
  /\ UNCHANGED <<funcs, array, cur_func, next_vreg, alias, fp, placeholders, finalized>>

-----------------------------------------------------------------------------
(* alias_grow doubles the tables until v is below their size. *)
Size(al) == Cardinality(DOMAIN al)
GrowOnce(al, v) ==   \* variant: if instead of while
  IF v < Size(al) THEN al
  ELSE [u \in 0 .. 2 * Size(al) - 1 |-> IF u < Size(al) THEN al[u] ELSE Unknown]
Doubled(al, v) ==
  LET size[k \in 0..v] ==
        IF k = 0 THEN Size(al) ELSE IF v < size[k-1] THEN size[k-1] ELSE 2 * size[k-1]
  IN  size
GrowTo(al, v) ==
  [u \in 0 .. Doubled(al, v)[v] - 1 |-> IF u < Size(al) THEN al[u] ELSE Unknown]

(* Clients stay below the numbers of the parameters. *)
Numbered(n) == next_vreg + n <= ParamBase

Placeholder ==
  /\ f # 0
  /\ Cardinality(placeholders) < MaxPlaceholders /\ Numbered(1)
  /\ next_vreg' = next_vreg + 1
  /\ alias' = GrowTo(alias, next_vreg)
  /\ placeholders' = placeholders \cup {<<f, next_vreg>>}
  /\ UNCHANGED <<funcs, array, cur_func, cur_block, fp, finalized>>

(* What clients may pass: constants and the vregs of the current function, *)
(* those ir_arg gives for its parameters and those given out.              *)
Constants == [is : {"int"}, n : Ints] \cup [is : {"fp"}, n : Fps]

ASSUME BuilderAssumption ==
  /\ AliasCap \in Nat \ {0} /\ FuncCap \in Nat \ {0}
  /\ MaxHops \in Nat /\ MaxCallArgs \in Nat
  /\ MaxFuncs \in Nat /\ MaxBlocks \in Nat /\ MaxParams \in Nat
  /\ MaxInstrs \in Nat /\ MaxPlaceholders \in Nat
  /\ Literals \subseteq Constants

Arguments == {Param(i) : i \in 0..MaxParams-1}
Taken(n)  == (0..n-1) \cup Arguments
Vregs     == {V(v) : v \in Taken(next_vreg)}
Given     == Literals \cup Vregs
Definable == Constants \cup Vregs

Known(al, x)   == x.is = "vreg" /\ x.n \in DOMAIN al /\ al[x.n] # Unknown
ChainOf(al, x) ==   \* what x stands for, one after the other
  LET hop[k \in 0..MaxPlaceholders] ==
        IF k = 0 THEN x ELSE IF Known(al, hop[k-1]) THEN al[hop[k-1].n] ELSE hop[k-1]
  IN  hop

Pending == {v \in 0..next_vreg-1 : <<f, v>> \in placeholders}

(* ir_value_define; a client defines a placeholder once and not by itself. *)
Define ==
  /\ f # 0
  /\ \E p \in Pending, x \in Definable :
       /\ ~Known(alias, V(p)) /\ \A k \in 0..MaxPlaceholders : ChainOf(alias, x)[k] # V(p)
       /\ alias' = [GrowTo(alias, p) EXCEPT ![p] = x]
  /\ finalized' = FALSE
  /\ UNCHANGED <<funcs, array, cur_func, cur_block, next_vreg, fp, placeholders>>

-----------------------------------------------------------------------------
(* set_arg, for the arguments of one instruction in order: a constant of   *)
(* floating point is a new entry of the table every time.                  *)
FpPlaces(vals) == {i \in DOMAIN vals : vals[i].is = "fp"}
FpCount(vals, i) == Cardinality({j \in FpPlaces(vals) : j <= i})
FpsOf(vals) == [k \in 1..Cardinality(FpPlaces(vals)) |->
                  vals[CHOOSE i \in FpPlaces(vals) : FpCount(vals, i) = k].n]
Operand(x, k) ==   \* the k-th floating-point constant, if it is one
  CASE x.is = "vreg" -> Vreg(x.n)
    [] x.is = "int"  -> Imm(AsInt(x.n))
    [] x.is = "fp"   -> FpRef(FpIndex(fp, k))
    [] x.is = "null" -> None
Instr(dst, args) ==
  [dst |-> dst, args |-> [i \in DOMAIN args |-> Operand(args[i], FpCount(args, i))]]

(* Appends instructions, the last of them with these arguments; n vregs    *)
(* are new.                                                                *)
Emit(instrs, args, n) ==
  /\ Building /\ Written + Len(instrs) <= MaxInstrs /\ Numbered(n)
  /\ funcs' = [funcs EXCEPT ![cur_block[1]][cur_block[2]] = @ \o instrs]
  /\ fp' = FpAdded(fp, FpsOf(args))
  /\ next_vreg' = next_vreg + n
  /\ finalized' = FALSE
  /\ UNCHANGED <<array, cur_func, cur_block, alias, placeholders>>

EmitOne(args)  == Emit(<<Instr(next_vreg, args)>>, args, 1)
EmitBorrowed(args) == Emit(<<Instr(next_vreg, args)>>, args, 0)   \* variant: dst not consumed
EmitNone(args) == Emit(<<Instr(NoDst, args)>>, args, 0)

IntOf(n) == [is |-> "int", n |-> n]
Null     == [is |-> "null", n |-> 0]
Bytes    == 8   \* the size of the aggregates and allocas of clients

(* emit1: neg, not, fneg, conversions, a scalar load, va_arg, a field of a *)
(* structure.                                                              *)
Unary == \E x \in Given : EmitOne(<<x>>)

(* emit2: arithmetic, comparisons, gep. *)
Binary == \E x, y \in Given : EmitOne(<<x, y>>)

(* ir_alloca, ir_alloca_type, ir_str; ir_va_start, which has no operand.   *)
Alloca  == EmitOne(<<IntOf(Bytes)>>)
VaStart == EmitOne(<<>>)

Store == \E x, p \in Given : EmitNone(<<x, p>>)

(* A load of an aggregate is an alloca and a memcpy to it, a store of one  *)
(* a memcpy from the value to the pointer.                                 *)
Memcpy(dst, src) == <<dst, src, IntOf(Bytes)>>
LoadAggregate ==
  \E p \in Vregs :
    Emit(<<Instr(next_vreg, <<IntOf(Bytes)>>),
           Instr(NoDst, Memcpy(V(next_vreg), p))>>, <<>>, 1)
StoreAggregate == \E x, p \in Vregs : EmitNone(Memcpy(p, x))

(* ir_phi_n hands the first two of its values to ir_phi, NULL for what is  *)
(* missing.                                                                *)
Incoming(vals, i) == IF i \in DOMAIN vals THEN vals[i] ELSE Null
Phi == \E vals \in UNION {[1..n -> Given] : n \in 1..2} :
         EmitOne(<<Incoming(vals, 1), Incoming(vals, 2)>>)

(* ir_cbr, ir_va_end, ir_ret with a value, and ir_br, ir_unreachable and   *)
(* ir_ret without.                                                         *)
Consume == \E x \in Given : EmitNone(<<x>>)
Jump    == EmitNone(<<>>)

(* ir_call_n drops what exceeds its limit. *)
Call == \E args \in [1..MaxCallArgs+1 -> Given] : EmitOne(SubSeq(args, 1, MaxCallArgs))

-----------------------------------------------------------------------------
(* resolve_vreg: while the vreg is aliased and fewer than MaxHops were     *)
(* followed.  A constant is returned from inside the loop only.            *)
OneHop(v) == IF Known(alias, V(v)) THEN alias[v] ELSE V(v)   \* variant: no chains
Named(y) == Known(alias, y) /\ alias[y.n].is = "vreg"
Hops(v) ==
  LET hop[k \in 0..MaxHops] ==
        IF k = 0 THEN V(v) ELSE IF Named(hop[k-1]) THEN alias[hop[k-1].n] ELSE hop[k-1]
  IN  hop
ResolveVreg(v) ==
  LET constants == {k \in 0..MaxHops-1 : Known(alias, Hops(v)[k]) /\ ~Named(Hops(v)[k])}
  IN  IF constants = {} THEN Hops(v)[MaxHops] ELSE alias[Hops(v)[Min(constants)].n]

Places(fun) ==
  UNION {UNION {{<<b, k, a>> : a \in DOMAIN fun[b][k].args} : k \in DOMAIN fun[b]} : b \in DOMAIN fun}
Earlier(p, q) ==
  \/ p[1] < q[1]
  \/ p[1] = q[1] /\ p[2] < q[2]
  \/ p[1] = q[1] /\ p[2] = q[2] /\ p[3] < q[3]

(* Every operand of the current function that is a vreg, in order. *)
Finalize ==
  /\ f # 0
  /\ LET code    == funcs[f]
         at(p)   == code[p[1]][p[2]].args[p[3]]
         places  == {p \in Places(code) : at(p).kind = "vreg"}
         r(p)    == ResolveVreg(at(p).x)
         fps     == {p \in places : r(p).is = "fp"}
         nth(p)  == Cardinality({q \in fps : ~Earlier(p, q)})
         done(p) == IF p \in places THEN Operand(r(p), nth(p)) ELSE at(p)
     IN  /\ funcs' = [funcs EXCEPT ![f] =
                        [b \in DOMAIN code |-> [k \in DOMAIN code[b] |->
                           [code[b][k] EXCEPT !.args = [a \in DOMAIN @ |-> done(<<b, k, a>>)]]]]]
         /\ fp' = FpAdded(fp, [k \in 1..Cardinality(fps) |-> r(CHOOSE p \in fps : nth(p) = k).n])
  /\ finalized' = TRUE
  /\ UNCHANGED <<array, cur_func, cur_block, next_vreg, alias, placeholders>>

(* The operations that append instructions.  Arguments are chosen for them *)
(* only where the bound leaves room.                                       *)
Operation ==
  /\ Building /\ Written < MaxInstrs
  /\ \/ Unary
     \/ Binary
     \/ Alloca
     \/ VaStart
     \/ Store
     \/ LoadAggregate
     \/ StoreAggregate
     \/ Phi
     \/ Consume
     \/ Jump
     \/ Call

Next ==
  \/ Func
  \/ Block
  \/ SetInsert
  \/ Placeholder
  \/ Define
  \/ Operation
  \/ Finalize

Spec == Init /\ [][Next]_vars

-----------------------------------------------------------------------------
Operands(g) == {funcs[g][p[1]][p[2]].args[p[3]] : p \in Places(funcs[g])}
Definers(g) == UNION {{<<b, k>> : k \in {k \in DOMAIN funcs[g][b] : funcs[g][b][k].dst # NoDst}} : b \in DOMAIN funcs[g]}
Dsts(g) == {funcs[g][d[1]][d[2]].dst : d \in Definers(g)}

(* Type invariant: an operand of the current function names a vreg given   *)
(* out for it or a parameter, one of another function a vreg or a          *)
(* parameter; an index lies in the table, every alias is one the client    *)
(* gave.                                                                   *)
TypeOK ==
  /\ array.n = Len(funcs) /\ array.n <= array.cap
  /\ cur_func.index \in {0, Len(funcs)}
  /\ \A g \in DOMAIN funcs : \A o \in Operands(g) :
       \/ o.kind \in {"none", "imm"}
       \/ o.kind = "fp" /\ o.x \in 0 .. Min({fp.n, FpMax}) - 1
       \/ o.kind = "vreg" /\ o.x \in Taken(IF g = f THEN next_vreg ELSE ParamBase)
  /\ \A v \in DOMAIN alias : alias[v] = Unknown \/ (v \in Pending /\ alias[v] \in Definable)
  /\ Pending \subseteq DOMAIN alias
  /\ fp.n \in Nat /\ finalized \in BOOLEAN

(* The pointer the builder keeps to the current function is one into the   *)
(* present array, although ir_func_new may move it.                        *)
CurrentFunctionIsThere == ~Dangling(array, cur_func)

(* No vreg is defined by two instructions of a function, and a placeholder *)
(* by none.                                                                *)
NumbersApart ==
  /\ \A g \in DOMAIN funcs : Cardinality(Dsts(g)) = Cardinality(Definers(g))
  /\ f # 0 => Dsts(f) \cap Pending = {}

(* A function that was finalized mentions no placeholder that is defined.  *)
FinalizedMentionsNone ==
  finalized => \A o \in Operands(f) : o.kind = "vreg" => ~Known(alias, V(o.x))

(* Operands stand for what the client gave, or for what that finally is.   *)
ValueAt(o) ==
  CASE o.kind = "vreg" -> V(o.x)
    [] o.kind = "imm"  -> IntOf(o.x)
    [] o.kind = "fp"   -> [is |-> "fp", n |-> FpGet(fp, o.x)]
    [] o.kind = "none" -> Null
UsesOf(g) == [p \in Places(funcs[g]) |-> ValueAt(funcs[g][p[1]][p[2]].args[p[3]])]

(* Finalizing a function again changes nothing: "Safe to call multiple     *)
(* times; idempotent" (include/ir_builder.h:42).                           *)
FinalizeIsIdempotent ==
  [][finalized /\ finalized' => \A g \in DOMAIN funcs : UsesOf(g)' = UsesOf(g)]_vars

Numbers == Taken(ParamBase)
Worth   == Constants \cup {V(v) : v \in Numbers} \cup {Null, IntOf(Bytes)}
Meant == INSTANCE Substitution WITH
  uses <- [g \in DOMAIN funcs |-> UsesOf(g)],
  meaning <- [v \in Numbers |-> IF v \in DOMAIN alias /\ alias[v] # Unknown THEN alias[v]
                                 ELSE [is |-> "undefined", n |-> 0]],
  Placeholders <- Numbers,
  Values <- Worth

(* The builder implements Substitution: a use is rewritten to what its     *)
(* placeholder finally stands for, in the current function only, and the   *)
(* constant an operand refers to is never replaced by another one.         *)
ImplementsSubstitution == Meant!Spec
=============================================================================
