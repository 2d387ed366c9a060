--------------------------------- MODULE Opt --------------------------------
(***************************************************************************)
(* The optimizer, src/backend/opt.c: the passes over one function, one     *)
(* action per pass (per sweep of dead code elimination), in the order of   *)
(* ir_optimize_func.  A pass rewrites the instructions in place or leaves  *)
(* a note in alias, which copy propagation carries out.                    *)
(***************************************************************************)
EXTENDS Machine, FiniteSetsExt, SequencesExt

CONSTANTS
  Programs,    \* the functions considered
  InputsOf(_), \* the inputs a function is run on
  Iterations,  \* iterations of ir_optimize_func, 8 in the code
  Rounds,      \* calls of ir_optimize by target_emit_dispatch, 2 in the code
  FoldPasses   \* sweeps of one call of ir_constfold_func, 16 in the code

ASSUME BoundsAssumption == /\ Iterations \in Nat \ {0} /\ Rounds \in Nat \ {0}
                           /\ FoldPasses \in Nat \ {0}

VARIABLES
  f,        \* the function
  stage,    \* the pass that runs next, or "done"
  iter,     \* iterations completed, over all rounds
  alias,    \* of a vreg: what its uses are to be replaced by, in the code's marks
  expected, \* history: per input, what the function did before the first pass
  before    \* history: f when the iteration began

vars == <<f, stage, iter, alias, expected, before>>

NoAlias == -1
Zero    == -2
One     == -3

Total == Iterations * Rounds

Imm(c)      == <<"imm", c>>
IsImm(arg)  == arg[1] = "imm"
IsVreg(arg) == arg[1] = "vreg"

Blocks(g)  == DOMAIN g.blocks
Points(g)  == UNION {{b} \X DOMAIN g.blocks[b].ins : b \in Blocks(g)}
At(g, p)   == g.blocks[p[1]].ins[p[2]]
Instrs(g)  == {At(g, p) : p \in Points(g)}
UsesOf(in) == {in.args[a][2] : a \in {i \in DOMAIN in.args : IsVreg(in.args[i])}}
Used(g)    == UNION {UsesOf(in) : in \in Instrs(g)}

MaxV(g) == Max(UNION {{in.dst} \cup UsesOf(in) : in \in Instrs(g)} \cup {0})

SideEffects == {"store", "call", "br", "cbr", "ret", "unreachable"}

(* A tuple, so that a pass is evaluated once and not at every use. *)
Eager(s) == <<>> \o s
EachInstr(g, T(_)) ==
  [g EXCEPT !.blocks = Eager([b \in Blocks(g) |->
     [g.blocks[b] EXCEPT !.ins = Eager([k \in DOMAIN @ |-> T(@[k])])]])]

-----------------------------------------------------------------------------
(* Constant folding.  It works on int64_t where the instruction works on   *)
(* its type, and the constant goes through an int when it is substituted.  *)
Foldable == Divisions \cup Shifts \cup Conversions \cup
            {"add", "sub", "mul", "and", "or", "xor", "neg", "not", "icmp"}

FoldDefined(in, a, b) ==
  /\ in.op \in Foldable
  /\ ~Faults(in.op, a, b)
  /\ in.op \in Shifts => b \in 0..W64-1

Folded(in, a, b) ==
  CASE in.op = "icmp"              -> Truth(Compare(in.pred, a, b, W64))
    [] in.op \in {"zext", "trunc"} -> Low(a, W32)
    [] in.op = "sext"              -> a
    [] OTHER                       -> Arith(in.op, a, b)

Substituted(in, known) ==
  [in EXCEPT !.args = Eager([a \in DOMAIN @ |->
     IF IsVreg(@[a]) /\ @[a][2] \in DOMAIN known
     THEN Imm(Wrap(known[@[a][2]], W32))
     ELSE @[a]])]

(* One instruction of a sweep: its known arguments are replaced, and what  *)
(* it computes from immediates is known from here on.                      *)
Learned(in, known) ==
  LET a0 == in.args[1][2]
      a1 == IF Len(in.args) > 1 THEN in.args[2][2] ELSE 0
  IN  IF /\ in.op \in Foldable /\ in.dst # NoVreg
         /\ \A a \in DOMAIN in.args : IsImm(in.args[a])
         /\ FoldDefined(in, a0, a1)
      THEN Set(known, in.dst, Folded(in, a0, a1))
      ELSE known

InLayout(g) == FlattenSeq([b \in Blocks(g) |-> [k \in DOMAIN g.blocks[b].ins |-> <<b, k>>]])

(* A sweep in layout order, and sweeps until one of them replaces nothing. *)
Sweep(g, known0) ==
  LET order == InLayout(g)
      done[i \in 0..Len(order)] ==
        IF i = 0 THEN [g |-> g, known |-> known0]
        ELSE LET prev == done[i-1]
                 p    == order[i]
                 new  == Substituted(At(prev.g, p), prev.known)
             IN  [g     |-> [prev.g EXCEPT !.blocks[p[1]].ins[p[2]] = new],
                  known |-> Learned(new, prev.known)]
  IN  done[Len(order)]

ConstFold(g) ==
  LET sweep[i \in 0..FoldPasses] ==
        IF i = 0 THEN [g |-> g, known |-> <<>>, changed |-> TRUE]
        ELSE LET prev == sweep[i-1]
             IN  IF ~prev.changed THEN prev
                 ELSE LET next == Sweep(prev.g, prev.known)
                      IN  [g |-> next.g, known |-> next.known, changed |-> next.g # prev.g]
  IN  sweep[FoldPasses].g

-----------------------------------------------------------------------------
(* Dead code.  A sweep drops what is unused and has no effect; one that    *)
(* drops something asks for another, with no bound on their number.        *)
Kept(in, used) == in.op \in SideEffects \/ in.dst = NoVreg \/ in.dst \in used
DropUnused(g) ==
  LET used == Used(g)
  IN  [g EXCEPT !.blocks = Eager([b \in Blocks(g) |->
         [g.blocks[b] EXCEPT !.ins = SelectSeq(@, LAMBDA in : Kept(in, used))]])]
AnyUnused(g) ==   \* variant for the mutation runs: effects looked at after `changed`
  \E in \in Instrs(g) : in.dst # NoVreg /\ in.dst \notin Used(g)
Changed(g) == \E in \in Instrs(g) : ~Kept(in, Used(g))

-----------------------------------------------------------------------------
(* The passes that write alias: what each of them says of the instruction  *)
(* at p, or NoAlias where it says nothing.                                 *)
IsConst(arg, c) == arg = Imm(c)

Algebraic(g, p) ==
  LET in == At(g, p)
      x  == in.args[1]
      y  == in.args[2]
  IN  IF Len(in.args) # 2 THEN NoAlias
      ELSE IF \/ in.op \in {"add", "or", "xor"} /\ IsConst(x, 0)
              \/ in.op = "mul" /\ IsConst(x, 1) THEN y[2]
      ELSE IF \/ in.op \in {"add", "sub", "or", "xor"} \cup Shifts /\ IsConst(y, 0)
              \/ in.op = "mul" /\ IsConst(y, 1) THEN x[2]
      ELSE IF in.op \in {"mul", "and"} /\ (IsConst(x, 0) \/ IsConst(y, 0)) THEN Zero
      ELSE NoAlias

SameExpr(in, prev) == /\ prev.op = in.op /\ prev.ty = in.ty
                      /\ prev.pred = in.pred /\ prev.args = in.args
                      /\ prev.dst # NoVreg
CseExempt == SideEffects \cup {"phi", "alloca", "str", "load"}
CseOffByOne(g, p) ==   \* variant for the mutation runs: misses the neighbour
  LET ins  == g.blocks[p[1]].ins
      in   == ins[p[2]]
      same == {k \in 1..p[2]-2 : SameExpr(in, ins[k])}
  IN  IF in.op \in CseExempt \/ same = {} THEN NoAlias ELSE ins[Max(same)].dst
Cse(g, p) ==
  LET ins  == g.blocks[p[1]].ins
      in   == ins[p[2]]
      same == {k \in 1..p[2]-1 : SameExpr(in, ins[k])}
  IN  IF in.op \in CseExempt \/ same = {} THEN NoAlias ELSE ins[Max(same)].dst

PhiOfAnything(g, p) ==   \* variant for the mutation runs: no look at the kind
  LET in == At(g, p)
  IN  IF in.op # "phi" \/ in.args[1] # in.args[2] THEN NoAlias ELSE in.args[1][2]
PhiSimplify(g, p) ==
  LET in == At(g, p)
  IN  IF in.op # "phi" \/ in.args[1] # in.args[2] THEN NoAlias
      ELSE IF IsVreg(in.args[1]) THEN in.args[1][2]
      ELSE IF IsConst(in.args[1], 0) THEN Zero
      ELSE NoAlias

FoldSelfIcmp(g, p) ==
  LET in == At(g, p)
  IN  IF in.op # "icmp" \/ ~IsVreg(in.args[1]) \/ in.args[1] # in.args[2] THEN NoAlias
      ELSE IF in.pred \in {Pred.eq, Pred.sle, Pred.sge, Pred.ule, Pred.uge} THEN One ELSE Zero

DefOf(g, v) == CHOOSE in \in Instrs(g) : in.dst = v /\ in.op \notin SideEffects
HasDef(g, v) == \E in \in Instrs(g) : in.dst = v /\ in.op \notin SideEffects
CollapseExt(g, p) ==
  LET in  == At(g, p)
      def == DefOf(g, in.args[1][2])
  IN  IF /\ in.op \in Conversions
         /\ IsVreg(in.args[1]) /\ HasDef(g, in.args[1][2])
         /\ \/ in.op \in {"zext", "sext"} /\ def.op = in.op
            \/ in.op = "trunc" /\ def.op \in {"zext", "sext"} /\ def.ty = in.ty
         /\ IsVreg(def.args[1])
      THEN def.args[1][2] ELSE NoAlias

AnyPointer(st, ld)  == st.op = "store" /\ ld.op = "load" /\ st.ty = ld.ty   \* variant
Forwards(st, ld) == /\ st.op = "store" /\ ld.op = "load"
                    /\ IsVreg(st.args[2]) /\ st.args[2] = ld.args[1]
                    /\ st.ty = ld.ty
LoadElim(g, p) ==
  LET ins == g.blocks[p[1]].ins
      x   == ins[p[2]-1].args[1]
  IN  IF p[2] = 1 \/ ~Forwards(ins[p[2]-1], ins[p[2]]) THEN NoAlias
      ELSE IF IsVreg(x) THEN x[2]
      ELSE IF x = Imm(0) THEN Zero
      ELSE IF x = Imm(1) THEN One
      ELSE NoAlias

(* alias after a pass that says Says(g, p) of the instruction at p. *)
Noted(g, al, Says(_, _)) ==
  [v \in DOMAIN al |->
     LET said == {Says(g, p) : p \in {q \in Points(g) : At(g, q).dst = v}} \ {NoAlias}
     IN  IF said = {} THEN al[v] ELSE CHOOSE a \in said : TRUE]

-----------------------------------------------------------------------------
Powers == {2^n : n \in 1..W32-2}   \* powers of two an int holds, from 2 on
Log2(c) == CHOOSE n \in 1..W32-2 : 2^n = c

Reduced(in) ==
  IF Len(in.args) # 2 \/ ~IsImm(in.args[2]) \/ in.args[2][2] \notin Powers THEN in
  ELSE LET c == in.args[2][2]
           to(op, d) == [in EXCEPT !.op = op, !.args[2] = Imm(d)]
       IN  CASE in.op = "mul"  -> to("shl", Log2(c))
             [] in.op = "udiv" -> to("lshr", Log2(c))
             [] in.op = "urem" -> to("and", c - 1)
             [] OTHER          -> in

Propagated(in, al) ==
  [in EXCEPT !.args = Eager([a \in DOMAIN @ |->
     IF ~IsVreg(@[a]) \/ @[a][2] \notin DOMAIN al THEN @[a]
     ELSE CASE al[@[a][2]] = Zero    -> Imm(0)
            [] al[@[a][2]] = One     -> Imm(1)
            [] al[@[a][2]] >= 0      -> <<"vreg", al[@[a][2]]>>
            [] OTHER                 -> @[a]])]

(* A branch on a constant becomes a jump, then the blocks no path leads to *)
(* are dropped.                                                            *)
Taken(cond, labels) == labels[IF cond # 0 THEN 1 ELSE 2]
Resolved(in) ==
  IF in.op = "cbr" /\ IsImm(in.args[1])
  THEN [in EXCEPT !.op = "br", !.args = <<>>,
                  !.labels = <<Taken(in.args[1][2], in.labels)>>]
  ELSE in
FirstTargets(block) ==   \* variant for the mutation runs: label2 forgotten
  {in.labels[1] : in \in {i \in ToSet(block.ins) : i.op \in {"br", "cbr"}}}
Targets(block) == UNION {ToSet(in.labels) : in \in {i \in ToSet(block.ins) :
                                                     i.op \in {"br", "cbr"}}}
Reachable(g) ==
  LET grow[i \in 0..Len(g.blocks)] ==
        IF i = 0 THEN {1}
        ELSE grow[i-1] \cup {b \in Blocks(g) : \E a \in grow[i-1] :
                               g.blocks[b].name \in Targets(g.blocks[a])}
  IN  grow[Len(g.blocks)]
DropBlocks(g) ==
  LET names == {g.blocks[b].name : b \in Reachable(g)}
  IN  [g EXCEPT !.blocks = SelectSeq(@, LAMBDA block : block.name \in names)]

-----------------------------------------------------------------------------
InitFrom(g) ==
  /\ f = g
  /\ stage = "constfold"
  /\ iter = 0
  /\ alias = <<>>
  /\ expected = [input \in InputsOf(g) |-> Outcome(g, input)]
  /\ before = g

Init == \E g \in Programs : InitFrom(g)

Rewrite(from, to, g) ==
  /\ stage = from /\ stage' = to
  /\ f' = g
  /\ UNCHANGED <<iter, alias, expected, before>>

Note(from, to, Says(_, _)) ==
  /\ stage = from /\ stage' = to
  /\ alias' = Noted(f, alias, Says)
  /\ UNCHANGED <<f, iter, expected, before>>

FoldConstants == Rewrite("constfold", "dce", ConstFold(f))
RemoveDead ==
  /\ stage = "dce"
  /\ f' = DropUnused(f)
  /\ IF Changed(f) THEN UNCHANGED <<stage, alias>>
                   ELSE /\ stage' = "algebraic"
                        /\ alias' = [v \in 0..MaxV(f)+1 |-> NoAlias]
  /\ UNCHANGED <<iter, expected, before>>
NoteAlgebraic  == Note("algebraic", "strength", Algebraic)
ReduceStrength == Rewrite("strength", "cse", EachInstr(f, Reduced))
NoteCommon     == Note("cse", "phi", Cse)
NotePhis       == Note("phi", "icmp", PhiSimplify)
NoteSelfIcmps  == Note("icmp", "ext", FoldSelfIcmp)
NoteExtChains  == Note("ext", "load", CollapseExt)
NoteLoads      == Note("load", "copy", LoadElim)
PropagateCopies ==
  Rewrite("copy", "dce2", EachInstr(f, LAMBDA in : Propagated(in, alias)))
RemoveDeadAgain ==
  Rewrite("dce2", IF Changed(f) THEN "dce2" ELSE "blocks", DropUnused(f))

DoneAfterOne(i) == i = 1   \* variant for the mutation runs
AllDone(i) == i = Total
RemoveBlocks ==
  /\ stage = "blocks"
  /\ f' = DropBlocks(EachInstr(f, Resolved))
  /\ iter' = iter + 1
  /\ IF AllDone(iter') THEN stage' = "done" /\ before' = before
                    ELSE stage' = "constfold" /\ before' = f'
  /\ alias' = <<>>
  /\ UNCHANGED expected

Next ==
  \/ FoldConstants
  \/ RemoveDead
  \/ NoteAlgebraic
  \/ ReduceStrength
  \/ NoteCommon
  \/ NotePhis
  \/ NoteSelfIcmps
  \/ NoteExtChains
  \/ NoteLoads
  \/ PropagateCopies
  \/ RemoveDeadAgain
  \/ RemoveBlocks

Spec == Init /\ [][Next]_vars

(* A sequential call goes on: assumed of the one loop without a bound.     *)
FairSpec == Spec /\ WF_vars(RemoveDead) /\ WF_vars(RemoveDeadAgain)

-----------------------------------------------------------------------------
Stages == {"constfold", "dce", "algebraic", "strength", "cse", "phi", "icmp", "ext",
           "load", "copy", "dce2", "blocks", "done"}
Vregs(g) == g.params \cup ({in.dst : in \in Instrs(g)} \ {NoVreg})

(* Type invariant: what the passes leave is a function of the IR whose     *)
(* operands are vregs that exist, ints or floating-point immediates, and   *)
(* whose jumps lead to blocks.                                             *)
ArgOK(g, arg) == \/ IsImm(arg) /\ arg[2] \in -2^(W32-1) .. 2^(W32-1)-1
                 \/ IsVreg(arg) /\ arg[2] \in Vregs(g)
                 \/ arg[1] = "fp" /\ arg[2] \in Nat
TypeOK ==
  /\ stage \in Stages
  /\ iter \in 0..Total
  /\ \A in \in Instrs(f) :
       /\ in.op # "phi" => \A a \in DOMAIN in.args : ArgOK(f, in.args[a])
       /\ in.op \in {"br", "cbr"} => \A l \in ToSet(in.labels) : HasBlock(f, l)
  /\ \A v \in DOMAIN alias : alias[v] \in {NoAlias, Zero, One} \cup Nat

(* After every pass the function still does on every input what it did     *)
(* before the first: the same result, the same calls in the same order.    *)
(* Nothing is promised for an input on which the original faults (a        *)
(* division that is not needed may go) or outlasts Fuel.                   *)
SameBehaviour ==
  \A input \in DOMAIN expected :
    expected[input].status = "returned" => Outcome(f, input) = expected[input]

(* A non-negative alias names a vreg that the function defines: an         *)
(* immediate cannot be an alias (opt.c:409-411).                           *)
AliasNamesVreg == \A v \in DOMAIN alias : alias[v] >= 0 => alias[v] \in Vregs(f)

(* The iterations end because there is nothing left to do: the last one    *)
(* changed nothing (README.md:44, "All passes run to fixpoint").           *)
Settled == stage = "done" => f = before

(* Dead code elimination ends: only a sweep that removed an instruction    *)
(* asks for another (opt.c:202-219); every other loop of the optimizer has *)
(* a bound.                                                                *)
Sweeping   == stage \in {"dce", "dce2"}
Terminates == Sweeping ~> ~Sweeping

(* No block of the result computes the same expression twice (README.md:42).*)
(* Types are compared by what they say and not by where they were made.    *)
NoCommonSubexpr ==
  stage = "done" =>
    \A p, q \in Points(f) :
      LET x == At(f, p)
          y == At(f, q)
      IN  p[1] = q[1] /\ p[2] < q[2] /\ x.op \notin CseExempt /\ y.dst # NoVreg
            => <<x.op, x.ty[1], x.pred, x.args>> # <<y.op, y.ty[1], y.pred, y.args>>
=============================================================================
