----------------------------- MODULE Intervals ------------------------------
(***************************************************************************)
(* compute_intervals of src/backend/regalloc.c: the live intervals of a    *)
(* function, from the positions at which its vregs are touched.            *)
(*                                                                         *)
(* A function is a record [nparams, blocks]; a block is a sequence of      *)
(* instructions and its name is its index.  Of an instruction only what    *)
(* the allocator looks at is kept:                                         *)
(*   op     "alu", "op", "fp" (is_fp_class), "call", "memcpy", "va_arg",   *)
(*          "phi", "br", "cbr" or "ret"                                    *)
(*   dst    the vreg it defines, or NoVreg                                 *)
(*   args   its arguments in order, NoVreg for an immediate and FpImm for  *)
(*          a floating-point immediate                                     *)
(*   labels a phi's two predecessors, or the targets of a branch           *)
(***************************************************************************)
EXTENDS Integers, Sequences, FiniteSets, FiniteSetsExt

CONSTANT ParamBase   \* PARAM_BASE, 1000 in the code: parameter p is vreg ParamBase+p

NoVreg == -1
FpImm  == -2
Immediates == {NoVreg, FpImm}

Blocks(f)    == 1..Len(f.blocks)
Instrs(f, b) == 1..Len(f.blocks[b])
Points(f)    == UNION {{b} \X Instrs(f, b) : b \in Blocks(f)}
At(f, p)     == f.blocks[p[1]][p[2]]
Uses(in)     == {in.args[s] : s \in DOMAIN in.args} \ Immediates
Touches(in)  == Uses(in) \cup ({in.dst} \ {NoVreg})
Succs(f, b)  == UNION {{in.labels[s] : s \in DOMAIN in.labels} :
                         in \in {f.blocks[b][i] : i \in {j \in Instrs(f, b) :
                                   f.blocks[b][j].op \in {"br", "cbr"}}}}

(* Pass 1: instructions are numbered from 1 in layout order; block_start   *)
(* is the position of the last instruction of the block before.            *)
BlockStart(f, b) == Cardinality({p \in Points(f) : p[1] < b})
BlockEnd(f, b)   == BlockStart(f, b) + Len(f.blocks[b])
Pos(f, p)        == BlockStart(f, p[1]) + p[2]

Params(f) == {ParamBase + q : q \in 0..f.nparams-1}

PhiTails(f, v) ==
  UNION {{BlockEnd(f, At(f, p).labels[s]) : s \in {t \in 1..2 : At(f, p).args[t] = v}} :
           p \in {q \in Points(f) : At(f, q).op = "phi"}}

(* Where pass 1 and pass 2 touch vreg v: its plain uses and definition at  *)
(* their own position, its definition by a phi at the start of the block,  *)
(* its use by a phi at the end of the predecessor it comes from.           *)
Touched(f, v) ==
  {Pos(f, p) : p \in {q \in Points(f) : /\ At(f, q).op # "phi"
                                        /\ v \in Touches(At(f, q))}}
  \cup
  {BlockStart(f, p[1]) : p \in {q \in Points(f) : /\ At(f, q).op = "phi"
                                                  /\ At(f, q).dst = v}}
  \cup PhiTails(f, v)

Vregs(f) == Params(f) \cup UNION {Touches(At(f, p)) : p \in Points(f)}

(* The vregs maxv is raised to: pass 2 does not look at it. *)
Numbered(f) ==
  Params(f) \cup UNION {IF At(f, p).op = "phi" THEN {At(f, p).dst} \ {NoVreg}
                                               ELSE Touches(At(f, p)) : p \in Points(f)}

(* Parameters live from position 0, also the ones nobody uses. *)
Start(f, v)    == IF v \in Params(f) THEN 0 ELSE Min(Touched(f, v))
FirstEnd(f, v) == IF Touched(f, v) = {} THEN 0 ELSE Max(Touched(f, v))

(* Pass 3 marks the intervals that meet a call ... *)
CrossesCall(f, v) ==
  \E p \in Points(f) : /\ At(f, p).op = "call"
                       /\ Start(f, v) <= Pos(f, p)
                       /\ Pos(f, p) <= FirstEnd(f, v)

ForceSpill(f, v) ==
  \E p \in Points(f) : At(f, p).op = "fp" /\ v \in Touches(At(f, p))

(* ... and only then an interval that meets a loop is extended to the end  *)
(* of the loop, the back edges taken in layout order of their source.      *)
BackTo(f, b) == {s \in Succs(f, b) : BlockStart(f, s) <= BlockStart(f, b)}
Ends(f, v) ==
  LET start == Start(f, v)
      end[b \in 0..Len(f.blocks)] ==
        IF b = 0 THEN FirstEnd(f, v)
        ELSE LET e == end[b-1]
             IN  IF /\ start <= BlockEnd(f, b) /\ e < BlockEnd(f, b)
                    /\ \E s \in BackTo(f, b) : e >= BlockStart(f, s)
                 THEN BlockEnd(f, b)
                 ELSE e
  IN  end
FinalEnd(f, v) == Ends(f, v)[Len(f.blocks)]

IntervalOf(f, v) ==
  [vreg |-> v, start |-> Start(f, v), end |-> FinalEnd(f, v),
   crosses_call |-> CrossesCall(f, v), force_spill |-> ForceSpill(f, v)]

(* The list, in vreg order: the scan sorts it by start before anything else *)
(* looks at it.                                                             *)
ComputeIntervals(f) ==
  LET V == Vregs(f)
      nth(i) == CHOOSE v \in V : Cardinality({w \in V : w <= v}) = i
  IN  [ivs    |-> [i \in 1..Cardinality(V) |-> IntervalOf(f, nth(i))],
       nvregs |-> Max(Numbered(f) \cup {-1}) + 1]
=============================================================================
