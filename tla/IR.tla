---------------------------------- MODULE IR ----------------------------------
(***************************************************************************)
(* What the text parser and the builder share: operands, the table of      *)
(* floating-point immediates (src/ir/ir_fpimm.c) and the arrays of a       *)
(* module (src/ir/ir.c).                                                   *)
(***************************************************************************)
EXTENDS Integers, Sequences, FiniteSets, FiniteSetsExt, SequencesExt

CONSTANTS
  ParamBase,  \* PARAM_BASE, 1000 in the code: parameter p is vreg ParamBase+p
  FpMax,      \* IR_FPIMM_MAX, 4096 in the code
  IntBits     \* of an int, 32 where the code runs

ASSUME IRAssumption ==
  /\ ParamBase \in Nat
  /\ FpMax \in Nat \ {0}
  /\ IntBits \in Nat \ {0}

(* args[a] and kinds[a] of an instruction; dst is NoDst for one that       *)
(* defines nothing.                                                        *)
NoDst    == -1
None     == [kind |-> "none", x |-> 0]
Vreg(v)  == [kind |-> "vreg", x |-> v]
Imm(n)   == [kind |-> "imm", x |-> n]
FpRef(i) == [kind |-> "fp", x |-> i]
Param(p) == ParamBase + p

(* (int) of an int64_t: the front ends read constants of 64 bits, and args *)
(* is an array of int.                                                     *)
AsInt(n) == ((n + 2^(IntBits-1)) % 2^IntBits) - 2^(IntBits-1)

(* g_n and g_tab; an immediate is what the program wrote, 0 if nothing was *)
(* stored yet.  FpAdded is the table after ir_fpimm_add of each of ds in    *)
(* order, FpIndex the index the k-th of them was given: at the limit the   *)
(* last entry is taken again and again.                                    *)
EmptyFp       == [n |-> 0, at |-> [i \in 0..FpMax-1 |-> 0]]
FpIndexStuck(t, k) == Min({t.n, FpMax - 1})   \* variant for the mutation runs
FpIndexNext(t, k)  == Min({t.n + k, FpMax - 1})   \* variant
FpIndex(t, k) == Min({t.n + k - 1, FpMax - 1})
FpAdded(t, ds) ==
  [n  |-> t.n + Len(ds),
   at |-> [i \in 0..FpMax-1 |->
             LET K == {k \in DOMAIN ds : FpIndex(t, k) = i}
             IN  IF K = {} THEN t.at[i] ELSE ds[Max(K)]]]
FpGet(t, i)   == IF i \in 0..FpMax-1 THEN t.at[i] ELSE 0

(* An array that doubles when it is full; gen counts its moves, by which a *)
(* pointer into it is known to be one into the present array or into one   *)
(* that realloc has freed.                                                 *)
Room(a)      == a.n < a.cap
Grown(a)     == IF Room(a) THEN a ELSE [a EXCEPT !.cap = 2 * a.cap, !.gen = a.gen + 1]
Pushed(a)    == [Grown(a) EXCEPT !.n = a.n + 1]
PointerTo(a, i) == [gen |-> a.gen, index |-> i]
Dangling(a, p)  == p.gen # a.gen
=============================================================================
