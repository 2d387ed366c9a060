------------------------------- MODULE MCFrame --------------------------------
(* Functions of three local vregs for module Frame: every allocation that  *)
(* fills both parts of the pool from their beginning (UsedIsPrefix of      *)
(* module LinearScan), with some lists of allocas, parameters in registers *)
(* and on the stack, variadic or not.                                      *)
EXTENDS Frame

CONSTANTS
  Targets,   \* the targets of a run,
  Savers,    \* those whose functions use callee-saved registers,
  Allocas,   \* those whose functions have allocas,
  Variadic,  \* those with variadic functions
  Takers,    \* those whose functions take arguments from their list,
  StackTakers \* and among them those that take more than the registers hold

Prefix(t, R) ==
  \A r \in R, s \in 0 .. Target[t].nregs-1 :
    s < r /\ (r < Target[t].ncaller \/ Target[t].ncaller <= s) => s \in R

(* Three registers at most, handed to the local vregs and the first        *)
(* parameter in order; the vregs left over are in memory.                  *)
RegSets(t) ==
  {R \in UNION {kSubset(n, 0 .. Target[t].nregs-1) : n \in 0..3} :
     /\ Prefix(t, R)
     /\ \/ t \in Savers
        \/ \A r \in R : r < Target[t].ncaller}
Handed(R, vregs) ==
  LET th(v) == Cardinality({w \in vregs : w >= v})
      nth(i) == {r \in R : Cardinality({s \in R : s <= r}) = i}
  IN  [v \in vregs |-> Max(nth(th(v)) \cup {InMemory})]

AllocaLists(t) == IF t \in Allocas THEN {<<>>, <<1>>, <<3, 2>>, <<2, 3>>} ELSE {<<>>}
Varargs(t)     == IF t \in Variadic THEN BOOLEAN ELSE {FALSE}
NParams(t)     == {0, 1, Target[t].nargregs + 2}

Plain ==
  UNION {UNION {UNION {{
    [target |-> t, locals |-> 3, nparams |-> n, allocas |-> a, vararg |-> va, takes |-> 0,
     reg |-> Handed(R, 0..2 \cup {ParamBase + p : p \in 0..n-1})] :
      a \in AllocaLists(t), va \in Varargs(t)} :
        R \in RegSets(t)} : n \in NParams(t)} : t \in Targets}

(* Functions that take up to three arguments, so that the last register    *)
(* and the stack are reached; their list and what they take are in         *)
(* registers, because only x86_64 and x86 can have them in memory, and all *)
(* but x86 count named parameters on the stack as unnamed ones.            *)
Takes(t, n)  == IF t \in StackTakers THEN 3 ELSE Min({3, Target[t].nargregs - n})
ArgCounts(t) == IF t = "x86" THEN {0, 1, 3} ELSE {0, 1, Target[t].nargregs - 1, Target[t].nargregs}
FirstReg(t)  == IF t \in {"x86_64", "x86"} THEN {InMemory, 0} ELSE {0}
Taking ==
  UNION {UNION {{
    [target |-> t, locals |-> 3, nparams |-> n, allocas |-> a, vararg |-> TRUE, takes |-> Takes(t, n),
     reg |-> [v \in 0..2 \cup {ParamBase + p : p \in 0..n-1} |->
                IF v \in 0..2 /\ r # InMemory THEN r + v ELSE InMemory]] :
      a \in AllocaLists(t), r \in FirstReg(t)} : n \in ArgCounts(t)} : t \in Takers}

MCFunctions == {g \in Plain \cup Taking : WellFormed(g)}

(* Those whose frames, and those whose lists, the targets get right.       *)
Framed == {g \in MCFunctions : ObjectsApart(g) /\ SavesKept(g)}
Listed == {g \in MCFunctions : g.takes > 0 /\ ObjectsApart(g) /\ ListStartsRight(g)}
=============================================================================
