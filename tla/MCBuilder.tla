------------------------------ MODULE MCBuilder -------------------------------
EXTENDS Builder

(* Instructions are given one literal directly; every constant can still   *)
(* become an operand, through a placeholder.                               *)
OneLiteral == {[is |-> "fp", n |-> 1]}
=============================================================================
