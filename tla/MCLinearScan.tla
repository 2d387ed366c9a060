---------------------------- MODULE MCLinearScan ----------------------------
(* Every list of four intervals with positions in 0..MaxPos, up to the     *)
(* order of the list: the vregs are interchangeable, and Sort explores     *)
(* every order that qsort may leave.                                       *)
EXTENDS LinearScan

CONSTANT MaxPos

Shapes == {s \in [start : 0..MaxPos, end : 0..MaxPos,
                  crosses_call : BOOLEAN, force_spill : BOOLEAN] :
             s.start <= s.end /\ (s.force_spill => ~s.crosses_call)}

Bit(b) == IF b THEN 1 ELSE 0
Code(s) == ((s.start * (MaxPos+1) + s.end) * 2 + Bit(s.crosses_call)) * 2
             + Bit(s.force_spill)
From(s) == {t \in Shapes : Code(s) <= Code(t)}

Quadruples ==
  UNION {UNION {UNION {{<<a, b, c, d>> : d \in From(c)} :
    c \in From(b)} : b \in From(a)} : a \in Shapes}

AsList(q) ==
  [i \in 1..4 |->
    [vreg |-> i, start |-> q[i].start, end |-> q[i].end,
     crosses_call |-> q[i].crosses_call, force_spill |-> q[i].force_spill]]

(* Vregs 0 and 5 exist and have no interval. *)
MCInputs == {[ivs |-> AsList(q), nvregs |-> 6] : q \in Quadruples}
=============================================================================
