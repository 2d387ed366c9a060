----------------------------- MODULE MCRegAlloc -----------------------------
(* Families of functions for module RegAlloc: a control-flow skeleton, and *)
(* in each block some slots that every instruction of a menu may fill.     *)
(* Only programs in strict SSA form are kept, as the IR promises.          *)
EXTENDS RegAlloc

CONSTANT Families   \* names of the families of functions of a run

Ins(op, dst, args) == [op |-> op, dst |-> dst, args |-> args, labels |-> <<>>]
Jump(op, args, labels) == [op |-> op, dst |-> NoVreg, args |-> args, labels |-> labels]
br(t)     == Jump("br", <<>>, <<t>>)
cbr(t, e) == Jump("cbr", <<NoVreg>>, <<t, e>>)
ret       == Jump("ret", <<>>, <<>>)

(* Per skeleton: slots and terminator of each block, and the block that     *)
(* joins (0: none) with its two predecessors.                              *)
Skeleton(s) ==
  CASE s = "straight" ->
         [slots |-> <<4>>, term |-> <<ret>>, join |-> 0, preds |-> <<0, 0>>]
    [] s = "diamond" ->
         [slots |-> <<1, 1, 1, 1>>, term |-> <<cbr(2, 3), br(4), br(4), ret>>,
          join |-> 4, preds |-> <<2, 3>>]
    [] s = "loop" ->
         [slots |-> <<1, 1, 1, 1>>, term |-> <<br(2), cbr(3, 4), br(2), ret>>,
          join |-> 2, preds |-> <<1, 3>>]
    [] s = "exit_first" ->
         [slots |-> <<1, 1, 1, 1>>, term |-> <<br(2), cbr(4, 3), ret, br(2)>>,
          join |-> 2, preds |-> <<1, 4>>]
    [] s = "nested" ->
         [slots |-> <<1, 1, 1, 0, 1>>,
          term |-> <<br(2), br(3), cbr(3, 4), cbr(2, 5), ret>>,
          join |-> 2, preds |-> <<1, 4>>]
    [] s = "swapped" ->
         [slots |-> <<1, 1, 2>>, term |-> <<br(3), ret, br(2)>>,
          join |-> 0, preds |-> <<0, 0>>]

SlotsOf(sk) == UNION {{b} \X (1..sk.slots[b]) : b \in DOMAIN sk.slots}
Nop         == Ins("op", NoVreg, <<>>)

Fill(sk, fill, phis) ==
  [nparams |-> IF \E p \in DOMAIN fill : ParamBase \in Touches(fill[p]) THEN 1 ELSE 0,
   blocks  |-> <<>> \o
     [b \in DOMAIN sk.slots |->
        (IF b = sk.join THEN [i \in DOMAIN phis |-> [phis[i] EXCEPT !.labels = sk.preds]]
                        ELSE <<>>)
        \o SelectSeq([i \in 1..sk.slots[b] |-> fill[<<b, i>>]], LAMBDA in : in # Nop)
        \o <<sk.term[b]>>]]

(* Every vreg has one definition; vregs 0, 1, ..., which are               *)
(* interchangeable, are defined in that order; and a vreg that is read is   *)
(* defined somewhere, 3 and 4 by the phis: decided on the slots alone.     *)
Before(p, q)  == p[1] < q[1] \/ (p[1] = q[1] /\ p[2] < q[2])
Canonical(fill) ==
  /\ \A p \in DOMAIN fill : fill[p].dst # NoVreg =>
       \A q \in DOMAIN fill : fill[q].dst # NoVreg /\ Before(p, q) => fill[p].dst < fill[q].dst
  /\ \A p \in DOMAIN fill : \A v \in Uses(fill[p]) :
       v \in {3, 4, ParamBase} \/ \E q \in DOMAIN fill : fill[q].dst = v

Fills(sk, menu) == {c \in [SlotsOf(sk) -> menu] : Canonical(c)}

(* The functions in SSA form of some skeletons, whose slots a menu fills    *)
(* and whose join a list of phis opens, that are kept.                     *)
Family(skeletons, menu, phis, Kept(_)) ==
  UNION {LET sk == Skeleton(s)
         IN  {f \in {Fill(sk, c, ph) : c \in Fills(sk, menu), ph \in phis} :
                InStrictSSA(f) /\ Kept(f)} : s \in skeletons}
Any(f) == TRUE

-----------------------------------------------------------------------------
Def(v)       == Ins("op", v, <<>>)
Use(v)       == Ins("op", NoVreg, <<v>>)
Op(d, a, b)  == Ins("op", d, <<a, b>>)
Alu2(d, a, b) == Ins("alu", d, <<a, b>>)
Call0        == Ins("call", NoVreg, <<>>)

PlainMenu ==
  {Nop, Def(0), Def(1), Def(2), Alu2(1, 0, 0), Alu2(2, 0, 1), Alu2(NoVreg, 1, 0),
   Use(0), Use(2), Call0}
NoPhi == {<<>>}

(* A parameter, floating-point operations, calls that use and define vregs. *)
MixedMenu ==
  {Nop, Def(0), Op(1, 0, 5), Alu2(1, 5, 0), Alu2(0, 5, NoVreg), Use(5),
   Ins("fp", 1, <<0, 5>>), Ins("fp", 0, <<5>>), Ins("fp", 1, <<0, FpImm>>), Use(1),
   Ins("call", 0, <<5>>), Ins("call", 1, <<0, 5>>), Call0}

(* One phi, whose arguments are constants or vregs. *)
Phi(d, a, b) == Ins("phi", d, <<a, b>>)
PhiMenu   == {Nop, Def(0), Def(1), Alu2(2, 1, 3), Use(0), Use(3), Call0}
OnePhi    == {<<Phi(3, a, b)>> : a \in {NoVreg, 0}, b \in {1, 2, 3}} \cup {<<Phi(3, 0, 0)>>}

(* Two phis of one block. *)
TwoPhiMenu == {Nop, Def(0), Def(1), Use(3), Use(4)}
TwoPhiLists == {<<Phi(3, NoVreg, a), Phi(4, 0, b)>> : a, b \in {0, 1, 3, 4}}

(* Floating-point immediates where the code does not read them. *)        
FpMenu == {Nop, Def(0), Ins("fp", 0, <<FpImm>>), Use(3)}
FpPhi  == {<<Phi(3, a, FpImm)>> : a \in {NoVreg, 0}}
FpArgMenu == {Nop, Def(0), Use(FpImm), Ins("call", 0, <<FpImm>>)}

CallMenu   == {Nop, Def(0), Use(0), Call0}
QuietMenu  == {Nop, Def(0), Def(1), Ins("memcpy", NoVreg, <<1, 0>>), Ins("memcpy", NoVreg, <<0, 0>>),
               Ins("va_arg", 2, <<0>>), Use(0), Use(2), Call0}
VaArgMenu  == {Nop, Def(0), Use(0), Ins("va_arg", 1, <<5>>), Use(1), Call0}
MemcpyMenu == {Nop, Def(0), Def(1), Use(0), Ins("memcpy", NoVreg, <<0, 1>>)}

AllSkeletons == {"straight", "diamond", "loop", "exit_first", "nested", "swapped"}

(* The families of the run that passes, then those of the runs that end in *)
(* a violation.                                                            *)
FamilyOf(name) ==
  CASE name = "plain" -> Family(AllSkeletons, PlainMenu, NoPhi, Sound)
    [] name = "mixed" -> Family({"straight", "loop"}, MixedMenu, NoPhi, Sound)
    [] name = "phi"   -> Family({"diamond", "loop", "exit_first"}, PhiMenu, OnePhi, Sound)
    [] name = "phis"  -> Family({"loop"}, TwoPhiMenu, TwoPhiLists, Sound)
    [] name = "quiet" -> Family({"straight"}, QuietMenu, NoPhi, Sound)
    [] name = "call_in_loop" -> Family({"loop"}, CallMenu, NoPhi, Any)
    [] name = "two_phis"     -> Family({"loop"}, TwoPhiMenu, TwoPhiLists, Any)
    [] name = "memcpy"       -> Family({"straight"}, MemcpyMenu, NoPhi, Any)
    [] name = "va_arg"       -> Family({"straight"}, VaArgMenu, NoPhi, Any)
    [] name = "fp_phi"       -> Family({"diamond"}, FpMenu, FpPhi, Any)
    [] name = "fp_arg"       -> Family({"straight"}, FpArgMenu, NoPhi, Any)

MCPrograms == UNION {FamilyOf(name) : name \in Families}
=============================================================================
