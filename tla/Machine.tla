------------------------------ MODULE Machine -------------------------------
(***************************************************************************)
(* What a function of the IR does when it runs: the meaning                *)
(* src/targets/x86_64/isel.c gives each instruction, with every vreg in a  *)
(* place of its own (module RegAlloc looks at the places).                 *)
(*                                                                         *)
(* A function is [params, blocks], a block [name, ins], an instruction     *)
(*   [op, ty, dst, args, pred, labels]                                     *)
(* with ty = <<name, object>>: two types are the same object exactly when  *)
(* the IRType pointers are equal.  An argument is <<"vreg", v>>,           *)
(* <<"imm", c>> or <<"fp", i>>, the i-th floating-point immediate.         *)
(* Register contents are integers of W64 bits.  Memory is counted in cells *)
(* of W64 bits: pred of a gep is the size of an element, of a gep_field    *)
(* the offset of the field, and allocas and memcpy have a number of cells. *)
(***************************************************************************)
EXTENDS Integers, Sequences, FiniteSets

CONSTANTS
  W8, W32, W64,   \* widths in bits: 8, 32 and 64 in the code
  Fuel              \* bound: instructions a run may take

ASSUME WidthAssumption == /\ W8 \in Nat /\ W32 \in Nat /\ W64 \in Nat
                          /\ 1 < W8 /\ W8 < W32 /\ 2 * W32 <= W64

NoVreg == -1

Wrap(x, w) == ((x + 2^(w-1)) % 2^w) - 2^(w-1)
Low(x, w)  == x % 2^w
Truth(b)   == IF b THEN 1 ELSE 0

(* type_size, in bits; every other type counts as an int. *)
Bits(ty) == CASE ty[1] = "i8" -> W8
              [] ty[1] \in {"i64", "ptr", "f64"} -> W64
              [] OTHER -> W32

-----------------------------------------------------------------------------
(* The 64-bit instructions, and C's operators on int64_t. *)
And(a, b) ==
  LET bit(x, i) == (Low(x, W64) \div 2^i) % 2
      and[i \in 0..W64] ==
        IF i = 0 THEN 0 ELSE and[i-1] + bit(a, i-1) * bit(b, i-1) * 2^(i-1)
  IN  and[W64]
Or(a, b)  == Low(a, W64) + Low(b, W64) - And(a, b)
Xor(a, b) == Low(a, W64) + Low(b, W64) - 2 * And(a, b)

Abs(x)     == IF x < 0 THEN -x ELSE x
Quot(a, b) == (IF (a < 0) = (b < 0) THEN 1 ELSE -1) * (Abs(a) \div Abs(b))

Divisions == {"sdiv", "srem", "udiv", "urem"}
Shifts    == {"shl", "lshr", "ashr"}

(* #DE of idivq and divq. *)
Faults(op, a, b) ==
  /\ op \in Divisions
  /\ b = 0 \/ (op \in {"sdiv", "srem"} /\ a = -2^(W64-1) /\ b = -1)

Arith(op, a, b) ==
  Wrap(CASE op = "add"  -> a + b
         [] op = "sub"  -> a - b
         [] op = "mul"  -> a * b
         [] op = "sdiv" -> Quot(a, b)
         [] op = "srem" -> a - b * Quot(a, b)
         [] op = "udiv" -> Low(a, W64) \div Low(b, W64)
         [] op = "urem" -> Low(a, W64) % Low(b, W64)
         [] op = "and"  -> And(a, b)
         [] op = "or"   -> Or(a, b)
         [] op = "xor"  -> Xor(a, b)
         [] op = "shl"  -> a * 2^b
         [] op = "lshr" -> Low(a, W64) \div 2^b
         [] op = "ashr" -> a \div 2^b
         [] op = "neg"  -> -a
         [] op = "not"  -> -a - 1, W64)

Pred == [eq |-> 0, ne |-> 1, slt |-> 2, sle |-> 3, sgt |-> 4, sge |-> 5,
         ult |-> 6, ule |-> 7, ugt |-> 8, uge |-> 9]
Compare(pred, a, b, w) ==
  CASE pred = Pred.eq  -> Low(a, w) = Low(b, w)
    [] pred = Pred.ne  -> Low(a, w) # Low(b, w)
    [] pred = Pred.slt -> Wrap(a, w) < Wrap(b, w)
    [] pred = Pred.sle -> Wrap(a, w) <= Wrap(b, w)
    [] pred = Pred.sgt -> Wrap(a, w) > Wrap(b, w)
    [] pred = Pred.sge -> Wrap(a, w) >= Wrap(b, w)
    [] pred = Pred.ult -> Low(a, w) < Low(b, w)
    [] pred = Pred.ule -> Low(a, w) <= Low(b, w)
    [] pred = Pred.ugt -> Low(a, w) > Low(b, w)
    [] pred = Pred.uge -> Low(a, w) >= Low(b, w)

(* Floating point is opaque: a function of operation, predicate and        *)
(* operands that the passes know nothing about.                            *)
FloatOps == <<"fadd", "fsub", "fmul", "fdiv", "fneg", "fcmp", "sitofp", "uitofp", "fptosi",
              "fptoui", "fpext", "fptrunc">>
IsFloat(in) == \E i \in DOMAIN FloatOps : FloatOps[i] = in.op
Float(in, a, b) ==
  Wrap(3 * a + 5 * b + 7 * in.pred + 11 * (CHOOSE i \in DOMAIN FloatOps : FloatOps[i] = in.op), W64)
FpBits(i) == 10 + i

(* The result an instruction leaves in its vreg.  canon() works on %rax    *)
(* and the arithmetic is done in %r10 or in the register of the vreg, so   *)
(* that arithmetic results keep all their bits; zext, sext and trunc take  *)
(* the low byte whatever the types are; a shift count is taken modulo 64.  *)
Conversions == {"zext", "sext", "trunc"}
Emitted(in, a, b) ==
  CASE in.op = "icmp"                -> Truth(Compare(in.pred, a, b, Bits(in.ty)))
    [] in.op = "sext"                -> Wrap(a, W8)
    [] in.op \in {"zext", "trunc"}   -> Wrap(Low(a, W8), Bits(in.ty))
    [] in.op \in Shifts              -> Arith(in.op, a, b % W64)
    [] in.op = "gep"                 -> Wrap(a + b * in.pred, W64)
    [] in.op = "gep_field"           -> Wrap(a + in.pred, W64)
    [] in.op = "str"                 -> 2^(W64-3) + a
    [] IsFloat(in)                   -> Float(in, a, b)
    [] OTHER                         -> Arith(in.op, a, b)

-----------------------------------------------------------------------------
(* A run: where it is, the vregs defined so far, the frame, the calls made *)
(* with their first argument as the callee sees it, the variadic arguments *)
(* left.  input gives the parameters, what the callees return, what the    *)
(* frame holds at first and the variadic arguments.                        *)
BlockOf(f, name)  == f.blocks[CHOOSE b \in DOMAIN f.blocks : f.blocks[b].name = name]
HasBlock(f, name) == \E b \in DOMAIN f.blocks : f.blocks[b].name = name

Value(s, arg)    == CASE arg[1] = "imm" -> arg[2] [] arg[1] = "fp" -> FpBits(arg[2])
                      [] OTHER -> s.env[arg[2]]
Readable(s, arg) == arg[1] = "vreg" => arg[2] \in DOMAIN s.env
Set(g, x, y)     == [z \in DOMAIN g \cup {x} |-> IF z = x THEN y ELSE g[z]]

IsPhi(in) == in.op = "phi"
PhisOf(block) == SelectSeq(block.ins, IsPhi)

(* Control passes from block pred to block succ; all phis of succ read     *)
(* their arguments before any of them gets its value.                      *)
Enter(f, s, pred, succ) ==
  IF ~HasBlock(f, succ) THEN [s EXCEPT !.status = "lost"]
  ELSE
    LET phis  == PhisOf(BlockOf(f, succ))
        arg(i) == phis[i].args[CHOOSE a \in 1..2 : phis[i].labels[a] = pred]
        ready == \A i \in DOMAIN phis : /\ \E a \in 1..2 : phis[i].labels[a] = pred
                                        /\ Readable(s, arg(i))
        news  == {phis[i].dst : i \in DOMAIN phis}
    IN  IF ~ready THEN [s EXCEPT !.status = "lost"]
        ELSE [s EXCEPT !.block = succ, !.k = Len(phis) + 1,
                       !.env = [v \in DOMAIN s.env \cup news |->
                          IF v \in news
                          THEN Value(s, arg(CHOOSE i \in DOMAIN phis : phis[i].dst = v))
                          ELSE s.env[v]]]

(* The instruction in leaves x in its vreg. *)
Leaves(s, in, x) == [s EXCEPT !.k = s.k + 1,
                              !.env = IF in.dst = NoVreg THEN s.env ELSE Set(s.env, in.dst, x)]

MaxCells == 3   \* bound: cells of an alloca
Address(in) == 2^(W64-2) + MaxCells * in.dst   \* of an alloca: its cells are its own

Jumps(f, s, in)       == Enter(f, s, s.block, in.labels[1])
Branches(f, s, in, x) == Enter(f, s, s.block, in.labels[IF x # 0 THEN 1 ELSE 2])
Returns(s, in, x)     == [s EXCEPT !.status = "returned", !.result = Wrap(x, Bits(in.ty))]
Cells(a, n) == a .. a + n - 1
Allocates(s, in, frame) ==
  LET cells == Cells(Address(in), in.args[1][2])
  IN  [Leaves(s, in, Address(in)) EXCEPT
         !.mem = [a \in DOMAIN s.mem \cup cells |-> IF a \in cells THEN frame ELSE s.mem[a]]]
Loads(s, in, a) == Leaves(s, in, Wrap(s.mem[a], Bits(in.ty)))
Stores(s, in, x, a) ==   \* the low bits of the cell
  LET w == Bits(in.ty)
  IN  [Leaves(s, in, 0) EXCEPT !.mem[a] = Wrap(@ - Low(@, w) + Low(x, w), W64)]
Copies(s, in, to, from, n) ==   \* rep movsb, to and from apart
  [Leaves(s, in, 0) EXCEPT
     !.mem = [a \in DOMAIN s.mem |-> IF a \in Cells(to, n) THEN s.mem[a - to + from] ELSE s.mem[a]]]
Calls(s, in, x, returned) ==
  [Leaves(s, in, returned) EXCEPT !.calls = Append(@, Wrap(x, W32))]
StartsVariadic(s, in, args) == [Leaves(s, in, 1) EXCEPT !.rest = args]
FetchesVariadic(s, in) ==
  [Leaves(s, in, Wrap(Head(s.rest), Bits(in.ty))) EXCEPT !.rest = Tail(@)]

Stops(s, why) == [s EXCEPT !.status = why]

StepOf(f, input, s) ==
  LET in == BlockOf(f, s.block).ins[s.k]
      x  == IF in.args = <<>> THEN 0 ELSE Value(s, in.args[1])
      y  == IF Len(in.args) > 1 THEN Value(s, in.args[2]) ELSE 0
  IN  IF \E a \in DOMAIN in.args : ~Readable(s, in.args[a]) THEN Stops(s, "lost")
      ELSE
        CASE in.op = "br"     -> Jumps(f, s, in)
          [] in.op = "cbr"    -> Branches(f, s, in, x)
          [] in.op = "ret"    -> Returns(s, in, x)
          [] in.op = "alloca" -> Allocates(s, in, input.frame)
          [] in.op = "load"   -> IF x \in DOMAIN s.mem THEN Loads(s, in, x) ELSE Stops(s, "fault")
          [] in.op = "store"  -> IF y \in DOMAIN s.mem THEN Stores(s, in, x, y)
                                                       ELSE Stops(s, "fault")
          [] in.op = "call"   -> Calls(s, in, x, input.returned)
          [] in.op = "memcpy" ->
               LET n == in.args[3][2]
               IN  IF Cells(x, n) \cup Cells(y, n) \subseteq DOMAIN s.mem
                   THEN Copies(s, in, x, y, n) ELSE Stops(s, "fault")
          [] in.op = "unreachable" -> Stops(s, "fault")
          [] in.op = "va_end"   -> Leaves(s, in, 0)
          [] in.op = "va_start" -> StartsVariadic(s, in, input.variadic)
          [] in.op = "va_arg" -> IF s.rest = <<>> THEN Stops(s, "lost")
                                                  ELSE FetchesVariadic(s, in)
          [] OTHER            -> IF Faults(in.op, x, y) THEN Stops(s, "fault")
                                 ELSE Leaves(s, in, Emitted(in, x, y))

RunOf(f, input) ==
  LET start == [status |-> "running", block |-> f.blocks[1].name, k |-> 1,
                env |-> input.params, mem |-> <<>>, calls |-> <<>>,
                rest |-> <<>>, result |-> 0]
      run[i \in 0..Fuel] ==
        IF i = 0 THEN start
        ELSE LET s == run[i-1]
             IN  IF s.status = "running" THEN StepOf(f, input, s) ELSE s
  IN  run[Fuel]

(* What the caller and the callees can tell of the run. *)
Outcome(f, input) ==
  LET s == RunOf(f, input)
  IN  [status |-> s.status, result |-> s.result, calls |-> s.calls]
=============================================================================
