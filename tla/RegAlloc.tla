------------------------------ MODULE RegAlloc ------------------------------
(***************************************************************************)
(* The register allocator as the emitted code sees it.  A function is      *)
(* given its intervals (Intervals), the scan assigns locations             *)
(* (LinearScan), and then the function runs twice in lock step: env is the *)
(* run of the IR, in which every vreg keeps its own value, and mach is the *)
(* run of the code src/targets/x86_64/isel.c emits, in which a vreg lives  *)
(* in its register or in its stack slot, calls destroy the caller-saved    *)
(* registers, and phis are copies on the edges.                            *)
(***************************************************************************)
EXTENDS LinearScan, Intervals

CONSTANT Programs   \* the functions considered; Inputs plays no part, intervals are computed

(* Functions as the builder and the parser leave them: a block ends with   *)
(* its only branch or return and opens with its phis, the entry has none,  *)
(* and a phi names every block that may precede it and takes no vreg that  *)
(* is found nowhere else.                                                  *)
Operations  == {"alu", "op", "fp", "call", "memcpy", "va_arg", "phi", "br", "cbr", "ret"}
Terminators == {"br", "cbr", "ret"}
Instruction == [op : Operations, dst : Nat \cup {NoVreg}, args : Seq(Nat \cup Immediates),
                labels : Seq(Nat)]
IsFunction(f) ==
  /\ f \in [nparams : Nat, blocks : Seq(Seq(Instruction))]
  /\ f.blocks # <<>> /\ \A b \in Blocks(f) : f.blocks[b] # <<>>
  /\ \A p \in Points(f) :
       LET in == At(f, p) IN
       /\ in.op \in Terminators <=> p[2] = Len(f.blocks[p[1]])
       /\ in.op \in Terminators \cup {"memcpy"} => in.dst = NoVreg
       /\ in.op \in {"fp", "phi"} => in.dst # NoVreg
       /\ in.op \in {"alu", "memcpy"} => Len(in.args) >= 2
       /\ \A s \in DOMAIN in.labels : in.labels[s] \in Blocks(f)
       /\ in.op = "phi" =>
            /\ p[1] # 1
            /\ \A i \in 1..p[2]-1 : f.blocks[p[1]][i].op = "phi"
            /\ Len(in.args) = 2 /\ Len(in.labels) = 2
            /\ Uses(in) \subseteq Numbered(f)
            /\ \A b \in Blocks(f) : p[1] \in Succs(f, b) => \E s \in 1..2 : in.labels[s] = b

ASSUME ParamBaseAssumption == ParamBase \in Nat
ASSUME ProgramsAssumption  == \A f \in Programs : IsFunction(f)

VARIABLES
  fn,      \* the function
  at,      \* <<block, instruction>> about to run
  env,     \* vreg -> value, in the IR
  mach,    \* the machine: registers of the pool and stack slots
  misread  \* has the machine read a value that is not the IR's?

exec == <<fn, at, env, mach, misread>>

(* A value is known by the vreg whose definition made it; the second field *)
(* tells a new instance of it from the one before.                         *)
Junk    == <<-1, 0>>
Const   == <<-2, 0>>
FpConst == <<-3, 0>>
Values  == {Junk, Const, FpConst} \cup (Vregs(fn) \X {0, 1})

NotStarted == <<0, 1>>
Returned   == <<0, 2>>

AllocInit ==
  /\ fn \in Programs
  /\ \E in \in {ComputeIntervals(fn)} : InitFrom(in)
  /\ at = NotStarted
  /\ env = [v \in Vregs(fn) |-> IF v \in Params(fn) THEN <<v, 0>> ELSE Junk]
  /\ mach = [regs |-> [r \in Regs |-> Junk], slots |-> env]
  /\ misread = FALSE

Allocate == Next /\ UNCHANGED exec

-----------------------------------------------------------------------------
(* vop_str: the operand a vreg is printed as. *)
Get(m, v)    == IF reg_of[v] = InMemory THEN m.slots[v] ELSE m.regs[reg_of[v]]
Put(m, v, x) == IF reg_of[v] = InMemory THEN [m EXCEPT !.slots[v] = x]
                                        ELSE [m EXCEPT !.regs[reg_of[v]] = x]

(* op_str: an integer for an immediate of either kind. *)
Moved(m, a) == IF a \in Immediates THEN Const ELSE Get(m, a)
Meant(a)    == CASE a = NoVreg -> Const
                 [] a = FpImm  -> FpConst
                 [] OTHER      -> env[a]
Agree(m, a) == Moved(m, a) = Meant(a)

(* The phis of a block, which emit no code where they stand. *)
NPhis(b) ==
  CHOOSE c \in 0..Len(fn.blocks[b]) :
    \A i \in Instrs(fn, b) : fn.blocks[b][i].op = "phi" <=> i <= c
PhisOf(b) == SubSeq(fn.blocks[b], 1, NPhis(b))
EntryLate(b) == <<b, Len(PhisOf(b)) + 2>>   \* variant for the mutation runs
Entry(b)     == <<b, Len(PhisOf(b)) + 1>>

(* The prologue stores the incoming parameters to their slots, then loads  *)
(* those that were given a register.                                       *)
Prologue ==
  /\ pc = "done" /\ at = NotStarted
  /\ at' = Entry(1)
  /\ mach' = [mach EXCEPT !.regs = [r \in Regs |->
                LET P == {p \in Params(fn) : reg_of[p] = r}
                IN  IF P = {} THEN Junk ELSE env[Max(P)]]]
  /\ UNCHANGED <<vars, fn, env, misread>>

Running   == pc = "done" /\ at \in Points(fn)
Here      == At(fn, at)
NextPoint == <<at[1], at[2] + 1>>

Misreads(m) == \E s \in DOMAIN Here.args : ~Agree(m, Here.args[s])

(* The instruction defines its vreg: a new instance of the value, the same *)
(* in the IR and in the machine m reached by then.                         *)
Define(m) ==
  IF Here.dst = NoVreg
  THEN env' = env /\ mach' = m
  ELSE \E b \in {0, 1} : /\ env' = [env EXCEPT ![Here.dst] = <<Here.dst, b>>]
                         /\ mach' = Put(m, Here.dst, <<Here.dst, b>>)

(* add, sub, mul, and, or, xor: the first argument is moved to the register *)
(* of the destination before the second is read.                            *)
Alu ==
  /\ Running /\ Here.op = "alu"
  /\ LET loaded == IF Here.dst # NoVreg /\ reg_of[Here.dst] # InMemory
                   THEN Put(mach, Here.dst, Moved(mach, Here.args[1]))
                   ELSE mach
     IN  /\ misread' = (\/ misread
                        \/ ~Agree(mach, Here.args[1])
                        \/ ~Agree(loaded, Here.args[2]))
         /\ Define(loaded)
  /\ at' = NextPoint
  /\ UNCHANGED <<vars, fn>>

(* Division, shifts, comparisons, conversions of integers, loads, stores,  *)
(* addresses: the arguments are moved to registers outside the pool, the   *)
(* result is computed there and stored last.                               *)
Scratch ==
  /\ Running /\ Here.op = "op"
  /\ misread' = (misread \/ Misreads(mach))
  /\ Define(mach)
  /\ at' = NextPoint
  /\ UNCHANGED <<vars, fn>>

(* Floating-point operations know only the stack slots of their vregs, and *)
(* read an immediate of the kind they take as it is.                       *)
Fp ==
  /\ Running /\ Here.op = "fp"
  /\ misread' = (misread \/ \E v \in Uses(Here) : mach.slots[v] # env[v])
  /\ \E b \in {0, 1} :
       /\ env' = [env EXCEPT ![Here.dst] = <<Here.dst, b>>]
       /\ mach' = [mach EXCEPT !.slots[Here.dst] = <<Here.dst, b>>]
  /\ at' = NextPoint
  /\ UNCHANGED <<vars, fn>>

(* The arguments are moved one after the other to argument registers, which *)
(* are caller-saved and part of the pool; the callee destroys all of those. *)
Lose(m, R)   == [m EXCEPT !.regs = [r \in Regs |-> IF r \in R THEN Junk ELSE m.regs[r]]]
Clobbered(m) == Lose(m, 0 .. NCaller-1)
Call ==
  /\ Running /\ Here.op = "call"
  /\ misread' = (misread \/ \E s \in DOMAIN Here.args :
                    ~Agree(IF s = 1 THEN mach ELSE Clobbered(mach), Here.args[s]))
  /\ Define(Clobbered(mach))
  /\ at' = NextPoint
  /\ UNCHANGED <<vars, fn>>

(* memcpy moves its pointers to %rdi and %rsi, and rep movsb moves both of *)
(* them on.  %rsi is register 0 of the pool and %rdi register 1; a pool     *)
(* with a single caller-saved register is one without %rdi.                 *)
Rsi == 0
Rdi == 1
StringRegs == {Rsi, Rdi} \cap 0 .. NCaller-1
Memcpy ==
  /\ Running /\ Here.op = "memcpy"
  /\ LET loaded == IF Rdi \in StringRegs
                   THEN [mach EXCEPT !.regs[Rdi] = Moved(mach, Here.args[1])]
                   ELSE mach
     IN  misread' = (\/ misread
                     \/ ~Agree(mach, Here.args[1])
                     \/ ~Agree(loaded, Here.args[2]))
  /\ mach' = Lose(mach, StringRegs)
  /\ at' = NextPoint
  /\ UNCHANGED <<vars, fn, env>>

(* va_arg takes its argument for a vreg whatever it is, and fetches what    *)
(* it finds through %rbx, the first callee-saved register of the pool.     *)
VaArg ==
  /\ Running /\ Here.op = "va_arg"
  /\ misread' = (\/ misread
                 \/ Misreads(mach)
                 \/ \E s \in DOMAIN Here.args : Here.args[s] \in Immediates)
  /\ Define(Lose(mach, {NCaller}))
  /\ at' = NextPoint
  /\ UNCHANGED <<vars, fn>>

(* emit_phi_copies_for_edge: one copy after the other, in phi order, and   *)
(* none for a floating-point immediate.  The IR gives all phis of the      *)
(* block their values at once.                                             *)
Incoming(phi, pred) == phi.args[CHOOSE s \in 1..2 : phi.labels[s] = pred]
Copied(pred, succ) ==
  LET phis == PhisOf(succ)
      arg(i) == Incoming(phis[i], pred)
      step[i \in 0..Len(phis)] ==
        IF i = 0 THEN [m |-> mach, bad |-> FALSE]
        ELSE IF arg(i) = FpImm THEN step[i-1]
        ELSE [m   |-> Put(step[i-1].m, phis[i].dst, Moved(step[i-1].m, arg(i))),
              bad |-> step[i-1].bad \/ ~Agree(step[i-1].m, arg(i))]
  IN  step
EdgeCopies(pred, succ) == Copied(pred, succ)[Len(PhisOf(succ))]
PhiValues(pred, succ) ==
  LET phis == PhisOf(succ)
  IN  [v \in DOMAIN env |->
         IF \E i \in DOMAIN phis : phis[i].dst = v
         THEN Meant(Incoming(phis[CHOOSE i \in DOMAIN phis : phis[i].dst = v], pred))
         ELSE env[v]]

(* br and cbr: the condition is read first, then the edge is taken. *)
Branch ==
  /\ Running /\ Here.op \in {"br", "cbr"}
  /\ \E s \in DOMAIN Here.labels :
       LET succ   == Here.labels[s]
           copies == EdgeCopies(at[1], succ)
       IN  /\ misread' = (misread \/ copies.bad \/ Misreads(mach))
           /\ mach' = copies.m
           /\ env' = PhiValues(at[1], succ)
           /\ at' = Entry(succ)
  /\ UNCHANGED <<vars, fn>>

(* A floating-point immediate is taken for the vreg of its number, which    *)
(* Agree never grants it.                                                  *)
Ret ==
  /\ Running /\ Here.op = "ret"
  /\ misread' = (misread \/ Misreads(mach))
  /\ at' = Returned
  /\ UNCHANGED <<vars, fn, env, mach>>

AllocNext ==
  \/ Allocate
  \/ Prologue
  \/ Alu
  \/ Scratch
  \/ Fp
  \/ Call
  \/ Memcpy
  \/ VaArg
  \/ Branch
  \/ Ret

AllocSpec == AllocInit /\ [][AllocNext]_<<vars, exec>>

-----------------------------------------------------------------------------
(* d dominates b: some set of blocks has the entry and not b, and control   *)
(* leaves it through d alone.                                              *)
Dominates(f, d, b) ==
  \/ d = b
  \/ \E S \in SUBSET (Blocks(f) \ {d, b}) :
       (d # 1 => 1 \in S) /\ \A a \in S : Succs(f, a) \subseteq S \cup {d}

(* v is defined whenever control comes to p. *)
Available(f, v, p) ==
  \/ v \in Params(f)
  \/ \E q \in Points(f) :
       /\ At(f, q).dst = v
       /\ IF q[1] = p[1] THEN q[2] < p[2] ELSE Dominates(f, q[1], p[1])

(* Strict SSA form: one definition of every vreg, which dominates its uses, *)
(* and dominates the end of the predecessor a phi takes it from.            *)
InStrictSSA(f) ==
  /\ \A p, q \in Points(f) : At(f, p).dst # NoVreg /\ At(f, p).dst = At(f, q).dst => p = q
  /\ \A p \in Points(f) :
       LET in == At(f, p) IN
       /\ in.dst \notin Params(f)
       /\ IF in.op = "phi"
          THEN \A s \in 1..2 : in.args[s] \notin Immediates =>
                 Available(f, in.args[s], <<in.labels[s], Len(f.blocks[in.labels[s]])>>)
          ELSE \A v \in Uses(in) : Available(f, v, p)

(* v is read in block b, at instruction i or below it, or on its edges. *)
ReadFrom(f, v, b, i) ==
  \E p \in Points(f) :
    LET in == At(f, p) IN
    IF in.op = "phi" THEN \E s \in 1..2 : in.labels[s] = b /\ in.args[s] = v
                     ELSE p[1] = b /\ p[2] >= i /\ v \in Uses(in)
Defines(f, b, v) == \E i \in Instrs(f, b) : f.blocks[b][i].dst = v

(* No execution from p on reads v before it is defined again: the blocks D *)
(* it may go through do not.                                               *)
Dead(f, v, p) ==
  /\ ~ReadFrom(f, v, p[1], p[2])
  /\ \E D \in SUBSET Blocks(f) :
       /\ Succs(f, p[1]) \subseteq D
       /\ \A b \in D : \/ Defines(f, b, v)
                       \/ ~ReadFrom(f, v, b, 1) /\ Succs(f, b) \subseteq D

LiveAcross(f, p) == {v \in Vregs(f) : Available(f, v, p) /\ ~Dead(f, v, <<p[1], p[2]+1>>)}

(* The functions whose code is right.  A vreg that lives across a call has *)
(* met it before the loop extension lengthened its interval.               *)
CallsMarked(f) ==
  \A p \in Points(f) : At(f, p).op = "call" => \A v \in LiveAcross(f, p) : CrossesCall(f, v)

(* No vreg is in a register memcpy or va_arg uses for itself. *)
PoolUndisturbed(f) ==
  \A p \in Points(f) :
    /\ At(f, p).op = "va_arg" => \A v \in LiveAcross(f, p) : ForceSpill(f, v)
    /\ At(f, p).op = "memcpy" =>
         \A v \in LiveAcross(f, p) \cup
                 {u \in {At(f, p).args[2]} \ Immediates : Rdi \in StringRegs} :
           CrossesCall(f, v) \/ ForceSpill(f, v)

(* No copy of an edge overwrites what a later one reads. *)
CopiesApart(f) ==
  \A p, q \in Points(f), s \in 1..2 :
    LET d == At(f, p).dst
        v == At(f, q).args[s]
    IN  p[1] = q[1] /\ p[2] < q[2] /\ At(f, q).op = "phi" /\ v \notin Immediates =>
          v # d /\ Start(f, v) <= FinalEnd(f, d) /\ Start(f, d) <= FinalEnd(f, v)

(* Floating-point immediates are arguments of floating-point operations    *)
(* alone, and va_arg takes a vreg.                                         *)
ImmediatesRead(f) ==
  \A p \in Points(f) : \A s \in DOMAIN At(f, p).args :
    /\ At(f, p).args[s] = FpImm => At(f, p).op = "fp"
    /\ At(f, p).op = "va_arg" => At(f, p).args[s] \notin Immediates

Sound(f) == /\ InStrictSSA(f)
            /\ CallsMarked(f)
            /\ PoolUndisturbed(f)
            /\ CopiesApart(f)
            /\ ImmediatesRead(f)

-----------------------------------------------------------------------------
(* Type invariant of the run; the intervals computed for the function are   *)
(* a list the scan may be given.                                            *)
ExecTypeOK ==
  /\ WellFormed([ivs |-> iv, nvregs |-> nvregs])
  /\ at \in Points(fn) \cup {NotStarted, Returned}
  /\ env \in [Vregs(fn) -> Values]
  /\ mach \in [regs : [Regs -> Values], slots : [Vregs(fn) -> Values]]
  /\ misread \in BOOLEAN

(* The code never reads, from a register or a slot, a value other than the *)
(* one the IR has there: across loops, calls, edges and evictions.         *)
ReadsAgree == ~misread
=============================================================================
