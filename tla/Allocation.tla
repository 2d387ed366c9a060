----------------------------- MODULE Allocation -----------------------------
(***************************************************************************)
(* What the register allocator promises the instruction selectors, without *)
(* saying how it gets there: one step maps every vreg to a register of the *)
(* pool or to its stack slot, and the mapping is valid for the live        *)
(* intervals it was computed from.  LinearScan implements this module.     *)
(***************************************************************************)
EXTENDS Integers

CONSTANTS
  Regs,      \* the pool, as indices 0 .. nregs-1
  NCaller    \* registers below this index do not survive a call

VARIABLES
  intervals, \* the set of live intervals of the function being compiled
  nvregs,    \* vregs are 0 .. nvregs-1
  reg_of,    \* the answer: vreg -> register, or -1 for the stack slot
  decided    \* has the answer been given?

vars == <<intervals, nvregs, reg_of, decided>>

InMemory == -1

Overlap(u, v) == u.start <= v.end /\ v.start <= u.end

(* regalloc.c's contract with isel.c: two vregs that are live at a common  *)
(* position do not share a register, a vreg live at a call is in memory or *)
(* in a register the callee preserves, and a floating-point vreg is always *)
(* in memory.                                                              *)
Valid(f) ==
  /\ f \in [0..nvregs-1 -> {InMemory} \cup Regs]
  /\ \A u, v \in intervals :
       u # v /\ Overlap(u, v) /\ f[u.vreg] # InMemory
         => f[u.vreg] # f[v.vreg]
  /\ \A u \in intervals :
       /\ u.crosses_call => f[u.vreg] = InMemory \/ f[u.vreg] >= NCaller
       /\ u.force_spill => f[u.vreg] = InMemory

Decide ==
  /\ ~decided
  /\ decided' = TRUE
  /\ Valid(reg_of')
  /\ UNCHANGED <<intervals, nvregs>>

Init == ~decided /\ reg_of = <<>>

Spec == Init /\ [][Decide]_vars
=============================================================================
