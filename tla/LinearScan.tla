----------------------------- MODULE LinearScan -----------------------------
(***************************************************************************)
(* regalloc_run_internal of src/backend/regalloc.c: the linear scan over   *)
(* the live intervals of one function.  Its input is the interval list of  *)
(* compute_intervals (module Intervals); its answer is the array reg_of    *)
(* that every instruction selector reads.                                  *)
(*                                                                         *)
(* One action per path through the body of the scan loop; each contains    *)
(* the expiry of finished intervals that opens the body.  The array        *)
(* reg_free_until is written and never read, so it has no counterpart.     *)
(***************************************************************************)
EXTENDS Integers, Sequences, FiniteSets, Functions

CONSTANTS
  PoolSize,  \* g_target->nregs
  NCaller,   \* g_target->n_caller_saved: pool indices below it are caller-saved
  Inputs     \* the interval lists considered: records [ivs, nvregs]

NRegs == IF PoolSize > 16 THEN 16 ELSE PoolSize
Regs  == 0 .. NRegs-1

(* The sentinels of Interval.assigned, of reg_holder and of reg_of. *)
Unset    == -1
Spilled  == -2
Free     == -1
InMemory == -1

Interval == [vreg : Nat, start : Nat, end : Int,
             crosses_call : BOOLEAN, force_spill : BOOLEAN]

(* find_iv looks a vreg up before add_iv adds it, so that no vreg has two  *)
(* intervals, and maxv is raised with every vreg that gets one; a new      *)
(* interval is touched at once, so that it is never empty.                 *)
WellFormed(in) ==
  /\ in.nvregs \in Nat
  /\ in.ivs \in Seq(Interval)
  /\ \A i \in 1..Len(in.ivs) : in.ivs[i].vreg < in.nvregs
  /\ \A i \in 1..Len(in.ivs) : in.ivs[i].start <= in.ivs[i].end
  /\ \A i, j \in 1..Len(in.ivs) : in.ivs[i].vreg = in.ivs[j].vreg => i = j

ASSUME PoolAssumption   == PoolSize \in Nat /\ NCaller \in Nat
ASSUME InputsAssumption == \A in \in Inputs : WellFormed(in)

VARIABLES
  pc,         \* "sort" -> "scan" -> "done"
  n,          \* L.n
  iv,         \* L.iv, without the field the scan writes
  nvregs,     \* the out parameter of compute_intervals
  assigned,   \* the field assigned of each interval: Unset, Spilled or a register
  k,          \* the interval the scan is at
  reg_holder, \* per register, the vreg that holds it, or Free
  nassigned,  \* counter: times a register was handed out
  nspills,    \* counter: intervals sent to memory
  reg_of      \* the answer

vars == <<pc, n, iv, nvregs, assigned, k, reg_holder, nassigned, nspills, reg_of>>
input == <<n, iv, nvregs>>

InitFrom(in) ==
  /\ pc = "sort"
  /\ n = Len(in.ivs)
  /\ iv = in.ivs
  /\ nvregs = in.nvregs
  /\ assigned = [i \in 1..n |-> Unset]
  /\ k = 1
  /\ reg_holder = [r \in Regs |-> Free]
  /\ nassigned = 0
  /\ nspills = 0
  /\ reg_of = <<>>

Init == \E in \in Inputs : InitFrom(in)

-----------------------------------------------------------------------------
(* The environment variable CC_NO_REGALLOC: every vreg lives in memory. *)
Bypass ==
  /\ pc = "sort"
  /\ pc' = "done"
  /\ reg_of' = [v \in 0..nvregs-1 |-> InMemory]
  /\ nspills' = nvregs
  /\ UNCHANGED <<input, assigned, k, reg_holder, nassigned>>

SortedByStart(a) == \A i, j \in 1..n : i < j => a[i].start <= a[j].start

(* qsort with cmp_iv: intervals of equal start come out in any order. *)
Sort ==
  /\ pc = "sort"
  /\ pc' = "scan"
  /\ \E p \in Bijection(1..n, 1..n) : iv' = [i \in 1..n |-> iv[p[i]]]
  /\ SortedByStart(iv')
  /\ UNCHANGED <<n, nvregs, assigned, k, reg_holder, nassigned, nspills, reg_of>>

-----------------------------------------------------------------------------
(* The loops that look the holder of a register up in the list. *)
IndexOf(v) == CHOOSE q \in 1..n : iv[q].vreg = v
EndOf(v)   == iv[IndexOf(v)].end

(* Variants with a slip in one comparison, for the mutation runs. *)
ExpiredNever(i) == reg_holder
ExpiredEarly(i) ==
  [r \in Regs |-> IF reg_holder[r] # Free /\ EndOf(reg_holder[r]) <= iv[i].start
                  THEN Free
                  ELSE reg_holder[r]]
WholePool(i)  == 0 .. NRegs-1

(* reg_holder after the expiry loop at the head of iteration i: a register *)
(* is released when its holder ends strictly before interval i starts.     *)
Expired(i) ==
  [r \in Regs |-> IF reg_holder[r] # Free /\ EndOf(reg_holder[r]) < iv[i].start
                  THEN Free
                  ELSE reg_holder[r]]

Pool(i) == (IF iv[i].crosses_call THEN NCaller ELSE 0) .. NRegs-1

FreeRegs(i) == {r \in Pool(i) : Expired(i)[r] = Free}

(* The register taken is the first free one of the pool. *)
LastFree(i, r)  == r \in FreeRegs(i) /\ \A s \in FreeRegs(i) : s <= r
FirstFree(i, r) == r \in FreeRegs(i) /\ \A s \in FreeRegs(i) : r <= s

(* Registers of the pool whose holder ends later than interval i, and the  *)
(* one the search loop keeps: the furthest end, the lowest index on a tie. *)
AnyHolder(i) == Pool(i)
Longer(i) == {r \in Pool(i) : EndOf(Expired(i)[r]) > iv[i].end}
IsFurthest(i, r) ==
  /\ r \in Longer(i)
  /\ \A s \in Longer(i) :
       LET er == EndOf(Expired(i)[r])
           es == EndOf(Expired(i)[s])
       IN  es < er \/ (es = er /\ r <= s)

Scanning == pc = "scan" /\ k <= n

SpillForced ==
  /\ Scanning
  /\ iv[k].force_spill
  /\ reg_holder' = Expired(k)
  /\ assigned' = [assigned EXCEPT ![k] = Spilled]
  /\ nspills' = nspills + 1
  /\ k' = k + 1
  /\ UNCHANGED <<pc, input, nassigned, reg_of>>

TakeFree ==
  /\ Scanning
  /\ ~iv[k].force_spill
  /\ \E pick \in Pool(k) :
       /\ FirstFree(k, pick)
       /\ reg_holder' = [Expired(k) EXCEPT ![pick] = iv[k].vreg]
       /\ assigned' = [assigned EXCEPT ![k] = pick]
  /\ nassigned' = nassigned + 1
  /\ k' = k + 1
  /\ UNCHANGED <<pc, input, nspills, reg_of>>

(* The victim loses its register for its whole life, not from here on. *)
EvictFurthest ==
  /\ Scanning
  /\ ~iv[k].force_spill
  /\ FreeRegs(k) = {}
  /\ \E victim \in Pool(k) :
       /\ IsFurthest(k, victim)
       /\ reg_holder' = [Expired(k) EXCEPT ![victim] = iv[k].vreg]
       /\ assigned' = [assigned EXCEPT ![IndexOf(Expired(k)[victim])] = Spilled,
                                       ![k] = victim]
  /\ nspills' = nspills + 1
  /\ nassigned' = nassigned + 1
  /\ k' = k + 1
  /\ UNCHANGED <<pc, input, reg_of>>

SpillSelf ==
  /\ Scanning
  /\ ~iv[k].force_spill
  /\ FreeRegs(k) = {}
  /\ Longer(k) = {}
  /\ reg_holder' = Expired(k)
  /\ assigned' = [assigned EXCEPT ![k] = Spilled]
  /\ nspills' = nspills + 1
  /\ k' = k + 1
  /\ UNCHANGED <<pc, input, nassigned, reg_of>>

(* The answer array: vregs without an interval stay in memory, and so do   *)
(* those with the mark Spilled.                                            *)
RawAnswer(v) == IF \E i \in 1..n : iv[i].vreg = v THEN assigned[IndexOf(v)] ELSE InMemory
Answer(v) ==
  IF \E i \in 1..n : iv[i].vreg = v /\ assigned[i] # Spilled
  THEN assigned[IndexOf(v)]
  ELSE InMemory

BuildAnswer ==
  /\ pc = "scan"
  /\ k > n
  /\ pc' = "done"
  /\ reg_of' = [v \in 0..nvregs-1 |-> Answer(v)]
  /\ UNCHANGED <<input, assigned, k, reg_holder, nassigned, nspills>>

Next ==
  \/ Bypass
  \/ Sort
  \/ SpillForced
  \/ TakeFree
  \/ EvictFurthest
  \/ SpillSelf
  \/ BuildAnswer

Spec == Init /\ [][Next]_vars

-----------------------------------------------------------------------------
Array(S) == [1..n -> S]

(* Type invariant. *)
TypeOK ==
  /\ pc \in {"sort", "scan", "done"}
  /\ n \in Nat
  /\ iv \in Array(Interval)
  /\ nvregs \in Nat
  /\ \A i \in 1..n : iv[i].vreg < nvregs
  /\ assigned \in Array({Unset, Spilled} \cup Regs)
  /\ k \in 1..(n+1)
  /\ reg_holder \in [Regs -> {Free} \cup Nat]
  /\ nassigned \in Nat
  /\ nspills \in Nat
  /\ pc = "done" => reg_of \in [0..nvregs-1 -> {InMemory} \cup Regs]

InReg(i) == assigned[i] \in Regs
Overlap(i, j) == iv[i].start <= iv[j].end /\ iv[j].start <= iv[i].end

(* Two intervals that overlap never hold the same register, at any point   *)
(* of the scan, whatever was expired or evicted before (regalloc.c:336-403)*)
NoSharedRegister ==
  \A i, j \in 1..n :
    i # j /\ InReg(i) /\ InReg(j) /\ Overlap(i, j) => assigned[i] # assigned[j]

(* An interval marked as crossing a call is never given a caller-saved     *)
(* register, neither as the taker of a free one nor by evicting its holder *)
(* (regalloc.c:358-362), and a forced spill never holds one (l.351).       *)
PoolRespected ==
  \A i \in 1..n :
    InReg(i) => /\ ~iv[i].force_spill
                /\ iv[i].crosses_call => assigned[i] >= NCaller

(* An interval that could have had a register is in memory only if at some *)
(* position of its life more register candidates were live than the pool   *)
(* of one of them holds: the scan never spills without pressure.           *)
Candidates(pos) == {i \in 1..n : /\ ~iv[i].force_spill
                                 /\ iv[i].start <= pos
                                 /\ pos <= iv[i].end}
SpillsOnlyUnderPressure ==
  \A i \in 1..n :
    assigned[i] = Spilled /\ ~iv[i].force_spill =>
      \E j \in 1..n :
        /\ iv[i].start <= iv[j].start /\ iv[j].start <= iv[i].end
        /\ j \in Candidates(iv[j].start)
        /\ Cardinality(Candidates(iv[j].start)) > Cardinality(Pool(j))

(* The registers in use are a prefix of the caller-saved part and a prefix *)
(* of the callee-saved part of the pool.  x86/isel.c saves the used ones   *)
(* at the offset of their rank (l.137-155) and restores them at the offset *)
(* of their index (l.188-190): the two agree only because of this.         *)
Used == {assigned[i] : i \in {j \in 1..n : InReg(j)}}
UsedIsPrefix ==
  \A r \in Used, s \in Regs :
    s < r /\ (r < NCaller \/ NCaller <= s) => s \in Used

(* A register passes directly from one interval to another only if the old *)
(* holder's life is over or the new one's life ends sooner.                *)
HandoverShortens ==
  [][\A r \in Regs :
       LET old == reg_holder[r]
           new == reg_holder'[r]
       IN  old # Free /\ new # Free /\ old # new =>
             \/ EndOf(old) < iv[k].start
             \/ EndOf(new) < EndOf(old)]_vars

(* The scan implements the contract of module Allocation. *)
Contract == INSTANCE Allocation WITH
              intervals <- {iv[i] : i \in 1..n},
              decided   <- (pc = "done")
ImplementsContract == Contract!Spec
=============================================================================
