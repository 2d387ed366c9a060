--------------------------- MODULE RegAllocProofs ---------------------------
(***************************************************************************)
(* For every function, every pool and every order qsort may leave: no two  *)
(* live intervals share a register after the scan, the intervals           *)
(* compute_intervals answers with cover what is live, and the code that is *)
(* emitted for a sound function reads what the IR reads.                   *)
(***************************************************************************)
EXTENDS RegAlloc, Recursion

-----------------------------------------------------------------------------
(* The scan, for every pool, every interval list and every order qsort may *)
(* leave.                                                                  *)
Distinct == \A i, j \in 1..n : iv[i].vreg = iv[j].vreg => i = j

(* Before the scan nothing has been handed out. *)
Fresh ==
  pc = "sort" => /\ k = 1
                 /\ assigned = [i \in 1..n |-> Unset]
                 /\ reg_holder = [r \in Regs |-> Free]

(* During the scan: the list is sorted; exactly the intervals before k     *)
(* have been decided; the holder of a register is one of those, and was    *)
(* assigned that register; an interval that has a register and no longer   *)
(* holds it ends before every interval still to come starts.               *)
Sorted == pc = "scan" => SortedByStart(iv)
Decided == pc = "scan" => \A i \in 1..n : assigned[i] = Unset <=> i >= k
HoldersAssigned ==
  pc = "scan" =>
    \A r \in Regs : reg_holder[r] # Free =>
      \E i \in 1..n : i < k /\ iv[i].vreg = reg_holder[r] /\ assigned[i] = r
Holds(i) == reg_holder[assigned[i]] = iv[i].vreg
RetiredAreOver ==
  pc = "scan" =>
    \A i, j \in 1..n : InReg(i) /\ ~Holds(i) /\ k <= j => iv[i].end < iv[j].start

(* The answer array says what the interval list says. *)
Answered ==
  pc = "done" =>
    \A i \in 1..n :
      reg_of[iv[i].vreg] = IF InReg(i) THEN assigned[i] ELSE InMemory

IInv ==
  /\ TypeOK
  /\ Distinct
  /\ Fresh
  /\ Sorted
  /\ Decided
  /\ HoldersAssigned
  /\ RetiredAreOver
  /\ NoSharedRegister
  /\ PoolRespected
  /\ Answered

-----------------------------------------------------------------------------
(* The pool is a set of naturals, and the sentinels are outside it. *)
LEMMA RegsAreNat ==
  /\ Regs \subseteq Nat
  /\ NRegs \in Nat
  /\ Spilled \notin Regs
  /\ Unset \notin Regs
  BY PoolAssumption DEF Regs, NRegs, Spilled, Unset

(* A lookup by vreg finds the interval the vreg belongs to. *)
LEMMA Lookup ==
  ASSUME Distinct, NEW i \in 1..n
  PROVE  IndexOf(iv[i].vreg) = i
  BY DEF Distinct, IndexOf

(* The pool of an interval is part of the registers. *)
LEMMA PoolInRegs ==
  ASSUME NEW i \in 1..n
  PROVE  Pool(i) \subseteq Regs
  BY PoolAssumption, RegsAreNat DEF Pool, Regs

(* The scan starts well from any list compute_intervals may answer with.   *)
LEMMA InitFromIInv ==
  ASSUME NEW in, WellFormed(in), InitFrom(in)
  PROVE  IInv
<1>1. n \in Nat /\ iv \in Array(Interval) /\ nvregs \in Nat
  BY DEF InitFrom, WellFormed, Array
<1>2. Distinct /\ \A i \in 1..n : iv[i].vreg < nvregs
  BY DEF InitFrom, WellFormed, Distinct
<1>3. TypeOK
  BY <1>1, <1>2 DEF InitFrom, TypeOK, Array
<1>4. \A i \in 1..n : ~InReg(i)
  BY <1>1, RegsAreNat DEF InitFrom, InReg, Unset
<1> QED
  BY <1>2, <1>3, <1>4 DEF InitFrom, IInv, Fresh, Sorted, Decided, HoldersAssigned,
     RetiredAreOver, NoSharedRegister, PoolRespected, Answered

LEMMA InitIInv == Init => IInv
  BY InputsAssumption, InitFromIInv DEF Init

-----------------------------------------------------------------------------
(* What the three placement lemmas below share: the state at the head of   *)
(* iteration k, seen after its expiry loop.                                *)
LEMMA AtIteration ==
  ASSUME IInv, Scanning
  PROVE  /\ k \in 1..n
         /\ Expired(k) \in [Regs -> {Free} \cup Nat]
         /\ assigned[k] = Unset /\ ~InReg(k)
         /\ \A r \in Regs : Expired(k)[r] # Free =>
              \E i \in 1..n : /\ i < k
                             /\ iv[i].vreg = Expired(k)[r]
                             /\ assigned[i] = r
         /\ \A i, j \in 1..n :
              InReg(i) /\ Expired(k)[assigned[i]] # iv[i].vreg /\ k <= j
                => iv[i].end < iv[j].start
<1>1. k \in 1..n
  BY DEF IInv, TypeOK, Scanning
<1>2. Expired(k) \in [Regs -> {Free} \cup Nat]
  BY DEF IInv, TypeOK, Expired
<1>3. assigned[k] = Unset /\ ~InReg(k)
  BY <1>1, RegsAreNat DEF IInv, Decided, Scanning, InReg, Unset
<1>4. ASSUME NEW r \in Regs, Expired(k)[r] # Free
      PROVE  \E i \in 1..n : /\ i < k
                             /\ iv[i].vreg = Expired(k)[r]
                             /\ assigned[i] = r
  BY <1>4 DEF IInv, HoldersAssigned, Scanning, Expired
<1>5. ASSUME NEW i \in 1..n, NEW j \in 1..n, InReg(i), k <= j,
             Expired(k)[assigned[i]] # iv[i].vreg
      PROVE  iv[i].end < iv[j].start
  <2>1. CASE ~Holds(i)
    BY <1>5, <2>1 DEF IInv, RetiredAreOver, Scanning
  <2>2. CASE Holds(i)
    <3>1. assigned[i] \in Regs /\ IndexOf(iv[i].vreg) = i
      BY <1>5, Lookup DEF InReg, IInv
    <3>2. iv[i].end < iv[k].start
      BY <1>5, <2>2, <3>1 DEF Expired, Holds, EndOf
    <3>3. iv[k].start <= iv[j].start
      BY <1>1, <1>5 DEF IInv, Sorted, SortedByStart, Scanning, TypeOK, Array, Interval
    <3>4. iv[i].end \in Int /\ iv[k].start \in Int /\ iv[j].start \in Int
      BY <1>1 DEF IInv, TypeOK, Array, Interval
    <3> QED
      BY <3>2, <3>3, <3>4
  <2> QED
    BY <2>1, <2>2
<1> QED
  BY <1>1, <1>2, <1>3, <1>4, <1>5

(* Interval k goes to memory: SpillForced and SpillSelf. *)
LEMMA SpillPreserves ==
  ASSUME IInv, SpillForced \/ SpillSelf
  PROVE  IInv'
<1> USE DEF IInv
<1>1. /\ Scanning
      /\ reg_holder' = Expired(k)
      /\ assigned' = [assigned EXCEPT ![k] = Spilled]
      /\ nspills' = nspills + 1
      /\ k' = k + 1
      /\ UNCHANGED <<pc, n, iv, nvregs, nassigned, reg_of>>
  BY DEF SpillForced, SpillSelf, input
<1>2. pc = "scan" /\ pc' = "scan"
  BY <1>1 DEF Scanning
<1>3. k \in 1..n
  BY <1>1, AtIteration
<1>4. assigned'[k] = Spilled /\ \A i \in 1..n : i # k => assigned'[i] = assigned[i]
  BY <1>1, <1>3 DEF TypeOK, Array
<1>5. \A i \in 1..n : InReg(i)' => InReg(i) /\ assigned'[i] = assigned[i] /\ i # k
  BY <1>4, RegsAreNat DEF InReg
<1>6. TypeOK'
  BY <1>1, <1>2, <1>3, AtIteration DEF TypeOK, Array
<1>7. Distinct' /\ Fresh' /\ Sorted' /\ Answered'
  BY <1>1, <1>2 DEF Distinct, Fresh, Sorted, SortedByStart, Answered
<1>8. Decided'
  BY <1>1, <1>2, <1>3, <1>4 DEF Decided, TypeOK, Array, Spilled, Unset
<1>9. HoldersAssigned'
  <2> SUFFICES ASSUME NEW r \in Regs, reg_holder'[r] # Free
               PROVE  \E i \in 1..n : i < k + 1 /\ iv[i].vreg = reg_holder'[r] /\ assigned'[i] = r
    BY <1>1 DEF HoldersAssigned
  <2>1. PICK i \in 1..n : i < k /\ iv[i].vreg = reg_holder'[r] /\ assigned[i] = r
    BY <1>1, AtIteration
  <2> QED
    BY <1>3, <1>4, <2>1
<1>10. RetiredAreOver'
  BY <1>1, <1>3, <1>5, AtIteration DEF RetiredAreOver, Holds
<1>11. NoSharedRegister'
  BY <1>1, <1>5 DEF NoSharedRegister, Overlap
<1>12. PoolRespected'
  BY <1>1, <1>5 DEF PoolRespected, Pool
<1> QED
  BY <1>6, <1>7, <1>8, <1>9, <1>10, <1>11, <1>12

(* Interval k gets register r, free after the expiry or taken from the     *)
(* interval that still held it, which goes to memory: TakeFree and         *)
(* EvictFurthest.                                                          *)
LEMMA PlacePreserves ==
  ASSUME IInv, TakeFree \/ EvictFurthest
  PROVE  IInv'
<1> USE DEF IInv
<1>1. /\ Scanning
      /\ ~iv[k].force_spill
      /\ k' = k + 1
      /\ nassigned' = nassigned + 1
      /\ nspills' \in Nat
      /\ UNCHANGED <<pc, n, iv, nvregs, reg_of>>
  BY DEF TakeFree, EvictFurthest, input, TypeOK
<1>2. pc = "scan" /\ pc' = "scan" /\ k \in 1..n
  BY <1>1, AtIteration DEF Scanning
<1>3. PICK r \in Pool(k) :
        /\ r \in Regs
        /\ reg_holder' = [Expired(k) EXCEPT ![r] = iv[k].vreg]
        /\ assigned' \in Array({Unset, Spilled} \cup Regs)
        /\ assigned'[k] = r
        /\ \A i \in 1..n : i # k =>
              assigned'[i] = IF Expired(k)[r] = iv[i].vreg THEN Spilled ELSE assigned[i]
  <2>1. CASE TakeFree
    <3>1. PICK r \in FreeRegs(k) :
            /\ reg_holder' = [Expired(k) EXCEPT ![r] = iv[k].vreg]
            /\ assigned' = [assigned EXCEPT ![k] = r]
      BY <2>1 DEF TakeFree, FirstFree
    <3>2. r \in Pool(k) /\ r \in Regs /\ Expired(k)[r] = Free
      BY <1>2, <3>1, PoolInRegs DEF FreeRegs
    <3>3. \A i \in 1..n : iv[i].vreg # Free
      BY DEF TypeOK, Array, Interval, Free
    <3> QED
      BY <1>2, <3>1, <3>2, <3>3 DEF TypeOK, Array
  <2>2. CASE EvictFurthest
    <3>1. PICK r \in Pool(k) :
            /\ reg_holder' = [Expired(k) EXCEPT ![r] = iv[k].vreg]
            /\ assigned' = [assigned EXCEPT ![IndexOf(Expired(k)[r])] = Spilled, ![k] = r]
      BY <2>2 DEF EvictFurthest
    <3>2. r \in Regs /\ Expired(k)[r] # Free
      BY <1>2, <2>2, <3>1, PoolInRegs DEF EvictFurthest, FreeRegs
    <3>3. PICK h \in 1..n : h < k /\ iv[h].vreg = Expired(k)[r]
      BY <1>1, <3>2, AtIteration
    <3>4. IndexOf(Expired(k)[r]) = h
      BY <3>3, Lookup
    <3>5. \A i \in 1..n : Expired(k)[r] = iv[i].vreg <=> i = h
      BY <3>3 DEF Distinct
    <3> QED
      BY <1>2, <3>1, <3>2, <3>3, <3>4, <3>5 DEF TypeOK, Array
  <2> QED
    BY <2>1, <2>2
<1>4. \A i \in 1..n : InReg(i)' /\ i # k =>
        InReg(i) /\ assigned'[i] = assigned[i] /\ Expired(k)[r] # iv[i].vreg
  BY <1>3, RegsAreNat DEF InReg
<1>5. ASSUME NEW i \in 1..n, InReg(i)', i # k, assigned'[i] = r
      PROVE  iv[i].end < iv[k].start
  BY <1>1, <1>2, <1>4, <1>5, AtIteration
<1>6. TypeOK'
  BY <1>1, <1>2, <1>3, AtIteration DEF TypeOK, Array, Interval
<1>7. Distinct' /\ Fresh' /\ Sorted' /\ Answered'
  BY <1>1, <1>2 DEF Distinct, Fresh, Sorted, SortedByStart, Answered
<1>8. Decided'
  <2> SUFFICES ASSUME NEW i \in 1..n
               PROVE  assigned'[i] = Unset <=> i >= k + 1
    BY <1>1 DEF Decided
  <2>1. k \in Int /\ i \in Int /\ Spilled # Unset
    BY <1>2 DEF Spilled, Unset
  <2>2. CASE i = k
    BY <1>3, <2>1, <2>2, RegsAreNat
  <2>3. CASE i # k /\ Expired(k)[r] = iv[i].vreg
    <3>1. Expired(k)[r] # Free
      BY <2>3 DEF TypeOK, Array, Interval, Free
    <3>2. PICK h \in 1..n : h < k /\ iv[h].vreg = Expired(k)[r]
      BY <1>1, <1>3, <3>1, AtIteration
    <3> QED
      BY <1>3, <2>1, <2>3, <3>2 DEF Distinct
  <2>4. CASE i # k /\ Expired(k)[r] # iv[i].vreg
    BY <1>2, <1>3, <2>1, <2>4 DEF Decided
  <2> QED
    BY <2>2, <2>3, <2>4
<1>9. HoldersAssigned'
  <2> SUFFICES ASSUME NEW s \in Regs, reg_holder'[s] # Free
               PROVE  \E i \in 1..n : i < k + 1 /\ iv[i].vreg = reg_holder'[s] /\ assigned'[i] = s
    BY <1>1 DEF HoldersAssigned
  <2>1. CASE s = r
    BY <1>2, <1>3, <2>1, <1>1, AtIteration
  <2>2. CASE s # r
    <3>1. reg_holder'[s] = Expired(k)[s]
      BY <1>1, <1>3, <2>2, AtIteration
    <3>2. PICK i \in 1..n : i < k /\ iv[i].vreg = Expired(k)[s] /\ assigned[i] = s
      BY <1>1, <3>1, AtIteration
    <3>3. Expired(k)[r] # iv[i].vreg
      <4> SUFFICES ASSUME Expired(k)[r] = iv[i].vreg PROVE FALSE
        OBVIOUS
      <4>1. Expired(k)[r] # Free
        BY DEF TypeOK, Array, Interval, Free
      <4>2. PICK h \in 1..n : iv[h].vreg = Expired(k)[r] /\ assigned[h] = r
        BY <1>1, <1>3, <4>1, AtIteration
      <4> QED
        BY <2>2, <3>2, <4>2 DEF Distinct
    <3> QED
      BY <1>2, <1>3, <3>1, <3>2, <3>3
  <2> QED
    BY <2>1, <2>2
<1>10. RetiredAreOver'
  <2> SUFFICES ASSUME NEW i \in 1..n, NEW j \in 1..n, InReg(i)', ~Holds(i)', k + 1 <= j
               PROVE  iv[i].end < iv[j].start
    BY <1>1 DEF RetiredAreOver
  <2>1. i # k
    BY <1>1, <1>2, <1>3, AtIteration DEF Holds
  <2>2. InReg(i) /\ assigned'[i] = assigned[i] /\ assigned[i] \in Regs
    BY <1>4, <2>1 DEF InReg
  <2>3. k <= j
    BY <1>2
  <2>4. CASE assigned[i] = r
    <3>1. Expired(k)[assigned[i]] # iv[i].vreg
      BY <1>4, <2>1, <2>4
    <3> QED
      BY <1>1, <2>2, <2>3, <3>1, AtIteration
  <2>5. CASE assigned[i] # r
    <3>1. Expired(k)[assigned[i]] # iv[i].vreg
      BY <1>1, <1>3, <2>2, <2>5, AtIteration DEF Holds
    <3> QED
      BY <1>1, <2>2, <2>3, <3>1, AtIteration
  <2> QED
    BY <2>4, <2>5
<1>11. NoSharedRegister'
  <2> SUFFICES ASSUME NEW i \in 1..n, NEW j \in 1..n, i # j, InReg(i)', InReg(j)',
                      Overlap(i, j), assigned'[i] = assigned'[j]
               PROVE  FALSE
    BY <1>1 DEF NoSharedRegister, Overlap
  <2>1. iv[i].end \in Int /\ iv[i].start \in Int /\ iv[j].end \in Int /\ iv[j].start \in Int
    BY DEF TypeOK, Array, Interval
  <2>2. CASE i = k
    BY <1>3, <1>5, <2>1, <2>2 DEF Overlap
  <2>3. CASE j = k
    BY <1>3, <1>5, <2>1, <2>3 DEF Overlap
  <2>4. CASE i # k /\ j # k
    BY <1>4, <2>4 DEF NoSharedRegister
  <2> QED
    BY <2>2, <2>3, <2>4
<1>12. PoolRespected'
  BY <1>1, <1>2, <1>3, <1>4 DEF PoolRespected, Pool
<1> QED
  BY <1>6, <1>7, <1>8, <1>9, <1>10, <1>11, <1>12

-----------------------------------------------------------------------------
LEMMA SortPreserves == ASSUME IInv, Sort PROVE IInv'
<1> USE DEF IInv
<1>1. PICK p \in Bijection(1..n, 1..n) : iv' = [i \in 1..n |-> iv[p[i]]]
  BY DEF Sort
<1>2. /\ p \in [1..n -> 1..n]
      /\ \A i, j \in 1..n : p[i] = p[j] => i = j
  BY DEF Bijection, Injection, IsInjective
<1>3. /\ pc = "sort" /\ pc' = "scan"
      /\ SortedByStart(iv')
      /\ UNCHANGED <<n, nvregs, assigned, k, reg_holder, nassigned, nspills, reg_of>>
  BY DEF Sort
<1>4. k = 1 /\ \A i \in 1..n : assigned[i] = Unset /\ ~InReg(i)
  BY <1>3, RegsAreNat DEF Fresh, InReg
<1>5. TypeOK'
  BY <1>1, <1>2, <1>3 DEF TypeOK, Array
<1>6. Distinct' /\ Fresh' /\ Sorted' /\ Answered'
  BY <1>1, <1>2, <1>3 DEF Distinct, Fresh, Sorted, SortedByStart, Answered
<1>7. Decided' /\ HoldersAssigned'
  BY <1>3, <1>4 DEF Decided, HoldersAssigned, Fresh
<1>8. RetiredAreOver' /\ NoSharedRegister' /\ PoolRespected'
  BY <1>3, <1>4 DEF RetiredAreOver, NoSharedRegister, PoolRespected, InReg
<1> QED
  BY <1>5, <1>6, <1>7, <1>8

LEMMA BypassPreserves == ASSUME IInv, Bypass PROVE IInv'
<1> USE DEF IInv
<1>1. \A i \in 1..n : ~InReg(i) /\ iv[i].vreg \in 0..nvregs-1
  BY RegsAreNat DEF Bypass, Fresh, InReg, TypeOK, Array, Interval
<1>2. TypeOK'
  BY DEF Bypass, TypeOK, Array, input
<1>3. Answered'
  BY <1>1 DEF Bypass, Answered, InReg, input
<1> QED
  BY <1>2, <1>3 DEF Bypass, input, Distinct, Fresh, Sorted, Decided, HoldersAssigned,
     RetiredAreOver, Holds, NoSharedRegister, Overlap, PoolRespected, Pool, InReg

LEMMA BuildAnswerPreserves == ASSUME IInv, BuildAnswer PROVE IInv'
<1> USE DEF IInv
<1>1. /\ pc = "scan" /\ pc' = "done" /\ k > n
      /\ reg_of' = [v \in 0..nvregs-1 |->
                      IF \E i \in 1..n : iv[i].vreg = v /\ assigned[i] # Spilled
                      THEN assigned[IndexOf(v)]
                      ELSE InMemory]
      /\ UNCHANGED <<n, iv, nvregs, assigned, k, reg_holder, nassigned, nspills>>
  BY DEF BuildAnswer, Answer, input
<1>2. \A i \in 1..n : assigned[i] # Spilled <=> InReg(i)
  BY <1>1, RegsAreNat DEF Decided, TypeOK, Array, InReg
<1>3. ASSUME NEW v \in 0..nvregs-1, NEW i \in 1..n, iv[i].vreg = v
      PROVE  reg_of'[v] = IF InReg(i) THEN assigned[i] ELSE InMemory
  <2>1. IndexOf(v) = i /\ \A j \in 1..n : iv[j].vreg = v => j = i
    BY <1>3, Lookup DEF Distinct
  <2> QED
    BY <1>1, <1>2, <1>3, <2>1
<1>4. Answered'
  <2> SUFFICES ASSUME NEW i \in 1..n
               PROVE  reg_of'[iv[i].vreg] = IF InReg(i) THEN assigned[i] ELSE InMemory
    BY <1>1 DEF Answered, InReg
  <2>1. iv[i].vreg \in 0..nvregs-1
    BY DEF TypeOK, Array, Interval
  <2> QED
    BY <1>3, <2>1
<1>5. reg_of' \in [0..nvregs-1 -> {InMemory} \cup Regs]
  <2> SUFFICES ASSUME NEW v \in 0..nvregs-1 PROVE reg_of'[v] \in {InMemory} \cup Regs
    BY <1>1
  <2>1. CASE \E i \in 1..n : iv[i].vreg = v
    BY <1>3, <2>1 DEF InReg
  <2>2. CASE ~\E i \in 1..n : iv[i].vreg = v
    BY <1>1, <2>2
  <2> QED
    BY <2>1, <2>2
<1>6. TypeOK'
  BY <1>1, <1>5 DEF TypeOK, Array
<1> QED
  BY <1>1, <1>4, <1>6 DEF Distinct, Fresh, Sorted, Decided, HoldersAssigned,
     RetiredAreOver, NoSharedRegister, Overlap, PoolRespected, Pool, InReg

(* IInv is inductive. *)
THEOREM Inductive == IInv /\ [Next]_vars => IInv'
<1> SUFFICES ASSUME IInv, [Next]_vars PROVE IInv'
  OBVIOUS
<1>1. CASE Bypass
  BY <1>1, BypassPreserves
<1>2. CASE Sort
  BY <1>2, SortPreserves
<1>3. CASE SpillForced \/ SpillSelf
  BY <1>3, SpillPreserves
<1>4. CASE TakeFree \/ EvictFurthest
  BY <1>4, PlacePreserves
<1>5. CASE BuildAnswer
  BY <1>5, BuildAnswerPreserves
<1>6. CASE UNCHANGED vars
  BY <1>6 DEF vars, IInv, TypeOK, Array, Distinct, Fresh, Sorted, SortedByStart, Decided,
     HoldersAssigned, RetiredAreOver, Holds, NoSharedRegister, Overlap,
     PoolRespected, Pool, Answered, InReg
<1> QED
  BY <1>1, <1>2, <1>3, <1>4, <1>5, <1>6 DEF Next

(* The inductive invariant holds of every run of the allocator. *)
THEOREM Invariance == Spec => []IInv
  BY InitIInv, Inductive, PTL DEF Spec

(* The variables of regalloc_run_internal keep their types; in particular  *)
(* a register index never leaves the pool.                                 *)
THEOREM TypeCorrect == Spec => []TypeOK
<1>1. IInv => TypeOK
  BY DEF IInv
<1> QED
  BY <1>1, Invariance, PTL

(* Intervals that overlap never share a register. *)
THEOREM NoSharing == Spec => []NoSharedRegister
<1>1. IInv => NoSharedRegister
  BY DEF IInv
<1> QED
  BY <1>1, Invariance, PTL

(* Calls and floating point are respected: what crosses a call is given    *)
(* only registers that a call preserves, a forced spill none at all.       *)
THEOREM PoolsRespected == Spec => []PoolRespected
<1>1. IInv => PoolRespected
  BY DEF IInv
<1> QED
  BY <1>1, Invariance, PTL

-----------------------------------------------------------------------------
(* What the answer array says when it is built is the contract's Valid. *)
LEMMA AnswerIsValid == IInv /\ pc = "done" => Contract!Valid(reg_of)
<1> SUFFICES ASSUME IInv, pc = "done" PROVE Contract!Valid(reg_of)
  OBVIOUS
<1> USE DEF IInv
<1> DEFINE I == {iv[i] : i \in 1..n}
<1>1. reg_of \in [0..nvregs-1 -> {InMemory} \cup Regs] /\ InMemory = Contract!InMemory
  BY DEF TypeOK, InMemory, Contract!InMemory
<1>2. ASSUME NEW i \in 1..n
      PROVE  reg_of[iv[i].vreg] = IF InReg(i) THEN assigned[i] ELSE InMemory
  BY <1>2 DEF Answered
<1>3. InMemory \notin Regs
  BY RegsAreNat DEF InMemory, Unset
<1>4. ASSUME NEW i \in 1..n, NEW j \in 1..n, iv[i] # iv[j],
             Contract!Overlap(iv[i], iv[j]), reg_of[iv[i].vreg] # InMemory
      PROVE  reg_of[iv[i].vreg] # reg_of[iv[j].vreg]
  <2>1. InReg(i) /\ reg_of[iv[i].vreg] = assigned[i]
    BY <1>2, <1>4
  <2>2. CASE InReg(j)
    BY <1>2, <1>4, <2>1, <2>2 DEF NoSharedRegister, Overlap, Contract!Overlap
  <2>3. CASE ~InReg(j)
    BY <1>2, <1>3, <2>1, <2>3 DEF InReg
  <2> QED
    BY <2>2, <2>3
<1>5. ASSUME NEW i \in 1..n
      PROVE  /\ iv[i].crosses_call =>
                  reg_of[iv[i].vreg] = InMemory \/ reg_of[iv[i].vreg] >= NCaller
             /\ iv[i].force_spill => reg_of[iv[i].vreg] = InMemory
  <2>1. CASE InReg(i)
    BY <1>2, <2>1 DEF PoolRespected
  <2>2. CASE ~InReg(i)
    BY <1>2, <2>2
  <2> QED
    BY <2>1, <2>2
<1> QED
  BY <1>1, <1>4, <1>5 DEF Contract!Valid

(* Sorting rearranges the intervals and loses none. *)
LEMMA SortKeepsIntervals ==
  ASSUME IInv, Sort
  PROVE  {iv'[i] : i \in 1..n} = {iv[i] : i \in 1..n}
<1>1. PICK p \in Bijection(1..n, 1..n) : iv' = [i \in 1..n |-> iv[p[i]]]
  BY DEF Sort
<1>2. p \in [1..n -> 1..n] /\ \A j \in 1..n : \E i \in 1..n : p[i] = j
  BY DEF Bijection, Surjection, Injection
<1> QED
  BY <1>1, <1>2

(* The linear scan implements the contract: every run of it is, seen       *)
(* through the interval set and the answer array, one valid decision.      *)
THEOREM Implements == Spec => ImplementsContract
<1>1. Init => Contract!Init
  BY DEF Init, InitFrom, Contract!Init
<1>2. (IInv /\ pc = "done" => Contract!Valid(reg_of))'
  BY AnswerIsValid, PTL
<1>3. IInv /\ IInv' /\ [Next]_vars => [Contract!Decide]_(Contract!vars)
  <2> SUFFICES ASSUME IInv, IInv', [Next]_vars
               PROVE  [Contract!Decide]_(Contract!vars)
    OBVIOUS
  <2>1. CASE Bypass \/ BuildAnswer
    <3>1. pc # "done" /\ pc' = "done" /\ UNCHANGED <<n, iv, nvregs>>
      BY <2>1 DEF Bypass, BuildAnswer, input
    <3>2. Contract!Valid(reg_of)'
      BY <1>2, <3>1
    <3> QED
      BY <3>1, <3>2 DEF Contract!Decide, Contract!Valid
  <2>2. CASE Sort
    BY <2>2, SortKeepsIntervals DEF Sort, Contract!vars
  <2>3. CASE SpillForced \/ TakeFree \/ EvictFurthest \/ SpillSelf
    BY <2>3 DEF SpillForced, TakeFree, EvictFurthest, SpillSelf, Scanning, input,
       Contract!vars
  <2>4. CASE UNCHANGED vars
    BY <2>4 DEF vars, Contract!vars
  <2> QED
    BY <2>1, <2>2, <2>3, <2>4 DEF Next
<1> QED
  BY <1>1, <1>3, Invariance, PTL DEF Spec, ImplementsContract, Contract!Spec

-----------------------------------------------------------------------------
(* An eviction leaves the registers in use as they are; taking a free one  *)
(* adds a register below which, in its part of the pool, all are in use.   *)
LEMMA UsedGrows ==
  ASSUME IInv, TakeFree \/ EvictFurthest
  PROVE  \/ Used' = Used
         \/ \E r \in Regs :
              /\ Used' = Used \cup {r}
              /\ \A s \in Regs :
                   s < r /\ (r < NCaller \/ NCaller <= s) => s \in Used
<1> USE DEF IInv
<1>1. /\ Scanning
      /\ k \in 1..n
      /\ UNCHANGED <<n, iv>>
  BY AtIteration DEF TakeFree, EvictFurthest, input
<1>2. CASE TakeFree
  <2>1. PICK r \in FreeRegs(k) :
          /\ \A s \in FreeRegs(k) : r <= s
          /\ assigned' = [assigned EXCEPT ![k] = r]
    BY <1>2 DEF TakeFree, FirstFree
  <2>2. r \in Regs /\ r \in Pool(k)
    BY <1>1, <2>1, PoolInRegs DEF FreeRegs
  <2>3. assigned'[k] = r /\ \A i \in 1..n : i # k => assigned'[i] = assigned[i]
    BY <1>1, <2>1, <2>2 DEF TypeOK, Array
  <2>4. Used' = Used \cup {r}
    BY <1>1, <2>2, <2>3, AtIteration DEF Used, InReg
  <2>5. ASSUME NEW s \in Regs, s < r, r < NCaller \/ NCaller <= s
        PROVE  s \in Used
    <3>1. s \in Pool(k)
      BY <2>2, <2>5, RegsAreNat, PoolAssumption DEF Pool, Regs
    <3>2. Expired(k)[s] # Free
      BY <2>1, <2>2, <2>5, <3>1, RegsAreNat DEF FreeRegs
    <3>3. PICK i \in 1..n : assigned[i] = s
      BY <1>1, <3>2, AtIteration
    <3> QED
      BY <3>3 DEF Used, InReg
  <2> QED
    BY <2>2, <2>4, <2>5
<1>3. CASE EvictFurthest
  <2>1. PICK r \in Pool(k) :
          /\ r \in Regs
          /\ assigned' = [assigned EXCEPT ![IndexOf(Expired(k)[r])] = Spilled, ![k] = r]
    BY <1>1, <1>3, PoolInRegs DEF EvictFurthest
  <2>2. Expired(k)[r] # Free
    BY <1>3, <2>1 DEF EvictFurthest, FreeRegs
  <2>3. PICK h \in 1..n : h < k /\ iv[h].vreg = Expired(k)[r] /\ assigned[h] = r
    BY <1>1, <2>1, <2>2, AtIteration
  <2>4. IndexOf(Expired(k)[r]) = h
    BY <2>3, Lookup
  <2>5. /\ assigned'[k] = r
        /\ assigned'[h] = Spilled
        /\ \A i \in 1..n : i # k /\ i # h => assigned'[i] = assigned[i]
    BY <1>1, <2>1, <2>3, <2>4 DEF TypeOK, Array
  <2>6. \A i \in 1..n : InReg(i) => i # k
    BY <1>1, AtIteration
  <2>7. Used' \subseteq Used
    <3> SUFFICES ASSUME NEW i \in 1..n, assigned'[i] \in Regs
                 PROVE  \E j \in 1..n : assigned[j] \in Regs /\ assigned[j] = assigned'[i]
      BY <1>1 DEF Used, InReg
    <3>1. CASE i = k
      BY <2>1, <2>3, <2>5, <3>1
    <3>2. CASE i # k
      BY <2>5, <3>2, RegsAreNat
    <3> QED
      BY <3>1, <3>2
  <2>8. Used \subseteq Used'
    <3> SUFFICES ASSUME NEW i \in 1..n, InReg(i)
                 PROVE  \E j \in 1..n : assigned'[j] \in Regs /\ assigned'[j] = assigned[i]
      BY <1>1 DEF Used, InReg
    <3>1. CASE i = h
      BY <1>1, <2>1, <2>3, <2>5, <3>1
    <3>2. CASE i # h
      BY <2>5, <2>6, <3>2 DEF InReg
    <3> QED
      BY <3>1, <3>2
  <2> QED
    BY <2>7, <2>8
<1> QED
  BY <1>2, <1>3

LEMMA PrefixInductive == IInv /\ UsedIsPrefix /\ [Next]_vars => UsedIsPrefix'
<1> SUFFICES ASSUME IInv, UsedIsPrefix, [Next]_vars PROVE UsedIsPrefix'
  OBVIOUS
<1>1. CASE UNCHANGED <<n, assigned>>
  BY <1>1 DEF UsedIsPrefix, Used, InReg
<1>2. CASE Bypass \/ Sort \/ BuildAnswer \/ UNCHANGED vars
  BY <1>1, <1>2 DEF Bypass, Sort, BuildAnswer, vars, input
<1>3. CASE SpillForced \/ SpillSelf
  <2>1. /\ k \in 1..n /\ ~InReg(k)
        /\ assigned' = [assigned EXCEPT ![k] = Spilled]
        /\ UNCHANGED n
    BY <1>3, AtIteration DEF SpillForced, SpillSelf, input
  <2>2. \A i \in 1..n : InReg(i)' <=> InReg(i)
    BY <2>1, RegsAreNat DEF InReg, IInv, TypeOK, Array
  <2>3. \A i \in 1..n : InReg(i) => assigned'[i] = assigned[i]
    BY <2>1 DEF IInv, TypeOK, Array
  <2>4. Used' = Used
    BY <2>1, <2>2, <2>3 DEF Used
  <2> QED
    BY <2>4 DEF UsedIsPrefix
<1>4. CASE TakeFree \/ EvictFurthest
  BY <1>4, UsedGrows DEF UsedIsPrefix
<1> QED
  BY <1>2, <1>3, <1>4 DEF Next

(* The registers in use are always a prefix of each part of the pool. *)
THEOREM PrefixUsed == Spec => []UsedIsPrefix
<1>1. IInv /\ Init => UsedIsPrefix
  BY RegsAreNat DEF IInv, Init, InitFrom, UsedIsPrefix, Used, InReg
<1> QED
  BY <1>1, InitIInv, Invariance, PrefixInductive, PTL DEF Spec

-----------------------------------------------------------------------------
(* No interval is empty; the scan never changes that. *)
NonEmpty == \A i \in 1..n : iv[i].start <= iv[i].end
PInv == NonEmpty /\ SpillsOnlyUnderPressure

(* When interval k finds no free register, every register of its pool has  *)
(* a holder that lives where k starts.  A holder has one register, so      *)
(* there are as many of them as the pool has registers, and k besides.     *)
LEMMA FullPool ==
  ASSUME IInv, NonEmpty, Scanning, ~iv[k].force_spill, FreeRegs(k) = {}
  PROVE  /\ k \in Candidates(iv[k].start)
         /\ Cardinality(Candidates(iv[k].start)) > Cardinality(Pool(k))
<1> USE DEF IInv
<1> DEFINE C == Candidates(iv[k].start)
<1>1. k \in 1..n /\ n \in Nat
  BY AtIteration DEF TypeOK
<1>2. \A i \in 1..n : iv[i].start \in Int /\ iv[i].end \in Int
  BY DEF TypeOK, Array, Interval
<1>3. k \in C
  BY <1>1, <1>2 DEF Candidates, NonEmpty
<1>4. ASSUME NEW r \in Pool(k)
      PROVE  \E i \in C \ {k} : assigned[i] = r
  <2>1. r \in Regs /\ Expired(k)[r] # Free
    BY <1>1, PoolInRegs DEF FreeRegs
  <2>2. PICK i \in 1..n : i < k /\ iv[i].vreg = Expired(k)[r] /\ assigned[i] = r
    BY <2>1, AtIteration
  <2>3. i # k /\ iv[i].start <= iv[k].start
    BY <1>1, <2>2 DEF Sorted, SortedByStart, Scanning
  <2>4. ~(EndOf(Expired(k)[r]) < iv[k].start)
    BY <2>1 DEF Expired
  <2>5. iv[k].start <= iv[i].end
    BY <1>1, <1>2, <2>2, <2>4, Lookup DEF EndOf
  <2>6. ~iv[i].force_spill
    BY <2>1, <2>2 DEF PoolRespected, InReg
  <2> QED
    BY <2>2, <2>3, <2>5, <2>6 DEF Candidates
<1> DEFINE h == [r \in Pool(k) |-> CHOOSE i \in C \ {k} : assigned[i] = r]
<1>5. \A r \in Pool(k) : h[r] \in C \ {k} /\ assigned[h[r]] = r
  BY <1>4
<1>6. h \in Injection(Pool(k), C \ {k})
  BY <1>5 DEF Injection, IsInjective
<1>7. IsFiniteSet(C)
  <2>1. IsFiniteSet(1..n) /\ C \subseteq 1..n
    BY <1>1, FS_Interval DEF Candidates
  <2> QED
    BY <2>1, FS_Subset
<1>8. IsFiniteSet(C \ {k}) /\ Cardinality(C \ {k}) = Cardinality(C) - 1
  BY <1>3, <1>7, FS_RemoveElement
<1>9. IsFiniteSet(Pool(k)) /\ Cardinality(Pool(k)) <= Cardinality(C \ {k})
  BY <1>6, <1>8, FS_Injection
<1>10. Cardinality(C) \in Nat /\ Cardinality(Pool(k)) \in Nat
  BY <1>7, <1>9, FS_CardinalityType
<1> QED
  BY <1>3, <1>8, <1>9, <1>10

LEMMA PressureInductive == IInv /\ PInv /\ [Next]_vars => PInv'
<1> SUFFICES ASSUME IInv, PInv, [Next]_vars PROVE PInv'
  OBVIOUS
<1> USE DEF IInv, PInv
<1>1. CASE UNCHANGED <<n, iv, assigned>>
  <2>1. NonEmpty'
    BY <1>1 DEF NonEmpty
  <2>2. /\ \A j \in 1..n : Pool(j)' = Pool(j)
        /\ \A pos : Candidates(pos)' = Candidates(pos)
    BY <1>1 DEF Candidates, Pool
  <2>3. SpillsOnlyUnderPressure'
    BY <1>1, <2>2 DEF SpillsOnlyUnderPressure
  <2> QED
    BY <2>1, <2>3
<1>2. CASE Bypass \/ BuildAnswer \/ UNCHANGED vars
  BY <1>1, <1>2 DEF Bypass, BuildAnswer, vars, input
<1>3. CASE Sort
  <2>1. PICK p \in Bijection(1..n, 1..n) : iv' = [i \in 1..n |-> iv[p[i]]]
    BY <1>3 DEF Sort
  <2>2. p \in [1..n -> 1..n]
    BY DEF Bijection, Injection
  <2>3. NonEmpty'
    BY <1>3, <2>1, <2>2 DEF Sort, NonEmpty
  <2>4. \A i \in 1..n : assigned'[i] # Spilled
    BY <1>3 DEF Sort, Fresh, Unset, Spilled
  <2> QED
    BY <1>3, <2>3, <2>4 DEF Sort, SpillsOnlyUnderPressure
<1>4. ASSUME UNCHANGED <<n, iv>>, k \in 1..n,
             \A i \in 1..n : assigned'[i] = Spilled /\ ~iv[i].force_spill =>
               \/ assigned[i] = Spilled
               \/ /\ iv[i].start <= iv[k].start /\ iv[k].start <= iv[i].end
                  /\ k \in Candidates(iv[k].start)
                  /\ Cardinality(Candidates(iv[k].start)) > Cardinality(Pool(k))
      PROVE  PInv'
  <2>1. NonEmpty'
    BY <1>4 DEF NonEmpty
  <2>2. /\ \A j \in 1..n : Pool(j)' = Pool(j)
        /\ \A pos : Candidates(pos)' = Candidates(pos)
    BY <1>4 DEF Candidates, Pool
  <2> SUFFICES ASSUME NEW i \in 1..n, assigned'[i] = Spilled, ~iv[i].force_spill
               PROVE  \E j \in 1..n :
                        /\ iv[i].start <= iv[j].start /\ iv[j].start <= iv[i].end
                        /\ j \in Candidates(iv[j].start)
                        /\ Cardinality(Candidates(iv[j].start)) > Cardinality(Pool(j))
    BY <1>4, <2>1, <2>2 DEF SpillsOnlyUnderPressure
  <2> QED
    BY <1>4 DEF SpillsOnlyUnderPressure
<1>5. CASE SpillForced
  <2>1. Scanning /\ k \in 1..n /\ iv[k].force_spill /\ UNCHANGED <<n, iv>>
    BY <1>5, AtIteration DEF SpillForced, input
  <2>2. \A i \in 1..n : i # k => assigned'[i] = assigned[i]
    BY <1>5, <2>1 DEF SpillForced, TypeOK, Array
  <2> QED
    BY <1>4, <2>1, <2>2
<1>6. CASE SpillSelf
  <2>1. /\ Scanning /\ k \in 1..n /\ ~iv[k].force_spill /\ FreeRegs(k) = {}
        /\ UNCHANGED <<n, iv>>
    BY <1>6, AtIteration DEF SpillSelf, input
  <2>2. \A i \in 1..n : i # k => assigned'[i] = assigned[i]
    BY <1>6, <2>1 DEF SpillSelf, TypeOK, Array
  <2>3. iv[k].start <= iv[k].start /\ iv[k].start <= iv[k].end
    BY <2>1 DEF NonEmpty, TypeOK, Array, Interval
  <2> QED
    BY <1>4, <2>1, <2>2, <2>3, FullPool
<1>7. CASE TakeFree
  <2>1. Scanning /\ k \in 1..n /\ UNCHANGED <<n, iv>>
    BY <1>7, AtIteration DEF TakeFree, input
  <2>2. PICK r \in Pool(k) : assigned' = [assigned EXCEPT ![k] = r]
    BY <1>7 DEF TakeFree
  <2>3. assigned'[k] # Spilled /\ \A i \in 1..n : i # k => assigned'[i] = assigned[i]
    BY <2>1, <2>2, PoolInRegs, RegsAreNat DEF TypeOK, Array
  <2> QED
    BY <1>4, <2>1, <2>3
<1>8. CASE EvictFurthest
  <2>1. /\ Scanning /\ k \in 1..n /\ ~iv[k].force_spill /\ FreeRegs(k) = {}
        /\ UNCHANGED <<n, iv>>
    BY <1>8, AtIteration DEF EvictFurthest, input
  <2>2. PICK r \in Pool(k) :
          assigned' = [assigned EXCEPT ![IndexOf(Expired(k)[r])] = Spilled, ![k] = r]
    BY <1>8 DEF EvictFurthest
  <2>3. r \in Regs /\ Expired(k)[r] # Free
    BY <2>1, <2>2, PoolInRegs DEF FreeRegs
  <2>4. PICK h \in 1..n : h < k /\ iv[h].vreg = Expired(k)[r]
    BY <2>1, <2>3, AtIteration
  <2>5. IndexOf(Expired(k)[r]) = h
    BY <2>4, Lookup
  <2>6. /\ assigned'[k] # Spilled
        /\ \A i \in 1..n : i # k /\ i # h => assigned'[i] = assigned[i]
    BY <2>1, <2>2, <2>3, <2>5, RegsAreNat DEF TypeOK, Array
  <2>7. iv[h].start <= iv[k].start
    BY <2>1, <2>4 DEF Sorted, SortedByStart, Scanning
  <2>8. ~(iv[h].end < iv[k].start)
    BY <2>3, <2>4, <2>5 DEF Expired, EndOf
  <2>9. iv[k].start <= iv[h].end
    BY <2>1, <2>8 DEF TypeOK, Array, Interval
  <2> QED
    BY <1>4, <2>1, <2>6, <2>7, <2>9, FullPool
<1> QED
  BY <1>2, <1>3, <1>5, <1>6, <1>7, <1>8 DEF Next

(* The scan sends an interval to memory only where more candidates are     *)
(* live than the pool of one of them has registers.                        *)
THEOREM Pressure == Spec => []SpillsOnlyUnderPressure
<1>1. IInv /\ Init => PInv
  <2> SUFFICES ASSUME NEW in \in Inputs, InitFrom(in) PROVE PInv
    BY DEF Init
  <2>1. NonEmpty
    BY InputsAssumption DEF InitFrom, WellFormed, NonEmpty
  <2>2. SpillsOnlyUnderPressure
    BY DEF InitFrom, SpillsOnlyUnderPressure, Unset, Spilled
  <2> QED
    BY <2>1, <2>2 DEF PInv
<1>2. PInv => SpillsOnlyUnderPressure
  BY DEF PInv
<1> QED
  BY <1>1, <1>2, InitIInv, Invariance, PressureInductive, PTL DEF Spec

-----------------------------------------------------------------------------
(* Only the end of a life, or a shorter life, takes a register over. *)
THEOREM Handover == Spec => HandoverShortens
<1> DEFINE Shortens == \A r \in Regs :
             LET old == reg_holder[r]
                 new == reg_holder'[r]
             IN  old # Free /\ new # Free /\ old # new =>
                   \/ EndOf(old) < iv[k].start
                   \/ EndOf(new) < EndOf(old)
<1>1. IInv /\ [Next]_vars => [Shortens]_vars
  <2> SUFFICES ASSUME IInv, Next, NEW r \in Regs,
                      reg_holder[r] # Free, reg_holder'[r] # Free,
                      reg_holder[r] # reg_holder'[r],
                      ~(EndOf(reg_holder[r]) < iv[k].start)
               PROVE  EndOf(reg_holder'[r]) < EndOf(reg_holder[r])
    OBVIOUS
  <2>1. Expired(k)[r] = reg_holder[r]
    BY DEF Expired
  <2>2. CASE EvictFurthest
    <3>1. PICK v \in Pool(k) :
            /\ IsFurthest(k, v)
            /\ reg_holder' = [Expired(k) EXCEPT ![v] = iv[k].vreg]
      BY <2>2 DEF EvictFurthest
    <3>2. k \in 1..n /\ Expired(k) \in [Regs -> {Free} \cup Nat] /\ IndexOf(iv[k].vreg) = k
      BY <2>2, AtIteration, Lookup DEF EvictFurthest, IInv
    <3>3. v = r
      BY <2>1, <3>1, <3>2
    <3>4. EndOf(Expired(k)[r]) > iv[k].end
      BY <3>1, <3>3 DEF IsFurthest, Longer
    <3>5. reg_holder'[r] = iv[k].vreg
      BY <3>1, <3>2, <3>3
    <3> QED
      BY <2>1, <3>2, <3>4, <3>5 DEF EndOf
  <2>3. CASE TakeFree
    <3>1. PICK p \in FreeRegs(k) : reg_holder' = [Expired(k) EXCEPT ![p] = iv[k].vreg]
      BY <2>3 DEF TakeFree, FirstFree
    <3>2. p # r
      BY <2>1, <3>1 DEF FreeRegs
    <3> QED
      BY <2>1, <3>1, <3>2 DEF Expired
  <2>4. CASE SpillForced \/ SpillSelf
    BY <2>1, <2>4 DEF SpillForced, SpillSelf
  <2>5. CASE Bypass \/ Sort \/ BuildAnswer
    BY <2>5 DEF Bypass, Sort, BuildAnswer
  <2> QED
    BY <2>2, <2>3, <2>4, <2>5 DEF Next
<1> QED
  BY <1>1, Invariance, PTL DEF Spec, HandoverShortens


-----------------------------------------------------------------------------
(* The shape of a function.                                                *)
LEMMA Shape ==
  ASSUME NEW f, IsFunction(f)
  PROVE  /\ f.nparams \in Nat
         /\ Len(f.blocks) \in Nat /\ Len(f.blocks) >= 1 /\ 1 \in Blocks(f)
         /\ \A b \in Blocks(f) : /\ b \in Nat
                                 /\ f.blocks[b] \in Seq(Instruction)
                                 /\ Len(f.blocks[b]) \in Nat
                                 /\ Len(f.blocks[b]) >= 1
         /\ \A p \in Points(f) : /\ p[1] \in Blocks(f)
                                 /\ p[2] \in Instrs(f, p[1])
                                 /\ p = <<p[1], p[2]>>
                                 /\ At(f, p) \in Instruction
         /\ \A b \in Blocks(f) : \A i \in Instrs(f, b) :
              <<b, i>> \in Points(f) /\ At(f, <<b, i>>) = f.blocks[b][i]
<1> USE DEF IsFunction
<1>1. f.nparams \in Nat /\ f.blocks \in Seq(Seq(Instruction))
  OBVIOUS
<1>2. Len(f.blocks) \in Nat /\ f.blocks \in [Blocks(f) -> Seq(Instruction)]
  BY <1>1 DEF Blocks
<1>3. Len(f.blocks) # 0
  BY <1>1
<1>4. Len(f.blocks) >= 1 /\ 1 \in Blocks(f)
  BY <1>2, <1>3 DEF Blocks
<1>5. ASSUME NEW b \in Blocks(f)
      PROVE  b \in Nat /\ f.blocks[b] \in Seq(Instruction) /\ Len(f.blocks[b]) \in Nat
             /\ Len(f.blocks[b]) >= 1
  <2>1. f.blocks[b] \in Seq(Instruction) /\ f.blocks[b] # <<>>
    BY <1>2
  <2>2. Len(f.blocks[b]) \in Nat /\ Len(f.blocks[b]) # 0
    BY <2>1
  <2> QED
    BY <1>2, <2>1, <2>2 DEF Blocks
<1>6. ASSUME NEW p \in Points(f)
      PROVE  p[1] \in Blocks(f) /\ p[2] \in Instrs(f, p[1]) /\ p = <<p[1], p[2]>>
             /\ At(f, p) \in Instruction
  <2>1. PICK b \in Blocks(f) : p \in {b} \X Instrs(f, b)
    BY DEF Points
  <2>2. p[1] = b /\ p[2] \in Instrs(f, b) /\ p = <<p[1], p[2]>>
    BY <2>1
  <2>3. f.blocks[b] \in Seq(Instruction)
    BY <1>5
  <2> QED
    BY <2>2, <2>3 DEF At, Instrs
<1>7. ASSUME NEW b \in Blocks(f), NEW i \in Instrs(f, b)
      PROVE  <<b, i>> \in Points(f) /\ At(f, <<b, i>>) = f.blocks[b][i]
  BY DEF Points, At
<1> QED
  BY <1>1, <1>2, <1>4, <1>5, <1>6, <1>7

(* What an instruction of a function is.                                   *)
LEMMA InstructionIs ==
  ASSUME NEW f, IsFunction(f), NEW p \in Points(f)
  PROVE  LET in == At(f, p)
         IN  /\ in.op \in Operations
             /\ in.dst \in Nat \cup {NoVreg}
             /\ DOMAIN in.args = 1..Len(in.args) /\ Len(in.args) \in Nat
             /\ \A s \in DOMAIN in.args : in.args[s] \in Nat \cup Immediates
             /\ in.op \in Terminators <=> p[2] = Len(f.blocks[p[1]])
             /\ in.op \in Terminators \cup {"memcpy"} => in.dst = NoVreg
             /\ in.op \in {"fp", "phi"} => in.dst # NoVreg
             /\ in.op \in {"alu", "memcpy"} => Len(in.args) >= 2
             /\ \A s \in DOMAIN in.labels : in.labels[s] \in Blocks(f)
             /\ in.op = "phi" =>
                  /\ p[1] # 1
                  /\ \A i \in 1..p[2]-1 : f.blocks[p[1]][i].op = "phi"
                  /\ DOMAIN in.args = 1..2 /\ DOMAIN in.labels = 1..2
                  /\ Uses(in) \subseteq Numbered(f)
                  /\ \A b \in Blocks(f) : p[1] \in Succs(f, b) =>
                       \E s \in 1..2 : in.labels[s] = b
<1>1. At(f, p) \in Instruction
  BY Shape
<1> DEFINE in == At(f, p)
<1>2. /\ in.op \in Operations /\ in.dst \in Nat \cup {NoVreg}
      /\ in.args \in Seq(Nat \cup Immediates) /\ in.labels \in Seq(Nat)
  BY <1>1 DEF Instruction
<1>3. /\ DOMAIN in.args = 1..Len(in.args) /\ Len(in.args) \in Nat
      /\ \A s \in DOMAIN in.args : in.args[s] \in Nat \cup Immediates
      /\ DOMAIN in.labels = 1..Len(in.labels)
  <2> DEFINE V == Nat \cup Immediates
  <2>1. in.args \in Seq(V) /\ in.labels \in Seq(Nat)
    BY <1>2
  <2> HIDE DEF V, in
  <2>2. /\ DOMAIN in.args = 1..Len(in.args) /\ Len(in.args) \in Nat
        /\ \A s \in DOMAIN in.args : in.args[s] \in V
        /\ DOMAIN in.labels = 1..Len(in.labels)
    BY <2>1
  <2> QED
    BY <2>2 DEF V
<1>4. /\ in.op \in Terminators <=> p[2] = Len(f.blocks[p[1]])
      /\ in.op \in Terminators \cup {"memcpy"} => in.dst = NoVreg
      /\ in.op \in {"fp", "phi"} => in.dst # NoVreg
      /\ in.op \in {"alu", "memcpy"} => Len(in.args) >= 2
      /\ \A s \in DOMAIN in.labels : in.labels[s] \in Blocks(f)
      /\ in.op = "phi" =>
           /\ p[1] # 1
           /\ \A i \in 1..p[2]-1 : f.blocks[p[1]][i].op = "phi"
           /\ Len(in.args) = 2 /\ Len(in.labels) = 2
           /\ Uses(in) \subseteq Numbered(f)
           /\ \A b \in Blocks(f) : p[1] \in Succs(f, b) =>
                \E s \in 1..2 : in.labels[s] = b
  BY DEF IsFunction
<1> HIDE DEF in
<1>5. in.op = "phi" => DOMAIN in.args = 1..2 /\ DOMAIN in.labels = 1..2
  BY <1>3, <1>4
<1> QED
  BY <1>2, <1>3, <1>4, <1>5 DEF in

(* Control leaves a block through its last instruction, to blocks.         *)
LEMMA SuccsAre ==
  ASSUME NEW f, IsFunction(f), NEW b \in Blocks(f)
  PROVE  /\ Succs(f, b) \subseteq Blocks(f)
         /\ \A p \in Points(f) : p[1] = b /\ At(f, p).op \in {"br", "cbr"} =>
              \A s \in DOMAIN At(f, p).labels : At(f, p).labels[s] \in Succs(f, b)
<1>1. ASSUME NEW c \in Succs(f, b) PROVE c \in Blocks(f)
  <2>1. PICK i \in Instrs(f, b) : \E s \in DOMAIN f.blocks[b][i].labels :
                                     c = f.blocks[b][i].labels[s]
    BY DEF Succs
  <2>2. <<b, i>> \in Points(f) /\ At(f, <<b, i>>) = f.blocks[b][i]
    BY Shape
  <2> QED
    BY <2>1, <2>2, InstructionIs
<1>2. ASSUME NEW p \in Points(f), p[1] = b, At(f, p).op \in {"br", "cbr"},
             NEW s \in DOMAIN At(f, p).labels
      PROVE  At(f, p).labels[s] \in Succs(f, b)
  <2>1. p[2] \in Instrs(f, b) /\ At(f, p) = f.blocks[b][p[2]]
    BY <1>2, Shape DEF At
  <2> QED
    BY <1>2, <2>1 DEF Succs
<1> QED
  BY <1>1, <1>2

-----------------------------------------------------------------------------
(* The numbering of the instructions.                                      *)
LEMMA PointsFinite ==
  ASSUME NEW f, IsFunction(f)
  PROVE  IsFiniteSet(Points(f))
<1> DEFINE B == Blocks(f)
           Of(b) == {b} \X Instrs(f, b)
           ofs == {Of(b) : b \in B}
           h == [b \in B |-> Of(b)]
<1>1. IsFiniteSet(B)
  <2>1. Len(f.blocks) \in Nat
    BY Shape
  <2> QED
    BY <2>1, FS_Interval DEF Blocks
<1>2. ASSUME NEW b \in B PROVE IsFiniteSet(Of(b))
  <2>1. Len(f.blocks[b]) \in Nat
    BY <1>2, Shape
  <2>2. IsFiniteSet(Instrs(f, b))
    BY <2>1, FS_Interval DEF Instrs
  <2>3. IsFiniteSet({b})
    BY FS_Singleton
  <2> QED
    BY <2>2, <2>3, FS_Product
<1>3. h \in Surjection(B, ofs)
  BY DEF Surjection
<1>4. IsFiniteSet(ofs)
  <2> HIDE DEF h, ofs, B
  <2> QED
    BY <1>1, <1>3, FS_Surjection
<1>5. \A T \in ofs : IsFiniteSet(T)
  BY <1>2
<1>6. IsFiniteSet(UNION ofs)
  <2> HIDE DEF ofs
  <2> QED
    BY <1>4, <1>5, FS_UNION
<1> QED
  BY <1>6 DEF Points

LEMMA Positions ==
  ASSUME NEW f, IsFunction(f)
  PROVE  /\ \A b \in Blocks(f) :
              /\ BlockStart(f, b) \in Nat /\ BlockEnd(f, b) \in Nat
              /\ BlockEnd(f, b) = BlockStart(f, b) + Len(f.blocks[b])
              /\ BlockStart(f, b) < BlockEnd(f, b)
         /\ \A b, c \in Blocks(f) : b < c => BlockEnd(f, b) <= BlockStart(f, c)
         /\ \A p \in Points(f) : /\ Pos(f, p) \in Nat
                                 /\ Pos(f, p) = BlockStart(f, p[1]) + p[2]
                                 /\ BlockStart(f, p[1]) < Pos(f, p)
                                 /\ Pos(f, p) <= BlockEnd(f, p[1])
<1> DEFINE Above(b) == {p \in Points(f) : p[1] < b}
<1>1. \A b : IsFiniteSet(Above(b)) /\ Cardinality(Above(b)) \in Nat
  BY PointsFinite, FS_Subset, FS_CardinalityType
<1>2. ASSUME NEW b \in Blocks(f)
      PROVE  /\ BlockStart(f, b) \in Nat /\ BlockEnd(f, b) \in Nat
             /\ BlockEnd(f, b) = BlockStart(f, b) + Len(f.blocks[b])
             /\ BlockStart(f, b) < BlockEnd(f, b)
  <2>1. Len(f.blocks[b]) \in Nat /\ Len(f.blocks[b]) >= 1
    BY Shape
  <2>2. BlockStart(f, b) = Cardinality(Above(b)) /\ BlockEnd(f, b) = BlockStart(f, b) + Len(f.blocks[b])
    BY DEF BlockStart, BlockEnd
  <2>3. BlockStart(f, b) \in Nat
    BY <1>1, <2>2
  <2> QED
    BY <2>1, <2>2, <2>3
<1>3. ASSUME NEW b \in Blocks(f), NEW c \in Blocks(f), b < c
      PROVE  BlockEnd(f, b) <= BlockStart(f, c)
  <2> DEFINE Here1 == {b} \X Instrs(f, b)
             L == Len(f.blocks[b])
  <2>1. IsFiniteSet(Here1) /\ Cardinality(Here1) = L
    <3>1. L \in Nat
      BY Shape
    <3>2. IsFiniteSet(1..L) /\ Cardinality(1..L) = L
      BY <3>1, FS_Interval
    <3>3. IsFiniteSet({b}) /\ Cardinality({b}) = 1
      BY FS_Singleton
    <3>4. Instrs(f, b) = 1..L
      BY DEF Instrs
    <3> HIDE DEF L
    <3>5. IsFiniteSet(Instrs(f, b)) /\ Cardinality(Instrs(f, b)) = L
      BY <3>2, <3>4
    <3>6. IsFiniteSet(Here1) /\ Cardinality(Here1) = Cardinality({b}) * Cardinality(Instrs(f, b))
      BY <3>3, <3>5, FS_Product
    <3> QED
      BY <3>1, <3>3, <3>5, <3>6
  <2>2. Above(b) \cap Here1 = {}
    BY Shape
  <2>3. Above(b) \cup Here1 \subseteq Above(c)
    <3>1. Here1 \subseteq Above(c)
      BY <1>3, Shape
    <3>2. \A p \in Points(f) : p[1] < b => p[1] < c
      BY <1>3, Shape
    <3> QED
      BY <3>1, <3>2
  <2> HIDE DEF Above, Here1
  <2>4. Cardinality(Above(b) \cup Here1) = Cardinality(Above(b)) + Cardinality(Here1)
        /\ IsFiniteSet(Above(b) \cup Here1)
    <3>1. Cardinality({}) = 0
      BY FS_EmptySet
    <3>2. Cardinality(Above(b)) \in Nat /\ L \in Nat
      BY <1>1, Shape
    <3>3. /\ IsFiniteSet(Above(b) \cup Here1)
          /\ Cardinality(Above(b) \cup Here1) =
               Cardinality(Above(b)) + Cardinality(Here1) - Cardinality(Above(b) \cap Here1)
      BY <1>1, <2>1, FS_Union
    <3>4. Cardinality(Above(b) \cap Here1) = 0
      BY <2>2, <3>1
    <3>5. Cardinality(Here1) = L
      BY <2>1
    <3> HIDE DEF L
    <3> QED
      BY <3>2, <3>3, <3>4, <3>5
  <2>5. Cardinality(Above(b) \cup Here1) <= Cardinality(Above(c))
    BY <1>1, <2>3, FS_Subset
  <2> QED
    BY <1>2, <2>1, <2>4, <2>5 DEF Above, BlockStart
<1>4. ASSUME NEW p \in Points(f)
      PROVE  /\ Pos(f, p) \in Nat /\ Pos(f, p) = BlockStart(f, p[1]) + p[2]
             /\ BlockStart(f, p[1]) < Pos(f, p) /\ Pos(f, p) <= BlockEnd(f, p[1])
  <2>1. p[1] \in Blocks(f) /\ p[2] \in Instrs(f, p[1]) /\ Len(f.blocks[p[1]]) \in Nat
    BY Shape
  <2> QED
    BY <1>2, <2>1 DEF Pos, Instrs
<1> QED
  BY <1>2, <1>3, <1>4

-----------------------------------------------------------------------------
(* The positions a vreg is touched at lie between the ends of its interval. *)
LEMMA GreatestIs ==
  ASSUME NEW S \in SUBSET Nat, S # {}, NEW u \in Nat, \A x \in S : x <= u
  PROVE  /\ Max(S) \in S /\ \A x \in S : x <= Max(S)
         /\ Min(S) \in S /\ \A x \in S : Min(S) <= x
<1>1. PICK m \in S : \A x \in S : x <= m
  BY Greatest
<1>2. \E x \in S : \A y \in S : x >= y
  BY <1>1
<1>3. PICK l \in S : \A x \in S : l <= x
  BY Least
<1> QED
  BY <1>2, <1>3 DEF Max, Min

LEMMA VregsAre ==
  ASSUME NEW f, IsFunction(f)
  PROVE  /\ Params(f) \subseteq Vregs(f) /\ Vregs(f) \subseteq Nat
         /\ NoVreg \notin Vregs(f) /\ FpImm \notin Vregs(f)
         /\ \A p \in Points(f) : Touches(At(f, p)) \subseteq Vregs(f)
<1>1. Params(f) \subseteq Nat
  BY ParamBaseAssumption, Shape DEF Params
<1>2. ASSUME NEW p \in Points(f) PROVE Touches(At(f, p)) \subseteq Nat
  BY InstructionIs DEF Touches, Uses
<1>3. NoVreg \notin Nat /\ FpImm \notin Nat
  BY DEF NoVreg, FpImm
<1> QED
  BY <1>1, <1>2, <1>3 DEF Vregs

(* Where pass 1 and pass 2 touch vregs.                                    *)
LEMMA TouchedAt ==
  ASSUME NEW f, IsFunction(f), NEW v, NEW p \in Points(f)
  PROVE  /\ At(f, p).op # "phi" /\ v \in Touches(At(f, p)) => Pos(f, p) \in Touched(f, v)
         /\ At(f, p).op = "phi" /\ At(f, p).dst = v => BlockStart(f, p[1]) \in Touched(f, v)
         /\ \A s \in 1..2 : At(f, p).op = "phi" /\ At(f, p).args[s] = v =>
              BlockEnd(f, At(f, p).labels[s]) \in Touched(f, v)
<1>1. ASSUME NEW s \in 1..2, At(f, p).op = "phi", At(f, p).args[s] = v
      PROVE  BlockEnd(f, At(f, p).labels[s]) \in PhiTails(f, v)
  BY <1>1 DEF PhiTails
<1> QED
  BY <1>1 DEF Touched

LEMMA TouchedIs ==
  ASSUME NEW f, IsFunction(f), NEW v \in Vregs(f)
  PROVE  /\ Touched(f, v) \subseteq Nat
         /\ \A t \in Touched(f, v) : t <= BlockEnd(f, Len(f.blocks))
         /\ v \notin Params(f) => Touched(f, v) # {}
<1> DEFINE N == Len(f.blocks)
           Top == BlockEnd(f, N)
<1>1. N \in Blocks(f) /\ Top \in Nat
  BY Shape, Positions DEF Blocks
<1>2. ASSUME NEW b \in Blocks(f)
      PROVE  /\ BlockStart(f, b) \in Nat /\ BlockStart(f, b) <= Top
             /\ BlockEnd(f, b) \in Nat /\ BlockEnd(f, b) <= Top
  <2>1. CASE b = N
    BY <1>1, <2>1, Positions
  <2>2. CASE b # N
    <3>1. b < N
      BY <2>2, Shape DEF Blocks
    <3>2. BlockEnd(f, b) <= BlockStart(f, N) /\ BlockStart(f, N) < Top
      BY <1>1, <3>1, Positions
    <3>3. BlockStart(f, b) < BlockEnd(f, b) /\ BlockStart(f, b) \in Nat /\ BlockEnd(f, b) \in Nat
          /\ BlockStart(f, N) \in Nat
      BY <1>1, Positions
    <3> HIDE DEF Top
    <3> QED
      BY <1>1, <3>2, <3>3
  <2> QED
    BY <2>1, <2>2
<1>3. ASSUME NEW p \in Points(f)
      PROVE  Pos(f, p) \in Nat /\ Pos(f, p) <= Top
  <2>1. Pos(f, p) \in Nat /\ Pos(f, p) <= BlockEnd(f, p[1]) /\ p[1] \in Blocks(f)
    BY Positions, Shape
  <2> HIDE DEF Top
  <2> QED
    BY <1>1, <1>2, <2>1
<1>4. ASSUME NEW t \in Touched(f, v) PROVE t \in Nat /\ t <= Top
  <2>1. CASE \E p \in Points(f) : t = Pos(f, p)
    BY <1>3, <2>1
  <2>2. CASE \E p \in Points(f) : t = BlockStart(f, p[1])
    BY <1>2, <2>2, Shape
  <2>3. CASE t \in PhiTails(f, v)
    <3>1. PICK p \in Points(f), s \in 1..2 :
             At(f, p).op = "phi" /\ t = BlockEnd(f, At(f, p).labels[s])
      BY <2>3 DEF PhiTails
    <3>2. At(f, p).labels[s] \in Blocks(f)
      BY <3>1, InstructionIs
    <3> QED
      BY <1>2, <3>1, <3>2
  <2> QED
    BY <2>1, <2>2, <2>3 DEF Touched
<1>5. ASSUME v \notin Params(f) PROVE Touched(f, v) # {}
  <2>1. PICK p \in Points(f) : v \in Touches(At(f, p))
    BY <1>5 DEF Vregs
  <2>2. CASE At(f, p).op # "phi" \/ At(f, p).dst = v
    BY <2>1, <2>2, TouchedAt
  <2>3. CASE At(f, p).op = "phi" /\ At(f, p).dst # v
    <3>1. v \in Uses(At(f, p)) /\ DOMAIN At(f, p).args = 1..2
      BY <2>1, <2>3, InstructionIs DEF Touches
    <3>2. PICK s \in 1..2 : At(f, p).args[s] = v
      BY <3>1 DEF Uses
    <3> QED
      BY <2>3, <3>2, TouchedAt
  <2> QED
    BY <2>2, <2>3
<1> QED
  BY <1>4, <1>5

LEMMA EndsOf ==
  ASSUME NEW f, IsFunction(f), NEW v \in Vregs(f)
  PROVE  /\ Start(f, v) \in Nat /\ FirstEnd(f, v) \in Nat
         /\ Start(f, v) <= FirstEnd(f, v)
         /\ \A t \in Touched(f, v) : /\ t \in Nat /\ Start(f, v) <= t
                                     /\ t <= FirstEnd(f, v)
         /\ v \in Params(f) => Start(f, v) = 0
<1> DEFINE T == Touched(f, v)
           u == BlockEnd(f, Len(f.blocks))
<1>1. u \in Nat
  BY Shape, Positions DEF Blocks
<1>2. T \in SUBSET Nat /\ \A t \in T : t <= u
  BY TouchedIs
<1>3. T # {} => /\ Max(T) \in T /\ \A x \in T : x <= Max(T)
                /\ Min(T) \in T /\ \A x \in T : Min(T) <= x
  <2> HIDE DEF T, u
  <2> QED
    BY <1>1, <1>2, GreatestIs
<1>4. v \notin Params(f) => T # {}
  BY TouchedIs
<1>5. /\ Start(f, v) = IF v \in Params(f) THEN 0 ELSE Min(T)
      /\ FirstEnd(f, v) = IF T = {} THEN 0 ELSE Max(T)
  BY DEF Start, FirstEnd
<1> HIDE DEF T
<1>6. CASE T = {}
  BY <1>4, <1>5, <1>6 DEF T
<1>7. CASE T # {}
  <2>1. Max(T) \in Nat /\ Min(T) \in Nat
    BY <1>2, <1>3, <1>7
  <2> QED
    BY <1>2, <1>3, <1>5, <1>7, <2>1 DEF T
<1> QED
  BY <1>6, <1>7

(* A value taken through N steps, one for each block.                      *)
StepsOf(N, W) == [1..N -> [W -> W]]
Taking(h, N, W, x, step) ==
  h \in [0..N -> W] /\ h[0] = x /\ \A b \in 1..N : h[b] = step[b][h[b-1]]

LEMMA Steps ==
  ASSUME NEW N, NEW W, NEW x, NEW step, N \in Nat, x \in W, step \in StepsOf(N, W)
  PROVE  \E h : Taking(h, N, W, x, step)
<1>1. step \in [1..N -> [W -> W]]
  BY DEF StepsOf
<1>2. \E h \in [0..N -> W] : h[0] = x /\ \A b \in 1..N : h[b] = step[b][h[b-1]]
  BY ONLY <1>1, x \in W, N \in Nat, Iterates
<1> QED
  BY <1>2 DEF Taking

(* The loop extension, block after block.                                  *)
LEMMA EndsAre ==
  ASSUME NEW f, IsFunction(f), NEW v \in Vregs(f)
  PROVE  /\ \A b \in 0..Len(f.blocks) : Ends(f, v)[b] \in Nat
         /\ Ends(f, v)[0] = FirstEnd(f, v)
         /\ \A b \in Blocks(f) :
              Ends(f, v)[b] =
                IF /\ Start(f, v) <= BlockEnd(f, b) /\ Ends(f, v)[b-1] < BlockEnd(f, b)
                   /\ \E s \in BackTo(f, b) : Ends(f, v)[b-1] >= BlockStart(f, s)
                THEN BlockEnd(f, b)
                ELSE Ends(f, v)[b-1]
<1> DEFINE N == Len(f.blocks)
           x == FirstEnd(f, v)
           Loops(b, e) == /\ Start(f, v) <= BlockEnd(f, b) /\ e < BlockEnd(f, b)
                          /\ \E s \in BackTo(f, b) : e >= BlockStart(f, s)
           next(b, e) == IF Loops(b, e) THEN BlockEnd(f, b) ELSE e
           step == [b \in 1..N |-> [e \in Nat |-> next(b, e)]]
           Rec(h) == h = [b \in 0..N |-> IF b = 0 THEN x ELSE next(b, h[b-1])]
<1>1. N \in Nat /\ x \in Nat
  BY Shape, EndsOf
<1>2. \A b \in 1..N : \A e \in Nat : next(b, e) \in Nat
  <2>1. \A b \in 1..N : BlockEnd(f, b) \in Nat
    BY Positions DEF Blocks
  <2> HIDE DEF Loops
  <2> QED
    BY <2>1
<1> HIDE DEF x, next
<1>3. \E h : Rec(h)
  <2>1. step \in [1..N -> [Nat -> Nat]]
    BY <1>2
  <2>2. \A b \in 1..N : \A e \in Nat : step[b][e] = next(b, e)
    OBVIOUS
  <2> DEFINE W == Nat
  <2>6. N \in Nat
    BY <1>1
  <2>7. x \in W
    BY <1>1
  <2>8. step \in [1..N -> [W -> W]]
    BY <2>1
  <2> HIDE DEF step, N, W
  <2>9. step \in StepsOf(N, W)
    BY <2>8 DEF StepsOf
  <2>10. PICK h : Taking(h, N, W, x, step)
    BY <2>6, <2>7, <2>9, Steps
  <2>3. h \in [0..N -> W] /\ h[0] = x /\ \A b \in 1..N : h[b] = step[b][h[b-1]]
    BY <2>10 DEF Taking
  <2>4. \A b \in 1..N : h[b] = next(b, h[b-1])
    <3>1. \A b \in 1..N : b-1 \in 0..N
      BY <1>1
    <3> QED
      BY <2>2, <2>3, <3>1 DEF W
  <2>5. h = [b \in 0..N |-> IF b = 0 THEN x ELSE next(b, h[b-1])]
    BY <1>1, <2>3, <2>4
  <2> QED
    BY <2>5
<1> DEFINE h == Ends(f, v)
<1>4. Rec(h)
  <2>1. h = CHOOSE e : Rec(e)
    BY DEF Ends, next, x
  <2> HIDE DEF Rec, h
  <2> QED
    BY <1>3, <2>1
<1> HIDE DEF h, N
<1>5. h[0] = x /\ DOMAIN h = 0..N /\ \A b \in 1..N : h[b] = next(b, h[b-1])
  <2> DEFINE e == h
  <2>1. e = [b \in 0..N |-> IF b = 0 THEN x ELSE next(b, h[b-1])]
    BY <1>4
  <2> HIDE DEF e
  <2>2. e[0] = x /\ DOMAIN e = 0..N /\ \A b \in 1..N : e[b] = next(b, h[b-1])
    BY <1>1, <2>1
  <2> QED
    BY <2>2 DEF e
<1> HIDE DEF Rec
<1> DEFINE Good == {b \in 0..N : h[b] \in Nat}
<1>6. 0 \in Good
  BY <1>1, <1>5
<1>7. ASSUME NEW b \in 0..N-1, b \in Good PROVE b+1 \in Good
  <2>1. b+1 \in 1..N /\ h[b+1] = next(b+1, h[b])
    BY <1>1, <1>5
  <2> QED
    BY <1>1, <1>2, <1>7, <2>1
<1>8. 0..N \subseteq Good
  <2> HIDE DEF Good
  <2> QED
    BY <1>1, <1>6, <1>7, Induction
<1> QED
  BY <1>5, <1>8 DEF h, N, x, next, Blocks

(* An interval never shrinks, and it has all of a loop it reaches into.    *)
LEMMA FinalEndIs ==
  ASSUME NEW f, IsFunction(f), NEW v \in Vregs(f)
  PROVE  /\ FinalEnd(f, v) \in Nat /\ FirstEnd(f, v) <= FinalEnd(f, v)
         /\ \A b \in Blocks(f) : \A s \in BackTo(f, b) :
              FinalEnd(f, v) >= BlockStart(f, s) => FinalEnd(f, v) >= BlockEnd(f, b)
<1> DEFINE N == Len(f.blocks)
           e == Ends(f, v)
<1>1. N \in Nat /\ \A b \in Blocks(f) : BlockEnd(f, b) \in Nat
  BY Shape, Positions
<1>2. /\ \A b \in 0..N : e[b] \in Nat
      /\ e[0] = FirstEnd(f, v) /\ FinalEnd(f, v) = e[N]
  BY EndsAre DEF FinalEnd
<1>3. \A b \in 1..N : e[b] = e[b-1] \/ (e[b] = BlockEnd(f, b) /\ e[b-1] < e[b])
  <2> SUFFICES ASSUME NEW b \in Blocks(f)
               PROVE  e[b] = e[b-1] \/ (e[b] = BlockEnd(f, b) /\ e[b-1] < e[b])
    BY DEF Blocks
  <2> DEFINE C == /\ Start(f, v) <= BlockEnd(f, b)
                  /\ \E s \in BackTo(f, b) : e[b-1] >= BlockStart(f, s)
  <2>1. e[b] = IF C /\ e[b-1] < BlockEnd(f, b) THEN BlockEnd(f, b) ELSE e[b-1]
    BY EndsAre
  <2> HIDE DEF C, e
  <2> QED
    BY <2>1
<1>4. /\ Start(f, v) \in Nat /\ Start(f, v) <= FirstEnd(f, v)
      /\ FirstEnd(f, v) \in Nat
  BY EndsOf
<1>5. ASSUME NEW a \in 0..N
      PROVE  \A b \in a..N : e[a] <= e[b] /\ (e[b] = e[a] \/ \E c \in a+1..b : e[b] = BlockEnd(f, c))
  <2> DEFINE Good == {b \in 0..N : a <= b => 
                 e[a] <= e[b] /\ (e[b] = e[a] \/ \E c \in a+1..b : e[b] = BlockEnd(f, c))}
  <2> HIDE DEF e
  <2>1. 0 \in Good
    BY <1>1, <1>2, <1>5
  <2>2. ASSUME NEW b \in 0..N-1, b \in Good PROVE b+1 \in Good
    <3>1. b+1 \in 1..N /\ b+1 \in 0..N /\ b \in 0..N
      BY <1>1
    <3>2. e[b] \in Nat /\ e[b+1] \in Nat /\ e[a] \in Nat
      BY <1>2, <1>5, <3>1
    <3>3. e[b+1] = e[b] \/ (e[b+1] = BlockEnd(f, b+1) /\ e[b] < e[b+1])
      BY <1>3, <3>1
    <3>4. CASE a <= b
      BY <1>5, <2>2, <3>1, <3>2, <3>3, <3>4
    <3>5. CASE a = b+1
      BY <3>1, <3>2, <3>5
    <3>6. CASE a > b+1
      BY <1>5, <3>1, <3>6
    <3> QED
      BY <1>5, <3>4, <3>5, <3>6
  <2>3. 0..N \subseteq Good
    <3> HIDE DEF Good
    <3> QED
      BY <1>1, <2>1, <2>2, Induction
  <2> QED
    BY <1>5, <2>3
<1>6. FinalEnd(f, v) \in Nat /\ FirstEnd(f, v) <= FinalEnd(f, v)
  BY <1>1, <1>2, <1>5
<1>7. ASSUME NEW b \in Blocks(f), NEW s \in BackTo(f, b),
             FinalEnd(f, v) >= BlockStart(f, s), FinalEnd(f, v) < BlockEnd(f, b)
      PROVE  FALSE
  <2>1. b \in 1..N /\ b \in 0..N /\ b-1 \in 0..N /\ N \in b..N
    BY <1>1, <1>7 DEF Blocks
  <2>2. CASE e[N] = e[b]
    <3>1. e[b-1] <= e[b]
      BY <1>2, <1>3, <2>1
    <3>2. e[b-1] \in Nat /\ e[b] \in Nat /\ BlockEnd(f, b) \in Nat
      BY <1>1, <1>2, <2>1, <1>7
    <3>3. BlockStart(f, s) \in Nat
      BY <1>7, SuccsAre, Positions DEF BackTo
    <3>4. e[b-1] = e[b]
      BY <1>2, <1>3, <1>7, <2>1, <2>2, <3>2
    <3>5. Start(f, v) <= BlockEnd(f, b)
      BY <1>4, <1>6, <1>7, <3>2
    <3>6. e[b-1] < BlockEnd(f, b) /\ e[b-1] >= BlockStart(f, s)
      BY <1>2, <1>7, <2>2, <3>4
    <3> QED
      BY <1>7, <3>2, <3>4, <3>5, <3>6, EndsAre
  <2>3. CASE e[N] # e[b]
    <3>1. PICK c \in b+1..N : e[N] = BlockEnd(f, c)
      BY <1>5, <2>1, <2>3
    <3>2. c \in Blocks(f) /\ b < c
      BY <1>1, <2>1, <3>1 DEF Blocks
    <3>3. BlockEnd(f, b) <= BlockStart(f, c) /\ BlockStart(f, c) < BlockEnd(f, c)
          /\ BlockStart(f, c) \in Nat
      BY <3>2, Positions
    <3> QED
      BY <1>1, <1>2, <1>7, <3>1, <3>2, <3>3
  <2> QED
    BY <2>2, <2>3
<1> QED
  BY <1>1, <1>6, <1>7, SuccsAre, Positions DEF BackTo

-----------------------------------------------------------------------------
(* The interval list.                                                      *)
LEMMA VregsFinite ==
  ASSUME NEW f, IsFunction(f)
  PROVE  IsFiniteSet(Vregs(f))
<1> DEFINE P == Points(f)
           ts == {Touches(At(f, p)) : p \in P}
           h == [p \in P |-> Touches(At(f, p))]
<1>1. IsFiniteSet(Params(f))
  <2> DEFINE I == ParamBase .. ParamBase + f.nparams - 1
  <2>1. ParamBase \in Nat /\ f.nparams \in Nat
    BY ParamBaseAssumption, Shape
  <2>2. Params(f) \in SUBSET I
    BY <2>1 DEF Params
  <2>3. IsFiniteSet(I)
    BY <2>1, FS_Interval
  <2> HIDE DEF I
  <2> QED
    BY <2>2, <2>3, FS_Subset
<1>2. ASSUME NEW p \in P PROVE IsFiniteSet(Touches(At(f, p)))
  <2> DEFINE in == At(f, p)
             D == DOMAIN in.args
             A == {in.args[s] : s \in D}
             g == [s \in D |-> in.args[s]]
  <2>1. D = 1..Len(in.args) /\ Len(in.args) \in Nat
    BY InstructionIs
  <2>2. IsFiniteSet(D)
    <3> HIDE DEF D
    <3> QED
      BY <2>1, FS_Interval
  <2>3. g \in Surjection(D, A)
    BY DEF Surjection
  <2>4. IsFiniteSet(A)
    <3> HIDE DEF g, D, A
    <3> QED
      BY <2>2, <2>3, FS_Surjection
  <2>5. IsFiniteSet(A \cup {in.dst})
    <3> HIDE DEF A
    <3> QED
      BY <2>4, FS_AddElement
  <2>6. Touches(in) \in SUBSET (A \cup {in.dst})
    BY DEF Touches, Uses
  <2> HIDE DEF A
  <2> QED
    BY <2>5, <2>6, FS_Subset
<1>3. h \in Surjection(P, ts)
  BY DEF Surjection
<1>4. IsFiniteSet(P)
  BY PointsFinite
<1>5. IsFiniteSet(ts)
  <2> HIDE DEF P, ts, h
  <2> QED
    BY <1>3, <1>4, FS_Surjection
<1>6. \A T \in ts : IsFiniteSet(T)
  BY <1>2
<1>7. IsFiniteSet(UNION ts)
  <2> HIDE DEF ts
  <2> QED
    BY <1>5, <1>6, FS_UNION
<1>8. IsFiniteSet(Params(f) \cup UNION ts)
  <2> HIDE DEF ts
  <2> QED
    BY <1>1, <1>7, FS_Union
<1> QED
  BY <1>8 DEF Vregs

(* Pass 1 meets every vreg.                                                *)
LEMMA NumberedAre ==
  ASSUME NEW f, IsFunction(f)
  PROVE  Numbered(f) = Vregs(f)
<1> DEFINE T(p) == IF At(f, p).op = "phi" THEN {At(f, p).dst} \ {NoVreg} ELSE Touches(At(f, p))
<1>1. \A p \in Points(f) : T(p) \subseteq Touches(At(f, p))
  BY DEF Touches
<1>2. \A p \in Points(f) : Touches(At(f, p)) \subseteq T(p) \cup Uses(At(f, p))
  BY DEF Touches
<1>3. \A p \in Points(f) : At(f, p).op # "phi" => Touches(At(f, p)) = T(p)
  OBVIOUS
<1>4. \A p \in Points(f) : At(f, p).op = "phi" => Uses(At(f, p)) \subseteq Numbered(f)
  BY InstructionIs
<1>5. Numbered(f) = Params(f) \cup UNION {T(p) : p \in Points(f)}
  BY DEF Numbered
<1> HIDE DEF T
<1>6. Numbered(f) \subseteq Vregs(f)
  BY <1>1, <1>5 DEF Vregs
<1>7. \A p \in Points(f) : Touches(At(f, p)) \subseteq Numbered(f)
  BY <1>2, <1>3, <1>4, <1>5
<1> QED
  BY <1>5, <1>6, <1>7 DEF Vregs

(* compute_intervals answers with one interval per vreg, none of them      *)
(* empty, and an answer array with room for each: with a list the scan may *)
(* be given, for every function.                                           *)
THEOREM ListIs ==
  ASSUME NEW f, IsFunction(f)
  PROVE  LET in == ComputeIntervals(f)
         IN  /\ WellFormed(in)
             /\ {in.ivs[i] : i \in 1..Len(in.ivs)} = {IntervalOf(f, v) : v \in Vregs(f)}
             /\ \A v \in Vregs(f) : v \in 0..in.nvregs-1
<1> DEFINE V == Vregs(f)
           R == {r \in V \X V : r[1] < r[2]}
           c == Cardinality(V)
           nth(i) == CHOOSE v \in V : Cardinality({w \in V : w <= v}) = i
           in == ComputeIntervals(f)
<1>1. V \in SUBSET Nat /\ IsFiniteSet(V)
  BY VregsAre, VregsFinite
<1> HIDE DEF V
<1>a. \A x, y : <<x, y>> \in R <=> x \in V /\ y \in V /\ x < y
  OBVIOUS
<1> HIDE DEF R
<1>2. StrictOrder(R, V)
  BY <1>1, <1>a DEF StrictOrder
<1>3. \A v \in V : Nth(R, V, v) = Cardinality({w \in V : w <= v})
  <2> SUFFICES ASSUME NEW v \in V
               PROVE  Nth(R, V, v) = Cardinality({w \in V : w <= v})
    OBVIOUS
  <2>1. {y \in V : <<v, y>> \notin R} = {w \in V : w <= v}
    <3>1. \A y \in V : y \in Nat /\ v \in Nat
      BY <1>1
    <3>2. \A y \in V : <<v, y>> \notin R <=> y <= v
      BY <1>a, <3>1
    <3> QED
      BY <3>2
  <2> QED
    BY <2>1 DEF Nth
<1>4. /\ c \in Nat
      /\ \A x \in V : Nth(R, V, x) \in 1..c
      /\ \A x, y \in V : <<x, y>> \in R => Nth(R, V, x) < Nth(R, V, y)
      /\ \A x, y \in V : Nth(R, V, x) = Nth(R, V, y) => x = y
      /\ \A i \in 1..c : \E x \in V : Nth(R, V, x) = i
  <2>1. IsFiniteSet(V)
    BY <1>1
  <2> QED
    BY <1>2, <2>1, Numbering, Z3
<1>5. \A i \in 1..c : nth(i) \in V /\ Nth(R, V, nth(i)) = i
  <2> SUFFICES ASSUME NEW i \in 1..c PROVE nth(i) \in V /\ Nth(R, V, nth(i)) = i
    OBVIOUS
  <2>3. PICK x \in V : Nth(R, V, x) = i
    BY <1>4
  <2>1. Cardinality({w \in V : w <= x}) = i
    BY <1>3, <2>3
  <2>2. nth(i) \in V /\ Cardinality({w \in V : w <= nth(i)}) = i
    BY <2>1
  <2> HIDE DEF nth
  <2> QED
    BY <1>3, <2>2
<1>6. \A i, j \in 1..c : nth(i) = nth(j) => i = j
  <2> HIDE DEF nth
  <2> QED
    BY <1>5
<1>7. \A v \in V : \E i \in 1..c : nth(i) = v
  <2> SUFFICES ASSUME NEW v \in V PROVE \E i \in 1..c : nth(i) = v
    OBVIOUS
  <2> HIDE DEF nth
  <2>1. Nth(R, V, v) \in 1..c
    BY <1>4
  <2>2. nth(Nth(R, V, v)) = v
    BY <1>4, <1>5, <2>1
  <2> QED
    BY <2>1, <2>2
<1>8. \E m \in V \cup {-1} : \A y \in V \cup {-1} : m >= y
  <2>1. CASE V = {}
    BY <2>1
  <2>2. CASE V # {}
    <3>1. c # 0 /\ c \in 1..c
      BY <1>4, <2>2
    <3>2. PICK m \in V : Nth(R, V, m) = c
      BY <1>4, <3>1
    <3>3. ASSUME NEW y \in V PROVE m >= y
      <4> SUFFICES ASSUME m < y PROVE FALSE
        BY <1>1
      <4>1. <<m, y>> \in R
        BY <1>a
      <4>2. Nth(R, V, m) < Nth(R, V, y) /\ Nth(R, V, y) \in 1..c
        BY <1>4, <4>1
      <4> QED
        BY <1>4, <3>2, <4>2
    <3> QED
      BY <1>1, <3>3
  <2> QED
    BY <2>1, <2>2
<1>9. in.nvregs \in Nat /\ \A v \in V : v \in 0..in.nvregs-1
  <2>3. Numbered(f) = V
    BY NumberedAre DEF V
  <2> DEFINE top == Max(V \cup {-1})
  <2>1. top \in V \cup {-1} /\ \A y \in V \cup {-1} : top >= y
    BY <1>8 DEF Max
  <2>2. in.nvregs = top + 1
    BY <2>3 DEF ComputeIntervals
  <2> HIDE DEF top, in
  <2> QED
    BY <1>1, <2>1, <2>2
<1>10. in.ivs = [i \in 1..c |-> IntervalOf(f, nth(i))]
  BY DEF ComputeIntervals, V
<1>11. \A v \in V : IntervalOf(f, v) \in Interval /\ IntervalOf(f, v).vreg = v
                    /\ IntervalOf(f, v).start <= IntervalOf(f, v).end
  <2> SUFFICES ASSUME NEW v \in V
               PROVE  IntervalOf(f, v) \in Interval /\ IntervalOf(f, v).vreg = v
                      /\ IntervalOf(f, v).start <= IntervalOf(f, v).end
    OBVIOUS
  <2>1. v \in Vregs(f) /\ v \in Nat
    BY <1>1 DEF V
  <2>2. /\ Start(f, v) \in Nat /\ FirstEnd(f, v) \in Nat /\ FinalEnd(f, v) \in Nat
        /\ Start(f, v) <= FirstEnd(f, v) /\ FirstEnd(f, v) <= FinalEnd(f, v)
    BY <2>1, EndsOf, FinalEndIs
  <2>3. CrossesCall(f, v) \in BOOLEAN /\ ForceSpill(f, v) \in BOOLEAN
    BY DEF CrossesCall, ForceSpill
  <2> QED
    BY <2>1, <2>2, <2>3 DEF IntervalOf, Interval
<1> HIDE DEF in, nth
<1>12. Len(in.ivs) = c /\ \A i \in 1..c : in.ivs[i] = IntervalOf(f, nth(i))
  BY <1>4, <1>10
<1>13. in.ivs \in Seq(Interval)
  <2>1. \A i \in 1..c : IntervalOf(f, nth(i)) \in Interval
    BY <1>5, <1>11
  <2> HIDE DEF c
  <2> QED
    BY <1>4, <1>10, <2>1
<1>14. \A i \in 1..c : in.ivs[i].vreg = nth(i) /\ in.ivs[i].start <= in.ivs[i].end
                       /\ nth(i) < in.nvregs
  <2> SUFFICES ASSUME NEW i \in 1..c
               PROVE  /\ in.ivs[i].vreg = nth(i) /\ in.ivs[i].start <= in.ivs[i].end
                      /\ nth(i) < in.nvregs
    OBVIOUS
  <2>1. nth(i) \in V /\ in.ivs[i] = IntervalOf(f, nth(i))
    BY <1>5, <1>12
  <2>2. nth(i) < in.nvregs
    BY <1>1, <1>9, <2>1
  <2> QED
    BY <1>11, <2>1, <2>2
<1>15. WellFormed(in)
  BY <1>6, <1>9, <1>12, <1>13, <1>14 DEF WellFormed
<1>16. {in.ivs[i] : i \in 1..Len(in.ivs)} = {IntervalOf(f, v) : v \in V}
  <2>1. \A i \in 1..c : \E v \in V : in.ivs[i] = IntervalOf(f, v)
    BY <1>5, <1>12
  <2>2. \A v \in V : \E i \in 1..c : in.ivs[i] = IntervalOf(f, v)
    BY <1>7, <1>12
  <2> QED
    BY <1>12, <2>1, <2>2
<1> QED
  BY <1>9, <1>15, <1>16 DEF in, V

-----------------------------------------------------------------------------
(* The allocation the code runs with.                                      *)
ListOf ==
  /\ {iv[i] : i \in 1..n} = {IntervalOf(fn, v) : v \in Vregs(fn)}
  /\ \A v \in Vregs(fn) : v \in 0..nvregs-1

Meet(v, w) == Start(fn, v) <= FinalEnd(fn, w) /\ Start(fn, w) <= FinalEnd(fn, v)

LEMMA ListKept ==
  ASSUME IInv, ListOf, Next, UNCHANGED fn
  PROVE  ListOf'
<1>1. n' = n /\ nvregs' = nvregs
  BY DEF Next, Bypass, Sort, SpillForced, TakeFree, EvictFurthest, SpillSelf, BuildAnswer, input
<1>2. {iv'[i] : i \in 1..n} = {iv[i] : i \in 1..n}
  <2>1. CASE Sort
    BY <2>1, SortKeepsIntervals
  <2>2. CASE iv' = iv
    BY <2>2
  <2> QED
    BY <2>1, <2>2 DEF Next, Bypass, SpillForced, TakeFree, EvictFurthest, SpillSelf,
       BuildAnswer, input
<1> QED
  BY <1>1, <1>2 DEF ListOf

(* The intervals stay a list the scan may be given.                        *)
LEMMA ListWellFormed ==
  ASSUME IsFunction(fn), IInv, ListOf
  PROVE  WellFormed([ivs |-> iv, nvregs |-> nvregs])
<1>1. /\ n \in Nat /\ iv \in [1..n -> Interval] /\ nvregs \in Nat
      /\ \A i \in 1..n : iv[i].vreg < nvregs
      /\ \A i, j \in 1..n : iv[i].vreg = iv[j].vreg => i = j
  BY DEF IInv, TypeOK, Array, Distinct
<1>2. \A i \in 1..n : iv[i].start <= iv[i].end
  <2> SUFFICES ASSUME NEW i \in 1..n PROVE iv[i].start <= iv[i].end
    OBVIOUS
  <2>1. PICK v \in Vregs(fn) : iv[i] = IntervalOf(fn, v)
    BY DEF ListOf
  <2>2. /\ Start(fn, v) \in Nat /\ FirstEnd(fn, v) \in Nat /\ FinalEnd(fn, v) \in Nat
        /\ Start(fn, v) <= FirstEnd(fn, v) /\ FirstEnd(fn, v) <= FinalEnd(fn, v)
    BY EndsOf, FinalEndIs
  <2> QED
    BY <2>1, <2>2 DEF IntervalOf
<1>3. iv \in Seq(Interval) /\ Len(iv) = n
  BY <1>1
<1> DEFINE in == [ivs |-> iv, nvregs |-> nvregs]
<1>4. in.ivs = iv /\ in.nvregs = nvregs
  OBVIOUS
<1> HIDE DEF in
<1>5. WellFormed(in)
  BY <1>1, <1>2, <1>3, <1>4 DEF WellFormed
<1> QED
  BY <1>5 DEF in

(* The contract of module Allocation, said of the vregs.                   *)
LEMMA AllocationIs ==
  ASSUME IsFunction(fn), IInv, ListOf, pc = "done"
  PROVE  /\ reg_of \in [0..nvregs-1 -> {InMemory} \cup Regs] /\ InMemory \notin Regs
         /\ \A v, w \in Vregs(fn) :
              v # w /\ Meet(v, w) /\ reg_of[v] # InMemory => reg_of[v] # reg_of[w]
         /\ \A v \in Vregs(fn) : CrossesCall(fn, v) =>
              reg_of[v] = InMemory \/ reg_of[v] >= NCaller
         /\ \A v \in Vregs(fn) : ForceSpill(fn, v) => reg_of[v] = InMemory
<1>1. Contract!Valid(reg_of)
  BY AnswerIsValid
<1>2. InMemory = Contract!InMemory /\ InMemory \notin Regs
  BY RegsAreNat DEF InMemory, Contract!InMemory, Unset
<1>3. reg_of \in [0..nvregs-1 -> {InMemory} \cup Regs]
  BY DEF IInv, TypeOK
<1> DEFINE I == {iv[i] : i \in 1..n}
<1>4. /\ \A u, v \in I : u # v /\ Contract!Overlap(u, v) /\ reg_of[u.vreg] # InMemory
                           => reg_of[u.vreg] # reg_of[v.vreg]
      /\ \A u \in I : /\ u.crosses_call => reg_of[u.vreg] = InMemory \/ reg_of[u.vreg] >= NCaller
                      /\ u.force_spill => reg_of[u.vreg] = InMemory
  BY <1>1, <1>2 DEF Contract!Valid
<1>5. \A v \in Vregs(fn) : IntervalOf(fn, v) \in I
  BY DEF ListOf
<1> HIDE DEF I
<1>6. \A v \in Vregs(fn) : /\ IntervalOf(fn, v).vreg = v
                           /\ IntervalOf(fn, v).start = Start(fn, v)
                           /\ IntervalOf(fn, v).end = FinalEnd(fn, v)
                           /\ IntervalOf(fn, v).crosses_call = CrossesCall(fn, v)
                           /\ IntervalOf(fn, v).force_spill = ForceSpill(fn, v)
  BY DEF IntervalOf
<1>7. ASSUME NEW v \in Vregs(fn), NEW w \in Vregs(fn), v # w, Meet(v, w), reg_of[v] # InMemory
      PROVE  reg_of[v] # reg_of[w]
  <2>1. IntervalOf(fn, v) # IntervalOf(fn, w)
    BY <1>6, <1>7
  <2>2. Contract!Overlap(IntervalOf(fn, v), IntervalOf(fn, w))
    BY <1>6, <1>7 DEF Contract!Overlap, Meet
  <2> QED
    BY <1>4, <1>5, <1>6, <1>7, <2>1, <2>2
<1>8. ASSUME NEW v \in Vregs(fn)
      PROVE  /\ CrossesCall(fn, v) => reg_of[v] = InMemory \/ reg_of[v] >= NCaller
             /\ ForceSpill(fn, v) => reg_of[v] = InMemory
  BY <1>4, <1>5, <1>6
<1> QED
  BY <1>2, <1>3, <1>7, <1>8

-----------------------------------------------------------------------------
(* Reading and writing the location of a vreg.                             *)
Machines == [regs : [Regs -> Values], slots : [Vregs(fn) -> Values]]

LEMMA ReadTyped ==
  ASSUME ListOf, reg_of \in [0..nvregs-1 -> {InMemory} \cup Regs],
         NEW m \in Machines
  PROVE  \A v \in Vregs(fn) : Get(m, v) \in Values
<1> SUFFICES ASSUME NEW v \in Vregs(fn) PROVE Get(m, v) \in Values
  OBVIOUS
<1>1. reg_of[v] \in {InMemory} \cup Regs
  BY DEF ListOf
<1>2. m.regs \in [Regs -> Values] /\ m.slots \in [Vregs(fn) -> Values]
  BY DEF Machines
<1> QED
  BY <1>1, <1>2 DEF Get

LEMMA WriteIs ==
  ASSUME ListOf, reg_of \in [0..nvregs-1 -> {InMemory} \cup Regs], InMemory \notin Regs,
         NEW m \in Machines, NEW v \in Vregs(fn), NEW x \in Values
  PROVE  /\ Put(m, v, x) \in Machines
         /\ Get(Put(m, v, x), v) = x
         /\ \A w \in Vregs(fn) : w # v /\ (reg_of[v] # InMemory => reg_of[w] # reg_of[v]) =>
              Get(Put(m, v, x), w) = Get(m, w)
<1>1. reg_of[v] \in {InMemory} \cup Regs /\ \A w \in Vregs(fn) : reg_of[w] \in {InMemory} \cup Regs
  BY DEF ListOf
<1>2. /\ m.regs \in [Regs -> Values] /\ m.slots \in [Vregs(fn) -> Values]
      /\ m = [regs |-> m.regs, slots |-> m.slots]
  BY DEF Machines
<1>3. CASE reg_of[v] = InMemory
  <2> DEFINE s == [m.slots EXCEPT ![v] = x]
  <2>1. Put(m, v, x) = [regs |-> m.regs, slots |-> s]
    BY <1>2, <1>3 DEF Put
  <2>2. s \in [Vregs(fn) -> Values] /\ s[v] = x /\ \A w \in Vregs(fn) : w # v => s[w] = m.slots[w]
    BY <1>2
  <2> HIDE DEF s
  <2> QED
    BY <1>2, <1>3, <2>1, <2>2 DEF Get, Machines
<1>4. CASE reg_of[v] # InMemory
  <2> DEFINE r == [m.regs EXCEPT ![reg_of[v]] = x]
  <2>1. Put(m, v, x) = [regs |-> r, slots |-> m.slots]
    BY <1>2, <1>4 DEF Put
  <2>2. r \in [Regs -> Values] /\ r[reg_of[v]] = x
        /\ \A i \in Regs : i # reg_of[v] => r[i] = m.regs[i]
    BY <1>1, <1>2, <1>4
  <2> HIDE DEF r
  <2> QED
    BY <1>1, <1>2, <1>4, <2>1, <2>2 DEF Get, Machines
<1> QED
  BY <1>3, <1>4

LEMMA LossIs ==
  ASSUME ListOf, reg_of \in [0..nvregs-1 -> {InMemory} \cup Regs],
         NEW m \in Machines, NEW R
  PROVE  /\ Lose(m, R) \in Machines
         /\ \A w \in Vregs(fn) : reg_of[w] = InMemory \/ reg_of[w] \notin R =>
              Get(Lose(m, R), w) = Get(m, w)
<1>1. \A w \in Vregs(fn) : reg_of[w] \in {InMemory} \cup Regs
  BY DEF ListOf
<1>2. /\ m.regs \in [Regs -> Values] /\ m.slots \in [Vregs(fn) -> Values]
      /\ m = [regs |-> m.regs, slots |-> m.slots]
  BY DEF Machines
<1> DEFINE r == [i \in Regs |-> IF i \in R THEN Junk ELSE m.regs[i]]
<1>3. Lose(m, R) = [regs |-> r, slots |-> m.slots]
  BY <1>2 DEF Lose
<1>4. r \in [Regs -> Values] /\ \A i \in Regs : i \notin R => r[i] = m.regs[i]
  BY <1>2 DEF Values
<1> HIDE DEF r
<1> QED
  BY <1>1, <1>2, <1>3, <1>4 DEF Get, Machines

-----------------------------------------------------------------------------
(* Control flow.  What is defined, and what may still be read, before and  *)
(* after a step within a block ...                                         *)
LEMMA Onward ==
  ASSUME NEW f, IsFunction(f), NEW p \in Points(f), At(f, p).op \notin Terminators
  PROVE  LET q == <<p[1], p[2]+1>>
         IN  /\ q \in Points(f) /\ Pos(f, q) = Pos(f, p) + 1
             /\ \A v : Available(f, v, q) => v = At(f, p).dst \/ Available(f, v, p)
             /\ \A v : Dead(f, v, p) => Dead(f, v, q)
<1> DEFINE q == <<p[1], p[2]+1>>
<1>1. p[1] \in Blocks(f) /\ p[2] \in Nat /\ p[2] >= 1 /\ p[2] < Len(f.blocks[p[1]])
  <2>1. p[1] \in Blocks(f) /\ p[2] \in Instrs(f, p[1]) /\ Len(f.blocks[p[1]]) \in Nat
    BY Shape
  <2>2. p[2] # Len(f.blocks[p[1]])
    BY InstructionIs
  <2> QED
    BY <2>1, <2>2 DEF Instrs
<1>2. q \in Points(f) /\ q[1] = p[1] /\ q[2] = p[2]+1
  <2>1. p[2]+1 \in Instrs(f, p[1])
    BY <1>1, Shape DEF Instrs
  <2> QED
    BY <1>1, <2>1, Shape
<1>3. Pos(f, q) = Pos(f, p) + 1
  BY <1>1, <1>2, Positions DEF Pos
<1> HIDE DEF q
<1>4. ASSUME NEW v, Available(f, v, q), ~Available(f, v, p) PROVE v = At(f, p).dst
  <2>1. PICK r \in Points(f) : /\ At(f, r).dst = v
                               /\ IF r[1] = q[1] THEN r[2] < q[2] ELSE Dominates(f, r[1], q[1])
    BY <1>4 DEF Available
  <2>2. r[1] = p[1] /\ ~(r[2] < p[2]) /\ r[2] < p[2]+1
    BY <1>2, <1>4, <2>1 DEF Available
  <2>3. r[2] \in Nat /\ r = <<r[1], r[2]>> /\ p = <<p[1], p[2]>>
    BY Shape DEF Instrs
  <2>4. r = p
    BY <1>1, <2>2, <2>3
  <2> QED
    BY <2>1, <2>4
<1>5. ASSUME NEW v, Dead(f, v, p) PROVE Dead(f, v, q)
  <2>1. ReadFrom(f, v, q[1], q[2]) => ReadFrom(f, v, p[1], p[2])
    <3>1. \A r \in Points(f) : r[2] >= q[2] => r[2] >= p[2]
      <4>1. \A r \in Points(f) : r[2] \in Nat
        BY Shape DEF Instrs
      <4> QED
        BY <1>1, <1>2, <4>1
    <3> QED
      BY <1>2, <3>1 DEF ReadFrom
  <2> QED
    BY <1>2, <1>5, <2>1 DEF Dead
<1> QED
  BY <1>2, <1>3, <1>4, <1>5 DEF q

(* ... and before and after an edge.                                       *)
LEMMA Dominated ==
  ASSUME NEW f, NEW b \in Blocks(f), NEW c \in Succs(f, b), NEW d, d # c, Dominates(f, d, c)
  PROVE  d = b \/ Dominates(f, d, b)
<1>1. PICK S \in SUBSET (Blocks(f) \ {d, c}) :
         (d # 1 => 1 \in S) /\ \A a \in S : Succs(f, a) \subseteq S \cup {d}
  BY DEF Dominates
<1>2. b \notin S
  BY <1>1
<1> QED
  BY <1>1, <1>2 DEF Dominates

LEMMA Across ==
  ASSUME NEW f, IsFunction(f), NEW p \in Points(f), At(f, p).op \in Terminators,
         NEW c \in Succs(f, p[1]), NEW i \in Instrs(f, c)
  PROVE  LET q == <<c, i>>
         IN  /\ c \in Blocks(f) /\ q \in Points(f)
             /\ \A v \in Vregs(f) : Available(f, v, q) =>
                  (\E j \in 1..i-1 : f.blocks[c][j].dst = v) \/ Available(f, v, p)
             /\ \A v : Dead(f, v, p) => Defines(f, c, v) \/ Dead(f, v, q)
<1> DEFINE q == <<c, i>>
<1>1. /\ p[1] \in Blocks(f) /\ p[2] = Len(f.blocks[p[1]]) /\ At(f, p).dst = NoVreg
      /\ p = <<p[1], p[2]>> /\ p[2] \in Nat
  BY Shape, InstructionIs
<1>2. c \in Blocks(f)
  BY <1>1, SuccsAre
<1>3. q \in Points(f) /\ q[1] = c /\ q[2] = i
  BY <1>2, Shape
<1> HIDE DEF q
<1>4. ASSUME NEW v \in Vregs(f), Available(f, v, q), ~Available(f, v, p)
      PROVE  \E j \in 1..i-1 : f.blocks[c][j].dst = v
  <2>1. PICK r \in Points(f) : /\ At(f, r).dst = v
                               /\ IF r[1] = c THEN r[2] < i ELSE Dominates(f, r[1], c)
    BY <1>3, <1>4 DEF Available
  <2>2. /\ r[1] \in Blocks(f) /\ r[2] \in 1..Len(f.blocks[r[1]]) /\ Len(f.blocks[r[1]]) \in Nat
        /\ r = <<r[1], r[2]>> /\ At(f, r) = f.blocks[r[1]][r[2]]
    <3>1. r[1] \in Blocks(f) /\ r[2] \in Instrs(f, r[1]) /\ r = <<r[1], r[2]>>
      BY Shape
    <3>2. Len(f.blocks[r[1]]) \in Nat
      BY <3>1, Shape
    <3> QED
      BY <3>1, <3>2 DEF Instrs, At
  <2>3. CASE r[1] = c
    <3>1. r[2] \in 1..i-1
      BY <2>1, <2>2, <2>3 DEF Instrs
    <3> QED
      BY <2>1, <2>2, <2>3, <3>1
  <2>4. CASE r[1] # c
    <3>1. r[1] = p[1] \/ Dominates(f, r[1], p[1])
      BY <1>1, <2>1, <2>4, Dominated
    <3>2. r[1] = p[1] /\ ~(r[2] < p[2])
      BY <1>4, <2>1, <3>1 DEF Available
    <3>3. r = p
      BY <1>1, <2>2, <3>2
    <3>4. v # NoVreg
      BY VregsAre
    <3> QED
      BY <1>1, <2>1, <3>3, <3>4
  <2> QED
    BY <2>3, <2>4
<1>5. ASSUME NEW v, Dead(f, v, p), ~Defines(f, c, v) PROVE Dead(f, v, q)
  <2>1. PICK D \in SUBSET Blocks(f) :
           /\ Succs(f, p[1]) \subseteq D
           /\ \A b \in D : \/ Defines(f, b, v)
                           \/ ~ReadFrom(f, v, b, 1) /\ Succs(f, b) \subseteq D
    BY <1>5 DEF Dead
  <2>2. ~ReadFrom(f, v, c, 1) /\ Succs(f, c) \subseteq D
    BY <1>5, <2>1
  <2>3. ReadFrom(f, v, c, i) => ReadFrom(f, v, c, 1)
    <3>1. \A r \in Points(f) : r[1] = c => r[2] >= 1
      <4>1. \A r \in Points(f) : r[2] \in Instrs(f, r[1])
        BY Shape
      <4>2. \A r \in Points(f) : r[2] >= 1
        BY <4>1 DEF Instrs
      <4> QED
        BY <4>2
    <3> QED
      BY <3>1 DEF ReadFrom
  <2> QED
    BY <1>3, <2>1, <2>2, <2>3 DEF Dead
<1> QED
  BY <1>2, <1>3, <1>4, <1>5 DEF q

(* An interval that reaches the start of a block reaches the end of every  *)
(* block control comes from.                                               *)
LEMMA ReachesBack ==
  ASSUME NEW f, IsFunction(f), NEW v \in Vregs(f), NEW b \in Blocks(f), NEW c \in Succs(f, b),
         BlockStart(f, c) <= FinalEnd(f, v)
  PROVE  BlockEnd(f, b) <= FinalEnd(f, v)
<1>1. c \in Blocks(f)
  BY SuccsAre
<1>2. /\ BlockStart(f, c) \in Nat /\ BlockStart(f, b) \in Nat /\ BlockEnd(f, b) \in Nat
      /\ BlockEnd(f, c) \in Nat /\ FinalEnd(f, v) \in Nat
  BY <1>1, Positions, FinalEndIs
<1>3. CASE c \in BackTo(f, b)
  BY <1>2, <1>3, FinalEndIs
<1>4. CASE c \notin BackTo(f, b)
  <2>1. ~(BlockStart(f, c) <= BlockStart(f, b))
    BY <1>4 DEF BackTo
  <2>2. b \in Nat /\ c \in Nat
    BY <1>1, Shape
  <2>3. b < c
    <3> SUFFICES ASSUME c <= b PROVE FALSE
      BY <2>2
    <3>1. c # b /\ c < b
      BY <1>2, <2>1, <2>2
    <3>2. BlockEnd(f, c) <= BlockStart(f, b) /\ BlockStart(f, c) < BlockEnd(f, c)
      BY <1>1, <3>1, Positions
    <3> QED
      BY <1>2, <2>1, <3>2
  <2>4. BlockEnd(f, b) <= BlockStart(f, c)
    BY <1>1, <2>3, Positions
  <2> QED
    BY <1>2, <2>4
<1> QED
  BY <1>3, <1>4

(* The intervals of compute_intervals cover liveness, phis and back edges  *)
(* included: from a point past the end of the interval of v, no execution  *)
(* reads v before it is defined again.                                     *)
THEOREM DeadPastEnd ==
  ASSUME NEW f, IsFunction(f), NEW v \in Vregs(f), NEW p \in Points(f),
         FinalEnd(f, v) < Pos(f, p)
  PROVE  Dead(f, v, p)
<1> DEFINE D == {b \in Blocks(f) : FinalEnd(f, v) < BlockStart(f, b) + 1}
<1>1. FinalEnd(f, v) \in Nat /\ \A t \in Touched(f, v) : t \in Nat /\ t <= FinalEnd(f, v)
  <2>1. \A t \in Touched(f, v) : t \in Nat /\ t <= FirstEnd(f, v)
    BY EndsOf
  <2>2. FirstEnd(f, v) \in Nat /\ FinalEnd(f, v) \in Nat /\ FirstEnd(f, v) <= FinalEnd(f, v)
    BY EndsOf, FinalEndIs
  <2> QED
    BY <2>1, <2>2
<1>2. p[1] \in Blocks(f) /\ Pos(f, p) \in Nat /\ Pos(f, p) <= BlockEnd(f, p[1])
      /\ BlockEnd(f, p[1]) \in Nat
  BY Positions, Shape
<1>3. ASSUME NEW b \in Blocks(f), FinalEnd(f, v) < BlockEnd(f, b)
      PROVE  Succs(f, b) \subseteq D
  <2> SUFFICES ASSUME NEW c \in Succs(f, b) PROVE c \in D
    OBVIOUS
  <2>1. c \in Blocks(f) /\ BlockStart(f, c) \in Nat /\ BlockEnd(f, b) \in Nat
    BY SuccsAre, Positions
  <2>2. ~(BlockStart(f, c) <= FinalEnd(f, v))
    BY <1>1, <1>3, <2>1, ReachesBack
  <2> QED
    BY <1>1, <2>1, <2>2
<1>4. ASSUME NEW b \in Blocks(f), NEW i \in Nat, FinalEnd(f, v) < BlockStart(f, b) + i,
             FinalEnd(f, v) < BlockEnd(f, b)
      PROVE  ~ReadFrom(f, v, b, i)
  <2> SUFFICES ASSUME NEW q \in Points(f),
                      LET in == At(f, q) IN
                      IF in.op = "phi" THEN \E s \in 1..2 : in.labels[s] = b /\ in.args[s] = v
                                       ELSE q[1] = b /\ q[2] >= i /\ v \in Uses(in)
               PROVE  FALSE
    BY DEF ReadFrom
  <2>1. CASE At(f, q).op = "phi"
    <3>1. PICK s \in 1..2 : At(f, q).labels[s] = b /\ At(f, q).args[s] = v
      BY <2>1
    <3>2. BlockEnd(f, b) \in Touched(f, v)
      BY <2>1, <3>1, TouchedAt
    <3> QED
      BY <1>1, <1>4, <3>2
  <2>2. CASE At(f, q).op # "phi"
    <3>1. q[1] = b /\ q[2] >= i /\ v \in Touches(At(f, q))
      BY <2>2 DEF Touches
    <3>2. Pos(f, q) \in Touched(f, v)
      BY <2>2, <3>1, TouchedAt
    <3>3. Pos(f, q) = BlockStart(f, b) + q[2] /\ BlockStart(f, b) \in Nat
      BY <3>1, Positions
    <3>4. q[2] \in Nat
      BY Shape DEF Instrs
    <3> QED
      BY <1>1, <1>4, <3>1, <3>2, <3>3, <3>4
  <2> QED
    BY <2>1, <2>2
<1>5. FinalEnd(f, v) < BlockEnd(f, p[1])
  BY <1>1, <1>2
<1>6. ~ReadFrom(f, v, p[1], p[2])
  <2>1. p[2] \in Nat /\ Pos(f, p) = BlockStart(f, p[1]) + p[2]
    BY Shape, Positions DEF Instrs
  <2> QED
    BY <1>2, <1>4, <1>5, <2>1
<1>7. \A b \in D : ~ReadFrom(f, v, b, 1) /\ Succs(f, b) \subseteq D
  <2> SUFFICES ASSUME NEW b \in D PROVE ~ReadFrom(f, v, b, 1) /\ Succs(f, b) \subseteq D
    OBVIOUS
  <2>1. b \in Blocks(f) /\ FinalEnd(f, v) < BlockStart(f, b) + 1
    OBVIOUS
  <2>2. BlockStart(f, b) \in Nat /\ BlockEnd(f, b) \in Nat /\ BlockStart(f, b) < BlockEnd(f, b)
    BY <2>1, Positions
  <2>3. FinalEnd(f, v) < BlockEnd(f, b)
    BY <1>1, <2>1, <2>2
  <2> QED
    BY <1>3, <1>4, <2>1, <2>3
<1>8. Succs(f, p[1]) \subseteq D
  BY <1>2, <1>3, <1>5
<1> HIDE DEF D
<1>9. D \in SUBSET Blocks(f)
  BY DEF D
<1> QED
  BY <1>6, <1>7, <1>8, <1>9 DEF Dead

-----------------------------------------------------------------------------
(* The inductive invariant.  While the code runs, what has been defined    *)
(* began before the end of every interval that is not over, and what has   *)
(* been defined and may still be read has the value of the IR.             *)
Base ==
  /\ IsFunction(fn)
  /\ IInv
  /\ ListOf
  /\ ExecTypeOK
  /\ at = NotStarted => mach.slots = env /\ ~misread
  /\ at # NotStarted => pc = "done"
Met(p) ==
  \A v, w \in Vregs(fn) :
    Available(fn, v, p) /\ Pos(fn, p) <= FinalEnd(fn, w) => Start(fn, v) <= FinalEnd(fn, w)
InStep(p, e, m) ==
  \A v \in Vregs(fn) : Available(fn, v, p) /\ ~Dead(fn, v, p) => Get(m, v) = e[v]
RInv ==
  /\ Base
  /\ Sound(fn) => ~misread /\ (at \in Points(fn) => Met(at) /\ InStep(at, env, mach))

LEMMA NotStartedIs ==
  ASSUME NEW f, IsFunction(f)
  PROVE  NotStarted \notin Points(f) /\ Returned \notin Points(f) /\ NotStarted # Returned
<1>1. \A p \in Points(f) : p[1] # 0
  BY Shape DEF Blocks
<1> QED
  BY <1>1 DEF NotStarted, Returned

LEMMA TypesOf ==
  ASSUME Base
  PROVE  /\ env \in [Vregs(fn) -> Values] /\ mach \in Machines /\ misread \in BOOLEAN
         /\ at \in Points(fn) => pc = "done"
         /\ pc = "done" => reg_of \in [0..nvregs-1 -> {InMemory} \cup Regs]
         /\ InMemory \notin Regs
<1>1. at \in Points(fn) => at # NotStarted
  BY NotStartedIs DEF Base
<1> QED
  BY <1>1, RegsAreNat DEF Base, ExecTypeOK, Machines, IInv, TypeOK, InMemory, Unset

LEMMA StillAllocated ==
  ASSUME Base, UNCHANGED <<vars, fn>>
  PROVE  IsFunction(fn)' /\ IInv' /\ ListOf' /\ WellFormed([ivs |-> iv, nvregs |-> nvregs])'
<1>1. IInv'
  BY Inductive DEF Base
<1>2. IsFunction(fn)' /\ ListOf'
  BY DEF Base, ListOf, vars
<1>3. WellFormed([ivs |-> iv, nvregs |-> nvregs])
  BY ListWellFormed DEF Base
<1> QED
  BY <1>1, <1>2, <1>3 DEF vars

(* The operands of an instruction, and the vreg it defines.                *)
LEMMA OperandsAre ==
  ASSUME RInv, at \in Points(fn)
  PROVE  /\ Here.dst # NoVreg => Here.dst \in Vregs(fn)
         /\ \A s \in DOMAIN Here.args :
              Here.args[s] \notin Immediates => Here.args[s] \in Uses(Here)
         /\ Uses(Here) \subseteq Vregs(fn)
         /\ Here.op # "phi" =>
              /\ \A v \in Uses(Here) : /\ Start(fn, v) <= Pos(fn, at)
                                       /\ Pos(fn, at) <= FirstEnd(fn, v)
                                       /\ Pos(fn, at) <= FinalEnd(fn, v)
              /\ Here.dst # NoVreg => /\ Start(fn, Here.dst) <= Pos(fn, at)
                                      /\ Pos(fn, at) <= FinalEnd(fn, Here.dst)
<1>1. IsFunction(fn) /\ Here = At(fn, at)
  BY DEF RInv, Base, Here
<1>2. Touches(Here) \subseteq Vregs(fn)
  BY <1>1, VregsAre
<1>3. /\ Here.dst # NoVreg => Here.dst \in Touches(Here)
      /\ \A s \in DOMAIN Here.args :
           Here.args[s] \notin Immediates => Here.args[s] \in Uses(Here)
      /\ Uses(Here) \subseteq Touches(Here)
  BY DEF Touches, Uses
<1>4. ASSUME NEW v \in Touches(Here), Here.op # "phi"
      PROVE  Start(fn, v) <= Pos(fn, at) /\ Pos(fn, at) <= FirstEnd(fn, v)
             /\ Pos(fn, at) <= FinalEnd(fn, v)
  <2>1. v \in Vregs(fn)
    BY <1>2
  <2>2. Pos(fn, at) \in Touched(fn, v)
    BY <1>1, <1>4, TouchedAt
  <2>3. Start(fn, v) <= Pos(fn, at) /\ Pos(fn, at) <= FirstEnd(fn, v) /\ Pos(fn, at) \in Nat
    BY <1>1, <2>1, <2>2, EndsOf
  <2>4. FirstEnd(fn, v) \in Nat /\ FinalEnd(fn, v) \in Nat /\ FirstEnd(fn, v) <= FinalEnd(fn, v)
    BY <1>1, <2>1, EndsOf, FinalEndIs
  <2> QED
    BY <2>3, <2>4
<1> QED
  BY <1>2, <1>3, <1>4

(* What an instruction reads has been defined, by another one, and agrees. *)
LEMMA ReadsAre ==
  ASSUME RInv, Sound(fn), at \in Points(fn), Here.op # "phi", NEW v \in Uses(Here)
  PROVE  /\ v \in Vregs(fn) /\ Available(fn, v, at) /\ ~Dead(fn, v, at) /\ v # Here.dst
         /\ Get(mach, v) = env[v]
<1>1. IsFunction(fn) /\ Here = At(fn, at) /\ InStrictSSA(fn)
  BY DEF RInv, Base, Here, Sound
<1>2. v \in Vregs(fn)
  BY OperandsAre
<1>3. Available(fn, v, at)
  BY <1>1 DEF InStrictSSA
<1>4. ~Dead(fn, v, at)
  <2>1. at[2] >= at[2]
    <3>1. at[2] \in Nat
      BY <1>1, Shape DEF Instrs
    <3> QED
      BY <3>1
  <2>2. ReadFrom(fn, v, at[1], at[2])
    BY <1>1, <2>1 DEF ReadFrom
  <2> QED
    BY <2>2 DEF Dead
<1>5. v # Here.dst
  <2> SUFFICES ASSUME v = Here.dst PROVE FALSE
    OBVIOUS
  <2>1. v # NoVreg /\ v \notin Params(fn)
    BY <1>1, <1>2, VregsAre DEF InStrictSSA
  <2>2. PICK q \in Points(fn) : /\ At(fn, q).dst = v
                                /\ IF q[1] = at[1] THEN q[2] < at[2] ELSE Dominates(fn, q[1], at[1])
    BY <1>3, <2>1 DEF Available
  <2>3. q = at
    BY <1>1, <2>1, <2>2 DEF InStrictSSA
  <2>4. at[2] \in Nat
    BY <1>1, Shape DEF Instrs
  <2> QED
    BY <2>2, <2>3, <2>4
<1> QED
  BY <1>2, <1>3, <1>4, <1>5 DEF RInv, InStep

(* What may still be read is not where the instruction puts its result.    *)
LEMMA ResultApart ==
  ASSUME RInv, Sound(fn), at \in Points(fn), Here.op # "phi", Here.dst # NoVreg,
         NEW v \in Vregs(fn), Available(fn, v, at), ~Dead(fn, v, at), v # Here.dst
  PROVE  reg_of[Here.dst] # InMemory => reg_of[v] # reg_of[Here.dst]
<1>1. IsFunction(fn) /\ IInv /\ ListOf /\ pc = "done"
  BY TypesOf DEF RInv, Base
<1>2. /\ Here.dst \in Vregs(fn)
      /\ Start(fn, Here.dst) <= Pos(fn, at) /\ Pos(fn, at) <= FinalEnd(fn, Here.dst)
  BY OperandsAre
<1>3. Pos(fn, at) <= FinalEnd(fn, v)
  <2>1. Pos(fn, at) \in Nat /\ FinalEnd(fn, v) \in Nat
    BY <1>1, Positions, FinalEndIs
  <2> QED
    BY <1>1, <2>1, DeadPastEnd
<1>4. Start(fn, v) <= FinalEnd(fn, Here.dst)
  BY <1>2 DEF RInv, Met
<1>5. Meet(Here.dst, v)
  <2>1. Pos(fn, at) \in Nat /\ FinalEnd(fn, v) \in Nat /\ Start(fn, Here.dst) \in Nat
    BY <1>1, <1>2, Positions, FinalEndIs, EndsOf
  <2> QED
    BY <1>2, <1>3, <1>4, <2>1 DEF Meet
<1> QED
  BY <1>1, <1>2, <1>5, AllocationIs

-----------------------------------------------------------------------------
(* An instruction that reads what the IR reads and leaves alone what lives *)
(* across it keeps the two runs in step.                                   *)
LEMMA DefineKeeps ==
  ASSUME RInv, Running, Here.op # "phi", Here.op \notin Terminators, NEW m \in Machines, Define(m),
         at' = NextPoint, misread' \in BOOLEAN, UNCHANGED <<vars, fn>>,
         Sound(fn) => /\ ~misread'
                      /\ \A v \in LiveAcross(fn, at) : Get(m, v) = Get(mach, v)
  PROVE  RInv'
<1> DEFINE d == Here.dst
           q == NextPoint
<1>1. /\ IsFunction(fn) /\ IInv /\ ListOf /\ pc = "done" /\ at \in Points(fn) /\ Here = At(fn, at)
      /\ reg_of \in [0..nvregs-1 -> {InMemory} \cup Regs] /\ InMemory \notin Regs
      /\ env \in [Vregs(fn) -> Values] /\ mach \in Machines
  BY TypesOf DEF RInv, Base, Running, Here
<1>2. /\ q \in Points(fn) /\ Pos(fn, q) = Pos(fn, at) + 1
      /\ \A v : Available(fn, v, q) => v = d \/ Available(fn, v, at)
      /\ \A v : Dead(fn, v, at) => Dead(fn, v, q)
  BY <1>1, Onward DEF NextPoint
<1>3. d = NoVreg \/ d \in Vregs(fn)
  BY <1>1, OperandsAre
<1>5. \/ d = NoVreg /\ env' = env /\ mach' = m
      \/ d # NoVreg /\ \E x \in Values : env' = [env EXCEPT ![d] = x] /\ mach' = Put(m, d, x)
  <2>1. CASE d = NoVreg
    BY <2>1 DEF Define
  <2>2. CASE d # NoVreg
    <3>1. PICK b \in {0, 1} : /\ env' = [env EXCEPT ![d] = <<d, b>>]
                              /\ mach' = Put(m, d, <<d, b>>)
      BY <2>2 DEF Define
    <3>2. <<d, b>> \in Values
      BY <1>3, <2>2 DEF Values
    <3> QED
      BY <2>2, <3>1, <3>2
  <2> QED
    BY <2>1, <2>2
<1> HIDE DEF d, q
<1>6. /\ env' \in [Vregs(fn) -> Values] /\ mach' \in Machines
      /\ d # NoVreg => Get(mach', d) = env'[d]
      /\ \A v \in Vregs(fn) : v # d => env'[v] = env[v]
      /\ \A v \in Vregs(fn) : v # d /\ (d # NoVreg /\ reg_of[d] # InMemory => reg_of[v] # reg_of[d])
           => Get(mach', v) = Get(m, v)
  <2>1. CASE d = NoVreg
    BY <1>1, <1>5, <2>1, VregsAre
  <2>2. CASE d # NoVreg
    <3>1. PICK x \in Values : env' = [env EXCEPT ![d] = x] /\ mach' = Put(m, d, x)
      BY <1>5, <2>2
    <3>2. d \in Vregs(fn)
      BY <1>3, <2>2
    <3>3. /\ Put(m, d, x) \in Machines /\ Get(Put(m, d, x), d) = x
          /\ \A w \in Vregs(fn) : w # d /\ (reg_of[d] # InMemory => reg_of[w] # reg_of[d]) =>
               Get(Put(m, d, x), w) = Get(m, w)
      BY <1>1, <3>2, WriteIs
    <3>4. env' \in [Vregs(fn) -> Values] /\ env'[d] = x
          /\ \A v \in Vregs(fn) : v # d => env'[v] = env[v]
      BY <1>1, <3>1, <3>2
    <3> QED
      BY <2>2, <3>1, <3>3, <3>4
  <2> QED
    BY <2>1, <2>2
<1>7. Base'
  <2>1. IsFunction(fn)' /\ IInv' /\ ListOf' /\ WellFormed([ivs |-> iv, nvregs |-> nvregs])'
    BY StillAllocated DEF RInv
  <2>2. at' = q /\ q # NotStarted /\ q \in Points(fn)
    BY <1>1, <1>2, NotStartedIs DEF q
  <2>3. ExecTypeOK'
    BY <1>6, <2>1, <2>2 DEF ExecTypeOK, Machines, Values
  <2> QED
    BY <1>1, <2>1, <2>2, <2>3 DEF Base, vars
<1>8. ASSUME Sound(fn)
      PROVE  Met(q) /\ \A v \in Vregs(fn) : Available(fn, v, q) /\ ~Dead(fn, v, q) =>
                                              Get(mach', v) = env'[v]
  <2>1. Met(at) /\ InStep(at, env, mach)
    BY <1>1, <1>8 DEF RInv
  <2>2. ASSUME NEW v \in Vregs(fn), NEW w \in Vregs(fn), Available(fn, v, q),
               Pos(fn, q) <= FinalEnd(fn, w)
        PROVE  Start(fn, v) <= FinalEnd(fn, w)
    <3>1. Pos(fn, at) \in Nat /\ FinalEnd(fn, w) \in Nat /\ Start(fn, v) \in Nat
      BY <1>1, Positions, FinalEndIs, EndsOf
    <3>2. Pos(fn, at) <= FinalEnd(fn, w)
      BY <1>2, <2>2, <3>1
    <3>3. CASE v = d
      <4>1. Start(fn, v) <= Pos(fn, at)
        BY <1>1, <3>3, OperandsAre, VregsAre DEF d
      <4> QED
        BY <3>1, <3>2, <4>1
    <3>4. CASE v # d
      BY <1>2, <2>1, <2>2, <3>2, <3>4 DEF Met
    <3> QED
      BY <3>3, <3>4
  <2>3. ASSUME NEW v \in Vregs(fn), Available(fn, v, q), ~Dead(fn, v, q)
        PROVE  Get(mach', v) = env'[v]
    <3>1. CASE v = d
      BY <1>1, <1>6, <3>1, VregsAre
    <3>2. CASE v # d
      <4>1. Available(fn, v, at) /\ ~Dead(fn, v, at)
        BY <1>2, <2>3, <3>2
      <4>2. d # NoVreg /\ reg_of[d] # InMemory => reg_of[v] # reg_of[d]
        BY <1>1, <1>8, <3>2, <4>1, ResultApart DEF d
      <4>3. v \in LiveAcross(fn, at)
        BY <2>3, <4>1 DEF LiveAcross, q, NextPoint
      <4>4. Get(mach', v) = Get(m, v) /\ Get(m, v) = Get(mach, v)
        BY <1>6, <1>8, <3>2, <4>2, <4>3
      <4> QED
        BY <1>6, <2>1, <3>2, <4>1, <4>4 DEF InStep
    <3> QED
      BY <3>1, <3>2
  <2> QED
    BY <2>2, <2>3 DEF Met
<1>9. at' = q /\ fn' = fn /\ reg_of' = reg_of /\ misread' = misread'
  BY DEF vars, q
<1>10. ASSUME Sound(fn) PROVE Met(at)' /\ InStep(at, env, mach)'
  <2>1. Met(at)'
    BY <1>8, <1>9, <1>10 DEF Met
  <2>2. \A v : Get(mach, v)' = Get(mach', v)
    BY <1>9 DEF Get
  <2> QED
    BY <1>8, <1>9, <1>10, <2>1, <2>2 DEF InStep
<1>11. Sound(fn)' => Sound(fn)
  BY <1>9
<1> QED
  BY <1>7, <1>10, <1>11 DEF RInv

(* A read that agrees, and one after some registers have been lost.        *)
LEMMA ConstAgrees ==
  ASSUME NEW m PROVE Moved(m, NoVreg) = Const /\ Meant(NoVreg) = Const /\ Agree(m, NoVreg)
<1>1. Moved(m, NoVreg) = Const
  BY DEF Moved, Immediates
<1>2. Meant(NoVreg) = Const
  BY DEF Meant, NoVreg, FpImm
<1> QED
  BY <1>1, <1>2 DEF Agree

LEMMA VregAgrees ==
  ASSUME IsFunction(fn), NEW v \in Vregs(fn), NEW m
  PROVE  Moved(m, v) = Get(m, v) /\ Meant(v) = env[v] /\ (Agree(m, v) <=> Get(m, v) = env[v])
<1>1. v # NoVreg /\ v # FpImm
  BY VregsAre
<1>2. Moved(m, v) = Get(m, v)
  BY <1>1 DEF Moved, Immediates
<1>3. Meant(v) = env[v]
  BY <1>1 DEF Meant
<1> QED
  BY <1>2, <1>3 DEF Agree

LEMMA ReadAgrees ==
  ASSUME RInv, Sound(fn), Running, Here.op \notin {"phi", "fp"}, NEW s \in DOMAIN Here.args
  PROVE  /\ Agree(mach, Here.args[s])
         /\ Here.args[s] # NoVreg =>
              /\ Here.args[s] \in Uses(Here) /\ Here.args[s] \in Vregs(fn)
              /\ Here.args[s] \notin Immediates
              /\ \A m : Get(m, Here.args[s]) = Get(mach, Here.args[s]) => Agree(m, Here.args[s])
<1> DEFINE a == Here.args[s]
<1>1. at \in Points(fn) /\ IsFunction(fn) /\ Here = At(fn, at)
  BY DEF Running, RInv, Base, Here
<1>2. CASE a = NoVreg
  BY <1>2, ConstAgrees
<1>3. CASE a # NoVreg
  <2>1. a # FpImm
    BY <1>1 DEF Sound, ImmediatesRead
  <2>2. a \notin Immediates
    BY <1>3, <2>1 DEF Immediates
  <2>3. a \in Uses(Here)
    BY <1>1, <2>2, OperandsAre
  <2>4. a \in Vregs(fn) /\ Get(mach, a) = env[a]
    BY <1>1, <2>3, ReadsAre
  <2> HIDE DEF a
  <2>5. \A m : Agree(m, a) <=> Get(m, a) = env[a]
    BY <1>1, <2>4, VregAgrees
  <2> QED
    BY <2>2, <2>3, <2>4, <2>5 DEF a
<1> QED
  BY <1>2, <1>3

LEMMA NothingMisread ==
  ASSUME RInv, Sound(fn), Running, Here.op \notin {"phi", "fp"}
  PROVE  ~Misreads(mach)
BY ReadAgrees DEF Misreads

LEMMA SoFar ==
  ASSUME RInv, Running
  PROVE  /\ IsFunction(fn) /\ IInv /\ ListOf /\ pc = "done" /\ at \in Points(fn)
         /\ Here = At(fn, at)
         /\ reg_of \in [0..nvregs-1 -> {InMemory} \cup Regs] /\ InMemory \notin Regs
         /\ env \in [Vregs(fn) -> Values] /\ mach \in Machines
         /\ Sound(fn) => ~misread
  BY TypesOf DEF RInv, Base, Running, Here

LEMMA ScratchKeeps ==
  ASSUME RInv, Scratch
  PROVE  RInv'
<1>1. Running /\ Here.op = "op" /\ Define(mach) /\ at' = NextPoint /\ UNCHANGED <<vars, fn>>
      /\ misread' = (misread \/ Misreads(mach))
  BY DEF Scratch
<1>2. misread' \in BOOLEAN
  BY <1>1
<1>3. Sound(fn) => ~misread'
  BY <1>1, SoFar, NothingMisread
<1>4. mach \in Machines
  BY <1>1, SoFar
<1> QED
  BY <1>1, <1>2, <1>3, <1>4, DefineKeeps DEF Terminators

LEMMA AluKeeps ==
  ASSUME RInv, Alu
  PROVE  RInv'
<1> DEFINE a == Here.args[1]
           b == Here.args[2]
           InReg1 == Here.dst # NoVreg /\ reg_of[Here.dst] # InMemory
           loaded == IF InReg1 THEN Put(mach, Here.dst, Moved(mach, a)) ELSE mach
<1>1. /\ Running /\ Here.op = "alu" /\ at' = NextPoint /\ UNCHANGED <<vars, fn>>
      /\ Define(loaded)
      /\ misread' = (misread \/ ~Agree(mach, a) \/ ~Agree(loaded, b))
  BY DEF Alu
<1>2. IsFunction(fn) /\ ListOf /\ at \in Points(fn) /\ Here = At(fn, at)
      /\ reg_of \in [0..nvregs-1 -> {InMemory} \cup Regs] /\ InMemory \notin Regs
      /\ mach \in Machines /\ (Sound(fn) => ~misread)
  BY <1>1, SoFar
<1>3. 1 \in DOMAIN Here.args /\ 2 \in DOMAIN Here.args
  BY <1>1, <1>2, InstructionIs
<1>4. Here.dst # NoVreg => Here.dst \in Vregs(fn)
  BY <1>2, OperandsAre
<1>5. Moved(mach, a) \in Values
  <2>1. CASE a \in Immediates
    BY <2>1 DEF Moved, Values
  <2>2. CASE a \notin Immediates
    <3>1. a \in Vregs(fn)
      BY <1>2, <1>3, <2>2, OperandsAre
    <3> QED
      BY <1>2, <2>2, <3>1, ReadTyped DEF Moved
  <2> QED
    BY <2>1, <2>2
<1>6. loaded \in Machines
  BY <1>2, <1>4, <1>5, WriteIs
<1>7. ASSUME Sound(fn), NEW v \in Vregs(fn), Available(fn, v, at), ~Dead(fn, v, at), v # Here.dst
      PROVE  Get(loaded, v) = Get(mach, v)
  <2>1. CASE InReg1
    <3>1. Here.dst \in Vregs(fn)
      BY <1>4, <2>1
    <3>2. reg_of[Here.dst] # InMemory => reg_of[v] # reg_of[Here.dst]
      BY <1>1, <1>2, <1>7, <2>1, ResultApart
    <3>3. Get(Put(mach, Here.dst, Moved(mach, a)), v) = Get(mach, v)
      BY <1>2, <1>5, <1>7, <3>1, <3>2, WriteIs
    <3> QED
      BY <2>1, <3>3
  <2>2. CASE ~InReg1
    BY <2>2
  <2> QED
    BY <2>1, <2>2
<1>8. ASSUME Sound(fn) PROVE Agree(mach, a) /\ Agree(loaded, b)
  <2>1. Agree(mach, a)
    BY <1>1, <1>3, <1>8, ReadAgrees
  <2>2. CASE b = NoVreg
    BY <2>1, <2>2, ConstAgrees
  <2>3. CASE b # NoVreg
    <3>1. b \in Uses(Here) /\ b \in Vregs(fn)
          /\ \A m : Get(m, b) = Get(mach, b) => Agree(m, b)
      BY <1>1, <1>3, <1>8, <2>3, ReadAgrees
    <3>2. Available(fn, b, at) /\ ~Dead(fn, b, at) /\ b # Here.dst
      BY <1>1, <1>2, <1>8, <3>1, ReadsAre
    <3>3. Get(loaded, b) = Get(mach, b)
      BY <1>7, <1>8, <3>1, <3>2
    <3> HIDE DEF loaded
    <3> QED
      BY <2>1, <3>1, <3>3
  <2> QED
    BY <2>2, <2>3
<1> HIDE DEF loaded, a, b
<1>9. misread' \in BOOLEAN /\ (Sound(fn) => ~misread')
  BY <1>1, <1>2, <1>8
<1>10. ASSUME Sound(fn), NEW v \in LiveAcross(fn, at) PROVE Get(loaded, v) = Get(mach, v)
  <2>1. v \in Vregs(fn) /\ Available(fn, v, at) /\ ~Dead(fn, v, NextPoint)
    BY <1>10 DEF LiveAcross, NextPoint
  <2>2. ~Dead(fn, v, at)
    BY <1>1, <1>2, <2>1, Onward DEF NextPoint, Terminators
  <2>3. v # Here.dst
    <3>1. \A q \in Points(fn) : At(fn, q).dst = v /\ v # NoVreg /\ At(fn, at).dst = v => q = at
      BY <1>2, <1>10 DEF Sound, InStrictSSA
    <3>2. v # NoVreg
      BY <1>2, <2>1, VregsAre
    <3>3. v \in Params(fn) => v # Here.dst
      BY <1>2, <1>10 DEF Sound, InStrictSSA
    <3>4. at[2] \in Nat
      BY <1>2, Shape DEF Instrs
    <3> QED
      BY <1>2, <2>1, <3>1, <3>2, <3>3, <3>4 DEF Available
  <2> QED
    BY <1>7, <1>10, <2>1, <2>2, <2>3
<1> QED
  BY <1>1, <1>6, <1>9, <1>10, DefineKeeps DEF Terminators

LEMMA FpKeeps ==
  ASSUME RInv, Fp
  PROVE  RInv'
<1>1. /\ Running /\ Here.op = "fp" /\ at' = NextPoint /\ UNCHANGED <<vars, fn>>
      /\ misread' = (misread \/ \E v \in Uses(Here) : mach.slots[v] # env[v])
      /\ \E b \in {0, 1} : /\ env' = [env EXCEPT ![Here.dst] = <<Here.dst, b>>]
                           /\ mach' = [mach EXCEPT !.slots[Here.dst] = <<Here.dst, b>>]
  BY DEF Fp
<1>2. /\ IsFunction(fn) /\ IInv /\ ListOf /\ pc = "done" /\ at \in Points(fn)
      /\ Here = At(fn, at) /\ mach \in Machines /\ (Sound(fn) => ~misread)
  BY <1>1, SoFar
<1>3. Here.dst # NoVreg
  BY <1>1, <1>2, InstructionIs
<1>4. \A v \in Touches(Here) : reg_of[v] = InMemory
  <2> SUFFICES ASSUME NEW v \in Touches(Here) PROVE reg_of[v] = InMemory
    OBVIOUS
  <2>1. v \in Vregs(fn)
    BY <1>2, VregsAre
  <2>2. ForceSpill(fn, v)
    BY <1>1, <1>2 DEF ForceSpill
  <2> QED
    BY <1>2, <2>1, <2>2, AllocationIs
<1>5. Define(mach)
  <2>1. reg_of[Here.dst] = InMemory
    BY <1>3, <1>4 DEF Touches
  <2> QED
    BY <1>1, <1>3, <2>1 DEF Define, Put
<1>6. ASSUME Sound(fn), NEW v \in Uses(Here) PROVE mach.slots[v] = env[v]
  <2>1. reg_of[v] = InMemory
    BY <1>4 DEF Touches
  <2>2. Get(mach, v) = env[v]
    BY <1>1, <1>2, <1>6, ReadsAre
  <2> QED
    BY <2>1, <2>2 DEF Get
<1>7. misread' \in BOOLEAN /\ (Sound(fn) => ~misread')
  BY <1>1, <1>2, <1>6
<1> QED
  BY <1>1, <1>2, <1>5, <1>7, DefineKeeps DEF Terminators

LEMMA CallKeeps ==
  ASSUME RInv, Call
  PROVE  RInv'
<1> DEFINE m == Clobbered(mach)
<1>1. /\ Running /\ Here.op = "call" /\ at' = NextPoint /\ UNCHANGED <<vars, fn>>
      /\ Define(m)
      /\ misread' = (misread \/ \E s \in DOMAIN Here.args :
                       ~Agree(IF s = 1 THEN mach ELSE m, Here.args[s]))
  BY DEF Call
<1>2. /\ IsFunction(fn) /\ IInv /\ ListOf /\ pc = "done" /\ at \in Points(fn)
      /\ Here = At(fn, at) /\ mach \in Machines /\ (Sound(fn) => ~misread)
      /\ reg_of \in [0..nvregs-1 -> {InMemory} \cup Regs]
  BY <1>1, SoFar
<1>3. m \in Machines
  BY <1>2, LossIs DEF Clobbered
<1>4. ASSUME NEW v \in Vregs(fn), CrossesCall(fn, v) PROVE Get(m, v) = Get(mach, v)
  <2>1. reg_of[v] = InMemory \/ reg_of[v] >= NCaller
    BY <1>2, <1>4, AllocationIs
  <2>2. reg_of[v] = InMemory \/ reg_of[v] \notin 0..NCaller-1
    <3>1. reg_of[v] \in {InMemory} \cup Regs
      BY <1>2 DEF ListOf
    <3> QED
      BY <2>1, <3>1, RegsAreNat, PoolAssumption
  <2> QED
    BY <1>2, <2>2, LossIs DEF Clobbered
<1> HIDE DEF m
<1>5. ASSUME Sound(fn), NEW s \in DOMAIN Here.args
      PROVE  Agree(IF s = 1 THEN mach ELSE m, Here.args[s])
  <2> DEFINE v == Here.args[s]
  <2>1. Agree(mach, v)
    BY <1>1, <1>5, ReadAgrees
  <2>2. CASE v = NoVreg
    BY <2>1, <2>2, ConstAgrees
  <2>3. CASE v # NoVreg
    <3>1. v \in Uses(Here) /\ v \in Vregs(fn)
          /\ \A e : Get(e, v) = Get(mach, v) => Agree(e, v)
      BY <1>1, <1>5, <2>3, ReadAgrees
    <3>2. Start(fn, v) <= Pos(fn, at) /\ Pos(fn, at) <= FirstEnd(fn, v)
      BY <1>1, <1>2, <3>1, OperandsAre
    <3>3. CrossesCall(fn, v)
      BY <1>1, <1>2, <3>2 DEF CrossesCall
    <3>4. Agree(m, v)
      BY <1>4, <3>1, <3>3
    <3> QED
      BY <2>1, <3>4
  <2> QED
    BY <2>2, <2>3
<1>6. misread' \in BOOLEAN /\ (Sound(fn) => ~misread')
  BY <1>1, <1>2, <1>5
<1>7. ASSUME Sound(fn), NEW v \in LiveAcross(fn, at) PROVE Get(m, v) = Get(mach, v)
  BY <1>1, <1>2, <1>4, <1>7 DEF Sound, CallsMarked, LiveAcross
<1> QED
  BY <1>1, <1>3, <1>6, <1>7, DefineKeeps DEF Terminators

LEMMA VaArgKeeps ==
  ASSUME RInv, VaArg
  PROVE  RInv'
<1> DEFINE m == Lose(mach, {NCaller})
<1>1. /\ Running /\ Here.op = "va_arg" /\ at' = NextPoint /\ UNCHANGED <<vars, fn>>
      /\ Define(m)
      /\ misread' = (\/ misread \/ Misreads(mach)
                     \/ \E s \in DOMAIN Here.args : Here.args[s] \in Immediates)
  BY DEF VaArg
<1>2. /\ IsFunction(fn) /\ IInv /\ ListOf /\ pc = "done" /\ at \in Points(fn)
      /\ Here = At(fn, at) /\ mach \in Machines /\ (Sound(fn) => ~misread)
      /\ reg_of \in [0..nvregs-1 -> {InMemory} \cup Regs]
  BY <1>1, SoFar
<1>3. m \in Machines
  BY <1>2, LossIs
<1>a. misread' \in BOOLEAN
  BY <1>1, <1>2
<1>b. ASSUME Sound(fn) PROVE ~misread'
  <2>1. ~misread /\ ~Misreads(mach)
    BY <1>1, <1>2, <1>b, NothingMisread
  <2>2. \A s \in DOMAIN Here.args : Here.args[s] \notin Immediates
    BY <1>1, <1>2, <1>b DEF Sound, ImmediatesRead
  <2> QED
    BY <1>1, <2>1, <2>2
<1>4. misread' \in BOOLEAN /\ (Sound(fn) => ~misread')
  BY <1>a, <1>b
<1>5. ASSUME Sound(fn), NEW v \in LiveAcross(fn, at) PROVE Get(m, v) = Get(mach, v)
  <2>1. v \in Vregs(fn) /\ ForceSpill(fn, v)
    BY <1>1, <1>2, <1>5 DEF Sound, PoolUndisturbed, LiveAcross
  <2>2. reg_of[v] = InMemory
    BY <1>2, <2>1, AllocationIs
  <2> QED
    BY <1>2, <2>1, <2>2, LossIs
<1> HIDE DEF m
<1> QED
  BY <1>1, <1>3, <1>4, <1>5, DefineKeeps DEF Terminators

LEMMA MemcpyKeeps ==
  ASSUME RInv, Memcpy
  PROVE  RInv'
<1> DEFINE a == Here.args[1]
           b == Here.args[2]
           m == Lose(mach, StringRegs)
           loaded == IF Rdi \in StringRegs THEN [mach EXCEPT !.regs[Rdi] = Moved(mach, a)]
                                           ELSE mach
<1>1. /\ Running /\ Here.op = "memcpy" /\ at' = NextPoint /\ UNCHANGED <<vars, fn>>
      /\ env' = env /\ mach' = m
      /\ misread' = (misread \/ ~Agree(mach, a) \/ ~Agree(loaded, b))
  BY DEF Memcpy
<1>2. /\ IsFunction(fn) /\ IInv /\ ListOf /\ pc = "done" /\ at \in Points(fn)
      /\ Here = At(fn, at) /\ mach \in Machines /\ (Sound(fn) => ~misread)
      /\ reg_of \in [0..nvregs-1 -> {InMemory} \cup Regs] /\ InMemory \notin Regs
  BY <1>1, SoFar
<1>3. Here.dst = NoVreg /\ 1 \in DOMAIN Here.args /\ 2 \in DOMAIN Here.args
  BY <1>1, <1>2, InstructionIs
<1>4. m \in Machines
  BY <1>2, LossIs
<1>5. Define(m)
  BY <1>1, <1>3 DEF Define
<1>6. ASSUME NEW v \in Vregs(fn), CrossesCall(fn, v) \/ ForceSpill(fn, v)
      PROVE  reg_of[v] = InMemory \/ reg_of[v] \notin StringRegs
  <2>1. reg_of[v] = InMemory \/ reg_of[v] >= NCaller
    BY <1>2, <1>6, AllocationIs
  <2>2. reg_of[v] \in {InMemory} \cup Regs
    BY <1>2 DEF ListOf
  <2> QED
    BY <2>1, <2>2, RegsAreNat, PoolAssumption DEF StringRegs
<1>7. ASSUME Sound(fn) PROVE Agree(mach, a) /\ Agree(loaded, b)
  <2>1. Agree(mach, a) /\ Agree(mach, b)
    BY <1>1, <1>3, <1>7, ReadAgrees
  <2>2. CASE b = NoVreg
    BY <2>1, <2>2, ConstAgrees
  <2>3. CASE b # NoVreg
    <3>1. b \in Vregs(fn) /\ b \notin Immediates /\ \A e : Get(e, b) = Get(mach, b) => Agree(e, b)
      BY <1>1, <1>3, <1>7, <2>3, ReadAgrees
    <3>2. Rdi \in StringRegs => CrossesCall(fn, b) \/ ForceSpill(fn, b)
      BY <1>1, <1>2, <1>7, <3>1 DEF Sound, PoolUndisturbed
    <3>3. Rdi \in StringRegs => reg_of[b] = InMemory \/ reg_of[b] \notin StringRegs
      BY <1>6, <3>1, <3>2
    <3>4. Get(loaded, b) = Get(mach, b)
      <4>1. CASE Rdi \in StringRegs
        <5>1. loaded = [mach EXCEPT !.regs[Rdi] = Moved(mach, a)]
          BY <4>1
        <5>2. loaded.slots = mach.slots /\ (reg_of[b] # Rdi => loaded.regs[reg_of[b]] = mach.regs[reg_of[b]])
          BY <1>2, <5>1 DEF Machines
        <5>3. reg_of[b] = InMemory \/ reg_of[b] # Rdi
          BY <3>3, <4>1
        <5> HIDE DEF loaded
        <5> QED
          BY <5>2, <5>3 DEF Get
      <4>2. CASE Rdi \notin StringRegs
        BY <4>2
      <4> QED
        BY <4>1, <4>2
    <3> HIDE DEF loaded
    <3> QED
      BY <2>1, <3>1, <3>4
  <2> QED
    BY <2>2, <2>3
<1>8. ASSUME Sound(fn), NEW v \in LiveAcross(fn, at) PROVE Get(m, v) = Get(mach, v)
  <2>1. v \in Vregs(fn) /\ (CrossesCall(fn, v) \/ ForceSpill(fn, v))
    BY <1>1, <1>2, <1>8 DEF Sound, PoolUndisturbed, LiveAcross
  <2>2. reg_of[v] = InMemory \/ reg_of[v] \notin StringRegs
    BY <1>6, <2>1
  <2> QED
    BY <1>2, <2>1, <2>2, LossIs
<1> HIDE DEF loaded, m, a, b
<1>9. misread' \in BOOLEAN /\ (Sound(fn) => ~misread')
  BY <1>1, <1>2, <1>7
<1> QED
  BY <1>1, <1>4, <1>5, <1>8, <1>9, DefineKeeps DEF Terminators

LEMMA RetKeeps ==
  ASSUME RInv, Ret
  PROVE  RInv'
<1>1. /\ Running /\ Here.op = "ret" /\ at' = Returned /\ UNCHANGED <<vars, fn, env, mach>>
      /\ misread' = (misread \/ Misreads(mach))
  BY DEF Ret
<1>2. /\ IsFunction(fn) /\ pc = "done" /\ at \in Points(fn) /\ (Sound(fn) => ~misread)
  BY <1>1, SoFar
<1>3. misread' \in BOOLEAN /\ (Sound(fn) => ~misread')
  BY <1>1, <1>2, NothingMisread
<1>4. Returned # NotStarted /\ Returned \notin Points(fn)
  BY <1>2, NotStartedIs
<1>5. IsFunction(fn)' /\ IInv' /\ ListOf' /\ WellFormed([ivs |-> iv, nvregs |-> nvregs])'
  BY <1>1, StillAllocated DEF RInv
<1>6. ExecTypeOK'
  BY <1>1, <1>3, <1>5 DEF RInv, Base, ExecTypeOK, Values
<1> QED
  BY <1>1, <1>2, <1>3, <1>4, <1>5, <1>6 DEF RInv, Base, vars

LEMMA AllocateKeeps ==
  ASSUME RInv, Allocate
  PROVE  RInv'
<1>1. Next /\ UNCHANGED <<fn, at, env, mach, misread>>
  BY DEF Allocate, exec
<1>2. pc # "done"
  BY <1>1 DEF Next, Bypass, Sort, SpillForced, TakeFree, EvictFurthest, SpillSelf, BuildAnswer,
     Scanning
<1>3. at = NotStarted /\ IsFunction(fn) /\ NotStarted \notin Points(fn)
  BY <1>2, NotStartedIs DEF RInv, Base
<1>4. IInv'
  BY <1>1, Inductive DEF RInv, Base
<1>5. ListOf'
  BY <1>1, ListKept DEF RInv, Base
<1>6. (IsFunction(fn) /\ IInv /\ ListOf => WellFormed([ivs |-> iv, nvregs |-> nvregs]))'
  BY ListWellFormed, PTL
<1>7. ExecTypeOK'
  BY <1>1, <1>3, <1>4, <1>5, <1>6 DEF RInv, Base, ExecTypeOK, Values
<1> QED
  BY <1>1, <1>3, <1>4, <1>5, <1>7 DEF RInv, Base

-----------------------------------------------------------------------------
(* The phis open their block.                                              *)
LEMMA PhisAre ==
  ASSUME IsFunction(fn), NEW c \in Blocks(fn)
  PROVE  /\ NPhis(c) \in Nat /\ NPhis(c) + 1 \in Instrs(fn, c)
         /\ \A i \in Instrs(fn, c) : fn.blocks[c][i].op = "phi" <=> i <= NPhis(c)
         /\ PhisOf(c) \in Seq(Instruction) /\ Len(PhisOf(c)) = NPhis(c)
         /\ DOMAIN PhisOf(c) = 1..NPhis(c)
         /\ \A i \in 1..NPhis(c) : PhisOf(c)[i] = fn.blocks[c][i] /\ i \in Instrs(fn, c)
         /\ Entry(c) = <<c, NPhis(c) + 1>> /\ Entry(c) \in Points(fn)
<1> DEFINE s == fn.blocks[c]
           L == Len(s)
           S == {u \in 0..L : \A i \in 1..u : s[i].op = "phi"}
           Phis(u) == \A i \in Instrs(fn, c) : s[i].op = "phi" <=> i <= u
<1>1. s \in Seq(Instruction) /\ L \in Nat /\ L >= 1 /\ Instrs(fn, c) = 1..L
  BY Shape DEF Instrs
<1>2. \A i \in Instrs(fn, c) : s[i].op = "phi" => \A j \in 1..i-1 : s[j].op = "phi"
  <2> SUFFICES ASSUME NEW i \in Instrs(fn, c), s[i].op = "phi"
               PROVE  \A j \in 1..i-1 : s[j].op = "phi"
    OBVIOUS
  <2> DEFINE p == <<c, i>>
  <2>1. p \in Points(fn) /\ At(fn, p) = s[i] /\ p[1] = c /\ p[2] = i
    BY Shape
  <2> HIDE DEF p
  <2> QED
    BY <2>1, InstructionIs
<1>3. s[L].op # "phi"
  <2> DEFINE p == <<c, L>>
  <2>1. p \in Points(fn) /\ At(fn, p) = s[L] /\ p[1] = c /\ p[2] = L
    BY <1>1, Shape
  <2> HIDE DEF p
  <2>2. At(fn, p).op \in Terminators
    BY <2>1, InstructionIs
  <2> QED
    BY <2>1, <2>2 DEF Terminators
<1> HIDE DEF s
<1>4. \E u \in 0..L : Phis(u)
  <2>1. S \in SUBSET Nat /\ 0 \in S /\ \A u \in S : u <= L
    BY <1>1
  <2>2. PICK m \in S : \A u \in S : u <= m
    <3> HIDE DEF S
    <3> QED
      BY <1>1, <2>1, Greatest
  <2>3. Phis(m)
    BY <1>1, <1>2, <2>2
  <2> QED
    BY <2>3
<1> DEFINE c1 == NPhis(c)
<1>5. c1 \in 0..L /\ Phis(c1)
  BY <1>4 DEF NPhis, s
<1> HIDE DEF c1, L
<1>6. c1 \in Nat /\ c1 + 1 \in 1..L /\ \A i \in 1..c1 : i \in 1..L
  BY <1>1, <1>3, <1>5
<1>7. /\ PhisOf(c) \in Seq(Instruction) /\ Len(PhisOf(c)) = c1
      /\ DOMAIN PhisOf(c) = 1..c1
      /\ \A i \in 1..c1 : PhisOf(c)[i] = s[i]
  <2>1. PhisOf(c) = SubSeq(s, 1, c1)
    BY DEF PhisOf, s, c1
  <2>2. PhisOf(c) = [i \in 1..c1 |-> s[i]]
    BY <1>1, <1>6, <2>1 DEF L
  <2>3. \A i \in 1..c1 : s[i] \in Instruction
    BY <1>1, <1>6 DEF L
  <2> QED
    BY <1>6, <2>2, <2>3
<1>8. Entry(c) = <<c, c1 + 1>>
  BY <1>7 DEF Entry
<1>9. <<c, c1 + 1>> \in Points(fn)
  BY <1>1, <1>6, Shape
<1> QED
  BY <1>1, <1>5, <1>6, <1>7, <1>8, <1>9 DEF c1, s, L

LEMMA PrologueKeeps ==
  ASSUME RInv, Prologue
  PROVE  RInv'
<1> DEFINE Given(r) == {p \in Params(fn) : reg_of[p] = r}
           q == Entry(1)
<1>1. /\ pc = "done" /\ at = NotStarted /\ at' = q /\ UNCHANGED <<vars, fn, env, misread>>
      /\ mach' = [mach EXCEPT !.regs =
                   [r \in Regs |-> IF Given(r) = {} THEN Junk ELSE env[Max(Given(r))]]]
  BY DEF Prologue
<1>2. /\ IsFunction(fn) /\ IInv /\ ListOf /\ mach.slots = env /\ ~misread
      /\ reg_of \in [0..nvregs-1 -> {InMemory} \cup Regs] /\ InMemory \notin Regs
      /\ env \in [Vregs(fn) -> Values] /\ mach \in Machines
  BY <1>1, TypesOf DEF RInv, Base
<1>3. 1 \in Blocks(fn) /\ 1 \in Instrs(fn, 1) /\ NPhis(1) = 0
      /\ q = <<1, 1>> /\ q \in Points(fn)
  <2>1. 1 \in Blocks(fn) /\ Len(fn.blocks[1]) \in Nat /\ Len(fn.blocks[1]) >= 1
    BY <1>2, Shape
  <2>2. 1 \in Instrs(fn, 1)
    BY <2>1 DEF Instrs
  <2>3. fn.blocks[1][1].op # "phi"
    <3> DEFINE p == <<1, 1>>
    <3>1. p \in Points(fn) /\ At(fn, p) = fn.blocks[1][1] /\ p[1] = 1
      BY <1>2, <2>1, <2>2, Shape
    <3> HIDE DEF p
    <3> QED
      BY <1>2, <3>1, InstructionIs
  <2>4. NPhis(1) \in Nat /\ ~(1 <= NPhis(1)) /\ q = <<1, NPhis(1) + 1>> /\ q \in Points(fn)
    BY <1>2, <2>1, <2>2, <2>3, PhisAre
  <2> HIDE DEF q
  <2>5. NPhis(1) = 0
    BY <2>4
  <2> QED
    BY <2>1, <2>2, <2>4, <2>5
<1>4. Params(fn) \subseteq Vregs(fn) /\ Vregs(fn) \subseteq Nat
  BY <1>2, VregsAre
<1>5. \A p \in Params(fn) : Start(fn, p) = 0 /\ FinalEnd(fn, p) \in Nat
  BY <1>2, <1>4, EndsOf, FinalEndIs
<1>6. ASSUME NEW v \in Params(fn), reg_of[v] # InMemory
      PROVE  Given(reg_of[v]) = {v} /\ Max(Given(reg_of[v])) = v
  <2>1. \A p \in Params(fn) : p # v => reg_of[p] # reg_of[v]
    <3> SUFFICES ASSUME NEW p \in Params(fn), p # v PROVE reg_of[p] # reg_of[v]
      OBVIOUS
    <3>1. Meet(v, p)
      BY <1>5 DEF Meet
    <3> QED
      BY <1>1, <1>2, <1>4, <1>6, <3>1, AllocationIs
  <2>2. Given(reg_of[v]) = {v}
    BY <2>1
  <2>3. Max({v}) = v
    <3>1. v \in Nat /\ {v} \in SUBSET Nat /\ {v} # {} /\ \A x \in {v} : x <= v
      BY <1>4
    <3>2. Max({v}) \in {v}
      BY <3>1, GreatestIs
    <3> QED
      BY <3>2
  <2> QED
    BY <2>2, <2>3
<1> DEFINE regs1 == [r \in Regs |-> IF Given(r) = {} THEN Junk ELSE env[Max(Given(r))]]
<1>7. \A v \in Params(fn) : reg_of[v] # InMemory => regs1[reg_of[v]] = env[v]
  <2> SUFFICES ASSUME NEW v \in Params(fn), reg_of[v] # InMemory
               PROVE  regs1[reg_of[v]] = env[v]
    OBVIOUS
  <2>1. reg_of[v] \in Regs
    BY <1>2, <1>4 DEF ListOf
  <2>2. Given(reg_of[v]) # {} /\ Max(Given(reg_of[v])) = v
    BY <1>6
  <2> HIDE DEF Given
  <2> QED
    BY <2>1, <2>2
<1>8. regs1 \in [Regs -> Values]
  <2> SUFFICES ASSUME NEW r \in Regs, Given(r) # {} PROVE env[Max(Given(r))] \in Values
    BY DEF Values
  <2>1. PICK v \in Params(fn) : reg_of[v] = r
    OBVIOUS
  <2>2. Max(Given(r)) = v
    BY <1>2, <1>6, <2>1
  <2> QED
    BY <1>2, <1>4, <2>2
<1>9. mach' = [regs |-> regs1, slots |-> mach.slots]
  BY <1>1, <1>2 DEF Machines
<1> HIDE DEF regs1, q, Given
<1>10. mach' \in Machines
  BY <1>2, <1>8, <1>9 DEF Machines
<1>11. IsFunction(fn)' /\ IInv' /\ ListOf' /\ WellFormed([ivs |-> iv, nvregs |-> nvregs])'
  BY <1>1, StillAllocated DEF RInv
<1>12. fn' = fn /\ pc' = pc /\ reg_of' = reg_of /\ env' = env /\ misread' = misread
  BY <1>1 DEF vars
<1>13. ExecTypeOK'
  <2>1. mach' \in [regs : [Regs -> Values'], slots : [Vregs(fn') -> Values']]
    BY <1>10, <1>12 DEF Machines, Values
  <2>2. env' \in [Vregs(fn') -> Values'] /\ misread' \in BOOLEAN
    BY <1>2, <1>12, TypesOf DEF RInv, Values
  <2> QED
    BY <1>1, <1>3, <1>11, <1>12, <2>1, <2>2 DEF ExecTypeOK
<1>14. q # NotStarted
  BY <1>2, <1>3, NotStartedIs
<1>15. ASSUME NEW v \in Vregs(fn), Available(fn, v, q) PROVE v \in Params(fn)
  <2> SUFFICES ASSUME v \notin Params(fn) PROVE FALSE
    OBVIOUS
  <2>1. PICK r \in Points(fn) : IF r[1] = 1 THEN r[2] < 1 ELSE Dominates(fn, r[1], 1)
    BY <1>3, <1>15 DEF Available
  <2>2. ~(r[2] < 1)
    BY <1>2, Shape DEF Instrs
  <2>3. r[1] # 1 => ~Dominates(fn, r[1], 1)
    BY DEF Dominates
  <2> QED
    BY <2>1, <2>2, <2>3
<1>16. Met(at)'
  <2>1. Met(q)
    BY <1>2, <1>5, <1>15, FinalEndIs DEF Met
  <2> QED
    BY <1>1, <1>12, <2>1 DEF Met
<1>17. InStep(at, env, mach)'
  <2>1. \A v \in Params(fn) : Get(mach, v)' = env[v]
    BY <1>2, <1>7, <1>9, <1>12 DEF Get
  <2> QED
    BY <1>1, <1>12, <1>15, <2>1 DEF InStep
<1>18. Base'
  BY <1>1, <1>11, <1>12, <1>13, <1>14 DEF Base
<1> QED
  BY <1>2, <1>12, <1>16, <1>17, <1>18 DEF RInv

-----------------------------------------------------------------------------
(* What a phi gets on an edge.                                             *)
LEMMA EdgeIs ==
  ASSUME IsFunction(fn), NEW b \in Blocks(fn), NEW c \in Succs(fn, b), NEW i \in 1..NPhis(c)
  PROVE  LET phi == PhisOf(c)[i]
             a   == Incoming(phi, b)
         IN  /\ c \in Blocks(fn) /\ <<c, i>> \in Points(fn) /\ At(fn, <<c, i>>) = phi
             /\ phi.dst \in Vregs(fn)
             /\ a \notin Immediates => a \in Vregs(fn) /\ \A u : ReadFrom(fn, a, b, u)
             /\ a \notin Immediates /\ InStrictSSA(fn) =>
                  Available(fn, a, <<b, Len(fn.blocks[b])>>)
             /\ ImmediatesRead(fn) => a # FpImm
             /\ \E s \in 1..2 : a = phi.args[s]
             /\ Start(fn, phi.dst) <= BlockStart(fn, c)
             /\ BlockStart(fn, c) <= FinalEnd(fn, phi.dst)
<1> DEFINE phi == PhisOf(c)[i]
           a == Incoming(phi, b)
           p == <<c, i>>
<1>1. c \in Blocks(fn)
  BY SuccsAre
<1>2. i \in Instrs(fn, c) /\ phi = fn.blocks[c][i] /\ phi.op = "phi"
  BY <1>1, PhisAre
<1>3. p \in Points(fn) /\ At(fn, p) = phi /\ p[1] = c
  BY <1>1, <1>2, Shape
<1> HIDE DEF phi, p
<1>4. phi.dst # NoVreg /\ DOMAIN phi.args = 1..2 /\ \E s \in 1..2 : phi.labels[s] = b
  BY <1>2, <1>3, InstructionIs
<1>5. PICK s \in 1..2 : phi.labels[s] = b /\ a = phi.args[s]
  BY <1>4 DEF Incoming
<1> HIDE DEF a
<1>6. phi.dst \in Vregs(fn)
  BY <1>3, <1>4, VregsAre DEF Touches
<1>7. a \notin Immediates => a \in Vregs(fn)
  BY <1>3, <1>4, <1>5, VregsAre DEF Touches, Uses
<1>8. \A u : ReadFrom(fn, a, b, u)
  BY <1>2, <1>3, <1>5 DEF ReadFrom
<1>9. a \notin Immediates /\ InStrictSSA(fn) => Available(fn, a, <<b, Len(fn.blocks[b])>>)
  BY <1>2, <1>3, <1>5 DEF InStrictSSA
<1>10. Start(fn, phi.dst) <= BlockStart(fn, c) /\ BlockStart(fn, c) <= FinalEnd(fn, phi.dst)
  <2>1. BlockStart(fn, c) \in Touched(fn, phi.dst)
    BY <1>2, <1>3, TouchedAt
  <2>2. /\ Start(fn, phi.dst) <= BlockStart(fn, c) /\ BlockStart(fn, c) \in Nat
        /\ BlockStart(fn, c) <= FirstEnd(fn, phi.dst)
    BY <1>6, <2>1, EndsOf
  <2>3. /\ FirstEnd(fn, phi.dst) \in Nat /\ FinalEnd(fn, phi.dst) \in Nat
        /\ FirstEnd(fn, phi.dst) <= FinalEnd(fn, phi.dst)
    BY <1>6, EndsOf, FinalEndIs
  <2> QED
    BY <2>2, <2>3
<1>11. ImmediatesRead(fn) => a # FpImm
  BY <1>2, <1>3, <1>4, <1>5 DEF ImmediatesRead
<1> QED
  BY <1>1, <1>3, <1>5, <1>6, <1>7, <1>8, <1>9, <1>10, <1>11 DEF phi, a, p

(* The copies of an edge, one after the other.                             *)
LEMMA CopiesAre ==
  ASSUME IsFunction(fn), ListOf, reg_of \in [0..nvregs-1 -> {InMemory} \cup Regs],
         InMemory \notin Regs, mach \in Machines, NEW b \in Blocks(fn), NEW c \in Succs(fn, b)
  PROVE  LET h == Copied(b, c)
             arg(i) == Incoming(PhisOf(c)[i], b)
         IN  /\ h[0] = [m |-> mach, bad |-> FALSE] /\ EdgeCopies(b, c) = h[NPhis(c)]
             /\ \A i \in 0..NPhis(c) : h[i].m \in Machines /\ h[i].bad \in BOOLEAN
             /\ \A i \in 1..NPhis(c) : arg(i) # FpImm =>
                  /\ h[i].m = Put(h[i-1].m, PhisOf(c)[i].dst, Moved(h[i-1].m, arg(i)))
                  /\ h[i].bad = (h[i-1].bad \/ ~Agree(h[i-1].m, arg(i)))
<1> DEFINE K == NPhis(c)
           dst(i) == PhisOf(c)[i].dst
           arg(i) == Incoming(PhisOf(c)[i], b)
           W == [m : Machines, bad : BOOLEAN]
           x == [m |-> mach, bad |-> FALSE]
           next(i, e) == IF arg(i) = FpImm THEN e
                         ELSE [m   |-> Put(e.m, dst(i), Moved(e.m, arg(i))),
                               bad |-> e.bad \/ ~Agree(e.m, arg(i))]
           step == [i \in 1..K |-> [e \in W |-> next(i, e)]]
           Rec(g) == g = [i \in 0..K |-> IF i = 0 THEN x ELSE next(i, g[i-1])]
<1>1. K \in Nat /\ Len(PhisOf(c)) = K
  BY SuccsAre, PhisAre
<1>2. ASSUME NEW i \in 1..K, NEW e \in W PROVE next(i, e) \in W
  <2>1. dst(i) \in Vregs(fn) /\ (arg(i) \in Immediates \/ arg(i) \in Vregs(fn))
    BY <1>2, EdgeIs
  <2> HIDE DEF dst, arg
  <2>2. e.m \in Machines /\ e.bad \in BOOLEAN
    BY <1>2
  <2>3. Moved(e.m, arg(i)) \in Values
    <3>1. CASE arg(i) \in Immediates
      BY <3>1 DEF Moved, Values
    <3>2. CASE arg(i) \notin Immediates
      BY <2>1, <2>2, <3>2, ReadTyped DEF Moved
    <3> QED
      BY <3>1, <3>2
  <2>4. Put(e.m, dst(i), Moved(e.m, arg(i))) \in Machines
    BY <2>1, <2>2, <2>3, WriteIs
  <2>5. (e.bad \/ ~Agree(e.m, arg(i))) \in BOOLEAN
    OBVIOUS
  <2> QED
    BY <2>4, <2>5
<1>3. x \in W
  OBVIOUS
<1>4. step \in [1..K -> [W -> W]] /\ \A i \in 1..K : \A e \in W : step[i][e] = next(i, e)
  BY <1>2
<1> HIDE DEF K, x, next, W, step
<1>5. PICK g \in [0..K -> W] : g[0] = x /\ \A i \in 1..K : g[i] = step[i][g[i-1]]
  <2>1. K \in Nat
    BY <1>1
  <2>2. step \in [1..K -> [W -> W]]
    BY <1>4
  <2> QED
    BY <1>3, <2>1, <2>2, Iterates, Z3
<1>6. \A i \in 1..K : g[i] = next(i, g[i-1])
  <2>1. \A i \in 1..K : i-1 \in 0..K
    BY <1>1
  <2> QED
    BY <1>4, <1>5, <2>1
<1>7. Rec(g)
  BY <1>1, <1>5, <1>6
<1> DEFINE h == Copied(b, c)
<1>8. Rec(h)
  <2>1. h = CHOOSE e : Rec(e)
    BY <1>1 DEF Copied, next, x, dst, arg
  <2> HIDE DEF Rec, h
  <2> QED
    BY <1>7, <2>1
<1> HIDE DEF h
<1>9. h[0] = x /\ \A i \in 1..K : h[i] = next(i, h[i-1])
  <2> DEFINE e == h
  <2>1. e = [i \in 0..K |-> IF i = 0 THEN x ELSE next(i, h[i-1])]
    BY <1>8
  <2> HIDE DEF e
  <2>2. e[0] = x /\ \A i \in 1..K : e[i] = next(i, h[i-1])
    BY <1>1, <2>1
  <2> QED
    BY <2>2 DEF e
<1> HIDE DEF Rec
<1> DEFINE Good == {i \in 0..K : h[i] \in W}
<1>10. 0..K \subseteq Good
  <2>1. 0 \in Good
    BY <1>1, <1>3, <1>9
  <2>2. ASSUME NEW i \in 0..K-1, i \in Good PROVE i+1 \in Good
    <3>1. i+1 \in 1..K /\ h[i+1] = next(i+1, h[i])
      BY <1>1, <1>9
    <3> QED
      BY <1>1, <1>2, <2>2, <3>1
  <2> HIDE DEF Good
  <2> QED
    BY <1>1, <2>1, <2>2, Induction
<1>11. \A i \in 0..K : h[i].m \in Machines /\ h[i].bad \in BOOLEAN
  BY <1>10 DEF W
<1>12. EdgeCopies(b, c) = h[K]
  BY <1>1 DEF EdgeCopies, h
<1>13. \A i \in 1..K : arg(i) # FpImm =>
         /\ h[i].m = Put(h[i-1].m, dst(i), Moved(h[i-1].m, arg(i)))
         /\ h[i].bad = (h[i-1].bad \/ ~Agree(h[i-1].m, arg(i)))
  <2> SUFFICES ASSUME NEW i \in 1..K, arg(i) # FpImm
               PROVE  /\ h[i].m = Put(h[i-1].m, dst(i), Moved(h[i-1].m, arg(i)))
                      /\ h[i].bad = (h[i-1].bad \/ ~Agree(h[i-1].m, arg(i)))
    OBVIOUS
  <2> HIDE DEF dst, arg
  <2> DEFINE y == Put(h[i-1].m, dst(i), Moved(h[i-1].m, arg(i)))
             z == h[i-1].bad \/ ~Agree(h[i-1].m, arg(i))
  <2>1. h[i] = [m |-> y, bad |-> z]
    BY <1>9 DEF next
  <2> HIDE DEF y, z
  <2>2. h[i].m = y /\ h[i].bad = z
    BY <2>1
  <2> QED
    BY <2>2 DEF y, z
<1> QED
  BY <1>9, <1>11, <1>12, <1>13 DEF h, K, x, dst, arg

(* In a sound function every copy reads what the IR reads, and leaves what *)
(* meets none of the phis alone.                                           *)
LEMMA CopiesKeep ==
  ASSUME RInv, Sound(fn), Running, Here.op \in {"br", "cbr"}, NEW c \in Succs(fn, at[1])
  PROVE  LET m == EdgeCopies(at[1], c).m
             dst(i) == PhisOf(c)[i].dst
             arg(i) == Incoming(PhisOf(c)[i], at[1])
         IN  /\ ~EdgeCopies(at[1], c).bad
             /\ \A i \in 1..NPhis(c) :
                  Get(m, dst(i)) = Meant(arg(i))
             /\ \A v \in Vregs(fn) : (\A i \in 1..NPhis(c) : v # dst(i) /\ Meet(dst(i), v)) =>
                  Get(m, v) = Get(mach, v)
<1> DEFINE b == at[1]
           h == Copied(b, c)
           K == NPhis(c)
           dst(i) == PhisOf(c)[i].dst
           arg(i) == Incoming(PhisOf(c)[i], b)
           val(i) == Meant(arg(i))
           Kept(i) == \A v \in Vregs(fn) :
                        (\A j \in 1..i : v # dst(j) /\ Meet(dst(j), v)) =>
                          Get(h[i].m, v) = Get(mach, v)
           Done(i) == \A j \in 1..i : Get(h[i].m, dst(j)) = val(j)
           Good == {i \in 0..K : ~h[i].bad /\ Kept(i) /\ Done(i)}
<1>1. /\ IsFunction(fn) /\ IInv /\ ListOf /\ pc = "done" /\ at \in Points(fn)
      /\ Here = At(fn, at)
      /\ reg_of \in [0..nvregs-1 -> {InMemory} \cup Regs] /\ InMemory \notin Regs
      /\ env \in [Vregs(fn) -> Values] /\ mach \in Machines
  BY SoFar
<1>2. b \in Blocks(fn) /\ at = <<b, Len(fn.blocks[b])>>
  BY <1>1, Shape, InstructionIs DEF Terminators
<1>3. c \in Blocks(fn) /\ K \in Nat
  BY <1>1, <1>2, SuccsAre, PhisAre
<1>4. /\ h[0] = [m |-> mach, bad |-> FALSE] /\ EdgeCopies(b, c) = h[K]
      /\ \A i \in 0..K : h[i].m \in Machines /\ h[i].bad \in BOOLEAN
      /\ \A i \in 1..K : arg(i) # FpImm =>
           /\ h[i].m = Put(h[i-1].m, dst(i), Moved(h[i-1].m, arg(i)))
           /\ h[i].bad = (h[i-1].bad \/ ~Agree(h[i-1].m, arg(i)))
  BY <1>1, <1>2, CopiesAre
<1>5. ASSUME NEW i \in 1..K
      PROVE  /\ dst(i) \in Vregs(fn)
             /\ Start(fn, dst(i)) <= BlockStart(fn, c) /\ BlockStart(fn, c) <= FinalEnd(fn, dst(i))
             /\ arg(i) = NoVreg \/ arg(i) \notin Immediates
             /\ arg(i) # FpImm
             /\ arg(i) \notin Immediates =>
                  /\ arg(i) \in Vregs(fn)
                  /\ Get(mach, arg(i)) = env[arg(i)]
                  /\ \A j \in 1..i-1 : arg(i) # dst(j) /\ Meet(dst(j), arg(i))
             /\ \A j \in 1..i-1 : dst(i) # dst(j)
  <2>1. /\ <<c, i>> \in Points(fn) /\ At(fn, <<c, i>>) = PhisOf(c)[i]
        /\ dst(i) \in Vregs(fn)
        /\ Start(fn, dst(i)) <= BlockStart(fn, c) /\ BlockStart(fn, c) <= FinalEnd(fn, dst(i))
    BY <1>1, <1>2, <1>5, EdgeIs
  <2>2. ASSUME arg(i) \notin Immediates
        PROVE  arg(i) \in Vregs(fn) /\ Get(mach, arg(i)) = env[arg(i)]
    <3>1. arg(i) \in Vregs(fn) /\ (\A u : ReadFrom(fn, arg(i), b, u))
          /\ Available(fn, arg(i), at)
      <4>1. IsFunction(fn) /\ InStrictSSA(fn)
        BY <1>1 DEF Sound
      <4>2. /\ arg(i) \notin Immediates =>
                 arg(i) \in Vregs(fn) /\ \A u : ReadFrom(fn, arg(i), b, u)
            /\ arg(i) \notin Immediates /\ InStrictSSA(fn) =>
                 Available(fn, arg(i), <<b, Len(fn.blocks[b])>>)
        BY <1>2, <1>5, <4>1, EdgeIs
      <4> HIDE DEF arg, b
      <4> QED
        BY <1>2, <2>2, <4>1, <4>2
    <3>2. ~Dead(fn, arg(i), at)
      BY <3>1 DEF Dead
    <3> HIDE DEF arg
    <3> QED
      BY <1>1, <3>1, <3>2 DEF RInv, InStep
  <2>3. ASSUME NEW j \in 1..i-1
        PROVE  /\ dst(i) # dst(j)
               /\ arg(i) \notin Immediates => arg(i) # dst(j) /\ Meet(dst(j), arg(i))
    <3>1. j \in 1..K /\ j < i
      BY <1>3, <1>5, <2>3
    <3>2. /\ <<c, j>> \in Points(fn) /\ At(fn, <<c, j>>) = PhisOf(c)[j]
          /\ dst(j) \in Vregs(fn)
      BY <1>1, <1>2, <3>1, EdgeIs
    <3>3. dst(j) # NoVreg
      BY <1>1, <3>2, VregsAre
    <3>4. dst(i) # dst(j)
      <4> SUFFICES ASSUME dst(i) = dst(j) PROVE FALSE
        OBVIOUS
      <4>1. <<c, i>> = <<c, j>>
        BY <2>1, <3>2, <3>3 DEF Sound, InStrictSSA
      <4> QED
        BY <3>1, <4>1
    <3>5. ASSUME arg(i) \notin Immediates PROVE arg(i) # dst(j) /\ Meet(dst(j), arg(i))
      <4>1. PICK s \in 1..2 : arg(i) = PhisOf(c)[i].args[s]
        BY <1>1, <1>2, <1>5, EdgeIs
      <4>2. PhisOf(c)[i].op = "phi"
        BY <1>1, <1>3, <1>5, PhisAre
      <4> DEFINE p == <<c, j>>
                 q == <<c, i>>
      <4>3. /\ p \in Points(fn) /\ q \in Points(fn) /\ p[1] = q[1] /\ p[2] < q[2]
            /\ At(fn, p).dst = dst(j) /\ At(fn, q).op = "phi" /\ At(fn, q).args[s] = arg(i)
        BY <2>1, <3>1, <3>2, <4>1, <4>2
      <4> HIDE DEF p, q, arg, dst
      <4>4. At(fn, q).args[s] \notin Immediates
        BY <3>5, <4>3
      <4>5. /\ arg(i) # dst(j)
            /\ Start(fn, arg(i)) <= FinalEnd(fn, dst(j)) /\ Start(fn, dst(j)) <= FinalEnd(fn, arg(i))
        BY <4>3, <4>4 DEF Sound, CopiesApart
      <4> QED
        BY <4>5 DEF Meet
    <3> QED
      BY <3>4, <3>5
  <2>4. arg(i) # FpImm
    BY <1>1, <1>2, <1>5, EdgeIs DEF Sound
  <2> QED
    BY <2>1, <2>2, <2>3, <2>4 DEF Immediates
<1>6. ASSUME NEW i \in 1..K, NEW j \in 1..i-1 PROVE Meet(dst(i), dst(j))
  <2>1. j \in 1..K
    BY <1>3, <1>6
  <2>2. /\ dst(i) \in Vregs(fn) /\ dst(j) \in Vregs(fn)
        /\ Start(fn, dst(i)) <= BlockStart(fn, c) /\ BlockStart(fn, c) <= FinalEnd(fn, dst(i))
        /\ Start(fn, dst(j)) <= BlockStart(fn, c) /\ BlockStart(fn, c) <= FinalEnd(fn, dst(j))
    BY <1>5, <1>6, <2>1
  <2> HIDE DEF dst
  <2>3. /\ Start(fn, dst(i)) \in Nat /\ Start(fn, dst(j)) \in Nat /\ BlockStart(fn, c) \in Nat
        /\ FinalEnd(fn, dst(i)) \in Nat /\ FinalEnd(fn, dst(j)) \in Nat
    BY <1>1, <1>3, <2>2, EndsOf, FinalEndIs, Positions
  <2> QED
    BY <2>2, <2>3 DEF Meet
<1> HIDE DEF K, h, dst, arg, b
<1>7. 0 \in Good
  BY <1>3, <1>4
<1>8. ASSUME NEW i \in 0..K-1, i \in Good PROVE i+1 \in Good
  <2> DEFINE k1 == i+1
             m == h[i].m
             d == dst(k1)
             x == Moved(m, arg(k1))
  <2>1. k1 \in 1..K /\ i \in 0..K /\ k1 - 1 = i /\ k1 \in 0..K /\ 1..i = 1..k1-1
    BY <1>3
  <2>2. ~h[i].bad /\ Kept(i) /\ Done(i)
    BY <1>8
  <2>3. h[k1].m = Put(m, d, x) /\ h[k1].bad = (h[i].bad \/ ~Agree(m, arg(k1)))
        /\ m \in Machines /\ d \in Vregs(fn)
    <3>1. arg(k1) # FpImm /\ d \in Vregs(fn)
      BY <1>5, <2>1
    <3> QED
      BY <1>4, <2>1, <3>1
  <2>4. Agree(m, arg(k1)) /\ x = val(k1) /\ x \in Values
    <3>1. CASE arg(k1) = NoVreg
      <4>1. x = Const /\ val(k1) = Const /\ Agree(m, arg(k1))
        BY <3>1, ConstAgrees
      <4> QED
        BY <4>1 DEF Values
    <3>2. CASE arg(k1) \notin Immediates
      <4>1. /\ arg(k1) \in Vregs(fn) /\ Get(mach, arg(k1)) = env[arg(k1)]
            /\ \A j \in 1..i : arg(k1) # dst(j) /\ Meet(dst(j), arg(k1))
        BY <1>5, <2>1, <3>2
      <4>2. Get(m, arg(k1)) = env[arg(k1)]
        BY <2>2, <4>1
      <4> QED
        <5>1. x = Get(m, arg(k1)) /\ val(k1) = env[arg(k1)] /\ Agree(m, arg(k1))
          BY <1>1, <4>1, <4>2, VregAgrees
        <5> QED
          BY <1>1, <4>1, <4>2, <5>1
    <3>3. arg(k1) = NoVreg \/ arg(k1) \notin Immediates
      BY <1>5, <2>1
    <3> QED
      BY <3>1, <3>2, <3>3
  <2>5. Get(h[k1].m, d) = x
    BY <1>1, <2>3, <2>4, WriteIs
  <2>6. ASSUME NEW v \in Vregs(fn), v # d, Meet(d, v)
        PROVE  Get(h[k1].m, v) = Get(m, v)
    <3>1. reg_of[d] # InMemory => reg_of[v] # reg_of[d]
      BY <1>1, <2>3, <2>6, AllocationIs
    <3> HIDE DEF x, d, m, k1
    <3> QED
      BY <1>1, <2>3, <2>4, <2>6, <3>1, WriteIs
  <2>7. Kept(k1)
    <3> SUFFICES ASSUME NEW v \in Vregs(fn), \A j \in 1..k1 : v # dst(j) /\ Meet(dst(j), v)
                 PROVE  Get(h[k1].m, v) = Get(mach, v)
      OBVIOUS
    <3>1. v # d /\ Meet(d, v)
      BY <2>1
    <3>2. \A j \in 1..i : v # dst(j) /\ Meet(dst(j), v)
      BY <2>1
    <3> QED
      BY <2>2, <2>6, <3>1, <3>2
  <2>8. Done(k1)
    <3> SUFFICES ASSUME NEW j \in 1..k1 PROVE Get(h[k1].m, dst(j)) = val(j)
      OBVIOUS
    <3>1. CASE j = k1
      BY <2>4, <2>5, <3>1
    <3>2. CASE j # k1
      <4>1. j \in 1..i /\ j \in 1..k1-1 /\ j \in 1..K
        BY <1>3, <2>1, <3>2
      <4>2. dst(j) \in Vregs(fn) /\ dst(j) # d /\ Meet(d, dst(j))
        BY <1>5, <1>6, <2>1, <4>1
      <4>3. Get(h[k1].m, dst(j)) = Get(m, dst(j))
        BY <2>6, <4>2
      <4> QED
        BY <2>2, <4>1, <4>3
    <3> QED
      BY <3>1, <3>2
  <2> HIDE DEF Kept, Done
  <2> QED
    BY <2>1, <2>2, <2>3, <2>4, <2>7, <2>8
<1>9. K \in Good
  <2>1. 0..K \subseteq Good
    <3> HIDE DEF Good
    <3> QED
      BY <1>3, <1>7, <1>8, Induction
  <2> QED
    BY <1>3, <2>1
<1> QED
  BY <1>4, <1>9 DEF h, K, dst, arg, b

LEMMA PhiValuesAre ==
  ASSUME IsFunction(fn), env \in [Vregs(fn) -> Values], NEW b \in Blocks(fn), NEW c \in Succs(fn, b)
  PROVE  LET e == PhiValues(b, c)
             dst(i) == PhisOf(c)[i].dst
             arg(i) == Incoming(PhisOf(c)[i], b)
         IN  /\ e \in [Vregs(fn) -> Values]
             /\ \A v \in Vregs(fn) : (\A i \in 1..NPhis(c) : v # dst(i)) => e[v] = env[v]
             /\ InStrictSSA(fn) => \A i \in 1..NPhis(c) :
                  e[dst(i)] = Meant(arg(i))
<1> DEFINE K == NPhis(c)
           dst(i) == PhisOf(c)[i].dst
           arg(i) == Incoming(PhisOf(c)[i], b)
           val(i) == Meant(arg(i))
           one(v) == CHOOSE i \in 1..K : dst(i) = v
           e == PhiValues(b, c)
<1>1. DOMAIN PhisOf(c) = 1..K /\ K \in Nat
  BY SuccsAre, PhisAre
<1>2. e = [v \in Vregs(fn) |-> IF \E i \in 1..K : dst(i) = v THEN val(one(v)) ELSE env[v]]
  <2>1. DOMAIN env = Vregs(fn) /\ DOMAIN PhisOf(c) = 1..K
    BY <1>1
  <2> HIDE DEF K
  <2> QED
    BY <2>1 DEF PhiValues
<1>3. ASSUME NEW i \in 1..K
      PROVE  /\ dst(i) \in Vregs(fn) /\ val(i) \in Values
             /\ <<c, i>> \in Points(fn) /\ At(fn, <<c, i>>) = PhisOf(c)[i]
  <2>1. dst(i) \in Vregs(fn) /\ (arg(i) \notin Immediates => arg(i) \in Vregs(fn))
        /\ <<c, i>> \in Points(fn) /\ At(fn, <<c, i>>) = PhisOf(c)[i]
    BY <1>3, EdgeIs
  <2> HIDE DEF arg
  <2>2. val(i) \in Values
    BY <2>1 DEF Values, Meant, Immediates
  <2> QED
    BY <2>1, <2>2
<1>4. ASSUME InStrictSSA(fn), NEW i \in 1..K, NEW j \in 1..K, dst(i) = dst(j) PROVE i = j
  <2>1. /\ <<c, i>> \in Points(fn) /\ At(fn, <<c, i>>).dst = dst(i)
        /\ <<c, j>> \in Points(fn) /\ At(fn, <<c, j>>).dst = dst(i)
    BY <1>3, <1>4
  <2>2. dst(i) # NoVreg
    BY <1>3, VregsAre
  <2>3. <<c, i>> = <<c, j>>
    BY <1>4, <2>1, <2>2 DEF InStrictSSA
  <2> QED
    BY <2>3
<1>5. \A v : (\E i \in 1..K : dst(i) = v) => one(v) \in 1..K /\ dst(one(v)) = v
  OBVIOUS
<1> HIDE DEF e, K, one, val, dst
<1>6. e \in [Vregs(fn) -> Values]
  BY <1>2, <1>3, <1>5
<1>7. \A v \in Vregs(fn) : (\A i \in 1..K : v # dst(i)) => e[v] = env[v]
  BY <1>2
<1>8. ASSUME InStrictSSA(fn), NEW i \in 1..K PROVE e[dst(i)] = val(i)
  <2>1. one(dst(i)) = i
    BY <1>4, <1>5, <1>8
  <2> QED
    BY <1>2, <1>3, <1>8, <2>1
<1> QED
  BY <1>6, <1>7, <1>8 DEF e, K, val, dst

LEMMA BranchKeeps ==
  ASSUME RInv, Branch
  PROVE  RInv'
<1>1. PICK s \in DOMAIN Here.labels :
        /\ misread' = (\/ misread \/ EdgeCopies(at[1], Here.labels[s]).bad
                       \/ Misreads(mach))
        /\ mach' = EdgeCopies(at[1], Here.labels[s]).m
        /\ env' = PhiValues(at[1], Here.labels[s])
        /\ at' = Entry(Here.labels[s])
  BY DEF Branch
<1>2. Running /\ Here.op \in {"br", "cbr"} /\ UNCHANGED <<vars, fn>>
  BY DEF Branch
<1> DEFINE b == at[1]
           c == Here.labels[s]
           q == Entry(c)
           K == NPhis(c)
           m == EdgeCopies(b, c).m
           e == PhiValues(b, c)
           dst(i) == PhisOf(c)[i].dst
           arg(i) == Incoming(PhisOf(c)[i], b)
           val(i) == Meant(arg(i))
<1>3. /\ IsFunction(fn) /\ IInv /\ ListOf /\ pc = "done" /\ at \in Points(fn)
      /\ Here = At(fn, at)
      /\ reg_of \in [0..nvregs-1 -> {InMemory} \cup Regs] /\ InMemory \notin Regs
      /\ env \in [Vregs(fn) -> Values] /\ mach \in Machines
      /\ Sound(fn) => ~misread
  BY <1>2, SoFar
<1>4. b \in Blocks(fn) /\ c \in Succs(fn, b) /\ c \in Blocks(fn)
  <2>1. b \in Blocks(fn)
    BY <1>3, Shape
  <2>2. c \in Succs(fn, b)
    BY <1>2, <1>3, <2>1, SuccsAre
  <2> QED
    BY <1>3, <2>1, <2>2, SuccsAre
<1>5. Here.op \in Terminators /\ at[2] = Len(fn.blocks[b]) /\ Pos(fn, at) = BlockEnd(fn, b)
  <2>1. Here.op \in Terminators
    BY <1>2 DEF Terminators
  <2> QED
    BY <1>3, <1>4, <2>1, InstructionIs DEF Pos, BlockEnd
<1>6. /\ K \in Nat /\ K + 1 \in Instrs(fn, c) /\ q = <<c, K+1>> /\ q \in Points(fn)
      /\ \A i \in 1..K : PhisOf(c)[i] = fn.blocks[c][i]
  BY <1>3, <1>4, PhisAre
<1>7. /\ BlockStart(fn, c) \in Nat /\ Pos(fn, q) \in Nat /\ BlockStart(fn, c) < Pos(fn, q)
  BY <1>3, <1>4, <1>6, Positions
<1>8. /\ \A v \in Vregs(fn) : Available(fn, v, q) =>
           (\E j \in 1..K : dst(j) = v) \/ Available(fn, v, at)
      /\ \A v : Dead(fn, v, at) => Defines(fn, c, v) \/ Dead(fn, v, q)
  <2> DEFINE i == K+1
  <2>1. i \in Instrs(fn, c) /\ q = <<c, i>> /\ 1..i-1 = 1..K
    BY <1>6
  <2> HIDE DEF i, K, q, c
  <2>2. /\ \A v \in Vregs(fn) : Available(fn, v, q) =>
             (\E j \in 1..i-1 : fn.blocks[c][j].dst = v) \/ Available(fn, v, at)
        /\ \A v : Dead(fn, v, at) => Defines(fn, c, v) \/ Dead(fn, v, q)
    BY <1>3, <1>4, <1>5, <2>1, Across
  <2> QED
    BY <1>6, <2>1, <2>2
<1>9. m \in Machines /\ EdgeCopies(b, c).bad \in BOOLEAN
  BY <1>3, <1>4, <1>6, CopiesAre
<1>10. /\ e \in [Vregs(fn) -> Values]
       /\ \A v \in Vregs(fn) : (\A i \in 1..K : v # dst(i)) => e[v] = env[v]
       /\ InStrictSSA(fn) => \A i \in 1..K : e[dst(i)] = val(i)
  BY <1>3, <1>4, PhiValuesAre
<1>11. Sound(fn) => /\ ~EdgeCopies(b, c).bad
                    /\ \A i \in 1..K : Get(m, dst(i)) = val(i)
                    /\ \A v \in Vregs(fn) : (\A i \in 1..K : v # dst(i) /\ Meet(dst(i), v)) =>
                         Get(m, v) = Get(mach, v)
  BY <1>2, <1>4, CopiesKeep
<1>12. \A i \in 1..K : /\ dst(i) \in Vregs(fn)
                       /\ Start(fn, dst(i)) <= BlockStart(fn, c)
                       /\ BlockStart(fn, c) <= FinalEnd(fn, dst(i))
  BY <1>3, <1>4, EdgeIs
<1>13. at' = q /\ mach' = m /\ env' = e
       /\ misread' = (misread \/ EdgeCopies(b, c).bad \/ Misreads(mach))
  BY <1>1
<1> HIDE DEF b, c, q, K, m, e, dst, val
<1>14. fn' = fn /\ pc' = pc /\ reg_of' = reg_of
  BY <1>2 DEF vars
<1>15. misread' \in BOOLEAN
  BY <1>13
<1>16. Base'
  <2>1. IsFunction(fn)' /\ IInv' /\ ListOf' /\ WellFormed([ivs |-> iv, nvregs |-> nvregs])'
    BY <1>2, StillAllocated DEF RInv
  <2>2. ExecTypeOK'
    <3>1. mach' \in [regs : [Regs -> Values'], slots : [Vregs(fn') -> Values']]
      BY <1>9, <1>13, <1>14 DEF Machines, Values
    <3>2. env' \in [Vregs(fn') -> Values']
      BY <1>10, <1>13, <1>14 DEF Values
    <3> QED
      BY <1>6, <1>13, <1>14, <1>15, <2>1, <3>1, <3>2 DEF ExecTypeOK
  <2>3. q # NotStarted
    BY <1>3, <1>6, NotStartedIs
  <2> QED
    BY <1>3, <1>13, <1>14, <2>1, <2>2, <2>3 DEF Base
<1>17. ASSUME Sound(fn) PROVE ~misread' /\ Met(q) /\ InStep(q, e, m)
  <2>1. ~misread'
    <3>1. ~Misreads(mach)
      BY <1>2, <1>17, NothingMisread
    <3> QED
      BY <1>3, <1>11, <1>13, <1>17, <3>1
  <2>2. Met(at) /\ InStep(at, env, mach) /\ InStrictSSA(fn)
    BY <1>3, <1>17 DEF RInv, Sound
  <2>3. \A w \in Vregs(fn) : FinalEnd(fn, w) \in Nat /\ Start(fn, w) \in Nat
    BY <1>3, FinalEndIs, EndsOf
  <2>4. ASSUME NEW v \in Vregs(fn), Available(fn, v, at), NEW w \in Vregs(fn),
               BlockStart(fn, c) <= FinalEnd(fn, w)
        PROVE  Start(fn, v) <= FinalEnd(fn, w)
    <3>1. Pos(fn, at) <= FinalEnd(fn, w)
      BY <1>3, <1>4, <1>5, <2>4, ReachesBack
    <3> QED
      BY <2>2, <2>4, <3>1 DEF Met
  <2>5. Met(q)
    <3> SUFFICES ASSUME NEW v \in Vregs(fn), NEW w \in Vregs(fn),
                        Available(fn, v, q), Pos(fn, q) <= FinalEnd(fn, w)
                 PROVE  Start(fn, v) <= FinalEnd(fn, w)
      BY DEF Met
    <3>1. BlockStart(fn, c) <= FinalEnd(fn, w)
      BY <1>7, <2>3
    <3>2. CASE \E j \in 1..K : dst(j) = v
      BY <1>7, <1>12, <2>3, <3>1, <3>2
    <3>3. CASE Available(fn, v, at)
      BY <2>4, <3>1, <3>3
    <3> QED
      BY <1>8, <3>2, <3>3
  <2>6. ASSUME NEW v \in Vregs(fn), Available(fn, v, q), ~Dead(fn, v, q)
        PROVE  Get(m, v) = e[v]
    <3>1. CASE \E j \in 1..K : dst(j) = v
      BY <1>10, <1>11, <1>17, <2>2, <3>1
    <3>2. CASE \A j \in 1..K : v # dst(j)
      <4>1. Available(fn, v, at)
        BY <1>8, <2>6, <3>2
      <4>2. ~Defines(fn, c, v)
        <5> SUFFICES ASSUME NEW i \in Instrs(fn, c), fn.blocks[c][i].dst = v PROVE FALSE
          BY DEF Defines
        <5> DEFINE p == <<c, i>>
        <5>1. p \in Points(fn) /\ At(fn, p).dst = v /\ p[1] = c /\ p[2] = i
          BY <1>3, <1>4, Shape
        <5> HIDE DEF p
        <5>2. v # NoVreg /\ v \notin Params(fn)
          BY <1>3, <2>2, <2>6, <5>1, VregsAre DEF InStrictSSA
        <5>3. PICK r \in Points(fn) : /\ At(fn, r).dst = v
                                      /\ IF r[1] = q[1] THEN r[2] < q[2] ELSE Dominates(fn, r[1], q[1])
          BY <2>6, <5>2 DEF Available
        <5>4. r = p
          BY <2>2, <5>1, <5>2, <5>3 DEF InStrictSSA
        <5>5. i < K + 1
          BY <1>6, <5>1, <5>3, <5>4
        <5>6. i \in 1..K
          BY <1>6, <5>5 DEF Instrs
        <5> QED
          BY <1>6, <3>2, <5>6 DEF dst
      <4>3. ~Dead(fn, v, at)
        BY <1>8, <2>6, <4>2
      <4>4. Get(mach, v) = env[v]
        BY <2>2, <4>1, <4>3 DEF InStep
      <4>5. Pos(fn, q) <= FinalEnd(fn, v)
        BY <1>3, <1>6, <1>7, <2>3, <2>6, DeadPastEnd
      <4>6. ASSUME NEW i \in 1..K PROVE Meet(dst(i), v)
        <5>1. Start(fn, dst(i)) <= FinalEnd(fn, v)
          BY <1>7, <1>12, <2>3, <4>5
        <5>2. Start(fn, v) <= FinalEnd(fn, dst(i))
          BY <1>12, <2>4, <4>1
        <5> QED
          BY <5>1, <5>2 DEF Meet
      <4>7. Get(m, v) = Get(mach, v)
        BY <1>11, <1>17, <3>2, <4>6
      <4> QED
        BY <1>10, <3>2, <4>4, <4>7
    <3> QED
      BY <3>1, <3>2
  <2>7. InStep(q, e, m)
    BY <2>6 DEF InStep
  <2> QED
    BY <2>1, <2>5, <2>7
<1>18. Sound(fn)' => Sound(fn)
  BY <1>14
<1>19. ASSUME Sound(fn) PROVE Met(at)' /\ InStep(at, env, mach)'
  <2>1. Met(at)'
    BY <1>13, <1>14, <1>17, <1>19 DEF Met
  <2>2. \A v : Get(mach, v)' = Get(mach', v)
    BY <1>14 DEF Get
  <2> QED
    BY <1>13, <1>14, <1>17, <1>19, <2>1, <2>2 DEF InStep
<1> QED
  BY <1>16, <1>17, <1>18, <1>19 DEF RInv

-----------------------------------------------------------------------------
LEMMA InitKeeps == AllocInit => RInv
<1> SUFFICES ASSUME AllocInit PROVE RInv
  OBVIOUS
<1> DEFINE in == ComputeIntervals(fn)
<1>1. /\ fn \in Programs /\ InitFrom(in) /\ at = NotStarted
      /\ env = [v \in Vregs(fn) |-> IF v \in Params(fn) THEN <<v, 0>> ELSE Junk]
      /\ mach = [regs |-> [r \in Regs |-> Junk], slots |-> env]
      /\ misread = FALSE
  BY DEF AllocInit
<1>2. IsFunction(fn)
  BY <1>1, ProgramsAssumption
<1>3. /\ WellFormed(in)
      /\ {in.ivs[i] : i \in 1..Len(in.ivs)} = {IntervalOf(fn, v) : v \in Vregs(fn)}
      /\ \A v \in Vregs(fn) : v \in 0..in.nvregs-1
  BY <1>2, ListIs
<1> HIDE DEF in
<1>4. IInv
  BY <1>1, <1>3, InitFromIInv
<1>5. ListOf
  BY <1>1, <1>3 DEF InitFrom, ListOf
<1>6. NotStarted \notin Points(fn)
  BY <1>2, NotStartedIs
<1>7. ExecTypeOK
  <2>1. WellFormed([ivs |-> iv, nvregs |-> nvregs])
    BY <1>2, <1>4, <1>5, ListWellFormed
  <2>2. env \in [Vregs(fn) -> Values]
    BY <1>1 DEF Values
  <2>3. mach \in [regs : [Regs -> Values], slots : [Vregs(fn) -> Values]]
    BY <1>1, <2>2 DEF Values
  <2> QED
    BY <1>1, <2>1, <2>2, <2>3 DEF ExecTypeOK
<1> QED
  BY <1>1, <1>2, <1>4, <1>5, <1>6, <1>7 DEF RInv, Base

LEMMA StutterKeeps == RInv /\ UNCHANGED <<vars, exec>> => RInv'
<1> SUFFICES ASSUME RInv, UNCHANGED <<vars, exec>> PROVE RInv'
  OBVIOUS
<1>1. UNCHANGED vars /\ fn' = fn /\ at' = at /\ env' = env /\ mach' = mach /\ misread' = misread
      /\ pc' = pc /\ reg_of' = reg_of /\ UNCHANGED <<vars, fn>>
  BY DEF exec, vars
<1>2. IsFunction(fn)' /\ IInv' /\ ListOf' /\ WellFormed([ivs |-> iv, nvregs |-> nvregs])'
  BY <1>1, StillAllocated DEF RInv
<1>3. ExecTypeOK'
  BY <1>1, <1>2 DEF RInv, Base, ExecTypeOK, Values
<1>4. Base'
  BY <1>1, <1>2, <1>3 DEF RInv, Base
<1>5. \A v : Get(mach, v)' = Get(mach, v)
  BY <1>1 DEF Get
<1> QED
  BY <1>1, <1>4, <1>5 DEF RInv, Met, InStep

(* The three facts of the inductive invariant, for every function: the     *)
(* interval list stays the one compute_intervals answered with, and the    *)
(* run of the code of a sound function stays in step with the run of the IR. *)
THEOREM AllocInvariance == AllocSpec => []RInv
<1>1. AllocInit => RInv
  BY InitKeeps
<1>2. RInv /\ [AllocNext]_<<vars, exec>> => RInv'
  <2> SUFFICES ASSUME RInv, [AllocNext]_<<vars, exec>> PROVE RInv'
    OBVIOUS
  <2>1. CASE Allocate
    BY <2>1, AllocateKeeps
  <2>2. CASE Prologue
    BY <2>2, PrologueKeeps
  <2>3. CASE Alu
    BY <2>3, AluKeeps
  <2>4. CASE Scratch
    BY <2>4, ScratchKeeps
  <2>5. CASE Fp
    BY <2>5, FpKeeps
  <2>6. CASE Call
    BY <2>6, CallKeeps
  <2>7. CASE Memcpy
    BY <2>7, MemcpyKeeps
  <2>8. CASE VaArg
    BY <2>8, VaArgKeeps
  <2>9. CASE Branch
    BY <2>9, BranchKeeps
  <2>10. CASE Ret
    BY <2>10, RetKeeps
  <2>11. CASE UNCHANGED <<vars, exec>>
    BY <2>11, StutterKeeps
  <2> QED
    BY <2>1, <2>2, <2>3, <2>4, <2>5, <2>6, <2>7, <2>8, <2>9, <2>10, <2>11 DEF AllocNext
<1> QED
  BY <1>1, <1>2, PTL DEF AllocSpec

(* The intervals of every function are a list the scan may be given, and   *)
(* every register and slot holds a value, whatever the function does.      *)
THEOREM ExecTypes == AllocSpec => []ExecTypeOK
<1>1. RInv => ExecTypeOK
  BY DEF RInv, Base
<1> QED
  BY <1>1, AllocInvariance, PTL

(* The code emitted for a sound function (strict SSA form, no vreg that    *)
(* lives across a call only because of the loop extension, none in a       *)
(* register memcpy or va_arg uses, no copy of an edge over what a later one *)
(* reads, no floating-point immediate outside floating-point operations:   *)
(* not in a phi, a call or a return) never reads a value other than the IR's, whatever its control    *)
(* flow, the pool and the order qsort leaves equal starts in.              *)
THEOREM ReadsAreRight == AllocSpec => [](Sound(fn) => ReadsAgree)
<1>1. RInv => (Sound(fn) => ReadsAgree)
  BY DEF RInv, ReadsAgree
<1> QED
  BY <1>1, AllocInvariance, PTL
=============================================================================
