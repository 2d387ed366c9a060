-------------------------------- MODULE Frame ---------------------------------
(***************************************************************************)
(* The stack frame of one call of a function: what the prologue, the body  *)
(* and the epilogue that src/targets/*/isel.c emit do to memory and to the *)
(* registers of the caller.                                                *)
(*                                                                         *)
(* Memory is counted in words of the target (8 bytes, 4 on x86 and arm).   *)
(* Address 0 is where the stack pointer stands at the entry: the caller    *)
(* owns every address from 0 on.  A value is the name of what belongs      *)
(* there, so that a word that holds another name has been overwritten; the *)
(* last component of a name is the content where a later instruction looks *)
(* at it: in the words of a va_list and in the vreg that points to one.    *)
(***************************************************************************)
EXTENDS Integers, Sequences, FiniteSets, FiniteSetsExt

CONSTANTS
  ParamBase,  \* PARAM_BASE, 1000 in the code: parameter p is vreg ParamBase+p
  Functions,  \* the functions considered: records
              \*   target, locals, nparams   vregs 0..locals-1, and parameters
              \*   reg                       vreg -> pool index, or InMemory
              \*   allocas                   sequence of sizes in words
              \*   vararg, takes             variadic, and how many arguments
              \*                             it takes from its list at most
  Above,      \* bounds: words of the caller that are watched past the
  Below       \* parameters, and words past the stack pointer

VARIABLES
  fn,    \* the function
  pc,    \* "entry" -> "body" -> "returned"
  mem,   \* address -> value
  regs,  \* pool index, Fp or Ra -> value
  live,  \* the words of the function that have been written
  taken  \* what va_arg has found since the last va_start

vars == <<fn, pc, mem, regs, live, taken>>

InMemory == -1
Fp == -2   \* frame pointer
Ra == -3   \* return address, in the link register where there is one

(* Per target: the pool, the registers that pass parameters, the pool index *)
(* of the first name of the array of callee-saved names and the one its     *)
(* index is counted from, the unit the size of an alloca and the frame are  *)
(* rounded to, and for a variadic function the words set aside, where the   *)
(* va_list and the register save area are put among them and their sizes.   *)
Target == [
  x86_64 |-> [nregs |-> 9, ncaller |-> 4, nargregs |-> 6, named |-> 4, from |-> 5,
              grain |-> 1, align |-> 2, reserve |-> 9, list |-> 3, area |-> 9,
              listSize |-> 3, areaSize |-> 6],
  x86    |-> [nregs |-> 3, ncaller |-> 0, nargregs |-> 0, named |-> 0, from |-> 0,
              grain |-> 4, align |-> 4, reserve |-> 0, list |-> 0, area |-> 0,
              listSize |-> 0, areaSize |-> 0],
  arm64  |-> [nregs |-> 8, ncaller |-> 3, nargregs |-> 8, named |-> 3, from |-> 4,
              grain |-> 2, align |-> 2, reserve |-> 16, list |-> 4, area |-> 8,
              listSize |-> 4, areaSize |-> 8],
  riscv  |-> [nregs |-> 9, ncaller |-> 4, nargregs |-> 8, named |-> 4, from |-> 4,
              grain |-> 2, align |-> 2, reserve |-> 16, list |-> 4, area |-> 8,
              listSize |-> 4, areaSize |-> 8],
  arm    |-> [nregs |-> 8, ncaller |-> 0, nargregs |-> 4, named |-> 0, from |-> 0,
              grain |-> 2, align |-> 1, reserve |-> 8, list |-> 4, area |-> 8,
              listSize |-> 3, areaSize |-> 4]]
T(g)    == Target[g.target]
Regs(g) == 0 .. T(g).nregs-1

Locals(g) == 0 .. g.locals-1
Params(g) == {ParamBase + p : p \in 0..g.nparams-1}
Vregs(g)  == Locals(g) \cup Params(g)
Used(g)   == {g.reg[v] : v \in Vregs(g)} \ {InMemory}

(* All vregs are live to the end, so that no two share a register.  Vregs  *)
(* stay below the numbers of the parameters.  Only a variadic function     *)
(* takes from a list; its list and what it takes are in registers where    *)
(* vop_str would name no operand of the instructions that read them.       *)
ListVreg == 0
WellFormed(g) ==
  /\ g.target \in DOMAIN Target
  /\ g.locals \in 0..ParamBase /\ g.nparams \in Nat
  /\ g.allocas \in Seq(Nat)
  /\ g.reg \in [Vregs(g) -> Regs(g) \cup {InMemory}]
  /\ \A v, w \in Vregs(g) : v # w /\ g.reg[v] # InMemory => g.reg[v] # g.reg[w]
  /\ g.vararg \in BOOLEAN /\ g.takes \in Nat
  /\ g.takes > 0 => g.vararg
  /\ g.vararg => ListVreg \in Locals(g)
  /\ g.vararg /\ g.target \notin {"x86_64", "x86"} =>
       \A v \in Locals(g) : v = ListVreg \/ g.takes > 0 => g.reg[v] # InMemory

ASSUME FrameAssumption ==
  /\ ParamBase \in Nat /\ Above \in Nat /\ Below \in Nat
  /\ \A g \in Functions : WellFormed(g)

-----------------------------------------------------------------------------
(* What is saved, and the size of the frame. *)
SavedPast(g) ==   \* variant for the mutation runs: the first one forgotten
  IF g.target = "arm" THEN Regs(g) ELSE {r \in Used(g) : r > T(g).from}
Saved(g) ==
  IF g.target = "arm" THEN Regs(g)
  ELSE {T(g).named + (r - T(g).from) : r \in {q \in Used(g) : q >= T(g).from}}
Rank(g, r) == Cardinality({s \in Saved(g) : s <= r})
NSaved(g)  == Cardinality(Saved(g))

RoundUp(x, m) == ((x + m - 1) \div m) * m

Slots(g) == Max(Vregs(g) \cup {0}) + 1   \* count_maxv + 1
Base(g) ==                               \* where assign_allocas starts
  CASE g.target = "x86"   -> Slots(g) + NSaved(g)
    [] g.target = "riscv" -> Slots(g) + 1 + NSaved(g)
    [] OTHER              -> Slots(g)
ReservedForList(g) == IF g.vararg THEN T(g).list ELSE 0   \* variant: no save area
Reserved(g) == IF g.vararg THEN T(g).reserve ELSE 0
Sums(g) ==                               \* of the first i allocas
  LET sum[i \in 0..Len(g.allocas)] ==
        IF i = 0 THEN 0 ELSE sum[i-1] + RoundUp(g.allocas[i], T(g).grain)
  IN  sum
Pred(g, i) == Base(g) + Reserved(g) + Sums(g)[i]   \* in->pred of the i-th alloca
Total(g) == Pred(g, Len(g.allocas))
FrameWithoutObjects(g) == RoundUp(Base(g), T(g).align)   \* variant
FrameSize(g) ==
  CASE g.target = "arm"   -> Total(g) + 1
    [] g.target = "arm64" -> Max({RoundUp(Total(g), 2), 2})
    [] OTHER              -> RoundUp(Total(g), T(g).align)

(* arm64 pushes the first two in a pair and every other one alone, two     *)
(* words each.                                                             *)
Pushes(g) == IF NSaved(g) <= 1 THEN NSaved(g) ELSE NSaved(g) - 1

(* x86_64 and x86 address the frame downwards from the frame pointer, the  *)
(* others upwards from the stack pointer.                                  *)
Down(g) == g.target \in {"x86_64", "x86"}
FramePointer == -1
StackPointer(g) ==
  CASE g.target = "x86_64" -> -1 - FrameSize(g) - NSaved(g)
    [] g.target = "x86"    -> -1 - FrameSize(g)
    [] g.target = "arm64"  -> -2 - FrameSize(g) - 2 * Pushes(g)
    [] g.target = "riscv"  -> -FrameSize(g)
    [] g.target = "arm"    -> -9 - FrameSize(g)
At(g, off)  == IF Down(g) THEN FramePointer - off ELSE StackPointer(g) + off
Slot(g, v)  == IF Down(g) THEN At(g, v + 1) ELSE At(g, v)

(* Where the prologue puts a saved register, and where the epilogue looks  *)
(* for it.                                                                 *)
SavedAt(g, r) ==
  CASE g.target = "x86_64" -> -1 - FrameSize(g) - Rank(g, r)
    [] g.target = "x86"    -> At(g, Slots(g) + Rank(g, r))
    [] g.target = "arm64"  -> IF Rank(g, r) = 2 THEN -2 - FrameSize(g) - 1
                              ELSE -2 - FrameSize(g) - 2 * Max({Rank(g, r) - 1, 1})
    [] g.target = "riscv"  -> At(g, Slots(g) + Rank(g, r))
    [] g.target = "arm"    -> -9 + r
RestoredOneOff(g, r) ==   \* variant: the offset of x86 without its + 1
  IF g.target = "x86" THEN At(g, Slots(g) + r) ELSE SavedAt(g, r)
RestoredFrom(g, r) ==
  CASE g.target = "x86"   -> At(g, Slots(g) + r + 1)
    [] g.target = "arm64" -> StackPointer(g) + 2 * (NSaved(g) - Rank(g, r))
    [] OTHER              -> SavedAt(g, r)

(* The call instruction pushes the return address on x86_64 and x86. *)
Links(g) == CASE g.target = "riscv" -> {Ra}
              [] g.target = "arm"   -> {Ra}
              [] OTHER              -> {Fp, Ra}
LinkAt(g, l) ==
  CASE Down(g)             -> IF l = Fp THEN -1 ELSE 0
    [] g.target = "arm64"  -> IF l = Fp THEN -2 ELSE -1
    [] g.target = "riscv"  -> At(g, Slots(g))
    [] g.target = "arm"    -> -1

-----------------------------------------------------------------------------
(* The words of the function and where each of them is. *)
Vreg(v)     == <<"vreg", v, 0>>
Words(kind, size) == {<<kind, k, 0>> : k \in 0..size-1}
Area(g)     == IF g.vararg THEN Words("area", T(g).areaSize) ELSE {}
List(g)     == IF g.vararg THEN Words("list", T(g).listSize) ELSE {}
Alloca(g, i) == {<<"alloca", k, i>> : k \in 0..g.allocas[i]-1}

Address(g, w) ==
  CASE w[1] = "vreg"   -> Slot(g, w[2])
    [] w[1] = "list"   -> At(g, Base(g) + T(g).list) + w[2]
    [] w[1] = "area"   -> At(g, Base(g) + T(g).area) + w[2]
    [] w[1] = "alloca" -> At(g, Pred(g, w[3])) + w[2]

InReg(g, w) == w[1] = "vreg" /\ g.reg[w[2]] # InMemory

(* The caller's words, with the parameters the registers do not pass.      *)
Cell(a) == <<"cell", a, 0>>
StackParam(g, p) == p - T(g).nargregs + (IF Down(g) THEN 1 ELSE 0)
CallersWord(g, a) ==
  IF \E p \in T(g).nargregs .. g.nparams-1 : StackParam(g, p) = a
  THEN Vreg(ParamBase + CHOOSE p \in T(g).nargregs .. g.nparams-1 : StackParam(g, p) = a)
  ELSE IF Down(g) /\ a = 0 THEN <<"reg", Ra, 0>> ELSE Cell(a)

CallersFrame(g) == 0 .. g.nparams + Above
Watched(g) == StackPointer(g) - Below .. g.nparams + Above

Init ==
  /\ fn \in Functions
  /\ pc = "entry"
  /\ mem = [a \in Watched(fn) |-> IF a >= 0 THEN CallersWord(fn, a) ELSE Cell(a)]
  /\ regs = [r \in Regs(fn) \cup {Fp, Ra} |-> <<"reg", r, 0>>]
  /\ live = {} /\ taken = <<>>

-----------------------------------------------------------------------------
(* Stores in order: a later one to an address hides an earlier one. *)
Store(a, x) == [to |-> a, value |-> x]
Written(m, stores) ==
  [a \in DOMAIN m |->
     LET K == {k \in DOMAIN stores : stores[k].to = a}
     IN  IF K = {} THEN m[a] ELSE stores[Max(K)].value]

(* The stores of the prologue. *)
LinkStores(g) ==
  LET save(l) == Store(LinkAt(g, l), regs[l])
  IN  CASE Down(g)            -> <<save(Fp)>>
        [] g.target = "arm64" -> <<save(Fp), save(Ra)>>
        [] OTHER              -> <<save(Ra)>>
RegStores(g) ==
  [i \in 1..NSaved(g) |->
     LET r == CHOOSE s \in Saved(g) : Rank(g, s) = i IN Store(SavedAt(g, r), regs[r])]
Incoming(g, p) == IF p < T(g).nargregs THEN Vreg(ParamBase + p) ELSE mem[StackParam(g, p)]
ParamStores(g) ==
  [i \in 1..g.nparams |-> Store(Slot(g, ParamBase + i - 1), Incoming(g, i - 1))]
Fill(g, kind, size) ==
  [i \in 1..size |-> LET w == <<kind, i - 1, 0>> IN Store(Address(g, w), w)]
AreaStores(g) == IF g.vararg THEN Fill(g, "area", T(g).areaSize) ELSE <<>>
PrologueMemory(g) ==
  LET saved == Written(Written(mem, LinkStores(g)), RegStores(g))
  IN  IF g.target \in {"riscv", "arm"}
      THEN Written(Written(saved, AreaStores(g)), ParamStores(g))
      ELSE Written(Written(saved, ParamStores(g)), AreaStores(g))

(* A parameter that was given a register is loaded from its slot last. *)
Prologue ==
  /\ pc = "entry" /\ pc' = "body"
  /\ mem' = PrologueMemory(fn)
  /\ regs' = [r \in DOMAIN regs |->
                LET P == {v \in Params(fn) : fn.reg[v] = r}
                IN  IF P = {} THEN regs[r] ELSE mem'[Slot(fn, Max(P))]]
  /\ live' = {Vreg(v) : v \in Params(fn)} \cup Area(fn)
  /\ UNCHANGED <<fn, taken>>

InPlace(m, w, x) == IF InReg(fn, w) THEN m ELSE [m EXCEPT ![Address(fn, w)] = x]
InPool(r, w, x)  == IF InReg(fn, w) THEN [r EXCEPT ![fn.reg[w[2]]] = x] ELSE r
Put(w) == mem' = InPlace(mem, w, w) /\ regs' = InPool(regs, w, w)

(* An instruction that defines a vreg; va_start alone defines ListVreg.    *)
Others(g) == Locals(g) \ {ListVreg}
Define ==
  /\ pc = "body"
  /\ \E v \in IF fn.vararg THEN Others(fn) ELSE Locals(fn) :
       Put(Vreg(v)) /\ live' = live \cup {Vreg(v)}
  /\ UNCHANGED <<fn, pc, taken>>

(* A store through the address of an alloca. *)
StoreObject ==
  /\ pc = "body"
  /\ \E i \in DOMAIN fn.allocas : \E w \in Alloca(fn, i) : Put(w) /\ live' = live \cup {w}
  /\ UNCHANGED <<fn, pc, taken>>

-----------------------------------------------------------------------------
(* OP_VA_START: the words of the list, in words of the target; the list of *)
(* x86 is the vreg itself.                                                 *)
AreaAt(g) == Address(g, <<"area", 0, 0>>)
ListX86_64(g) == <<Min({g.nparams, 6}), FramePointer + 2, AreaAt(g)>>
ListArm64(g)  == <<-2 + 3, AreaAt(g) + 8, 0, g.nparams - 8>>   \* x29 + 24
ListRiscvAll(g) ==   \* variant: named parameters taken again
  <<0, AreaAt(g) + 8, StackPointer(g) + FrameSize(g), -8>>
ListRiscv(g)  == <<0, AreaAt(g) + 8, StackPointer(g) + FrameSize(g), g.nparams - 8>>
ListArm(g)    == <<AreaAt(g) + g.nparams, AreaAt(g) + 4, StackPointer(g) + FrameSize(g) + 9>>
Fields(g) ==
  CASE g.target = "x86_64" -> ListX86_64(g)
    [] g.target = "x86"    -> <<>>
    [] g.target = "arm64"  -> ListArm64(g)
    [] g.target = "riscv"  -> ListRiscv(g)
    [] g.target = "arm"    -> ListArm(g)
ListAt(g) ==
  IF g.target = "x86" THEN FramePointer + 2 + g.nparams ELSE Address(g, <<"list", 0, 0>>)

StartsList(at, F) ==
  LET list == <<"vreg", ListVreg, at>>
      fill == [k \in DOMAIN F |-> Store(at + k - 1, <<"list", k - 1, F[k]>>)]
  IN  /\ mem' = InPlace(Written(mem, fill), list, list)
      /\ regs' = InPool(regs, list, list)
VaStart ==
  /\ pc = "body"
  /\ fn.vararg
  /\ StartsList(ListAt(fn), Fields(fn))
  /\ live' = live \cup List(fn) \cup {Vreg(ListVreg)}
  /\ taken' = <<>>
  /\ UNCHANGED <<fn, pc>>

(* OP_VA_ARG: where the next argument is and which field steps on, given   *)
(* the fields.                                                             *)
TakeX86_64(F) == IF F[1] < 6 THEN [at |-> F[3] + F[1], step |-> 1] ELSE [at |-> F[2], step |-> 2]
TakeArm64(F)  == IF F[4] < 0 THEN [at |-> F[2] + F[4], step |-> 4] ELSE [at |-> F[1], step |-> 1]
TakeRiscv(F)  == IF F[4] < 0 THEN [at |-> F[2] + F[4], step |-> 4] ELSE [at |-> F[3], step |-> 3]
TakeArmPast(F) ==   \* variant: one register too many
  IF F[1] <= F[2] THEN [at |-> F[1], step |-> 1] ELSE [at |-> F[3], step |-> 3]
TakeArm(F)    == IF F[1] < F[2] THEN [at |-> F[1], step |-> 1] ELSE [at |-> F[3], step |-> 3]
TakeX86(list)  == [at |-> list, step |-> 0]
Take(g, list, F) ==
  CASE g.target = "x86_64" -> TakeX86_64(F)
    [] g.target = "x86"    -> TakeX86(list)
    [] g.target = "arm64"  -> TakeArm64(F)
    [] g.target = "riscv"  -> TakeRiscv(F)
    [] g.target = "arm"    -> TakeArm(F)

Content(w) == IF InReg(fn, w) THEN regs[fn.reg[w[2]]] ELSE mem[Address(fn, w)]
Read(a)    == IF a \in DOMAIN mem THEN mem[a] ELSE Cell(a)

(* Field 0 is the list itself, on x86.  What is found goes to v, on x86_64 *)
(* by way of %rbx.                                                         *)
Rbx == 4
TakesFrom(list, F, next, v) ==
  LET to == IF next.step = 0 THEN <<"vreg", ListVreg, list + 1>>
                             ELSE <<"list", next.step - 1, F[next.step] + 1>>
      stepped(m) == IF next.step = 0 THEN InPlace(m, to, to)
                                     ELSE [m EXCEPT ![list + next.step - 1] = to]
      touched(r) == CASE fn.target = "x86"    -> InPool(r, to, to)
                      [] fn.target = "x86_64" -> [r EXCEPT ![Rbx] = Read(next.at)]
                      [] OTHER                -> r
  IN  /\ taken' = Append(taken, Read(next.at))
      /\ mem' = InPlace(stepped(mem), v, v)
      /\ regs' = InPool(touched(regs), v, v)
Loaded(list) == [k \in 1..T(fn).listSize |-> Read(list + k - 1)[3]]
VaArg ==
  /\ pc = "body"
  /\ Vreg(ListVreg) \in live /\ Len(taken) < fn.takes
  /\ \E v \in Others(fn), list \in {Content(Vreg(ListVreg))[3]} : \E F \in {Loaded(list)} :
       /\ TakesFrom(list, F, Take(fn, list, F), Vreg(v))
       /\ live' = live \cup {Vreg(v)}
  /\ UNCHANGED <<fn, pc>>

Ret ==
  /\ pc = "body" /\ pc' = "returned"
  /\ regs' = [r \in DOMAIN regs |->
                CASE r \in Saved(fn) -> mem[RestoredFrom(fn, r)]
                  [] r \in Links(fn) -> mem[LinkAt(fn, r)]
                  [] OTHER           -> regs[r]]
  /\ UNCHANGED <<fn, mem, live, taken>>

Next == Prologue \/ Define \/ StoreObject \/ VaStart \/ VaArg \/ Ret

Spec == Init /\ [][Next]_vars

-----------------------------------------------------------------------------
(* The functions whose target keeps their objects apart: arm64, riscv and   *)
(* arm count the offset of an alloca to its end and address it upwards,    *)
(* and va_arg of x86_64 goes by way of %rbx.                               *)
ObjectsApart(g) ==
  /\ g.allocas # <<>> => Down(g)
  /\ g.target = "x86_64" /\ g.takes > 0 => Rbx \notin Used(g)

(* Those whose target gives the caller its registers back: x86_64 and      *)
(* arm64 save others than those they use, the save area of arm lies where  *)
(* its registers are, and x86 restores by index what it saved by rank.     *)
SavesKept(g) ==
  /\ g.target \in {"x86_64", "arm64"} => \A r \in Used(g) : r < T(g).ncaller
  /\ g.target = "x86_64" => g.takes = 0
  /\ g.target = "arm" => ~g.vararg
  /\ g.target = "x86" => \A r \in Used(g), s \in Regs(g) : s < r => s \in Used(g)

(* Those whose va_list starts at the first argument that is not named: a   *)
(* parameter on the stack is counted on x86 only, and the stack list of    *)
(* arm64 starts a word late.                                               *)
ListStartsRight(g) ==
  /\ g.takes > 0 /\ g.target # "x86" => g.nparams <= T(g).nargregs
  /\ g.takes > 0 /\ g.target = "arm64" => g.nparams + g.takes <= T(g).nargregs

Name(x) == IF x[1] \in {"list", "vreg"} THEN [x EXCEPT ![3] = 0] ELSE x
Owned(g) == {Vreg(v) : v \in Vregs(g)} \cup Area(g) \cup List(g)
              \cup UNION {Alloca(g, i) : i \in DOMAIN g.allocas}

(* Type invariant; no register is ever loaded from a word nobody wrote. *)
TypeOK ==
  /\ pc \in {"entry", "body", "returned"}
  /\ live \subseteq Owned(fn)
  /\ DOMAIN regs = Regs(fn) \cup {Fp, Ra}
  /\ \A r \in DOMAIN regs : Name(regs[r]) \in Owned(fn) \cup {<<"reg", q, 0>> : q \in DOMAIN regs}
  /\ DOMAIN mem = Watched(fn)

(* Every vreg, alloca, va_list and save area keeps what was last put there, *)
(* whatever else the function writes: no two of them share a word, none     *)
(* lies where the prologue saved a register, and none below the stack       *)
(* pointer, where the next push would overwrite it.                         *)
InFrame(w) == InReg(fn, w) \/ Address(fn, w) >= StackPointer(fn)
ObjectsKeep == pc = "body" => \A w \in live : InFrame(w) /\ Name(Content(w)) = w

(* The caller gets back its frame pointer and every register its own code   *)
(* expects to survive a call, and control returns to it.                    *)
CalleeSaved(g) == {r \in Regs(g) : r >= T(g).ncaller} \cup {Fp, Ra}
CalleeSavedRestored ==
  pc = "returned" => \A r \in CalleeSaved(fn) : regs[r] = <<"reg", r, 0>>

(* va_arg finds the arguments the parameters do not name, each once and in *)
(* the order of the call, wherever the convention puts them: those in      *)
(* registers through the save area, the others in the caller's frame.      *)
Argument(g, p) == IF p < T(g).nargregs THEN <<"area", p, 0>> ELSE Cell(StackParam(g, p))
ArgumentsInOrder == \A i \in DOMAIN taken : taken[i] = Argument(fn, fn.nparams + i - 1)

(* No word of the caller's frame is ever written. *)
CallersFrameKept == \A a \in CallersFrame(fn) : mem[a] = CallersWord(fn, a)
=============================================================================
