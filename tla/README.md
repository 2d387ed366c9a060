# mini-asm: a TLA+ verification project

mini-asm is a compiler back end in C: it reads functions in an SSA intermediate
representation (IR), from a text file or from a builder API, optimizes them,
allocates registers and writes assembly for x86_64, x86, arm64, riscv64 or arm.
It is sequential: one thread compiles one module from beginning to end. What is
hard here is not concurrency in the compiler but the run time of what it emits:
the value of a vreg passes through intervals, registers, slots, edges, calls and
frames, each handled by a different piece of code with its own convention, and
a mistake shows only in a program that combines the right three of them.

Paths are relative to the root of the repository (`src/backend/regalloc.c` and so
on); line numbers are of the commit this project was written for.

## 1. Inventory

| Component | State it keeps | Operations | Talks to |
|---|---|---|---|
| IR containers `include/ir.h`, `src/ir/ir.c` | growing arrays of functions, blocks, instructions, strings | `ir_module_new`, `ir_add_func`, `ir_add_block`, `ir_emit`, `ir_add_string` | everybody |
| IR builder `src/ir/ir_builder.c` | current function and block, next vreg, alias array of placeholders, type cache, named types | one function per opcode, `ir_placeholder`, `ir_value_define`, `ir_builder_finalize` | containers |
| Text parser `src/ir/ir_parse.c` | symbol table of 1024, named types of 128, next vreg | `ir_parse` | containers |
| Floating-point immediates `src/ir/ir_fpimm.c` | table of 4096 doubles, count | `ir_fpimm_add`, `ir_fpimm_get` | parser, builder, selectors |
| Optimizer `src/backend/opt.c` | the function itself, an alias per vreg | eleven passes, 8 iterations of `ir_optimize_func` | called by dispatch |
| Target dispatch `src/backend/backend.c` | none | look-up; optimizes twice, then emits | optimizer, selectors |
| Live intervals, `compute_intervals` in `src/backend/regalloc.c` | interval list | three passes and the loop extension | linear scan |
| Linear scan, `regalloc_run_internal` in the same file | list, holder of each register, answer array | sort, scan, answer | selectors |
| Five selectors `src/targets/*/isel.c` | frame offsets, saved registers; at run time the machine | prologue, one case per opcode, phi copies on edges, epilogue | allocator |
| Printer, verifier, `emit.c`, `abi.c`, driver, tests | none that matters | output, I/O, process calls | |

Behaviours that are hard, and where they bite, are the `hazards` of
`PROJECT.json`. In short: eviction and expiry in the scan; intervals that grow
after calls were matched with them; phis, which use and define away from where
they stand; phi copies and argument moves, which are simultaneous in the IR and
sequential in the code; instructions that use registers of the pool behind the
allocator's back; constants folded at one width and executed at another; aliases
of aliases in the optimizer; branches that lose an edge; frames laid out once in
the allocator of offsets and again in the code that uses them; tables at their
limits. There is no persistence, no messaging and no timeout in this code, and
none in this project.

What makes each component correct:

* scan: vregs that are live together do not share a register; calls and
  floating point keep theirs; nothing is spilled without pressure;
* intervals with scan and selector: the emitted code reads, at every use, the
  value the IR has there;
* optimizer: the function does after every pass what it did before the first;
  what it promises to remove is removed;
* frames: objects do not overlap, the caller gets its registers back and its
  frame is not written;
* selectors: an instruction finds its operands wherever the allocator put them,
  leaves its result in its place and nothing else changed;
* builder: a use of a placeholder becomes what the placeholder finally stands
  for, numbers are unique, no pointer into a moved array is used;
* parser: the module says what the text says, statement by statement, whatever
  stands before and after; limits do not turn one value into another;
* the two front ends lay types out alike.

## 2. Modules

| Module | Models |
|---|---|
| `Allocation` | abstract: a call of the allocator answers with some valid allocation |
| `LinearScan` | `regalloc_run_internal`, one action per path through the scan loop |
| `Recursion` | lemmas only: induction on the naturals, iteration, the places of a finite order |
| `Intervals` | `compute_intervals` as operators over a function; no state |
| `RegAlloc` | composes the two with a lock-step run of IR and emitted x86_64 code |
| `RegAllocProofs` | the theorems of `LinearScan`, `Intervals` and `RegAlloc` |
| `Machine` | what a function of the IR computes, per the x86_64 selector; no state |
| `Opt` | `ir_optimize`, one action per pass, over functions that `Machine` runs |
| `Frame` | prologue, body and epilogue of one call on the five targets |
| `FrameProofs` | lemmas about where `Frame` places things, and its theorems, those about the arguments of `va_arg` included |
| `Asm` | what the five selectors share: operands, places, machine instructions; no state |
| `X86_64`, `X86`, `Arm64`, `Riscv`, `Arm` | what each selector prints for each instruction of the IR; no state |
| `Isel` | a machine that runs what they print for one instruction; which instructions a selector may be given, and which it gets wrong |
| `IselLemmas` | lemmas about runs of printed code, whatever the target: code put together, the forms of most cases, calls |
| `IselProofs` | the theorems of `Isel`: every case of every target |
| `IR` | operands, the table of floating-point immediates, growing arrays; no state |
| `Substitution` | abstract: uses, and what placeholders stand for |
| `Builder` | `ir_builder.c`, one action per operation of a client |
| `BuilderProofs` | the theorems of `Builder`, chains of placeholders and finalisation included |
| `TypeLayout` | sizes and layouts, as parser and builder each compute them; no state |
| `Parser` | `ir_parse.c`, one action per construct of the text |
| `Language` | the files `Parser` is for: which statements there are and what each means; no state |
| `ParserLemmas` | lemmas about words, operands, types, and what each kind of statement does to the parser's invariant |
| `ParserProofs` | the theorems of `Parser` |
| `MCLinearScan`, `MCRegAlloc`, `MCOpt`, `MCFrame`, `MCIsel`, `MCBuilder`, `MCParser` | the inputs of the TLC runs |

`PROJECT.json` maps every definition to the lines it stands for. No module
declares a RECURSIVE operator: loops of the code are recursive functions over a
bounded domain or folds, so that theorems can be stated about any of the modules.
Definitions marked *variant* are a definition with one plausible slip; the
mutation runs put them in place of the definition that follows them, to show
that a property notices.

### LinearScan

`iv`, `n` are the list `L`; the scan reads it and writes one field, `assigned`, which is
a variable of its own. `reg_holder`, `k` (the loop index), the two counters and `reg_of`
are the locals of the same names; `reg_free_until` is written and never read. `Sort` is
`qsort`: any permutation ordered by start, since qsort is not stable. `SpillForced`,
`TakeFree`, `EvictFurthest` and `SpillSelf` are the four ways through the loop body,
each with the expiry loop at its head. `BuildAnswer` is the loop after the scan,
`Bypass` the CC_NO_REGALLOC path. That the loop ends needs no property: it counts to
`n`, and the loops in its body to `n` and to the size of the pool.

### Intervals and RegAlloc

An instruction is reduced to what the allocator looks at: class, destination, arguments,
labels. `Start`, `FirstEnd` are the results of passes 1 and 2, `CrossesCall` and
`ForceSpill` of pass 3, `FinalEnd` of the loop extension. `RegAlloc` allocates such a
function with the actions of `LinearScan`, then runs it: `env` is the IR's value of each
vreg, `mach` what the registers of the pool and the slots hold. Each selector case is an
action that reads its operands where `vop_str` puts them, destroys what the code
destroys (`Call` the caller-saved registers, `Memcpy` %rdi and %rsi, `VaArg` %rbx, `Alu`
its destination before the second operand is read) and writes its result; `Branch`
performs the copies of the edge one by one while `env` takes them at once. `misread`
records that a read has found another value than the IR's. Immediates are values too,
integers and floating point apart (`NoVreg`, `FpImm`): `op_str` prints a floating-point
one as $0, `ret` and `va_arg` take its index for a vreg, and the copies of an edge pass
over it, so that the phi keeps what its place held. A value is the vreg whose definition
made it and one bit that tells two consecutive instances apart, so that a stale value of
an earlier iteration is seen.

`IsFunction` says how builder and parser leave a function: a block opens with its phis
and ends with its only terminator, the entry has no phi, a phi names each block that may
precede its own, and a vreg in a phi is a parameter or stands in some other instruction
too (`Numbered`), since pass 2 does not raise `maxv`. It is an assumption about
`Programs`, and nothing else is. `Sound` is the condition under which the emitted code
is right, stated of the function alone: it is in strict SSA form (`InStrictSSA`); a vreg
that lives across a call met it before the loop extension (`CallsMarked`); no vreg that
lives across a `memcpy` or a `va_arg`, nor the second pointer of a `memcpy`, can be in a
register the instruction uses for itself (`PoolUndisturbed`); no copy of an edge
overwrites what a later one reads (`CopiesApart`); and floating-point immediates stand
in floating-point operations only, while `va_arg` takes a vreg (`ImmediatesRead`). The
families of `MCRegAlloc` that pass are the functions of a menu that are `Sound`; those
of the violation runs are all functions in SSA form.

### Machine and Opt

`Machine` gives each operation the meaning the emitted x86_64 code gives it, on
words of W64 bits with W8 and W32 below it: `canon()` acts on %rax only, so
arithmetic keeps its high bits; conversions take the low byte; division faults.
Memory is counted in cells, an alloca having its own; `gep` and `gep_field` compute
addresses, `memcpy` copies cells. Floating point is opaque: `Float` tells operations and
operands apart and no pass knows more about it.
`Outcome` is what a caller and the callees can see: the result and the calls with
their arguments. `Opt` keeps the function in `f` and has one action per call in
`ir_optimize_func`, in that order, for `Iterations` times `Rounds`; `alias` holds the
notes, -1 to -3 being the marks of the code. `expected` remembers the outcome
before the first pass, `before` the function at the start of the iteration.
Types carry the identity of their `IRType` object, because the passes compare
pointers.

### Frame

Memory is words, and a word holds the name of what was put there: a caller's
word, an entry value of a register, a vreg, a word of an alloca, of the va_list
or of the register save area. `Target` is the table of conventions of the five
targets; `Base`, `Pred`, `FrameSize` are `assign_allocas` and the lines around its
call; `SavedAt` and `RestoredFrom` are the addresses the prologue saves to and the
epilogue loads from, kept apart because the code computes them twice. The body
writes vregs, objects and the va_list in any order, any number of times. The last
component of a name is a content where a later instruction looks at it: the
words of a va_list hold its fields (offsets and addresses, `ListX86_64` and its
siblings, in the order each target stores them), `ListVreg` the address of the list. `VaArg`
loads the fields from memory, chooses between the save area and the
caller's frame as its target does (`TakeX86_64`, ...), steps the field on and appends
what it found to `taken`. The prologue writes four sequences of stores in the order
of its target (`LinkStores`, `RegStores`, `ParamStores`, `AreaStores`); `Written` is memory
after such a sequence. `WellFormed` says which functions there are: vregs below
`ParamBase`, one register for one vreg, and operands of `va_start` and `va_arg` in registers
where the code would otherwise print no operand. `ObjectsApart`, `SavesKept` and
`ListStartsRight` say what each target gets right; the runs and the theorems
share them.

### Isel and the modules of the targets

The module of a target gives, for an instruction of the IR whose operands and result
have been put in registers, in slots or are constants, the sequence of machine
instructions the case of `emit` prints: `Code(in)`. A machine instruction is of five
kinds (`Asm`): an operation on places, an effect outside the frame, a push, a move of
sp, a call; `Isel` has one action for each. Registers and words of the stack hold terms
over the values the vregs had at first (`<<"vreg", 1>>`, `<<"sub", ...>>`), and what no
vreg of the instruction occupies holds a term that names the place. A value read from a
register that was overwritten, from a slot after sp moved, or from a scratch register
nobody loaded, is then another term. What the instruction means is stated over the same
terms: `MeantResult`, `MeantEffects`. `IsInstruction` says what a selector may be given:
the operands each opcode takes, in places the allocator gives (the contract of
`Allocation`: a result shares no place with an operand, what a call works with is in no
register it loses, floating point is in memory), and no more arguments than the modelled
stack has room for; `CasesAssumption` asks it of the constant `Cases`, and TLC evaluates
it on every instruction of `MCIsel`. `Wrong` are the instructions a selector gets wrong,
the hypothesis of the theorems. Slots are below the frame pointer on x86_64 and x86, and
above sp on the others, so that a push moves them away. `Refused` stands for text the
assembler does not accept.

### Builder and Substitution

A client calls the operations of `ir_builder.h` in any order the header allows: it
passes constants, parameters (`Arguments`: `ir_arg` gives vreg 1000+i without asking
anybody) and values it got since the last `ir_builder_func` (`Vregs` are the last two
together), defines a placeholder once and not in terms of itself. `funcs` is the module,
reduced to destinations and operands, since no operation of the builder looks at the
rest. `array` is the array of functions with its capacity and the number of its moves;
`cur_func` is a pointer into it, and dangles when the array has moved since it was
taken. `alias` is the four alias arrays, growing by doubling (`Doubled` holds the sizes
on the way). `Hops` are the vregs the loop of `resolve_vreg` passes, up to `MaxHops` of
them, and `ResolveVreg` what it returns. An operand with a floating-point constant takes
the next index of the table: `FpCount` says which of an instruction's it is, `FpsOf`
lists them. Operations that emit alike are one action (`Unary` is all of `emit1`).
`Substitution` says what all this is for: uses of a function are values, and `Rewrite`
replaces each by what it finally stands for. Its `uses` are mapped to what the operands
of the builder denote, floating-point constants looked up in the table, so that a table
entry that changes later is a changed use.

### Parser and TypeLayout

The text is a sequence of words, as `word()` returns them. Everything reading
changes is one record `r`: the rest of the words, the symbol table, the next number,
the table of immediates and the operands read. `Operand` is `parse_operand`; each
action of `Next` is a pass of the loop of `parse()` and consumes the words of its
construct. `LookupPred` turns the predicate of a comparison into its number, a name it does
not know into 0. The text also carries, statement by statement, what it means (`means`,
in the syntax of README "Writing IR" and of `tests/*.ir`, with types laid out as the
builder would), which the actions do not read and the properties compare with.
`TypeLayout` has the two layouts side by side: `ParserStruct`, `BuilderStruct`.

`Language` says for which texts that meaning is the right one. `Conforms(t)` is a
condition on the file alone, statement by statement: its form and its `means`
(`TypeDefined`, `FuncHeaded`, `BlockNamed`, `Instructed`, `Ignored`), where it stands
(`Outside`, `InBlock`), and how many vregs its function names (`Countable`). What a
predicate means is its value in `include/ir.h` (`Predicate`), stated there apart from
the parser's tables of names. `Conforms` is the hypothesis of the theorems about
`Parser`; TLC evaluates it on every text of `MCParser` (`TextsConform`).

## 3. Runs

Passing runs:

| Run | Question | Size |
|---|---|---|
| `linear_scan` | Does the scan implement `Allocation`, spill only under pressure, and keep each part of the pool filled from its beginning? | every list of 4 intervals over positions 0..2, with and without calls and forced spills, 3 registers of which 1 caller-saved: 239,000 states |
| `regalloc` | Does the emitted code read what the IR has? | the 6,750 sound functions that fill 6 control-flow shapes from five menus, 2 registers: 399,000 states |
| `opt` | Does every pass keep what the function does, and do the passes deliver what is promised and come to an end? | some 3,800 straight-line functions, 486 with branches and loops, 2,400 of stores, loads and calls, 2,100 of pointers and copies, 140 of the other instructions, 3 inputs each: 296,000 states |
| `frame` | Do objects, caller and registers survive a call? | 283 functions on 5 targets: 69,000 states |
| `va_list` | Does `va_arg` find the unnamed arguments, each once and in order? | 68 variadic functions on 5 targets: 42,000 states |
| `isel` | Is each instruction printed so that it works, wherever its operands are? | 7,250 instructions on 5 targets: 35,000 states |
| `builder` | Does finalisation do what placeholders promise, in every order of calls? | 2 functions of a parameter, 2 instructions, 2 placeholders: 467,000 states |
| `parser` | Does the module say what the text says? | every two of 30 forms of statement after each other, two functions, a comparison by each predicate: 34,000 states |

Bounds and why they are enough:

* `linear_scan`: four intervals are one more than the registers, so that there
  are evictions from a full pool, evictions from the callee-saved part while
  the other has room, spills of the newcomer and expiry followed by reuse; three
  positions give every relation two intervals can have (before, touching,
  nested, equal). The theorems cover all sizes.
* `regalloc`: `PoolSize` 2 with one caller-saved register makes pressure with three live
  vregs. The shapes are straight line, diamond, loop, loop whose exit stands before its
  body in the layout, nested loops, and blocks laid out against the order of control.
  The menus have plain instructions and calls, parameters, floating point and its
  immediates, one phi, two phis of a block, and `memcpy` and `va_arg`; `Sound` rejects
  only functions in which one of the violations below may happen, so calls within loops,
  two phis of a block and a `memcpy` are among those that run. `ParamBase` is 5 instead
  of 1000.
* `opt`: words of 3, 4 and 8 bits for 8, 32 and 64, two iterations in each of two
  rounds (8 and 2 in the code), at most three sweeps of constant folding (16).
  Two operations in sequence let each pass feed every other; the third round
  finds nothing more, which `Settled` checks. `Fuel` bounds a run; loops end well
  below it. Of the pointers into the two objects, two are equal whatever the input
  or, made by a `gep` whose index is the parameter, on one input only.
* `frame`: three local vregs, parameters in registers and two more than fit,
  lists of up to two objects of one to three words, up to three registers in
  use; `Above` watches 6 words of the caller past the parameters, `Below` 4 past the stack pointer.
  `ParamBase` is 4.
* `va_list`: none, one, all but one and all of the argument registers are named, and
  up to three arguments taken, so that a function takes the first register, the
  last one and words of the stack, and restarts its list at any point; `Define` and
  `StoreObject` write everything else in between.
* `isel`: three slots hold two operands and a result; calls have two arguments, three,
  and one and two more than the registers take, so that the stack has an odd and an
  even number of them. Four registers of a pool, two of each part, are enough for
  operands in every combination of places; argument registers that are in the
  pool are among them. `Depth` is the words below sp.
* `builder`: `AliasCap` 1 and `FuncCap` 1 (1024 and 8 in the code) make both grow,
  `MaxHops` 2 (32) is as long as the longest chain of two placeholders, `FpMax` 4 (4096)
  and `ParamBase` 3 are just enough for what two instructions and their finalisation
  store, `MaxCallArgs` 1 (16) makes the builder drop an argument. One parameter
  (`MaxParams`) is enough, since nothing tells two apart; two floating-point constants
  are needed, for an entry of the table that is overwritten to be seen. Of integers only
  the sizes of `alloca` and `memcpy` are used: they are kept in the instruction and wait
  nowhere. With `Ints = {15}`, the largest of `IntBits` 5 (32), the run passes too and
  takes longer; the theorems are about all that fit.
* `parser`: two statements of every form after each other are what matters, since
  a statement may leave a word behind or take one of its neighbour; `SymMax`, `TypeMax`,
  `FieldMax` 3, `MaxCallArgs` 2 and `FpMax` 4 are reached and not exceeded. Every text
  `Conforms`, so the theorems are about each of them, and about all others that do.

What the passing runs leave out, because the code gets it wrong there, is the
subject of the runs that end in a violation:

| Run | What it shows |
|---|---|
| `regalloc_call_in_loop` | Calls are matched with intervals before the loop extension lengthens them; a vreg carried round a loop above a call sits in a register the call destroys. |
| `regalloc_two_phis` | The copies of an edge are sequential; a phi that reads another phi of its block gets the new value. |
| `opt_ext` | `zext(zext x)` is replaced by `x`. |
| `frame_x86_64` | %rbx is used and not saved; the others are saved under the wrong name. |

The constants of the configurations reach more of the same kind that has no run
of its own:

| In a copy of | with | fails | because |
|---|---|---|---|
| `regalloc.cfg` | `Families = {"memcpy"}` | `ReadsAgree` | `memcpy` destroys %rdi and %rsi, which are in the pool |
| `regalloc.cfg` | `Families = {"va_arg"}` | `ReadsAgree` | `va_arg` goes through %rbx |
| `regalloc.cfg` | `Families = {"fp_phi"}` | `ReadsAgree` | `emit_phi_copies_for_edge` copies nothing for a floating-point immediate (`x86_64/isel.c:121-123`, the other targets alike), and the phi keeps what was in its place |
| `regalloc.cfg` | `Families = {"fp_arg"}` | `ReadsAgree` | a floating-point immediate is $0 to all but floating-point operations (`x86_64/isel.c:41-44`), and `ret` takes its index for a vreg (`:250-256`) |
| `opt_ext.cfg` | `Families = {"sign_bit"}` | `SameBehaviour` | `lshr` is folded on 64 bits |
| `opt_ext.cfg` | `Families = {"two_variadic"}` | `SameBehaviour` | two `va_arg` of one list and one type are a common subexpression; only the parser's unshared types hide it |
| `opt_ext.cfg` | `Families = {"narrow_store"}` | `SameBehaviour` | a load gets the stored value with the bits the store has cut off |
| `opt_ext.cfg` | `Families = {"unused_variadic"}`, `SharedTypes = FALSE` | `SameBehaviour` | an unused `va_arg` is removed although it advances the list |
| `opt_ext.cfg` | `Families = {"late_constant"}`, `SharedTypes = FALSE`, `Fuel = 40` | `AliasNamesVreg` | `add 0, c` that folding left makes the immediate `c` an alias, and `c` is then read as a vreg |
| `opt_ext.cfg` | `Families = {"repeat"}`, `SharedTypes = FALSE` | `NoCommonSubexpr` | types are compared as pointers, and the parser makes one for every instruction |
| `opt_ext.cfg` | `Families = {"reloads"}`, `Fuel = 50` | `Settled` | seventeen loads after a store need seventeen iterations and there are sixteen, although README.md:39-46 says that all passes run to a fixpoint |
| `frame_x86_64.cfg` | `Targets = {"riscv"}`, `Savers = {}`, `Allocas = {"riscv"}` | `CallersFrameKept` | the address of an alloca is the end of its region, and the last one lies in the caller's frame; arm64 and arm do the same |
| `frame_x86_64.cfg` | `arm64` in `Targets` and `Savers` | `CalleeSavedRestored` | the same indices as on x86_64 |
| `frame_x86_64.cfg` | `arm` in `Targets`, `Savers` and `Variadic` | `CalleeSavedRestored` | the register save area has an offset and no space |
| `va_list.cfg` | `StackTakers = {"arm64"}`, `Functions <- MCFunctions` | `ArgumentsInOrder` | `__stack` is x29 + 24, the word after the one the comment at `arm64/isel.c:545` names, so the first argument on the stack is skipped |
| `isel.cfg` | `Cases <- GepCases` | `ResultArrives` | the index of a gep is not loaded from a register on arm64, riscv and arm |
| `parser.cfg` | `Texts <- GepTexts` | `StatementsKept` | the word after the operands of a gep is swallowed when it is not `field` |
| `builder.cfg` | `Ints = {16}` | `ImplementsSubstitution` | constants of 64 bits are kept in an int |

`Wrong` of `Isel` lists, one line each, what `isel` leaves out; it is exact in that
each line removed makes a property of the run fail:

* `gep` on x86_64 prints `leaq (r10,r11,4)` without the % of the registers;
* `gep` on arm64, riscv and arm takes no index from a register;
* `memcpy` destroys %rdi and %rsi, %edi and %esi, t2, which are in the pools;
* `va_arg` destroys %rbx on x86_64; `va_start` and `va_arg` name a register where the
  vreg may be in a slot on arm64, riscv and arm;
* calls with arguments on the stack move sp before they read spilled operands
  relative to it on arm64, riscv and arm, and arm64 stores them 16 bytes apart while the
  callee reads them 8 apart, although README.md:37 promises 16 arguments;
* `fcmp` ignores its predicate on riscv and arm, and the last two on arm64.

Differences between text and code that need no model, noted while reading: `fneg` and
`unreachable` are in no row of the parser's table of opcodes (README.md:32, :36); the
field form is written `gep T p i field`, not `gep_field`; `type Name = T[N]` without a
blank before the bracket is one word; `select` reads two operands; the text's `alloca
f64` reserves 4 bytes; a field of type i1 is aligned to 1 by the parser and to 4 by the
builder; the element size of an array of arrays is 4 in the parser; names past the
symbol table are vreg 0 and types past their table are dropped; a predicate outside
README.md:181-184 is `eq` or `oeq` without a word, so that `fcmp f64 une` asks whether
two numbers are equal; `%0` may be the number of a name that was read before it. The
labels of `va_arg` are numbered by position and vreg, so two variadic functions of a
module that begin alike define the same label.

So the passing runs hold under these conditions, visible in the families of the MC
modules and the constants of the configurations: functions that are `Sound`
(`RegAlloc`), no floating-point immediate in a phi, a `ret` or an integer instruction
among them; constants that fit an int when folded, no two `va_arg` of one type, no store
of a value wider than its type, no chain of extensions, types shared as the builder
shares them; functions for which `ObjectsApart` and `SavesKept` hold, or in `va_list`
`ObjectsApart` and `ListStartsRight`: on x86_64 and arm64 no callee-saved registers, on
arm64, riscv and arm no allocas, on arm no variadic functions, but in `va_list` those
whose list is all that is looked at; arguments taken from the stack except on arm64,
named parameters on the stack of a variadic function only on x86; none of the
instructions of `Wrong`; clients that keep the rules of `ir_builder.h`, with constants
that fit an int; texts that keep within the limits, compare by the predicates of
README.md, name vregs or number them and do not mix, and end an element gep with a word.

### Fairness

Only `opt` checks liveness: `Terminates` says that dead code elimination, which sweeps until
a sweep removes nothing and has no bound on the sweeps, comes to an end. It is under weak
fairness of the two actions that sweep, `RemoveDead` and `RemoveDeadAgain`: a pass is a function
called by the one thread there is, which runs until it returns. Nothing else in the
code waits. Deadlock checking is off in every run, because every model stops
where its function returns.

## 4. Theorems

`RegAllocProofs` proves of the scan, for every pool size, every split of the pool and every
set of well-formed interval lists (`PoolAssumption`, `InputsAssumption`: no vreg has
two intervals, no interval is empty, and `nvregs` is above every vreg of the list,
which is what `find_iv`, `add_iv`, the touch that follows it and `maxv` ensure and
what `ListIs` proves of `ComputeIntervals`):

| Theorem | Statement |
|---|---|
| `TypeCorrect` | the type invariant |
| `NoSharing` | intervals that overlap never share a register |
| `PoolsRespected` | what crosses a call gets no caller-saved register, a forced spill gets none |
| `Implements` | the scan implements `Allocation` |
| `PrefixUsed` | the registers in use are a prefix of each part of the pool |
| `Handover` | a register changes hands only to an interval that ends sooner |
| `Pressure` | an interval goes to memory only where more candidates are live than the pool of one of them has registers |

The argument. `NoSharedRegister` is not inductive: the scan compares an interval
only with the present holder of a register, so one must know what becomes of
former holders. The inductive invariant `IInv` adds that the list is sorted and
has no vreg twice; that intervals from `k` on are undecided; that whoever holds a
register is an interval before `k` that is assigned to it (`HoldersAssigned`);
and that an interval that has a register without holding it any more ended
before every interval still to come starts (`RetiredAreOver`). The last is what expiry
with a strict `<` and sorting by start give, and what an eviction keeps because it
takes the register from its victim for the victim's whole life. Lemma
`AtIteration` states what the expiry loop leaves; each action then has a lemma
that it preserves `IInv`; `Invariance` combines them. `PrefixUsed` has an inductive
invariant of its own on top of `IInv`. `Implements` maps the variables `intervals`
and `decided` of `Allocation` to the set of the list and to `pc = "done"`: `Sort`
permutes the list and so stutters, `Bypass` and `BuildAnswer` are its one step.
`Pressure` counts: when interval `k` finds no free register, `IInv` gives each
register of its pool a holder that is live where `k` starts; a holder has one
register, so choosing one per register is an injection into the candidates other
than `k` (`FullPool`), and `k` makes them one too many. That `k` itself is live
there is where an empty interval would break it. The step holds for an eviction too,
whose victim is live where `k` starts because expiry left it in place.

`PrefixUsed` matters outside the scan: `x86/isel.c` saves registers by rank and
restores them by index, and `MCFrame` generates only allocations of that form.

### The allocator and the emitted code

`RegAllocProofs` also proves, for every pool, every split of it and every function that
`IsFunction` (`ParamBaseAssumption`, `ProgramsAssumption`: any number of blocks,
instructions, vregs and parameters, any control flow in any layout):

| Theorem | Statement |
|---|---|
| `ListIs` | `compute_intervals` answers with a list the scan may be given, one interval for each vreg |
| `DeadPastEnd` | past the end of its interval no execution reads a vreg before it is defined again |
| `ExecTypes` | the list stays well-formed, values stay in registers and slots that exist |
| `ReadsAreRight` | where the function is `Sound`, the code never reads a value other than the IR's, whichever allocation the scan has chosen |

`ReadsAreRight` says `[](Sound(fn) => ReadsAgree)`: its hypothesis is of the function, not
of a state of the run, and each of the last four parts of `Sound` is where a
violation run, or a copy of `regalloc.cfg` above, finds the code wrong without it.
Being sufficient is what is proved; a function that is not `Sound` may still be compiled
correctly by the luck of an allocation.

The argument. `ReadsAgree` speaks of reads, and must be strengthened to what waits to be
read. `InStep` says that a vreg that is available (defined on every path here) and not
dead (some path may read it before it is defined again) has the IR's value where
`vop_str` looks for it. Each definition must then not disturb any of those. It does not
if the two intervals overlap, for the contract of `Allocation`, which `AnswerIsValid`
gives at the end of the scan, keeps such vregs in different registers. They overlap for
two reasons. What is not dead is not past the end of its interval: that is
`DeadPastEnd`, whose witness is the set of blocks that start past that end; control
cannot leave it to the front because the loop extension, taken in layout order, has
lengthened the interval to the end of each block from which a back edge reaches into it
(`ReachesBack`). And what is available began before the present position (`Met`), or,
after a jump backwards, before the end of every interval that has not ended; that part
is an invariant because a static reading of it would need induction over paths.
`ResultApart` puts the two together. `Met` and `InStep` hold before an instruction by
`RInv`, and each action has a lemma that they hold after it: `AluKeeps` must also look
at the moment between the two reads, `CallKeeps` uses `CallsMarked` and the half of the
contract about calls, `FpKeeps` that a forced spill has no register, `MemcpyKeeps` and
`VaArgKeeps` use `PoolUndisturbed`. An edge performs any number of copies: `CopiesKeep`
shows by induction on their number that those made hold the phis' new values and that
what is still to be read, by a copy or by the block, is as before, while `env` takes all
of them at once (`PhiValuesAre`). `ListIs` starts the run with a list of the kind the
scan's theorems are about, so that its `IInv` is part of `RInv`, and the sort keeps the
set of the intervals (`ListKept`). The loop extension itself is a recursive function
over the blocks; what it computes is `EndsAre` and `FinalEndIs`, by induction on the
number of blocks done.

### The frame

`FrameProofs` proves, for every function that is `WellFormed`
(`FrameAssumption`: any number of vregs and parameters, any list of allocas of any
sizes, any assignment of registers) and every number of watched words:

| Theorem | Statement |
|---|---|
| `ObjectsAreKept` | where `ObjectsApart`, what is put in a vreg, an alloca, the list or the save area stays there, and none of it is below the stack pointer |
| `CallersFrameIsKept` | where `ObjectsApart`, no word of the caller's frame is written |
| `CalleeSavedAreRestored` | where also `SavesKept`, the caller gets back its callee-saved registers and its frame pointer, and control returns to it |
| `FrameTypes` | there too, types are kept and no register is loaded from a word nobody wrote |
| `ArgumentsAreInOrder` | where `ObjectsApart` and `ListStartsRight`, each `va_arg` finds the next argument the parameters do not name |

The conditions are the ones at which `frame_x86_64` and the copies of the
configurations above find the code wrong; every function the passing runs
look at meets them, and so do all functions on x86 that use a prefix of the
pool, which is what `PrefixUsed` gives them.

The argument has a static part and a dynamic one. The first half of the module shows that the
sums of the rounded sizes only grow (`SumsGrow`, by induction on the list of
allocas), that the slots, the list, the save area and each alloca occupy
bands that follow one another (`DownBands` where addresses go down from the frame
pointer, `UpBands` where they go up from the stack pointer), hence that two words
of a frame never have one address (`WordsApart`), that none is an address where the
prologue saved something (`SavedApart`), and that all are between the stack pointer
and the caller. The dynamic part needs an invariant because the properties
speak about the end: `CalleeSavedRestored` constrains nothing before the return.
`IInv` says what the body keeps: every word that was written holds its name
(`Sound`), `ListVreg` points to the list (`ListKnown`), the words the epilogue will
load hold what the caller had in those registers, and those it will not load
are untouched (`SavesHeld`). `PrologueWrites` establishes it from the four sequences
of stores, `PutHolds` is the one lemma behind all writes of the body, and each
action has its own lemma. `Found` adds for `va_arg` that the fields of the list
denote argument number `nparams + Len(taken)`, be that in the save area or in the
caller's frame (`AtArgument`); it is stated per target, because each keeps another
set of fields, and `TakesNext` shows that one step of each moves on by one argument,
also from the last register to the first word of the stack.

### The builder

`BuilderProofs` proves, for every capacity of the tables
and every bound (`BuilderAssumption`, `IRAssumption`: sizes are natural numbers, and
capacities are not zero):

| Theorem | Statement |
|---|---|
| `BuilderTypes` | operands name vregs given out for their function, parameters `ir_arg` gives (`Taken`), or entries of the table; aliases are what a client passed; every placeholder has an entry in the alias tables |
| `FunctionIsThere` | `cur_func` never dangles, however often the array of functions moves |
| `NumbersAreApart` | no vreg is defined by two instructions, and a placeholder by none |
| `NoChainIsACycle` | aliases never form a cycle |
| `NoneIsMentioned` | with `FewPlaceholders`, a finalised function mentions no placeholder that is defined |
| `FinalizationIsIdempotent` | with `FewPlaceholders`, finalising again changes no use |
| `BuilderImplementsSubstitution` | with `FewPlaceholders`, `FpFits` and `ConstantsFit`, the builder implements `Substitution` |

The three hypotheses are the limits of the code, and each is stated of the run, as
`[]FewPlaceholders` and `[]FpFits`, not of a state that the proof picks: a function has no
more placeholders than `resolve_vreg` follows aliases (32), the table of immediates
is not full (4096), a client's constants fit an int. Past each the property is
false: `MaxHops = 1`, `FpMax = 1` or `Ints = {16}` in `builder.cfg` each make a property fail.

`BuilderInvariance` is the inductive invariant behind the first three. `TypeOK` says
nothing of functions that are no longer current, of destinations
or of the insertion block; `IInv` says that the current function is the last one and
the pointer is of the present generation (`Pointers`), that placeholders are below
`next_vreg` (`PlaceholdersAre`), that operands of finished functions are below
`ParamBase` or parameters (`OperandsAreSound`), and that a destination is below `next_vreg`, apart
from the others and no placeholder (`DefinersApart`), without which the next number
could not be shown new. All operations append instructions whose operands are
sound and whose destinations are the next numbers: `OperationAppends` shows that once
for each, `EmitKeeps` uses it for all.

What finalisation does rests on chains. A client may define placeholders in any order,
so the length of a chain is not bounded by what one step looks at. `Chains` says that
there are a set S[v] of placeholders and a value E[v] for every number v such that a
known v has S[v] equal to the chain of its alias with v added, v not being there before,
and the same end. `Define` keeps it because its guard, which looks `MaxPlaceholders`
aliases far, sees the whole chain: each hop takes one element off a set that has at most
that many (`FollowerEnds`). A parameter ends a chain: its number is above every
placeholder's. The same lemma gives what `resolve_vreg` returns after `MaxHops` hops
(`ResolveIs`) and what `Final` of `Substitution` means (`FinalIs`); with
`FewPlaceholders` all three are E[v], so that a finalised operand is not known
(`Finished`) and denotes what was promised. `Stored` adds that every entry of the table
holds a client's constant. The steps of the refinement: `Func` is `Begin`, an operation
that emits is `Give`, `Define` is `Define`, `Finalize` is `Rewrite`, and `Block`,
`SetInsert` and `Placeholder` stutter. In `Rewrite` the order in which operands are
visited matters, for each constant takes the next index; `Numbering` of module
`Recursion` shows that counting the operands that do not come later is a bijection to
1..n.

### The parser

`ParserProofs` proves, for every file that `Conforms` and every size of the tables
(`ParserAssumption`, `IRAssumption`: sizes are natural numbers):

| Theorem | Statement |
|---|---|
| `InvHolds` | the parser stands between two statements and has built what those before it say |
| `TypesKept` | indices stay within what was built, tables within their limits, constants in their table |
| `NumbersApart` | vregs written differently get different numbers, none of them a parameter's |
| `LayoutsRead` | the types are laid out as the builder lays them out |
| `StatementsRead` | the function being read has the instructions its statements mean, predicates by number included, as long as the immediates fit their table |

`Conforms` is a condition on the file and on nothing the parser does. Each part of it
that is not the language itself is a place where the code departs from it: the table of
symbols is not full, and a function has no more names than `PARAM_BASE` (the table holds
1024, the numbers of parameters begin at 1000); names and numbers are not mixed in one
function; types, fields of a structure and arguments of a call keep within their limits;
constants fit an int; a comparison names a predicate of README.md for its opcode (the
parser reads any other as 0); an element `gep` is followed by the word the code
swallows; `alloca f64` has its size written out, no array is of arrays, and no field is
an i1. `r.fp.n <= FpMax` in the last theorem is of the run, since full tables change
only what constants mean.

The argument. `StatementsKept` looks at the current function only and only between
statements, and is not inductive: a statement that left a word behind would spoil the
next. The invariant `Inv` says, of a file that conforms, that there is a number j of
statements such that the words still to come are exactly those of the statements after
j, and that everything the parser keeps is what the first j mean (`Standing`): the
symbol table holds each name read once and is within its limit (`Fine`), types and
strings are those of the first j statements, functions are well-formed (`Built`), the
current function and block are those the headings say (`Scope`), and its code tells what
its statements mean (`Coded`). One state is not of that form: after a structure whose
fields fill their table, `parse()` is back in its loop with the brace still to be read
(`Closing`), and the next pass drops it. Each action reads one statement, and its lemma
(`ArithStep`, ..., `TypeStructStep`, `FuncStep`, `BlockStep`) shows it: `Begins` gives
the words in front of it, `Taking` follows the cursor word by word (`TakingOperand` for
`parse_operand`, `ReadsTwo` where a comma may stand between two), so that the cursor
ends exactly at the end of the statement (`WentBy`), and what was emitted is what
`Instructed` says; `PredicatesRead` compares the parser's names of predicates with their
values in `include/ir.h`. Lists of any length, the arguments of a call, the fields of a
structure and the parameters of a function, are inductions on the words read
(`ReadingAll`, `ListUpTo`). `EveryStep` combines them; a statement the parser knows
nothing of is passed over word by word. Symbols only accumulate (`Extends`), which keeps
operands read earlier true (`TellsStays`). `Inv` says that there is such a j, the
properties name it by counting words (`ReadUpTo`); the words still to come decrease
strictly with j (`Decreasing`), so that they are the same one (`WhereRead`).

### The selectors

`IselProofs` proves, for each of the five targets and every instruction that
`IsInstruction` and is not `Wrong` (`BoundsAssumption`, `CasesAssumption`: any number of
slots and of words below sp, any constants, every register of the pool, any number of
arguments of a call):

| Theorem | Statement |
|---|---|
| `PromiseHolds` | what is left of the code takes the machine, through states that are sane, to one where the instruction has been carried out |
| `MachineSane` | only registers the target has and words the stack has are named, and sp stays among the words |
| `ResultRight` | the place of the result holds what the instruction means, over the values its operands had at first |
| `OthersRight` | no other vreg changes, but for the registers a call loses |
| `WorldRight` | memory, the callee and the caller see what the instruction says, each argument of a call in its place |
| `StackRight` | sp is back where it was |

Each reads `[](~Wrong(target, in) => P)`, P being the property of the run `isel`. The
hypothesis is of the instruction, not of a state, and each line of `Wrong` is one at which
a property fails, as said above.

The argument. All properties but the types speak of the end, where `code` is empty, and
constrain nothing before. The invariant `IInv` therefore says what the code that is left
will do: `Runs(t, c, m, n)` is that code `c` takes the machine from `m` to `n` and
through sane states only, and `Promise` that the code left runs from the present state
to one that is `Good`, which is the four properties in one. That it survives a step is
the same for all instructions (`RunsHead`, `NextIsStep`). That it holds at first,
`Handled`, is what has to be shown of each case of each `emit`: `Compiled(t, i,
CodeFor(t, i))`, that the code runs from `Entry` to a state that is `Good`. Code is put
together with `\o`, and so are runs (`RunsThen`). While a case works, the machine is
`Intact`: every vreg but the result is where it was. `Loads` and `Sets` say what moving
an operand and one operation do to an intact machine; only registers that are
`Writable`, which hold no vreg or the result, may be written. `ComputesOne`,
`ComputesTwo`, `HasResult`, `TellsOne`, ... are the forms most cases have, whatever the
target; `X64Integers`, `X64Floating`, `X64Others`, `X64Calls` and their siblings go
through the cases of each. Where a case writes its destination before it has read the
second operand, what keeps it right is that the two share no place (`OperandVal`).

A call has any number of arguments, and pushing them or filling the room for them is a
recursive function over their number; an induction shows that after k of them the words
above sp hold the last k (`CallingPushes`), on riscv those stored so far
(`CallingPuts`), and that what is still to be read can be (`Readable`): always from
registers and constants, from a slot only while sp stands where it stood, or where slots
are found from the frame pointer. The same induction over the argument registers is
`CallingArgs`. `CallTail` puts together the call, the way back of sp and the result: the
callee sees the registers followed by the words from sp up, which is the list of the
arguments (`CallSees`). What is said of any target is in `IselLemmas`.

### What is only model-checked

All of `Opt`, its liveness property included. Out of the
prover's reach are liveness and ENABLED, and induction theorems that take an operator as
a parameter. Induction itself is not: `Recursion` derives it for sets of natural
numbers from the well-founded orders of the library, and that is how the doubling of
the tables, the sums of allocas, the hops along a chain, the loop extension and the
copies of an edge are treated, all recursive functions over a bounded domain. `Opt`
compares what a program does before and after a pass, where `RegAlloc` compares
two runs that are in step; a proof would have to relate, for each of eleven passes,
whole executions of every program, and Opt's constant folding is a fold over the
instructions whose meaning depends on the words of `Machine`. What the selectors do with the
instructions that are `Wrong` is no theorem either: TLC shows the properties to fail there.

## 5. Not modelled

How characters become words and strings their bytes; text formatting of assembly and IR,
files, the command line and the calls of assembler and linker; floating-point arithmetic
(floating point appears as operations on places, or as an opaque function); 8-byte
floating-point values in the 4-byte slots of x86 and arm; the widths of types below a
register outside x86_64 (`Machine` has them); integer instructions with a floating-point
immediate on other targets than x86_64 (`RegAlloc` has them there); `__aeabi_idivmod`
and the sign of its remainder. The counter `nassigned`, which counts the victims of
evictions too, is kept in the model but no property speaks about it, since it is only
printed. The builder's caches of scalar types and named types return what was put in and
are left out. Some corners that only programs outside the language reach are not
followed: a negative field index of `gep`, which reads before `offsets`
(`ir_parse.c:584`; the model has offset 0), and the size of an array beyond 32 bits
(`:299`). An alloca of size 0 or less takes 4 bytes (`x86_64/isel.c:167`), like one of 1
to 4: in `Frame` it is an alloca of that size. `ir_verify` accepts every module and
`abi.c`, `asm.c` hold no code.

## 6. Plan

1. done: `LinearScan` with `Allocation` and its proofs; `Intervals` and `RegAlloc`;
  `Machine` and `Opt`; `Frame` with the va_list; `Builder` with `Substitution`;
  `TypeLayout` and `Parser`; `Isel` with one module per target. 2. done: the theorems of
  `Frame`, `Builder` and its refinement of `Substitution`; that intervals cover liveness
  and the emitted code reads what the IR has, for every function that is `Sound`. 3.
  done: the parser reads every file of its language as it is meant; the selectors carry
  out every instruction they do not get wrong. 4. Proofs that are left: what the passes
  of `Opt` keep, which TLC checks.
