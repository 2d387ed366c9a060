-------------------------------- MODULE Parser --------------------------------
(***************************************************************************)
(* The text parser, src/ir/ir_parse.c: one action per pass of the loop of  *)
(* parse(), by what stands at the front of the rest of the file.  The file *)
(* is a sequence of the words word() returns; comments and white space are *)
(* gone, and a word is                                                     *)
(*   [k |-> "word", s]          an opcode, type, label or punctuation      *)
(*   [k |-> "name", s]          %s          [k |-> "num", n]   %n          *)
(*   [k |-> "arg", n]           %argn       [k |-> "int", n]   n           *)
(*   [k |-> "flt", n]           a literal with a point, the n-th           *)
(*   [k |-> "string", s]        a quoted string                            *)
(* with s = "" or n = 0 where the other is given.                          *)
(***************************************************************************)
EXTENDS IR, TypeLayout

CONSTANTS
  Texts,        \* files, as sequences of statements [words, means, ...]
  SymMax,       \* SYM_MAX, 1024 in the code
  TypeMax,      \* NTYPE_MAX, 128 in the code
  FieldMax,     \* fields of a structure, 16 in the code
  MaxCallArgs   \* MAXCALLARGS, 16 in the code

ASSUME ParserAssumption ==
  /\ SymMax \in Nat /\ TypeMax \in Nat /\ MaxCallArgs \in Nat
  /\ FieldMax \in Nat \ {0}

VARIABLES
  text,    \* ghost: the file
  r,       \* what reading changes: the rest of the file, symtab, next_user_vreg,
           \*   the table of floating-point immediates, and args of tmp
  types,   \* g_types
  strings, \* how many the module has
  funcs,   \* functions of the module: [nparams, vararg, blocks], blocks [name, instrs]
  F, B     \* indices of the current function and its current block, or 0

vars == <<text, r, types, strings, funcs, F, B>>

Word(s)  == [k |-> "word", s |-> s, n |-> 0]
EndOfFile == [k |-> "eof", s |-> "", n |-> 0]

Init ==
  /\ text \in Texts
  /\ r = [rest |-> FlattenSeq([i \in DOMAIN text |-> text[i].words]),
          syms |-> <<>>, next |-> 0, fp |-> EmptyFp, args |-> <<>>]
  /\ types = <<>> /\ strings = 0 /\ funcs = <<>> /\ F = 0 /\ B = 0

(* peekc and word. *)
Peek(q)  == IF q.rest = <<>> THEN EndOfFile ELSE Head(q.rest)
Skip(q)   == IF q.rest = <<>> THEN q ELSE [q EXCEPT !.rest = Tail(@)]
SkipIf(q, s) == IF Peek(q) = Word(s) THEN Skip(q) ELSE q
Second(q) == Peek(Skip(q))
From(q, i) == [q EXCEPT !.rest = SubSeq(@, i, Len(@))]
OpOf(w)   == IF w.k = "word" THEN w.s ELSE ""

(* The loops that read a list: up to the word s that ends it, or to the    *)
(* end of the file, without the commas.                                    *)
Find(q, s)   == LET i == SelectInSeq(q.rest, LAMBDA w : w = Word(s))
                IN  IF i = 0 THEN Len(q.rest) + 1 ELSE i
Before(q, s) == SubSeq(q.rest, 1, Find(q, s) - 1)
After(q, s)  == From(q, Find(q, s) + 1)
Items(list)  == FlattenSeq([i \in DOMAIN list |-> IF list[i] = Word(",") THEN <<>> ELSE <<list[i]>>])

(* sym_lookup and sym_intern: symtab holds names with their vregs. *)
SymOf(q, s) == SelectInSeq(q.syms, LAMBDA e : e.s = s)
InternEarly(q, s) ==   \* variant: the table is full one entry early
  IF SymOf(q, s) # 0 THEN <<q.syms[SymOf(q, s)].v, q>>
  ELSE IF Len(q.syms) >= SymMax - 1 THEN <<0, q>>
  ELSE <<q.next, [q EXCEPT !.syms = Append(@, [s |-> s, v |-> q.next]), !.next = @ + 1]>>
Intern(q, s) ==
  IF SymOf(q, s) # 0 THEN <<q.syms[SymOf(q, s)].v, q>>
  ELSE IF Len(q.syms) >= SymMax THEN <<0, q>>
  ELSE <<q.next, [q EXCEPT !.syms = Append(@, [s |-> s, v |-> q.next]), !.next = @ + 1]>>

(* parse_operand: reads one operand, after a comma if there is one, and    *)
(* adds it to args.                                                        *)
Operand(q) ==
  LET at == SkipIf(q, ",")
      w  == Peek(at)
      to(p, a) == [Skip(p) EXCEPT !.args = Append(@, a)]
  IN  CASE w.k = "arg"  -> to(at, Vreg(Param(w.n)))
        [] w.k = "num"  -> to([at EXCEPT !.next = Max({@, w.n + 1})], Vreg(w.n))
        [] w.k = "name" -> to(Intern(at, w.s)[2], Vreg(Intern(at, w.s)[1]))
        [] w.k = "flt"  -> to([at EXCEPT !.fp = FpAdded(@, <<w.n>>)], FpRef(FpIndex(at.fp, 1)))
        [] w.k = "int"  -> to(at, Imm(AsInt(w.n)))
        [] w.k = "eof"  -> to(at, None)
        [] OTHER        -> to(at, Imm(0))

IsVreg(w) == w.k \in {"name", "num", "arg"}

(* How a pass of the loop begins: an optional destination and the word     *)
(* that should be an opcode.  A destination is read the way an operand is. *)
Opening ==
  LET q == [r EXCEPT !.args = <<>>]
      d == Operand(q)
      e == SkipIf(d, "=")
  IN  IF IsVreg(Peek(q)) THEN [dst |-> d.args[1].x, op |-> OpOf(Peek(e)), q |-> [Skip(e) EXCEPT !.args = <<>>]]
      ELSE [dst |-> NoDst, op |-> OpOf(Peek(q)), q |-> Skip(q)]

(* lookup_ty: an unknown name is i32. *)
TypeIn(tys, w) ==
  LET i == SelectInSeq(tys, LAMBDA e : e.s = w.s)
  IN  IF w.k = "word" /\ w.s \in Scalars THEN Scalar(w.s)
      ELSE IF w.k = "word" /\ i # 0 THEN tys[i].t
      ELSE Scalar("i32")
TypeNamed(w) == TypeIn(types, w)

Instr(op, ty, dst, args, pred, labels) ==
  [op |-> op, ty |-> ty, dst |-> dst, args |-> args, pred |-> pred, labels |-> labels]
NoType == Scalar("void")

Put(q, instrs) ==
  /\ r' = q
  /\ funcs' = [funcs EXCEPT ![F].blocks[B].instrs = @ \o instrs]
  /\ UNCHANGED <<text, types, F, B>>
Emit(q, instr) == Put(q, <<instr>>) /\ UNCHANGED strings

-----------------------------------------------------------------------------
Headings == {"{", "}", "(", ")", ",", "=", "type", "func", "block"}

Punctuation ==
  /\ r.rest # <<>> /\ OpOf(Peek(r)) \in {"{", "(", ")", ",", "="}
  /\ r' = Skip(r)
  /\ UNCHANGED <<text, types, strings, funcs, F, B>>

EndFunc ==
  /\ OpOf(Peek(r)) = "}"
  /\ r' = Skip(r) /\ F' = 0 /\ B' = 0
  /\ UNCHANGED <<text, types, strings, funcs>>

(* type_define: a name past the limit is dropped. *)
Defined(name, t) == IF Len(types) >= TypeMax THEN types ELSE Append(types, [s |-> name, t |-> t])

(* type NAME = { T, ... }: reading stops after FieldMax fields. *)
TypeStruct ==
  /\ OpOf(Peek(r)) = "type" /\ Peek(From(r, 4)) = Word("{")
  /\ LET q      == From(r, 5)
         inside == Before(q, "}")
         fields == Items(inside)
         full   == Len(fields) >= FieldMax
         last   == CHOOSE i \in 0..Len(inside) :   \* where the loop leaves off
                     Len(Items(SubSeq(inside, 1, i))) = FieldMax /\ inside[i] # Word(",")
         read   == IF full THEN SubSeq(fields, 1, FieldMax) ELSE fields
     IN  /\ types' = Defined(Second(r).s, ParserStruct([i \in DOMAIN read |-> TypeNamed(read[i])]))
         /\ r' = IF full THEN From(q, last + 1) ELSE After(q, "}")
  /\ UNCHANGED <<text, strings, funcs, F, B>>

(* type NAME = T [ N ]: the bracket ends no word, so that it must not      *)
(* follow T directly.                                                      *)
TypeArray ==
  /\ OpOf(Peek(r)) = "type" /\ Peek(From(r, 4)) # Word("{")
  /\ LET q     == From(r, 5)
         sized == Peek(q) = Word("[")
         n     == IF sized THEN Second(q).n ELSE 0
     IN  /\ types' = Defined(Second(r).s, ParserArray(TypeNamed(Peek(From(r, 4))), n))
         /\ r' = IF sized THEN SkipIf(From(q, 3), "]") ELSE q
  /\ UNCHANGED <<text, strings, funcs, F, B>>

(* func NAME RET ( T, ... ) { *)
Func ==
  /\ OpOf(Peek(r)) = "func"
  /\ LET q      == From(r, 4)
         listed == Peek(q) = Word("(")
         params == IF listed THEN Items(Before(Skip(q), ")")) ELSE <<>>
         rest   == IF listed THEN After(Skip(q), ")") ELSE q
     IN  /\ funcs' = Append(funcs, [nparams |-> Len(SelectSeq(params, LAMBDA w : w # Word("..."))),
                                    vararg  |-> \E i \in DOMAIN params : params[i] = Word("..."),
                                    blocks  |-> <<>>])
         /\ F' = Len(funcs) + 1
         /\ r' = [After(rest, "{") EXCEPT !.syms = <<>>, !.next = 0]
  /\ UNCHANGED <<text, types, strings, B>>

Block ==
  /\ OpOf(Peek(r)) = "block"
  /\ funcs' = [funcs EXCEPT ![F].blocks = Append(@, [name |-> Second(r).s, instrs |-> <<>>])]
  /\ B' = Len(funcs[F].blocks) + 1
  /\ r' = Skip(Skip(r))
  /\ UNCHANGED <<text, types, strings, F>>

-----------------------------------------------------------------------------
(* The opcode table, by how the operands are read. *)
Arithmetic == {"add", "sub", "mul", "sdiv", "udiv", "srem", "urem", "and", "or", "xor",
               "shl", "lshr", "ashr", "fadd", "fsub", "fmul", "fdiv", "frem", "select"}
Unaries  == {"neg", "not"}
Compares == {"icmp", "fcmp"}
Widths   == {"zext", "sext", "trunc"}
ToFloats == {"sitofp", "uitofp", "fptosi", "fptoui", "fpext", "fptrunc"}
Others   == {"ret", "br", "cbr", "call", "load", "store", "alloca", "phi", "gep", "str",
             "va_start", "va_arg", "va_end"}
Opcodes  == UNION {Arithmetic, Unaries, Compares, Widths, ToFloats, Others}
Statement(ops) == r.rest # <<>> /\ OpOf(Peek(r)) \notin Headings /\ Opening.op \in ops

(* A word that is no opcode is dropped, with the destination before it. *)
UnknownWord ==
  /\ r.rest # <<>> /\ OpOf(Peek(r)) \notin Headings /\ Opening.op \notin Opcodes
  /\ r' = Opening.q
  /\ UNCHANGED <<text, types, strings, funcs, F, B>>

(* op T a b *)
Arith ==
  /\ Statement(Arithmetic)
  /\ LET t == TypeNamed(Peek(Opening.q))
         q == Operand(Operand(Skip(Opening.q)))
     IN  Emit(q, Instr(Opening.op, t, Opening.dst, q.args, 0, <<>>))

(* op T a *)
Unary ==
  /\ Statement(Unaries)
  /\ LET t == TypeNamed(Peek(Opening.q))
         q == Operand(Skip(Opening.q))
     IN  Emit(q, Instr(Opening.op, t, Opening.dst, q.args, 0, <<>>))

(* icmp_names and fcmp_names, whose places are the members of IcmpPred and *)
(* FcmpPred, and lookup_pred: a name that is not among them is eq or oeq.  *)
IcmpNames == <<"eq", "ne", "slt", "sle", "sgt", "sge", "ult", "ule", "ugt", "uge">>
FcmpNames == <<"oeq", "one", "olt", "ole", "ogt", "oge", "ord", "uno">>
PredIn(names, s) == IF s \in ToSet(names) THEN (CHOOSE i \in DOMAIN names : names[i] = s) - 1 ELSE 0
LookupIcmp(op, s) == PredIn(IcmpNames, s)   \* variant: is_fcmp is not looked at
LookupPred(op, s) == PredIn(IF op = "fcmp" THEN FcmpNames ELSE IcmpNames, s)

(* op T pred a b *)
Compare ==
  /\ Statement(Compares)
  /\ LET t == TypeNamed(Peek(Opening.q))
         q == Operand(Operand(Skip(Skip(Opening.q))))
     IN  Emit(q, Instr(Opening.op, t, Opening.dst, q.args,
                         LookupPred(Opening.op, Second(Opening.q).s), <<>>))

(* op T FROM a: FROM is read and forgotten. *)
Widen ==
  /\ Statement(Widths)
  /\ LET t == TypeNamed(Peek(Opening.q))
         q == Operand(Skip(Skip(Opening.q)))
     IN  Emit(q, Instr(Opening.op, t, Opening.dst, q.args, 0, <<>>))

(* op FROM a to T: the kind of FROM is kept in pred. *)
Convert ==
  /\ Statement(ToFloats)
  /\ LET q == Operand(Skip(Opening.q))
     IN  Emit(From(q, 3), Instr(Opening.op, TypeNamed(Second(q)), Opening.dst, q.args,
                               TypeNamed(Peek(Opening.q)).kind, <<>>))

(* ret void, or ret T a; at the end of the file ret is ret void. *)
Ret ==
  /\ Statement({"ret"})
  /\ LET w == Peek(Opening.q)
         q == Operand(Skip(Opening.q))
     IN  IF w \in {Word("void"), EndOfFile}
         THEN Emit(Skip(Opening.q), Instr("ret", NoType, NoDst, <<>>, 0, <<>>))
         ELSE Emit(q, Instr("ret", TypeNamed(w), NoDst, q.args, 0, <<>>))

Br ==
  /\ Statement({"br"})
  /\ Emit(Skip(Opening.q), Instr("br", NoType, NoDst, <<>>, 0, <<Peek(Opening.q).s>>))

Cbr ==
  /\ Statement({"cbr"})
  /\ LET q == Operand(Opening.q)
     IN  Emit(From(q, 3), Instr("cbr", NoType, NoDst, q.args, 0, <<Peek(q).s, Second(q).s>>))

(* phi T a from b from *)
PhiSwapped(q1, q2) == <<Peek(q2).s, Peek(q1).s>>   \* variant
PhiLabels(q1, q2)  == <<Peek(q1).s, Peek(q2).s>>
Phi ==
  /\ Statement({"phi"})
  /\ LET q1 == Operand(Skip(Opening.q))
         q2 == Operand(Skip(q1))
     IN  Emit(Skip(q2), Instr("phi", TypeNamed(Peek(Opening.q)), Opening.dst, q2.args, 0, PhiLabels(q1, q2)))

(* call T NAME ( a, ... ): what exceeds the limit is dropped. *)
Call ==
  /\ Statement({"call"})
  /\ LET q    == From(Opening.q, 3)
         open == Peek(q) = Word("(")
         list == IF open THEN Items(Before(Skip(q), ")")) ELSE <<>>
         n    == Min({Len(list), MaxCallArgs})
         read[i \in 0..n] == IF i = 0 THEN [q EXCEPT !.rest = list] ELSE Operand(read[i-1])
     IN  Emit([read[n] EXCEPT !.rest = IF open THEN After(Skip(q), ")").rest ELSE q.rest],
              Instr("call", TypeNamed(Peek(Opening.q)), Opening.dst, read[n].args, 0, <<Second(Opening.q).s>>))

(* alloca T, or alloca T n *)
Alloca ==
  /\ Statement({"alloca"})
  /\ LET t == TypeNamed(Peek(Opening.q))
         q == Skip(Opening.q)
         counted == Peek(q).k = "int" /\ Peek(q).n >= 0   \* a digit, and no sign
         n == IF counted THEN Peek(q).n ELSE ParserAllocaSize(t)
     IN  Emit(IF counted THEN Skip(q) ELSE q, Instr("alloca", t, Opening.dst, <<Imm(AsInt(n))>>, 0, <<>>))

(* load T p: of an aggregate, an alloca and a memcpy to it. *)
Memcpy(to, from, t) == Instr("memcpy", NoType, NoDst, <<to, from, Imm(SizeOf(t))>>, 0, <<>>)
Load ==
  /\ Statement({"load"})
  /\ LET t == TypeNamed(Peek(Opening.q))
         q == Operand(Skip(Opening.q))
         d == Opening.dst
     IN  /\ Put(q, IF IsAggregate(t)
                   THEN <<Instr("alloca", t, d, <<Imm(SizeOf(t))>>, 0, <<>>), Memcpy(Vreg(d), q.args[1], t)>>
                   ELSE <<Instr("load", t, d, q.args, 0, <<>>)>>)
         /\ UNCHANGED strings

(* store T a p: of an aggregate, a memcpy from a to p. *)
Store ==
  /\ Statement({"store"})
  /\ LET t == TypeNamed(Peek(Opening.q))
         q == Operand(Operand(Skip(Opening.q)))
     IN  Emit(q, IF IsAggregate(t) THEN Memcpy(q.args[2], q.args[1], t)
                 ELSE Instr("store", t, NoDst, q.args, 0, <<>>))

(* str "...": without the quote there is no instruction. *)
Str ==
  /\ Statement({"str"})
  /\ IF Peek(Opening.q).k = "string"
     THEN /\ Put(Skip(Opening.q), <<Instr("str", Scalar("i32"), Opening.dst, <<Imm(strings)>>, 0, <<>>)>>)
          /\ strings' = strings + 1
     ELSE r' = Opening.q /\ UNCHANGED <<text, types, strings, funcs, F, B>>

VaStart ==
  /\ Statement({"va_start"})
  /\ Emit(Opening.q, Instr("va_start", Scalar("i32"), Opening.dst, <<>>, 0, <<>>))

(* va_arg p T *)
VaArg ==
  /\ Statement({"va_arg"})
  /\ LET q == Operand(Opening.q)
     IN  Emit(Skip(q), Instr("va_arg", TypeNamed(Peek(q)), Opening.dst, q.args, 0, <<>>))

VaEnd ==
  /\ Statement({"va_end"})
  /\ LET q == Operand(Opening.q)
     IN  Emit(q, Instr("va_end", NoType, NoDst, q.args, 0, <<>>))

(* gep T p i field, or gep T p i; the word after the operands is read to   *)
(* find out, and not put back.                                             *)
Gep ==
  /\ Statement({"gep"})
  /\ LET t   == TypeNamed(Peek(Opening.q))
         q   == Operand(Operand(Skip(Opening.q)))
         i   == IF q.args[2].kind = "imm" THEN q.args[2].x ELSE 0
         off == IF t.kind = "struct" /\ i \in 0..Len(t.fields)-1 THEN t.offsets[i+1] ELSE 0
     IN  Emit(Skip(q), IF Peek(q) = Word("field")
                       THEN Instr("gep_field", t, Opening.dst, <<q.args[1]>>, off, <<>>)
                       ELSE Instr("gep", t, Opening.dst, q.args, ParserStep(t), <<>>))

Next ==
  \/ Punctuation
  \/ EndFunc
  \/ TypeStruct
  \/ TypeArray
  \/ Func
  \/ Block
  \/ UnknownWord
  \/ Arith
  \/ Unary
  \/ Compare
  \/ Widen
  \/ Convert
  \/ Ret
  \/ Br
  \/ Cbr
  \/ Phi
  \/ Call
  \/ Alloca
  \/ Load
  \/ Store
  \/ Str
  \/ VaStart
  \/ VaArg
  \/ VaEnd
  \/ Gep

Spec == Init /\ [][Next]_vars

-----------------------------------------------------------------------------
(* A statement of text has, besides its words, what it means: means are    *)
(* its instructions with words for their operands, types the types it      *)
(* defines as the builder would lay them out, params and vararg what the   *)
(* heading of a function says.                                             *)
WordsIn(t, i, j) == FlattenSeq([k \in 1..j-i |-> t[i+k].words])
MeansIn(t, i, j) == FlattenSeq([k \in 1..j-i |-> t[i+k].means])
ReadUpTo == {j \in 0..Len(text) : Len(WordsIn(text, j, Len(text))) = Len(r.rest)}
Latest(t, j, heads) == Max({0} \cup {i \in 1..j : t[i].words[1] \in {Word(h) : h \in heads}})
Heading(j) == Latest(text, j, {"func"})

CodeOf(g)  == FlattenSeq([b \in DOMAIN g.blocks |->
                <<Instr("block", NoType, NoDst, <<>>, 0, <<g.blocks[b].name>>)>> \o g.blocks[b].instrs])

NumberIn(q, w) ==
  CASE w.k = "num"  -> w.n
    [] w.k = "arg"  -> Param(w.n)
    [] w.k = "name" -> IF SymOf(q, w.s) = 0 THEN 0 ELSE q.syms[SymOf(q, w.s)].v
    [] OTHER -> NoDst

Denotes(q, a, w) ==
  CASE IsVreg(w)    -> a = Vreg(NumberIn(q, w))
    [] w.k = "int"  -> a = Imm(w.n)
    [] w.k = "flt"  -> a.kind = "fp" /\ FpGet(q.fp, a.x) = w.n

Says(q, instr, m) ==
  /\ instr = [m EXCEPT !.dst = NumberIn(q, m.dst), !.args = instr.args]
  /\ Len(instr.args) = Len(m.args)
  /\ \A a \in DOMAIN m.args : Denotes(q, instr.args[a], m.args[a])

(* Type invariant. *)
TypeOK ==
  /\ F \in {0, Len(funcs)} /\ B \in {0} \cup (IF F = 0 THEN {} ELSE DOMAIN funcs[F].blocks)
  /\ \A i \in DOMAIN r.syms : r.syms[i].v < r.next
  /\ Len(r.syms) <= SymMax /\ Len(types) <= TypeMax
  /\ \A g \in DOMAIN funcs : \A i \in DOMAIN CodeOf(funcs[g]) : \A a \in DOMAIN CodeOf(funcs[g])[i].args :
       LET o == CodeOf(funcs[g])[i].args[a]
       IN  o.kind = "fp" => o.x \in 0 .. Min({r.fp.n, FpMax}) - 1

(* Wherever one statement has been read and the next one begins, the       *)
(* current function has the instructions its statements say, each with its *)
(* own destination, operands, type and labels, whatever stands before and  *)
(* after; operands are read once, in order, and constants keep their value.*)
StatementsKept ==
  \A j \in ReadUpTo : Heading(j) # 0 =>
    LET s    == Heading(j)
        m    == MeansIn(text, s, j)
        code == CodeOf(funcs[Len(funcs)])
    IN  /\ Len(code) = Len(m) /\ \A i \in DOMAIN m : Says(r, code[i], m[i])
        /\ funcs[Len(funcs)].nparams = text[s].params
        /\ funcs[Len(funcs)].vararg = text[s].vararg

(* Two vregs of a function that are written differently are different, and *)
(* none has the number of a parameter.                                     *)
NamesApart ==
  \A j \in ReadUpTo : Heading(j) # 0 =>
    LET vregs == {w \in ToSet(WordsIn(text, Heading(j), j)) : IsVreg(w)}
    IN  \A v, w \in vregs : v # w => NumberIn(r, v) # NumberIn(r, w)

(* The types the text has defined are laid out as the builder lays them    *)
(* out, with no two fields on one byte.                                    *)
LayoutsAgree ==
  /\ \A j \in ReadUpTo : types = FlattenSeq([i \in 1..j |-> text[i].types])
  /\ \A i \in DOMAIN types : SoundLayout(types[i].t)
=============================================================================
