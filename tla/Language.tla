------------------------------- MODULE Language -------------------------------
(***************************************************************************)
(* The files the text parser is for: the language of README, "Writing IR", *)
(* and of tests/*.ir, within the limits of the parser's tables, with for   *)
(* each statement what it means.  Of these files the theorems of module    *)
(* ParserProofs say that the parser does what they mean.                   *)
(***************************************************************************)
EXTENDS Parser

Words == [k : {"word", "name", "string"}, s : STRING, n : {0}]
           \cup [k : {"num", "arg"}, s : {""}, n : Nat]
           \cup [k : {"int", "flt"}, s : {""}, n : Int]
Nothing == [k |-> "none", s |-> "", n |-> 0]   \* where there is no destination
Literal(n) == [k |-> "int", s |-> "", n |-> n]

IsSeq(s)   == s \in Seq(ToSet(s))
Comma      == Word(",")
Fits(n)    == AsInt(n) = n
IsOperand(w) == w.k \in {"name", "num", "arg", "int", "flt"} /\ (w.k = "int" => Fits(w.n))

(* Types: those defined before statement j of t, and what a word means.    *)
Known(t, j) == FlattenSeq([i \in 1..j-1 |-> t[i].types])
IsType(tys, w) == w.k = "word" /\ (w.s \in Scalars \/ \E e \in ToSet(tys) : e.s = w.s)
Meant(tys, w)  == IF w.s \in Scalars THEN Scalar(w.s) ELSE (CHOOSE e \in ToSet(tys) : e.s = w.s).t
IsField(ty)    == ty.kind \in DOMAIN Width \cup {"struct", "array"}
Stride(ty)     == IF ty.kind = "array" THEN SizeOf(ty.elem) ELSE SizeOf(ty)

Plain(s)  == s.means = <<>> /\ s.types = <<>>
Braced(list, ends) == \A i \in DOMAIN list : list[i] \notin {Word(e) : e \in ends}

-----------------------------------------------------------------------------
(* A type is defined once, and the table has room for it.                  *)
(* type NAME = { T, ... }, with a comma after any but the last field *)
StructDefined(t, j) ==
  LET s  == t[j]
      n  == Len(s.words)
      fields == Items(SubSeq(s.words, 5, n-1))
      ts     == s.types[1].t.fields
  IN  /\ n >= 5 /\ s.words[4] = Word("{") /\ s.words[n] = Word("}") /\ s.words[n-1] # Comma
      /\ Braced(SubSeq(s.words, 5, n-1), {"}"})
      /\ s.types[1].t.kind = "struct" /\ s.types[1].t = BuilderStruct(ts)
      /\ Len(fields) <= FieldMax /\ ts = [i \in DOMAIN fields |-> Meant(Known(t, j), fields[i])]
      /\ \A i \in DOMAIN fields : IsType(Known(t, j), fields[i]) /\ IsField(ts[i])

(* type NAME = T [ N ] *)
ArrayDefined(t, j) ==
  LET s  == t[j]
      ty == Meant(Known(t, j), s.words[4])
  IN  /\ Len(s.words) = 7 /\ s.words[5] = Word("[") /\ s.words[7] = Word("]")
      /\ IsType(Known(t, j), s.words[4]) /\ s.words[4] # Word("{") /\ ty.kind # "array"
      /\ s.words[6].k = "int" /\ s.words[6].n \in Nat
      /\ s.types[1].t = BuilderArray(ty, s.words[6].n)

TypeDefined(t, j) ==
  LET s == t[j]
  IN  /\ Len(s.words) >= 4 /\ s.words[2].k = "word" /\ s.words[3] = Word("=") /\ s.means = <<>>
      /\ s.types = <<[s |-> s.words[2].s, t |-> s.types[1].t]>>
      /\ Len(Known(t, j)) < TypeMax /\ \A e \in ToSet(Known(t, j)) : e.s # s.words[2].s
      /\ StructDefined(t, j) \/ ArrayDefined(t, j)

(* func NAME T { or func NAME T ( T, ... ) { *)
FuncHeaded(s) ==
  LET n      == Len(s.words)
      inside == SubSeq(s.words, 5, n-2)
      params == IF n = 4 THEN <<>> ELSE Items(inside)
  IN  /\ n >= 4 /\ s.words[n] = Word("{") /\ Plain(s) /\ \A i \in 1..n : s.words[i].k = "word"
      /\ n # 4 => n >= 6 /\ s.words[4] = Word("(") /\ s.words[n-1] = Word(")") /\ Braced(inside, {")"})
      /\ s.params = Len(SelectSeq(params, LAMBDA w : w # Word("...")))
      /\ s.vararg = (\E i \in DOMAIN params : params[i] = Word("..."))

BlockNamed(s) ==
  /\ Len(s.words) = 2 /\ s.words[2].k = "word" /\ s.types = <<>>
  /\ s.means = <<Instr("block", NoType, Nothing, <<>>, 0, <<s.words[2].s>>)>>

-----------------------------------------------------------------------------
(* An instruction: [%d =] OP and its words, w(1), ..., w(n).  Where two    *)
(* operands follow each other there may be a comma between them.           *)
Body(s)  == IF IsVreg(s.words[1]) THEN 2 ELSE 0
OpWord(s) == s.words[Body(s) + 1]
W(s, i)  == s.words[Body(s) + 1 + i]
Rest(s)  == Len(s.words) - Body(s) - 1
Dest(s)  == IF Body(s) = 2 THEN s.words[1] ELSE Nothing
Second2(s, i) == IF W(s, i+1) = Comma THEN i+2 ELSE i+1   \* where the operand after that at i is

(* What the parser passes over: punctuation, a word that is no opcode, and *)
(* str without its string, with or without a destination.                  *)
Ignored(s) ==
  /\ Plain(s) /\ OpWord(s).k = "word"
  /\ \/ Len(s.words) = 1 /\ OpWord(s).s \in {"{", "(", ")", ",", "="}
     \/ /\ Rest(s) = 0 /\ (Body(s) = 2 => s.words[2] = Word("="))
        /\ OpWord(s).s \notin Headings \cup (Opcodes \ {"str"})

Strings(t, j) == Cardinality({i \in 1..j-1 : t[i].means # <<>> /\ t[i].means[1].op = "str"})

Takes(s, n, ops) == Rest(s) = n /\ \A i \in 1..n : IF i \in ops THEN IsOperand(W(s, i)) ELSE W(s, i).k = "word"
TakesTwo(s, i, more) ==   \* operands at i and next, and then more words
  Rest(s) > i /\ Takes(s, Second2(s, i) + more, {i, Second2(s, i)})
Args1(s, i) == <<W(s, i)>>
Args2(s, i) == <<W(s, i), W(s, Second2(s, i))>>

(* The predicates of README, with their values in include/ir.h. *)
Predicate(op) ==
  IF op = "fcmp"
  THEN [oeq |-> 0, one |-> 1, olt |-> 2, ole |-> 3, ogt |-> 4, oge |-> 5, ord |-> 6, uno |-> 7]
  ELSE [eq |-> 0, ne |-> 1, slt |-> 2, sle |-> 3, sgt |-> 4, sge |-> 5, ult |-> 6, ule |-> 7, ugt |-> 8, uge |-> 9]

Instructed(t, j) ==
  LET s   == t[j]
      op  == OpWord(s).s
      m   == s.means[1]
      is(ty, args, pred, labels) == s.means = <<Instr(op, ty, Dest(s), args, pred, labels)>>
      typed(i) == IsType(Known(t, j), W(s, i))
      ty(i)    == Meant(Known(t, j), W(s, i))
      bare     == Body(s) = 0
      size     == Literal(SizeOf(ty(1)))
      copy(to, from) == Instr("memcpy", NoType, Nothing, <<to, from, size>>, 0, <<>>)
      list     == SubSeq(s.words, Body(s) + 5, Len(s.words) - 1)
  IN  /\ s.types = <<>> /\ (Body(s) = 2 => s.words[2] = Word("="))
      /\ OpWord(s).k = "word" /\ op \in Opcodes
      /\ op \in Arithmetic => TakesTwo(s, 2, 0) /\ typed(1) /\ is(ty(1), Args2(s, 2), 0, <<>>)
      /\ op \in Unaries    => Takes(s, 2, {2}) /\ typed(1) /\ is(ty(1), Args1(s, 2), 0, <<>>)
      /\ op \in Compares   => /\ TakesTwo(s, 3, 0) /\ typed(1) /\ W(s, 2).s \in DOMAIN Predicate(op)
                              /\ is(ty(1), Args2(s, 3), Predicate(op)[W(s, 2).s], <<>>)
      /\ op \in Widths     => Takes(s, 3, {3}) /\ typed(1) /\ is(ty(1), Args1(s, 3), 0, <<>>)
      /\ op \in ToFloats   => /\ Takes(s, 4, {2}) /\ typed(1) /\ typed(4)
                              /\ is(ty(4), Args1(s, 2), ty(1).kind, <<>>)
      /\ op = "ret" /\ Rest(s) = 1 => W(s, 1) = Word("void") /\ bare /\ is(NoType, <<>>, 0, <<>>)
      /\ op = "ret" /\ Rest(s) # 1 => /\ Takes(s, 2, {2}) /\ typed(1) /\ W(s, 1) # Word("void") /\ bare
                                      /\ is(ty(1), Args1(s, 2), 0, <<>>)
      /\ op = "br"  => Takes(s, 1, {}) /\ bare /\ is(NoType, <<>>, 0, <<W(s, 1).s>>)
      /\ op = "cbr" => Takes(s, 3, {1}) /\ bare /\ is(NoType, Args1(s, 1), 0, <<W(s, 2).s, W(s, 3).s>>)
      /\ op = "phi" => /\ Rest(s) \in {5, 6}
                       /\ LET e == Second2(s, 3)
                          IN  /\ Takes(s, e + 1, {2, e}) /\ typed(1)
                              /\ is(ty(1), <<W(s, 2), W(s, e)>>, 0, <<W(s, 3).s, W(s, e + 1).s>>)
      /\ op = "call" => /\ Rest(s) >= 4 /\ typed(1) /\ W(s, 2).k = "word" /\ W(s, 3) = Word("(") /\ W(s, Rest(s)) = Word(")")
                        /\ Braced(list, {")"}) /\ Len(Items(list)) <= MaxCallArgs
                        /\ \A i \in DOMAIN list : list[i] = Comma \/ IsOperand(list[i])
                        /\ is(ty(1), Items(list), 0, <<W(s, 2).s>>)
      /\ op = "alloca" /\ Rest(s) = 1 => /\ typed(1) /\ ty(1).kind # "f64" /\ Fits(SizeOf(ty(1)))
                                         /\ is(ty(1), <<size>>, 0, <<>>)
      /\ op = "alloca" /\ Rest(s) # 1 => /\ Takes(s, 2, {2}) /\ typed(1) /\ W(s, 2).k = "int" /\ W(s, 2).n >= 0
                                         /\ is(ty(1), Args1(s, 2), 0, <<>>)
      /\ op = "load"  => /\ Takes(s, 2, {2}) /\ typed(1)
                         /\ IF ~IsAggregate(ty(1)) THEN is(ty(1), Args1(s, 2), 0, <<>>)
                            ELSE ~bare /\ s.means = <<Instr("alloca", ty(1), Dest(s), <<size>>, 0, <<>>),
                                                      copy(Dest(s), W(s, 2))>>
      /\ op = "store" => /\ TakesTwo(s, 2, 0) /\ typed(1) /\ bare
                         /\ IF ~IsAggregate(ty(1)) THEN is(ty(1), Args2(s, 2), 0, <<>>)
                            ELSE s.means = <<copy(W(s, Second2(s, 2)), W(s, 2))>>
      /\ op = "str"   => Rest(s) = 1 /\ W(s, 1).k = "string" /\ is(Scalar("i32"), <<Literal(Strings(t, j))>>, 0, <<>>)
      /\ op = "va_start" => Rest(s) = 0 /\ is(Scalar("i32"), <<>>, 0, <<>>)
      /\ op = "va_arg"   => Takes(s, 2, {1}) /\ typed(2) /\ is(ty(2), Args1(s, 1), 0, <<>>)
      /\ op = "va_end"   => Takes(s, 1, {1}) /\ bare /\ is(NoType, Args1(s, 1), 0, <<>>)
      /\ op = "gep" => /\ TakesTwo(s, 2, 1) /\ typed(1)
                       /\ LET i == W(s, Second2(s, 2))
                          IN  IF W(s, Rest(s)) = Word("field")
                              THEN /\ ty(1).kind = "struct" /\ i.k = "int" /\ i.n \in 0..Len(ty(1).fields)-1
                                   /\ s.means = <<Instr("gep_field", ty(1), Dest(s), Args1(s, 2), ty(1).offsets[i.n + 1], <<>>)>>
                              ELSE is(ty(1), Args2(s, 2), Stride(ty(1)), <<>>)
-----------------------------------------------------------------------------
(* Types and functions stand outside functions, blocks in functions, and   *)
(* instructions in blocks. *)
Outside(t, j) == LET i == Latest(t, j, {"func", "}"}) IN i = 0 \/ t[i].words[1] = Word("}")
InBlock(t, j) == LET i == Latest(t, j, {"func", "}", "block"}) IN i # 0 /\ t[i].words[1] = Word("block")

Allowed(t, j) ==
  LET s == t[j]
  IN  /\ s.words \in Seq(Words) /\ s.words # <<>> /\ IsSeq(s.means) /\ IsSeq(s.types)
      /\ CASE s.words[1] = Word("type")  -> TypeDefined(t, j) /\ Outside(t, j-1)
           [] s.words[1] = Word("func")  -> FuncHeaded(s) /\ Outside(t, j-1)
           [] s.words[1] = Word("block") -> BlockNamed(s) /\ ~Outside(t, j-1)
           [] s.words[1] = Word("}")     -> Len(s.words) = 1 /\ Plain(s)
           [] OTHER -> Rest(s) >= 0 /\ (Ignored(s) \/ (Instructed(t, j) /\ InBlock(t, j-1)))

(* The vregs of the function that is headed by statement h, which are all  *)
(* named or all numbered, and fewer than its parameters' numbers and the   *)
(* table of symbols leave room for.                                        *)
VregsOf(t, h) == UNION {{w \in ToSet(t[i].words) : IsVreg(w)} : i \in {i \in DOMAIN t : Latest(t, i, {"func"}) = h}}
NamesOf(t, h) == {w.s : w \in {w \in VregsOf(t, h) : w.k = "name"}}
Countable(t, h) ==
  /\ Cardinality(NamesOf(t, h)) <= SymMax /\ Cardinality(NamesOf(t, h)) <= ParamBase
  /\ \A w \in VregsOf(t, h) : w.k = "num" => NamesOf(t, h) = {} /\ w.n < ParamBase

Conforms(t) ==
  /\ IsSeq(t)
  /\ \A j \in DOMAIN t : Allowed(t, j)
  /\ \A h \in 0..Len(t) : Countable(t, h)
=============================================================================
