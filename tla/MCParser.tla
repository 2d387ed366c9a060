------------------------------- MODULE MCParser -------------------------------
(***************************************************************************)
(* Files for the parser: the statements of README "Writing IR" and of      *)
(* tests/*.ir, over a few names, types and constants.                      *)
(***************************************************************************)
EXTENDS Language

N(s) == [k |-> "name", s |-> s, n |-> 0]
Num(n)   == [k |-> "num", s |-> "", n |-> n]
Arg0     == [k |-> "arg", s |-> "", n |-> 0]
Lit(n)   == [k |-> "int", s |-> "", n |-> n]
Flt(n)   == [k |-> "flt", s |-> "", n |-> n]
Quoted   == [k |-> "string", s |-> "hello", n |-> 0]

Says1(words, m)  == [words |-> words, means |-> m, types |-> <<>>, params |-> 0, vararg |-> FALSE]
Does(words, m)   == Says1(words, <<m>>)
To(d, words) == <<d, Word("=")>> \o words

i32 == Scalar("i32")
Ty(s) == [w |-> Word(s), t |-> Scalar(s)]

(* The types of the files, as the builder makes them. *)
Point == [w |-> Word("Point"), t |-> BuilderStruct(<<Scalar("i8"), Scalar("ptr"), Scalar("i16")>>)]
Outer == [w |-> Word("Outer"), t |-> BuilderStruct(<<Scalar("i8"), Point.t, Scalar("i32")>>)]
Four  == [w |-> Word("Four"),  t |-> BuilderArray(Scalar("i16"), 4)]
TypeIs(ty, words) == [Says1(<<Word("type"), ty.w, Word("=")>> \o words, <<>>)
                        EXCEPT !.types = <<[s |-> ty.w.s, t |-> ty.t]>>]
DefPoint == TypeIs(Point, <<Word("{"), Word("i8"), Word(","), Word("ptr"), Word(","), Word("i16"), Word("}")>>)
DefOuter == TypeIs(Outer, <<Word("{"), Word("i8"), Word("Point"), Word(","), Word("i32"), Word("}")>>)
DefFour  == TypeIs(Four, <<Word("i16"), Word("["), Lit(4), Word("]")>>)

FuncIs(name, params, vararg) ==
  LET list == IF params = 0 THEN <<>>
              ELSE <<Word("("), Word("i32")>> \o (IF vararg THEN <<Word(","), Word("...")>> ELSE <<>>) \o <<Word(")")>>
  IN  [Says1(<<Word("func"), Word(name), Word("i32")>> \o list \o <<Word("{")>>, <<>>)
         EXCEPT !.params = params, !.vararg = vararg]
BlockIs(l) == Does(<<Word("block"), Word(l)>>, Instr("block", NoType, Nothing, <<>>, 0, <<l>>))
Close      == Says1(<<Word("}")>>, <<>>)

Op2(d, op, ty, a, b)   == Does(To(d, <<Word(op), ty.w, a, b>>), Instr(op, ty.t, d, <<a, b>>, 0, <<>>))
Op2Comma(d, op, ty, a, b) == Does(To(d, <<Word(op), ty.w, a, Word(","), b>>), Instr(op, ty.t, d, <<a, b>>, 0, <<>>))
Op1(d, op, ty, a)      == Does(To(d, <<Word(op), ty.w, a>>), Instr(op, ty.t, d, <<a>>, 0, <<>>))
Cmp(d, op, ty, p, a, b) == Does(To(d, <<Word(op), ty.w, Word(p), a, b>>), Instr(op, ty.t, d, <<a, b>>, Predicate(op)[p], <<>>))
Ext(d, op, ty, from, a) == Does(To(d, <<Word(op), ty.w, from.w, a>>), Instr(op, ty.t, d, <<a>>, 0, <<>>))
Conv(d, op, from, a, ty) == Does(To(d, <<Word(op), from.w, a, Word("to"), ty.w>>), Instr(op, ty.t, d, <<a>>, from.t.kind, <<>>))
PhiOf(d, ty, a, l, b, k) == Does(To(d, <<Word("phi"), ty.w, a, Word(l), b, Word(k)>>), Instr("phi", ty.t, d, <<a, b>>, 0, <<l, k>>))
CallOf(d, ty, f, args) ==
  LET list == FlattenSeq([i \in DOMAIN args |-> IF i = 1 THEN <<args[i]>> ELSE <<Word(","), args[i]>>])
  IN  Does(To(d, <<Word("call"), ty.w, Word(f), Word("(")>> \o list \o <<Word(")")>>), Instr("call", ty.t, d, args, 0, <<f>>))
RetVoid    == Does(<<Word("ret"), Word("void")>>, Instr("ret", NoType, Nothing, <<>>, 0, <<>>))
RetOf(ty, a) == Does(<<Word("ret"), ty.w, a>>, Instr("ret", ty.t, Nothing, <<a>>, 0, <<>>))
BrTo(l)    == Does(<<Word("br"), Word(l)>>, Instr("br", NoType, Nothing, <<>>, 0, <<l>>))
CbrTo(a, l, k) == Does(<<Word("cbr"), a, Word(l), Word(k)>>, Instr("cbr", NoType, Nothing, <<a>>, 0, <<l, k>>))
AllocaOf(d, ty)     == Does(To(d, <<Word("alloca"), ty.w>>), Instr("alloca", ty.t, d, <<Lit(SizeOf(ty.t))>>, 0, <<>>))
AllocaBytes(d, ty, n) == Does(To(d, <<Word("alloca"), ty.w, Lit(n)>>), Instr("alloca", ty.t, d, <<Lit(n)>>, 0, <<>>))
LoadOf(d, ty, p)    == Op1(d, "load", ty, p)
StoreOf(ty, a, p)   == Does(<<Word("store"), ty.w, a, Word(","), p>>, Instr("store", ty.t, Nothing, <<a, p>>, 0, <<>>))
Copies(to, from, ty) == Instr("memcpy", NoType, Nothing, <<to, from, Lit(SizeOf(ty.t))>>, 0, <<>>)
LoadAgg(d, ty, p)   == Says1(To(d, <<Word("load"), ty.w, p>>),
                             <<Instr("alloca", ty.t, d, <<Lit(SizeOf(ty.t))>>, 0, <<>>), Copies(d, p, ty)>>)
StoreAgg(ty, a, p)  == Does(<<Word("store"), ty.w, a, p>>, Copies(p, a, ty))
StrOf(d, i)         == Does(To(d, <<Word("str"), Quoted>>), Instr("str", i32, d, <<Lit(i)>>, 0, <<>>))
VaStartTo(d)        == Does(To(d, <<Word("va_start")>>), Instr("va_start", i32, d, <<>>, 0, <<>>))
VaArgOf(d, p, ty)   == Does(To(d, <<Word("va_arg"), p, ty.w>>), Instr("va_arg", ty.t, d, <<p>>, 0, <<>>))
VaEndOf(p)          == Does(<<Word("va_end"), p>>, Instr("va_end", NoType, Nothing, <<p>>, 0, <<>>))
Field(d, ty, p, i)  == Does(To(d, <<Word("gep"), ty.w, p, Lit(i), Word("field")>>),
                            Instr("gep_field", ty.t, d, <<p>>, ty.t.offsets[i+1], <<>>))
Element(d, ty, p, i) == Does(To(d, <<Word("gep"), ty.w, p, i>>), Instr("gep", ty.t, d, <<p, i>>, SizeOf(ty.t), <<>>))
Index(d, ty, p, i, w) == Does(To(d, <<Word("gep"), ty.w, p, i, Word(w)>>), Instr("gep", ty.t, d, <<p, i>>, SizeOf(ty.t), <<>>))
Adds0(words)   == Says1(words, <<>>)

-----------------------------------------------------------------------------
(* Every form of statement, with names read before and after they are      *)
(* defined, and what the parser passes over. *)
Forms(a, b) == {<<s>> : s \in
  { Op2(a, "add", Ty("i32"), b, Lit(7)), Op2Comma(b, "fadd", Ty("f64"), Flt(1), Flt(2)),
    Op1(a, "neg", Ty("i64"), b), Cmp(b, "icmp", Ty("i32"), "slt", a, Arg0),
    Cmp(a, "fcmp", Ty("f32"), "uno", Flt(2), b),
    Ext(a, "zext", Ty("i64"), Ty("i32"), b), Conv(b, "sitofp", Ty("i32"), a, Ty("f64")),
    PhiOf(a, Ty("i32"), Lit(0), "entry", b, "loop"), CallOf(a, Ty("i32"), "g", <<b, Flt(1)>>),
    RetVoid, RetOf(Ty("i32"), b), BrTo("loop"), CbrTo(a, "loop", "done"), BlockIs("loop"),
    AllocaOf(a, Ty("i64")), AllocaOf(b, Four), AllocaBytes(a, Ty("i8"), 16),
    LoadOf(a, Ty("i32"), b), StoreOf(Ty("i16"), Lit(7), a), LoadAgg(b, Point, a), StoreAgg(Outer, a, b),
    VaStartTo(a), VaArgOf(b, a, Ty("i64")), VaEndOf(a), Field(a, Outer, b, 2), Field(b, Point, a, 1),
    Index(a, Point, b, Arg0, "elem"),   \* the word after a gep is not put back
    Adds0(<<Word("nop")>>), Adds0(To(a, <<Word("str")>>)) } }
  \cup {<<Adds0(<<Word(",")>>), Op1(b, "not", Ty("i8"), a)>>}

(* A comparison by every predicate. *)
Comparisons == {Cmp(N("a"), "icmp", Ty("i32"), p, Arg0, Lit(7)) : p \in DOMAIN Predicate("icmp")}
          \cup {Cmp(N("b"), "fcmp", Ty("f64"), p, Flt(1), Arg0) : p \in DOMAIN Predicate("fcmp")}

Prelude == <<DefPoint, DefOuter, DefFour>>
In(f, body) == <<f, BlockIs("entry")>> \o body \o <<Close>>

(* Two statements of any form after each other, named or numbered, and two *)
(* functions of one, which begin with fresh names. *)
MCTexts ==
  LET named == Forms(N("a"), N("b"))
      numbered == Forms(Num(1), Num(0))
  IN  {Prelude \o In(FuncIs("f", 1, FALSE), x \o y) : <<x, y>> \in (named \X named) \cup (numbered \X numbered)}
      \cup {Prelude \o In(FuncIs("f", 1, TRUE), x) \o In(FuncIs("g", 0, FALSE), y \o <<StrOf(N("a"), 0), StrOf(N("c"), 1)>>)
              : x \in numbered, y \in named}
      \cup {In(FuncIs("f", 1, FALSE), <<x>>) : x \in Comparisons}

(* They are files the parser is for. *)
ASSUME TextsConform == \A t \in MCTexts : Conforms(t)

(* An element of an array of i32, and its address used. *)
GepTexts ==
  {In(FuncIs("f", 1, FALSE), <<Element(N("a"), Ty("i32"), Arg0, Lit(1))>> \o x) : x \in Forms(N("b"), N("a"))}
=============================================================================
