------------------------------ MODULE TypeLayout ------------------------------
(***************************************************************************)
(* Sizes and layouts of types, which the text parser (src/ir/ir_parse.c)   *)
(* and the builder (src/ir/ir_builder.c) each compute for themselves.      *)
(* A type is [kind] for a scalar, and carries size, align and offsets for  *)
(* a structure, elem, count and size for an array.                         *)
(***************************************************************************)
EXTENDS Integers, Sequences, FiniteSetsExt, SequencesExt

Width == [i8 |-> 1, i16 |-> 2, i32 |-> 4, f32 |-> 4, i64 |-> 8, f64 |-> 8, ptr |-> 8]
Scalars == DOMAIN Width \cup {"i1", "void"}
Scalar(k) == [kind |-> k]
IsAggregate(t) == t.kind \in {"struct", "array"}

(* agg_size, and the size of a field or of what ir_alloca_type reserves. *)
SizeOf(t) ==
  IF IsAggregate(t) THEN t.size ELSE IF t.kind \in DOMAIN Width THEN Width[t.kind] ELSE 4

(* The alignment of a field: layout_struct has 1 for what it does not      *)
(* list, type_size_align 4; arrays are aligned to 1 by both.               *)
AlignOr(t, default) ==
  CASE t.kind \in DOMAIN Width -> Width[t.kind]
    [] t.kind = "struct" -> t.align
    [] t.kind = "array"  -> 1
    [] OTHER -> default
ParserAlignBySize(t) == IF t.kind = "struct" THEN t.size ELSE AlignOr(t, 1)  \* variant
ParserAlign(t)  == AlignOr(t, 1)
BuilderAlign(t) == AlignOr(t, 4)

RoundUp(x, a) == ((x + a - 1) \div a) * a

(* Both loops over the fields, given the alignment of each. *)
StructOf(fields, aligns) ==
  LET end[i \in 0..Len(fields)] ==
        IF i = 0 THEN 0 ELSE RoundUp(end[i-1], aligns[i]) + SizeOf(fields[i])
      align == Max({1} \cup ToSet(aligns))
  IN  [kind |-> "struct", fields |-> fields,
       offsets |-> [i \in DOMAIN fields |-> RoundUp(end[i-1], aligns[i])],
       size |-> RoundUp(end[Len(fields)], align), align |-> align]

ParserStruct(fields)  == StructOf(fields, [i \in DOMAIN fields |-> ParserAlign(fields[i])])
BuilderStruct(fields) == StructOf(fields, [i \in DOMAIN fields |-> BuilderAlign(fields[i])])

(* The parser lists the element types it knows the size of, for arrays and *)
(* for gep; arrays are not among them.                                     *)
ParserElemSize(t) == IF t.kind = "array" THEN 4 ELSE SizeOf(t)
ArrayOf(elem, n, size) == [kind |-> "array", elem |-> elem, count |-> n, size |-> n * size]
ParserArray(elem, n)  == ArrayOf(elem, n, ParserElemSize(elem))
BuilderArray(elem, n) == ArrayOf(elem, n, SizeOf(elem))

(* gep steps by the element of an array in the text, by the whole type in  *)
(* the builder.                                                            *)
ParserStep(t) == IF t.kind = "array" THEN ParserElemSize(t.elem) ELSE SizeOf(t)

(* alloca without a byte count: f64 is not listed either. *)
ParserAllocaSize(t) == IF t.kind = "f64" THEN 4 ELSE SizeOf(t)

(* No two fields share a byte, every field lies in the structure, at a     *)
(* multiple of the width of its type.                                      *)
SoundLayout(t) ==
  t.kind = "struct" =>
    \A i \in DOMAIN t.fields :
      LET past == t.offsets[i] + SizeOf(t.fields[i]) IN
        /\ past <= t.size
        /\ \A j \in DOMAIN t.fields : i < j => past <= t.offsets[j]
        /\ t.fields[i].kind \in DOMAIN Width => t.offsets[i] % Width[t.fields[i].kind] = 0
=============================================================================
