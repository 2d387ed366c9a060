----------------------------- MODULE ParserProofs -----------------------------
(***************************************************************************)
(* The text parser reads what conforms to its language: from every file of *)
(* module Language it builds the types, functions and instructions that    *)
(* the statements of the file mean.  First each action of Parser is shown  *)
(* to read one statement; from that the invariant Inv is inductive, and it *)
(* implies the properties of the runs.                                     *)
(***************************************************************************)
EXTENDS ParserLemmas

-----------------------------------------------------------------------------
(* Reading one statement.  Ready(j): the first j statements have been read *)
(* and the next one begins; Advanced(j): the step reads statement j+1.     *)
Ready(j) ==
  /\ Conforms(text) /\ j \in 0..Len(text) /\ Standing(text, j, r, types, strings, funcs, F, B)
  /\ r.rest = WordsIn(text, j, Len(text))
Advanced(j) ==
  /\ text' = text /\ j \in 0..Len(text)-1 /\ Standing(text, j+1, r', types', strings', funcs', F', B')
  /\ r'.rest = WordsIn(text, j+1, Len(text))

(* Entered(j): the next statement begins as an instruction does, and       *)
(* Taking(j, q, c, ws): q has read its first c words after the opcode, of  *)
(* which ws are the operands.                                              *)
Entered(j) == Ready(j) /\ Begins(text, j, r, Opening)
Taking(j, q, c, ws) == Took(NamesAt(text, j), Opening.q.rest, Opening.q, q, c, ws)

LEMMA TakingBegins ==
  ASSUME NEW j, Entered(j)
  PROVE  /\ Taking(j, Opening.q, 0, <<>>) /\ Rest(text[j+1]) \in Nat /\ j \in 0..Len(text)-1
         /\ Opening.q.rest \in Seq(Words) /\ Len(Opening.q.rest) \in Nat /\ Rest(text[j+1]) <= Len(Opening.q.rest)
         /\ Roomy(NamesAt(text, j))
<1> DEFINE x == Rest(text[j+1])
           U == Opening.q.rest
           S == NamesAt(text, j)
<1>1. x \in 0..Len(U) /\ U \in Seq(Words) /\ Took(S, U, Opening.q, Opening.q, 0, <<>>) /\ j \in 0..Len(text)-1 /\ Roomy(S)
  BY DEF Entered, Begins
<1>2. Len(U) \in Nat
  BY <1>1, LenProperties
<1>3. Taking(j, Opening.q, 0, <<>>)
  BY <1>1 DEF Taking
<1> HIDE DEF x, U, S
<1>4. x \in Nat /\ x <= Len(U)
  BY <1>1, <1>2
<1> QED
  BY <1>1, <1>2, <1>3, <1>4 DEF x, U, S

LEMMA WordAt ==
  ASSUME NEW j, Entered(j), NEW c \in Nat, c < Rest(text[j+1])
  PROVE  /\ Opening.q.rest[c+1] = W(text[j+1], c+1) /\ c < Len(Opening.q.rest)
         /\ IsVreg(W(text[j+1], c+1)) \/ IsOperand(W(text[j+1], c+1)) => Usable(NamesAt(text, j), W(text[j+1], c+1))
<1> DEFINE x == Rest(text[j+1])
           U == Opening.q.rest
           S == NamesAt(text, j)
           s == text[j+1]
<1>1. \A i \in 1..x : /\ U[i] = W(s, i) /\ U[i] \in Words
                      /\ (IsVreg(U[i]) \/ IsOperand(U[i]) => Usable(S, U[i]))
  BY DEF Entered, Begins
<1>2. x \in Nat /\ Len(U) \in Nat /\ x <= Len(U)
  BY TakingBegins
<1>3. c+1 \in 1..x /\ c < Len(U)
  BY <1>2
<1> HIDE DEF x, U, S, s
<1>4. U[c+1] = W(s, c+1) /\ (IsVreg(U[c+1]) \/ IsOperand(U[c+1]) => Usable(S, U[c+1]))
  BY <1>1, <1>3
<1> QED
  BY <1>3, <1>4 DEF x, U, S, s

LEMMA TakingPeek ==
  ASSUME NEW j, Entered(j), NEW q, NEW c \in Nat, NEW ws, Taking(j, q, c, ws), c < Rest(text[j+1])
  PROVE  Peek(q) = W(text[j+1], c+1)
<1> DEFINE U == Opening.q.rest
           S == NamesAt(text, j)
<1>1. Reads(S, U, c, q)
  BY DEF Taking, Took
<1>2. U \in Seq(Words) /\ c < Len(U) /\ U[c+1] = W(text[j+1], c+1)
  BY TakingBegins, WordAt
<1> HIDE DEF S, U
<1>3. Peek(q) = U[c+1]
  BY <1>1, <1>2, PeekIs
<1> QED
  BY <1>2, <1>3

LEMMA TakingSkip ==
  ASSUME NEW j, Entered(j), NEW q, NEW c \in Nat, NEW ws, Taking(j, q, c, ws), c < Rest(text[j+1]), NEW d, d = c+1
  PROVE  Taking(j, Skip(q), d, ws) /\ Skip(q).args = q.args
<1> DEFINE U == Opening.q.rest
           S == NamesAt(text, j)
<1>1. Took(S, U, Opening.q, q, c, ws)
  BY DEF Taking
<1>2. U \in Seq(Words) /\ c < Len(U)
  BY TakingBegins, WordAt
<1> DEFINE q0 == Opening.q
<1> HIDE DEF S, U, q0
<1>3. Took(S, U, q0, Skip(q), c+1, ws) /\ Skip(q).args = q.args
  <2>1. Took(S, U, q0, q, c, ws)
    BY <1>1 DEF q0
  <2> QED
    BY <1>2, <2>1, TookSkip
<1> QED
  BY <1>3 DEF Taking, S, U, q0

LEMMA TakingOperand ==
  ASSUME NEW j, Entered(j), NEW q, NEW c \in Nat, NEW ws, Taking(j, q, c, ws), c < Rest(text[j+1]),
         IsOperand(W(text[j+1], c+1)), NEW d, d = c+1, NEW vs, vs = Append(ws, W(text[j+1], d))
  PROVE  Taking(j, Operand(q), d, vs)
<1> DEFINE U == Opening.q.rest
           S == NamesAt(text, j)
           q0 == Opening.q
<1>1. Took(S, U, q0, q, c, ws)
  BY DEF Taking
<1>2. U \in Seq(Words) /\ Roomy(S)
  BY TakingBegins
<1>3. c < Len(U) /\ U[c+1] = W(text[j+1], c+1) /\ Usable(S, U[c+1])
  BY WordAt
<1> HIDE DEF S, U, q0
<1>4. Took(S, U, q0, Operand(q), c+1, Append(ws, U[c+1]))
  BY <1>1, <1>2, <1>3, TookOperand
<1> QED
  BY <1>3, <1>4 DEF Taking, S, U, q0

LEMMA TakingSecond ==
  ASSUME NEW j, Entered(j), NEW q, NEW c \in Nat, NEW ws, Taking(j, q, c, ws),
         NEW e, e = Second2(text[j+1], c), e <= Rest(text[j+1]), IsOperand(W(text[j+1], e)),
         NEW vs, vs = Append(ws, W(text[j+1], e))
  PROVE  Taking(j, Operand(q), e, vs)
<1> DEFINE U == Opening.q.rest
           S == NamesAt(text, j)
           q0 == Opening.q
           x == Rest(text[j+1])
           s == text[j+1]
<1>1. Took(S, U, q0, q, c, ws)
  BY DEF Taking
<1>2. U \in Seq(Words) /\ Roomy(S) /\ x \in Nat
  BY TakingBegins
<1> DEFINE d == IF W(s, c+1) = Comma THEN c+1 ELSE c
<1>3. e = d+1 /\ d \in Nat /\ c < x /\ d < x /\ (d = c+1 \/ d = c)
  <2>1. e = IF W(s, c+1) = Comma THEN c+2 ELSE c+1
    BY DEF Second2
  <2> HIDE DEF x, s
  <2>2. CASE W(s, c+1) = Comma
    <3>1. e = c+2 /\ d = c+1
      BY <2>1, <2>2
    <3>2. e <= x /\ x \in Nat
      BY <1>2 DEF x, s
    <3> QED
      BY <3>1, <3>2
  <2>3. CASE W(s, c+1) # Comma
    <3>1. e = c+1 /\ d = c
      BY <2>1, <2>3
    <3>2. e <= x /\ x \in Nat
      BY <1>2 DEF x, s
    <3> QED
      BY <3>1, <3>2
  <2> QED
    BY <2>2, <2>3
<1>4. U[c+1] = W(s, c+1) /\ c < Len(U)
  BY <1>3, WordAt
<1>5. U[d+1] = W(s, d+1) /\ d < Len(U) /\ (IsOperand(W(s, d+1)) => Usable(S, W(s, d+1)))
  <2> DEFINE dd == d
  <2>1. dd \in Nat /\ dd < Rest(text[j+1])
    BY <1>3
  <2> HIDE DEF dd, d
  <2>2. U[dd+1] = W(s, dd+1) /\ dd < Len(U) /\ (IsOperand(W(s, dd+1)) => Usable(S, W(s, dd+1)))
    BY <2>1, WordAt
  <2> QED
    BY <2>2 DEF dd
<1>6. d = (IF U[c+1] = Comma THEN c+1 ELSE c)
  BY <1>4
<1>7. IsOperand(W(s, d+1)) /\ Append(ws, U[d+1]) = vs
  BY <1>3, <1>5
<1>8. Usable(S, U[d+1])
  BY <1>5, <1>7
<1> HIDE DEF S, U, q0, d, s, x
<1>9. Took(S, U, q0, Operand(q), d+1, Append(ws, U[d+1]))
  BY <1>1, <1>2, <1>4, <1>5, <1>6, <1>8, TookSecond
<1>10. Took(S, U, q0, Operand(q), e, vs)
  BY <1>3, <1>7, <1>9
<1> QED
  BY <1>10 DEF Taking, S, U, q0

LEMMA TakingFrom ==
  ASSUME NEW j, Entered(j), NEW q, NEW c \in Nat, NEW ws, Taking(j, q, c, ws), NEW d, d = c+2, d <= Rest(text[j+1])
  PROVE  Taking(j, From(q, 3), d, ws) /\ From(q, 3).args = q.args
<1> DEFINE x == Rest(text[j+1])
           U == Opening.q.rest
<1>1. x \in Nat /\ U \in Seq(Words) /\ Len(U) \in Nat /\ x <= Len(U)
  BY TakingBegins
<1>2. c < x /\ c+1 \in Nat /\ c+1 < x /\ c+2 = (c+1)+1 /\ c+2 <= Len(U) /\ c \in 0..Len(U)
  <2> HIDE DEF x, U
  <2>1. x \in Nat /\ c+2 <= x
    BY <1>1 DEF x
  <2> QED
    BY <1>1, <2>1
<1>3. q.rest = Drop(U, c)
  BY DEF Taking, Took, Reads
<1>4. q.rest \in Seq(Words) /\ Len(q.rest) >= 2
  <2> HIDE DEF U, x
  <2>1. Drop(U, c) \in Seq(Words) /\ Len(Drop(U, c)) = Len(U) - c
    BY <1>1, <1>2, DropIs
  <2>2. Len(U) - c >= 2
    BY <1>1, <1>2
  <2> QED
    BY <1>3, <2>1, <2>2
<1>5. From(q, 3) = Skip(Skip(q))
  BY <1>4, FromThree
<1>6. Taking(j, Skip(q), c+1, ws) /\ Skip(q).args = q.args
  BY <1>2, TakingSkip
<1> DEFINE p == Skip(q)
           e == c+1
<1>7. e \in Nat /\ e < Rest(text[j+1]) /\ d = e+1 /\ Taking(j, p, e, ws)
  BY <1>2, <1>6
<1> HIDE DEF p, e
<1>8. Taking(j, Skip(p), d, ws) /\ Skip(p).args = p.args
  BY <1>7, TakingSkip
<1> QED
  BY <1>5, <1>6, <1>8 DEF p

(* All the vregs of the statement after its opcode are among ws. *)
Covers(s, ws) == \A i \in 1..Rest(s) : IsVreg(W(s, i)) => \E k \in 1..Len(ws) : ws[k] = W(s, i)

LEMMA WentBy ==
  ASSUME NEW j, Entered(j), NEW q, NEW ws, Taking(j, q, Rest(text[j+1]), ws), Covers(text[j+1], ws)
  PROVE  /\ Went(text, j, r, q) /\ q.rest = WordsIn(text, j+1, Len(text))
         /\ Met(q, Dest(text[j+1])) /\ NumberIn(q, Dest(text[j+1])) = Opening.dst
<1> DEFINE s == text[j+1]
           S == NamesAt(text, j)
           U == Opening.q.rest
           o == Opening
           x == Rest(text[j+1])
<1>1. /\ IsInstruction(text, j, s) /\ Fine(S, r) /\ Extends(r, o.q) /\ Drop(U, x) = WordsIn(text, j+1, Len(text))
      /\ o.dst = NumberIn(o.q, Dest(s)) /\ Met(o.q, Dest(s)) /\ j \in 0..Len(text)-1
  BY DEF Entered, Begins
<1>2. /\ Fine(S, q) /\ q.rest = Drop(U, x) /\ Fine(S, o.q) /\ Extends(o.q, q)
      /\ \A k \in 1..Len(ws) : Holds(q, q.args[k], ws[k])
  BY DEF Taking, Took, Reads
<1> HIDE DEF s, S, U, o, x
<1>3. Extends(r, q)
  BY <1>1, <1>2, ExtendsTransitive
<1>4. Met(q, Dest(s)) /\ NumberIn(q, Dest(s)) = o.dst
  BY <1>1, <1>2, NumberStays
<1>5. ASSUME NEW i \in 1..Len(s.words), IsVreg(s.words[i]) PROVE Met(q, s.words[i])
  <2> DEFINE n == Len(s.words)
             b == Body(s)
             v == IsVreg(s.words[1])
  <2>1. s.words \in Seq(Words) /\ OpWord(s).k = "word" /\ (b = 2 => s.words[2] = Word("="))
    BY <1>1 DEF IsInstruction
  <2>2. n \in Nat
    BY <2>1, LenProperties
  <2>3. b = (IF v THEN 2 ELSE 0)
    BY DEF Body
  <2>4. OpWord(s) = s.words[b+1] /\ x = n-b-1 /\ \A k : W(s, k) = s.words[b+1+k]
    BY DEF OpWord, Rest, W, x, s
  <2>5. CASE i = 1 /\ b = 2
    <3>1. Dest(s) = s.words[i]
      BY <2>5 DEF Dest
    <3> QED
      BY <1>4, <3>1
  <2>6. CASE i = 1 /\ b = 0
    <3>1. ~IsVreg(s.words[i])
      BY <2>3, <2>6
    <3> QED
      BY <1>5, <3>1
  <2>7. CASE i = 2 /\ b = 2
    <3>1. s.words[i].k = "word"
      BY <2>1, <2>7 DEF Word
    <3> QED
      BY <1>5, <3>1 DEF IsVreg
  <2>8. CASE i = b+1
    <3>1. s.words[i].k = "word"
      BY <2>1, <2>4, <2>8
    <3> QED
      BY <1>5, <3>1 DEF IsVreg
  <2>9. CASE i > b+1
    <3> DEFINE k == i-b-1
    <3>1. k \in 1..x /\ b+1+k = i
      <4> HIDE DEF n, b, v
      <4>1. i \in 1..n /\ b \in {0, 2}
        BY <2>3 DEF n
      <4> QED
        BY <2>2, <2>4, <2>9, <4>1
    <3> HIDE DEF k
    <3>2. W(s, k) = s.words[i]
      BY <2>4, <3>1
    <3>3. PICK m \in 1..Len(ws) : ws[m] = s.words[i]
      BY <1>5, <3>1, <3>2 DEF Covers, x, s
    <3> QED
      BY <1>2, <3>3 DEF Holds
  <2> HIDE DEF n, b, v
  <2>10. i \in 1..n /\ b \in {0, 2}
    BY <2>3 DEF n
  <2> QED
    BY <2>2, <2>5, <2>6, <2>7, <2>8, <2>9, <2>10
<1>6. s.words[1] # Word("func")
  BY <1>1 DEF IsInstruction
<1>7. Went(text, j, r, q)
  BY <1>1, <1>2, <1>3, <1>5, <1>6 DEF Went, s, S
<1> QED
  BY <1>1, <1>2, <1>4, <1>7 DEF s, o

(* The instructions of the statement are put into the current block, *)
LEMMA Finished ==
  ASSUME NEW j, Entered(j), InBlock(text, j), NEW q, NEW ws, Taking(j, q, Rest(text[j+1]), ws), Covers(text[j+1], ws),
         NEW new, Sounds(text[j+1], q, new), Put(q, new), strings' = Strings(text, (j+1)+1)
  PROVE  Advanced(j)
<1>1. Went(text, j, r, q) /\ q.rest = WordsIn(text, j+1, Len(text))
  BY WentBy
<1>2. Conforms(text) /\ Standing(text, j, r, types, strings, funcs, F, B)
  BY DEF Entered, Ready
<1>3. r' = q /\ text' = text /\ types' = types /\ F' = F /\ B' = B
      /\ funcs' = [funcs EXCEPT ![F].blocks[B].instrs = @ \o new]
  BY DEF Put
<1> DEFINE ns == Strings(text, (j+1)+1)
<1>4. ns = Strings(text, (j+1)+1)
  OBVIOUS
<1> HIDE DEF ns
<1>5. Standing(text, j+1, q, types, ns, [funcs EXCEPT ![F].blocks[B].instrs = @ \o new], F, B)
  BY <1>1, <1>2, <1>4, Emitted
<1>6. Standing(text, j+1, r', types', strings', funcs', F', B')
  BY <1>3, <1>5 DEF ns
<1>7. j \in 0..Len(text)-1
  BY <1>1 DEF Went
<1> QED
  BY <1>1, <1>3, <1>6, <1>7 DEF Advanced

(* or it has none. *)
LEMMA PassedBy ==
  ASSUME NEW j, Entered(j), Rest(text[j+1]) = 0, text[j+1].means = <<>>,
         r' = Opening.q, UNCHANGED <<text, types, strings, funcs, F, B>>
  PROVE  Advanced(j)
<1> DEFINE s == text[j+1]
<1>1. Taking(j, Opening.q, 0, <<>>) /\ j \in 0..Len(text)-1
  BY TakingBegins
<1>2. Covers(s, <<>>)
  BY DEF Covers
<1>3. Went(text, j, r, Opening.q) /\ Opening.q.rest = WordsIn(text, j+1, Len(text))
  BY <1>1, <1>2, WentBy
<1>4. Conforms(text) /\ Standing(text, j, r, types, strings, funcs, F, B)
  BY DEF Entered, Ready
<1>5. IsInstruction(text, j, s)
  BY DEF Entered, Begins
<1>6. Silent(s, F, B, F, B)
  BY <1>5 DEF IsInstruction, Silent, Quiet
<1>7. Standing(text, j+1, Opening.q, types, strings, funcs, F, B)
  BY <1>3, <1>4, <1>6, Passed
<1> QED
  BY <1>1, <1>3, <1>7 DEF Advanced

(* One instruction. *)
LEMMA EmitMeant ==
  ASSUME NEW j, Entered(j), InBlock(text, j), NEW q, NEW ws, Taking(j, q, Rest(text[j+1]), ws), Covers(text[j+1], ws),
         NEW op, op # "str", NEW ty, NEW pred, NEW labels, NEW d, NEW x, x = NumberIn(q, d),
         NEW vs, NEW args, Gathered(q, d, args, vs),
         text[j+1].means = <<Instr(op, ty, d, vs, pred, labels)>>,
         Emit(q, Instr(op, ty, x, args, pred, labels))
  PROVE  Advanced(j)
<1> DEFINE s == text[j+1]
           m == Instr(op, ty, d, vs, pred, labels)
           instr == Instr(op, ty, x, args, pred, labels)
<1>1. Tells(q, instr, m) /\ m.op = op
  <2>1. Tells(q, Instr(op, ty, NumberIn(q, d), args, pred, labels), Instr(op, ty, d, vs, pred, labels))
        /\ Instr(op, ty, d, vs, pred, labels).op = op
    BY TellsIs
  <2> QED
    BY <2>1
<1> HIDE DEF m, instr
<1>2. s.means = <<m>> /\ Len(s.means) = 1 /\ s.means[1] = m /\ s.means # <<>>
  <2>1. s.means = <<m>>
    BY DEF m
  <2> QED
    BY <2>1
<1>3. IsSeq(<<instr>>) /\ Len(<<instr>>) = 1 /\ <<instr>>[1] = instr
  BY SeqIs, <<instr>> \in Seq({instr})
<1>4. IsInstruction(text, j, s)
  BY DEF Entered, Begins
<1>5. Sounds(s, q, <<instr>>)
  <2>1. s.types = <<>> /\ s.words[1] # Word("block") /\ s.words[1] # Word("}")
    BY <1>4 DEF IsInstruction
  <2>2. ASSUME NEW i \in 1..Len(s.means) PROVE Tells(q, <<instr>>[i], s.means[i])
    <3> DEFINE n == Len(s.means)
    <3>1. n = 1 /\ i \in 1..n
      BY <1>2
    <3> HIDE DEF n, s
    <3>2. i = 1
      BY <3>1
    <3> QED
      BY <1>1, <1>2, <3>2
  <2> QED
    BY <1>2, <1>3, <2>1, <2>2 DEF Sounds
<1>6. Put(q, <<instr>>) /\ strings' = strings
  BY DEF Emit, instr
<1>7. strings = Strings(text, j+1)
  BY DEF Entered, Ready, Standing
<1>8. Strings(text, (j+1)+1) = Strings(text, j+1)
  <2>1. j \in Nat
    <3>1. j \in 0..Len(text)-1
      BY TakingBegins
    <3> QED
      BY <3>1
  <2>2. ~(s.means # <<>> /\ s.means[1].op = "str")
    BY <1>1, <1>2
  <2> QED
    BY <2>1, <2>2, StringsStep
<1> QED
  BY <1>5, <1>6, <1>7, <1>8, Finished

(* What has been read, for an instruction with the destination d. *)
LEMMA TakingGathers ==
  ASSUME NEW j, Entered(j), NEW q, NEW ws, Taking(j, q, Rest(text[j+1]), ws), Covers(text[j+1], ws),
         NEW d, NEW x, (d = Dest(text[j+1]) /\ x = Opening.dst) \/ (d = Nothing /\ x = NoDst)
  PROVE  Gathered(q, d, q.args, ws) /\ x = NumberIn(q, d)
<1>1. Met(q, Dest(text[j+1])) /\ NumberIn(q, Dest(text[j+1])) = Opening.dst
  BY WentBy
<1>2. Met(q, d) /\ x = NumberIn(q, d)
  <2>1. CASE d = Dest(text[j+1]) /\ x = Opening.dst
    BY <1>1, <2>1
  <2>2. CASE d = Nothing /\ x = NoDst
    BY <2>2 DEF Met, Nothing, NumberIn
  <2> QED
    BY <2>1, <2>2
<1> DEFINE S == NamesAt(text, j)
<1>3. Fine(S, q) /\ IsSeq(ws) /\ Len(q.args) = Len(ws) /\ \A i \in 1..Len(ws) : Holds(q, q.args[i], ws[i])
  BY DEF Taking, Took, Reads
<1> HIDE DEF S
<1>4. q.args \in Seq(Opd)
  BY <1>3, FineHas
<1> QED
  BY <1>2, <1>3, <1>4 DEF Gathered

LEMMA EmitOne ==
  ASSUME NEW j, Entered(j), InBlock(text, j), NEW q, NEW ws, Taking(j, q, Rest(text[j+1]), ws), Covers(text[j+1], ws),
         NEW op, op # "str", NEW ty, NEW pred, NEW labels, NEW d, NEW x,
         (d = Dest(text[j+1]) /\ x = Opening.dst) \/ (d = Nothing /\ x = NoDst),
         text[j+1].means = <<Instr(op, ty, d, ws, pred, labels)>>,
         NEW args, args = q.args, Emit(q, Instr(op, ty, x, args, pred, labels))
  PROVE  Advanced(j)
<1>1. Gathered(q, d, args, ws) /\ x = NumberIn(q, d)
  BY TakingGathers
<1> QED
  BY <1>1, EmitMeant

LEMMA TakingNone ==
  ASSUME NEW j, NEW q, NEW c, Taking(j, q, c, <<>>)
  PROVE  q.args = <<>>
<1> DEFINE S == NamesAt(text, j)
<1>1. Fine(S, q) /\ Len(q.args) = Len(<<>>)
  BY DEF Taking, Took, Reads
<1> HIDE DEF S
<1>2. q.args \in Seq(Opd)
  BY <1>1, FineHas
<1>3. Len(<<>>) = 0
  OBVIOUS
<1> QED
  BY <1>1, <1>2, <1>3, EmptySeq

(* The operands of one statement. *)
Keeps(s, ops, ws) == \A i \in ops : \E k \in 1..Len(ws) : ws[k] = W(s, i)
LEMMA TakesIs ==
  ASSUME NEW s, NEW n, NEW ops, Takes(s, n, ops), NEW ws, Keeps(s, ops, ws)
  PROVE  Covers(s, ws)
<1>1. \A i \in 1..Rest(s) : i \in ops \/ ~IsVreg(W(s, i))
  BY DEF Takes, IsVreg
<1> QED
  BY <1>1 DEF Covers, Keeps

LEMMA Lists ==
  ASSUME NEW w, NEW v
  PROVE  /\ Append(<<>>, w) = <<w>> /\ Append(<<w>>, v) = <<w, v>>
         /\ Len(<<w>>) = 1 /\ <<w>>[1] = w /\ Len(<<w, v>>) = 2 /\ <<w, v>>[1] = w /\ <<w, v>>[2] = v
<1>1. Append(<<>>, w) = <<w>>
  OBVIOUS
<1>2. Append(<<w>>, v) = <<w, v>>
  <2> DEFINE x == Append(<<w>>, v)
             y == <<w, v>>
  <2>1. IsSeq(<<w>>) /\ IsSeq(y)
    BY SeqIs, <<w>> \in Seq({w}), y \in Seq({w, v})
  <2>2. IsSeq(x) /\ Len(x) = Len(<<w>>) + 1 /\ x[Len(<<w>>) + 1] = v /\ \A i \in 1..Len(<<w>>) : x[i] = <<w>>[i]
    BY <2>1, AppendIs
  <2>3. Len(x) = 2 /\ x[1] = w /\ x[2] = v
    BY <2>2
  <2>4. Len(y) = 2 /\ y[1] = w /\ y[2] = v
    OBVIOUS
  <2> HIDE DEF x, y
  <2>5. \A i \in 1..Len(x) : x[i] = y[i]
    BY <2>3, <2>4
  <2> QED
    BY <2>1, <2>2, <2>3, <2>4, <2>5, SameSeq DEF x, y
<1> QED
  BY <1>1, <1>2

LEMMA ReadsOne ==
  ASSUME NEW j, Entered(j), NEW n, NEW i \in Nat \ {0}, Takes(text[j+1], n, {i}), i <= Rest(text[j+1]),
         NEW q, NEW c, c = i-1, Taking(j, q, c, <<>>)
  PROVE  /\ Taking(j, Operand(q), i, Args1(text[j+1], i)) /\ Covers(text[j+1], Args1(text[j+1], i))
         /\ Rest(text[j+1]) = n
<1> DEFINE s == text[j+1]
           w == W(text[j+1], i)
<1>1. Rest(s) = n /\ IsOperand(w)
  BY DEF Takes
<1>2. Rest(s) \in Nat
  BY TakingBegins
<1>3. c \in Nat /\ c < Rest(text[j+1]) /\ i = c+1
  BY <1>2
<1>4. Append(<<>>, w) = <<w>> /\ <<w>> = Args1(s, i) /\ Len(<<w>>) = 1 /\ <<w>>[1] = w
  BY DEF Args1
<1>5. W(text[j+1], c+1) = w
  BY <1>3
<1> HIDE DEF w
<1>6. Taking(j, Operand(q), i, <<w>>)
  <2>1. IsOperand(W(text[j+1], c+1))
    BY <1>1, <1>5
  <2>2. <<w>> = Append(<<>>, W(text[j+1], i))
    BY <1>4 DEF w
  <2> QED
    BY <1>3, <2>1, <2>2, TakingOperand
<1>7. Covers(s, <<w>>)
  <2>1. Keeps(s, {i}, <<w>>) /\ Takes(s, n, {i})
    BY <1>4 DEF w, Keeps
  <2> QED
    BY <2>1, TakesIs
<1> QED
  BY <1>1, <1>4, <1>6, <1>7

LEMMA ReadsTwo ==
  ASSUME NEW j, Entered(j), NEW more \in Nat, NEW i \in Nat \ {0}, TakesTwo(text[j+1], i, more),
         NEW q, NEW c, c = i-1, Taking(j, q, c, <<>>)
  PROVE  LET e == Second2(text[j+1], i)
         IN  /\ Taking(j, Operand(Operand(q)), e, Args2(text[j+1], i)) /\ Covers(text[j+1], Args2(text[j+1], i))
             /\ Rest(text[j+1]) = e + more /\ e \in Nat
<1> DEFINE s == text[j+1]
           e == Second2(text[j+1], i)
           n == e + more
           w == W(text[j+1], i)
           v == W(text[j+1], e)
<1>1. Rest(s) > i /\ Takes(s, n, {i, e})
  BY DEF TakesTwo
<1>2. Rest(s) \in Nat
  BY TakingBegins
<1>3. e \in {i+1, i+2}
  BY DEF Second2
<1>4. Rest(s) = n /\ \A k \in 1..n : k \in {i, e} => IsOperand(W(s, k))
  BY <1>1 DEF Takes
<1> HIDE DEF e, s
<1>5. e \in Nat /\ i <= e /\ e <= Rest(s) /\ i \in 1..n /\ e \in 1..n
  BY <1>2, <1>3, <1>4
<1>6. IsOperand(w) /\ IsOperand(v)
  BY <1>4, <1>5 DEF s
<1>7. c \in Nat /\ c < Rest(text[j+1]) /\ i = c+1
  BY <1>1, <1>2 DEF s
<1>8. Append(<<>>, w) = <<w>> /\ Append(<<w>>, v) = <<w, v>> /\ <<w, v>> = Args2(s, i) /\ Len(<<w, v>>) = 2 /\ <<w, v>>[1] = w /\ <<w, v>>[2] = v
  <2>1. <<w, v>> = Args2(s, i)
    BY DEF Args2, e, s
  <2> HIDE DEF w, v
  <2>2. Append(<<>>, w) = <<w>> /\ Append(<<w>>, v) = <<w, v>> /\ Len(<<w, v>>) = 2 /\ <<w, v>>[1] = w /\ <<w, v>>[2] = v
    BY Lists
  <2> QED
    BY <2>1, <2>2
<1>9. W(text[j+1], c+1) = w
  BY <1>7
<1> HIDE DEF w, v
<1>10. Taking(j, Operand(q), i, <<w>>)
  <2>1. IsOperand(W(text[j+1], c+1))
    BY <1>6, <1>9
  <2>2. <<w>> = Append(<<>>, W(text[j+1], i))
    BY <1>8 DEF w
  <2> QED
    BY <1>7, <2>1, <2>2, TakingOperand
<1> DEFINE p == Operand(q)
<1> HIDE DEF p
<1>11. Taking(j, Operand(p), e, <<w, v>>)
  <2>1. IsOperand(W(text[j+1], e)) /\ e = Second2(text[j+1], i) /\ e <= Rest(text[j+1])
    BY <1>5, <1>6 DEF e, v, s
  <2>2. <<w, v>> = Append(<<w>>, W(text[j+1], e))
    BY <1>8 DEF v
  <2>3. Taking(j, p, i, <<w>>) /\ i \in Nat
    BY <1>10 DEF p
  <2> QED
    BY <2>1, <2>2, <2>3, TakingSecond
<1>12. Covers(s, <<w, v>>)
  <2>1. Keeps(s, {i, e}, <<w, v>>)
    BY <1>8 DEF w, v, s, Keeps
  <2> QED
    BY <1>1, <2>1, TakesIs
<1> QED
  BY <1>4, <1>5, <1>8, <1>11, <1>12 DEF e, s, p

(* A type that is named in the statement. *)
LEMMA NamedType ==
  ASSUME NEW j, Entered(j), NEW w, IsType(Known(text, j+1), w)
  PROVE  TypeNamed(w) = Meant(Known(text, j+1), w) /\ GoodType(Meant(Known(text, j+1), w))
<1>1. Conforms(text) /\ types = Known(text, j+1) /\ j \in 0..Len(text)
  BY DEF Entered, Ready, Standing
<1>2. j+1 \in 1..Len(text)+1
  BY <1>1, StatementsAre
<1>3. TypesOK(Known(text, j+1))
  BY <1>1, <1>2, KnownFine
<1>4. TypeIn(Known(text, j+1), w) = Meant(Known(text, j+1), w) /\ GoodType(Meant(Known(text, j+1), w))
  BY <1>3, TypeInIs
<1> QED
  BY <1>1, <1>4 DEF TypeNamed

LEMMA Enters ==
  ASSUME NEW j, Ready(j), NEW ops, Statement(ops)
  PROVE  Entered(j) /\ Opening.op = OpWord(text[j+1]).s /\ Opening.op \in ops /\ IsInstruction(text, j, text[j+1])
<1>1. Conforms(text) /\ j \in 0..Len(text) /\ Fine(NamesAt(text, j), r) /\ r.rest = WordsIn(text, j, Len(text))
  BY DEF Ready, Standing
<1>2. r.rest # <<>> /\ OpOf(Peek(r)) \notin Headings /\ Opening.op \in ops
  BY DEF Statement
<1>3. Begins(text, j, r, Opening)
  BY <1>1, <1>2, OpeningIs
<1> QED
  BY <1>2, <1>3 DEF Entered, Begins

LEMMA EntersInstr ==
  ASSUME NEW j, Ready(j), NEW ops, Statement(ops), ops \subseteq Opcodes \ {"str"}
  PROVE  Entered(j) /\ Opening.op = OpWord(text[j+1]).s /\ Opening.op \in ops /\ Instructed(text, j+1) /\ InBlock(text, j)
<1>1. Entered(j) /\ Opening.op = OpWord(text[j+1]).s /\ Opening.op \in ops /\ IsInstruction(text, j, text[j+1])
  BY Enters
<1>2. OpWord(text[j+1]).s \in Opcodes \ {"str"}
  BY <1>1
<1>3. Instructed(text, j+1) /\ InBlock(text, j)
  BY <1>1, <1>2 DEF IsInstruction
<1> QED
  BY <1>1, <1>3

(* Nearly every instruction begins with its type. *)
LEMMA TakingNamed ==
  ASSUME NEW j, Entered(j), IsType(Known(text, j+1), W(text[j+1], 1)), Rest(text[j+1]) > 0
  PROVE  /\ Peek(Opening.q) = W(text[j+1], 1) /\ Taking(j, Skip(Opening.q), 1, <<>>)
         /\ TypeNamed(Peek(Opening.q)) = Meant(Known(text, j+1), W(text[j+1], 1))
         /\ GoodType(Meant(Known(text, j+1), W(text[j+1], 1)))
<1>1. Taking(j, Opening.q, 0, <<>>) /\ 0 \in Nat /\ 0 < Rest(text[j+1])
  BY TakingBegins
<1>2. Peek(Opening.q) = W(text[j+1], 0+1)
  BY <1>1, TakingPeek
<1>3. Peek(Opening.q) = W(text[j+1], 1)
  BY <1>2
<1>4. Taking(j, Skip(Opening.q), 1, <<>>)
  BY <1>1, TakingSkip
<1> QED
  BY <1>3, <1>4, NamedType

-----------------------------------------------------------------------------
(* Every instruction. *)
LEMMA NotStr ==
  /\ Arithmetic \subseteq Opcodes \ {"str"} /\ Unaries \subseteq Opcodes \ {"str"} /\ Compares \subseteq Opcodes \ {"str"}
  /\ Widths \subseteq Opcodes \ {"str"} /\ ToFloats \subseteq Opcodes \ {"str"}
  /\ {"ret"} \subseteq Opcodes \ {"str"} /\ {"br"} \subseteq Opcodes \ {"str"} /\ {"cbr"} \subseteq Opcodes \ {"str"}
  /\ {"call"} \subseteq Opcodes \ {"str"} /\ {"load"} \subseteq Opcodes \ {"str"} /\ {"store"} \subseteq Opcodes \ {"str"}
  /\ {"alloca"} \subseteq Opcodes \ {"str"} /\ {"phi"} \subseteq Opcodes \ {"str"} /\ {"gep"} \subseteq Opcodes \ {"str"}
  /\ {"va_start"} \subseteq Opcodes \ {"str"} /\ {"va_arg"} \subseteq Opcodes \ {"str"} /\ {"va_end"} \subseteq Opcodes \ {"str"}
<1>1. "str" \notin UNION {Arithmetic, Unaries, Compares, Widths, ToFloats}
  BY DEF Arithmetic, Unaries, Compares, Widths, ToFloats
<1>2. Others \subseteq Opcodes
  BY DEF Opcodes
<1>3. UNION {Arithmetic, Unaries, Compares, Widths, ToFloats} \subseteq Opcodes
  BY DEF Opcodes
<1> QED
  BY <1>1, <1>2, <1>3 DEF Others

LEMMA ArithStep ==
  ASSUME NEW j, Ready(j), Arith
  PROVE  Advanced(j)
<1> DEFINE s == text[j+1]
           o == Opening
           op == OpWord(s).s
           tys == Known(text, j+1)
           ty == Meant(tys, W(s, 1))
           q == Operand(Operand(Skip(o.q)))
           e == Second2(s, 2)
<1>1. Entered(j) /\ o.op = op /\ op \in Arithmetic /\ Instructed(text, j+1) /\ InBlock(text, j) /\ op # "str"
  BY EntersInstr, NotStr DEF Arith
<1>2. TakesTwo(s, 2, 0) /\ IsType(tys, W(s, 1)) /\ s.means = <<Instr(op, ty, Dest(s), Args2(s, 2), 0, <<>>)>>
  BY <1>1 DEF Instructed
<1>3. Emit(q, Instr(op, TypeNamed(Peek(o.q)), o.dst, q.args, 0, <<>>))
  BY <1>1 DEF Arith
<1> HIDE DEF s, o, op, tys, ty, q
<1>4. Rest(text[j+1]) \in Nat /\ Rest(text[j+1]) > 0
  BY <1>1, <1>2, TakingBegins DEF Takes, TakesTwo, s
<1>5. Peek(o.q) = W(s, 1) /\ Taking(j, Skip(o.q), 1, <<>>) /\ TypeNamed(Peek(o.q)) = ty /\ GoodType(ty)
  BY <1>1, <1>2, <1>4, TakingNamed DEF o, s, tys, ty
<1>6. Taking(j, q, e, Args2(s, 2)) /\ Covers(s, Args2(s, 2)) /\ Rest(s) = e
  <2> DEFINE q1 == Skip(o.q)
  <2>1. TakesTwo(text[j+1], 2, 0) /\ 1 = 2-1 /\ 2 \in Nat \ {0} /\ 0 \in Nat
    BY <1>2 DEF s
  <2> HIDE DEF q1
  <2>2. Taking(j, q1, 1, <<>>)
    BY <1>5 DEF q1
  <2>3. /\ Taking(j, Operand(Operand(q1)), e, Args2(s, 2)) /\ Covers(s, Args2(s, 2))
        /\ Rest(s) = e + 0 /\ e \in Nat
    BY <1>1, <2>1, <2>2, ReadsTwo DEF s
  <2> QED
    BY <2>3 DEF q, q1
<1>7. Emit(q, Instr(op, ty, Opening.dst, q.args, 0, <<>>))
  BY <1>3, <1>5 DEF o
<1> QED
  BY <1>1, <1>2, <1>6, <1>7, EmitOne DEF s

LEMMA UnaryStep ==
  ASSUME NEW j, Ready(j), Unary
  PROVE  Advanced(j)
<1> DEFINE s == text[j+1]
           o == Opening
           op == OpWord(s).s
           tys == Known(text, j+1)
           ty == Meant(tys, W(s, 1))
           q == Operand(Skip(o.q))
<1>1. Entered(j) /\ o.op = op /\ op \in Unaries /\ Instructed(text, j+1) /\ InBlock(text, j) /\ op # "str"
  BY EntersInstr, NotStr DEF Unary
<1>2. Takes(s, 2, {2}) /\ IsType(tys, W(s, 1)) /\ s.means = <<Instr(op, ty, Dest(s), Args1(s, 2), 0, <<>>)>>
  BY <1>1 DEF Instructed
<1>3. Emit(q, Instr(op, TypeNamed(Peek(o.q)), o.dst, q.args, 0, <<>>))
  BY <1>1 DEF Unary
<1> HIDE DEF s, o, op, tys, ty, q
<1>4. Rest(text[j+1]) \in Nat /\ Rest(text[j+1]) > 0
  BY <1>1, <1>2, TakingBegins DEF Takes, TakesTwo, s
<1>5. Peek(o.q) = W(s, 1) /\ Taking(j, Skip(o.q), 1, <<>>) /\ TypeNamed(Peek(o.q)) = ty /\ GoodType(ty)
  BY <1>1, <1>2, <1>4, TakingNamed DEF o, s, tys, ty
<1>6. Taking(j, q, 2, Args1(s, 2)) /\ Covers(s, Args1(s, 2)) /\ Rest(s) = 2
  <2> DEFINE q1 == Skip(o.q)
  <2>1. Takes(text[j+1], 2, {2}) /\ 1 = 2-1 /\ 2 \in Nat \ {0} /\ 2 <= Rest(text[j+1])
    BY <1>2 DEF s, Takes
  <2> HIDE DEF q1
  <2>2. Taking(j, q1, 1, <<>>)
    BY <1>5 DEF q1
  <2>3. Taking(j, Operand(q1), 2, Args1(s, 2)) /\ Covers(s, Args1(s, 2)) /\ Rest(s) = 2
    BY <1>1, <2>1, <2>2, ReadsOne DEF s
  <2> QED
    BY <2>3 DEF q, q1
<1>7. Emit(q, Instr(op, ty, Opening.dst, q.args, 0, <<>>))
  BY <1>3, <1>5 DEF o
<1> QED
  BY <1>1, <1>2, <1>6, <1>7, EmitOne DEF s

LEMMA PredicatesRead ==   \* a predicate of the language has its value in ir.h
  ASSUME NEW op \in Compares, NEW p \in DOMAIN Predicate(op)
  PROVE  LookupPred(op, p) = Predicate(op)[p]
<1> DEFINE names == IF op = "fcmp" THEN FcmpNames ELSE IcmpNames
<1>1. p \in ToSet(names)
  BY DEF Predicate, ToSet, IcmpNames, FcmpNames
<1>2. \A i \in DOMAIN names : names[i] = p => i - 1 = Predicate(op)[p]
  BY DEF Predicate, IcmpNames, FcmpNames
<1> HIDE DEF names
<1>3. PICK i \in DOMAIN names : names[i] = p
  BY <1>1 DEF ToSet
<1> QED
  BY <1>1, <1>2, <1>3 DEF LookupPred, PredIn, names

LEMMA CompareStep ==
  ASSUME NEW j, Ready(j), Compare
  PROVE  Advanced(j)
<1> DEFINE s == text[j+1]
           o == Opening
           op == OpWord(s).s
           tys == Known(text, j+1)
           ty == Meant(tys, W(s, 1))
           p == Skip(o.q)
           q == Operand(Operand(Skip(p)))
           e == Second2(s, 3)
<1>1. Entered(j) /\ o.op = op /\ op \in Compares /\ Instructed(text, j+1) /\ InBlock(text, j) /\ op # "str"
  BY EntersInstr, NotStr DEF Compare
<1>2. /\ TakesTwo(s, 3, 0) /\ IsType(tys, W(s, 1)) /\ W(s, 2).s \in DOMAIN Predicate(op)
      /\ s.means = <<Instr(op, ty, Dest(s), Args2(s, 3), Predicate(op)[W(s, 2).s], <<>>)>>
  BY <1>1 DEF Instructed
<1>3. Emit(q, Instr(op, TypeNamed(Peek(o.q)), o.dst, q.args, LookupPred(op, Peek(p).s), <<>>))
  BY <1>1 DEF Compare, Second
<1>3a. LookupPred(op, W(s, 2).s) = Predicate(op)[W(s, 2).s]
  BY <1>1, <1>2, PredicatesRead
<1> HIDE DEF s, o, op, tys, ty, p, q
<1>4. Rest(text[j+1]) \in Nat /\ Rest(text[j+1]) > 0
  BY <1>1, <1>2, TakingBegins DEF Takes, TakesTwo, s
<1>5. Peek(o.q) = W(s, 1) /\ Taking(j, Skip(o.q), 1, <<>>) /\ TypeNamed(Peek(o.q)) = ty /\ GoodType(ty)
  BY <1>1, <1>2, <1>4, TakingNamed DEF o, s, tys, ty
<1>6. Peek(p) = W(s, 2) /\ Taking(j, Skip(p), 2, <<>>)
  <2>1. Taking(j, p, 1, <<>>) /\ 1 \in Nat /\ 1 < Rest(text[j+1]) /\ 2 = 1+1
    BY <1>2, <1>4, <1>5 DEF p, TakesTwo, s
  <2>2. Peek(p) = W(text[j+1], 1+1)
    BY <1>1, <2>1, TakingPeek
  <2>3. Taking(j, Skip(p), 2, <<>>)
    BY <1>1, <2>1, TakingSkip
  <2> QED
    BY <2>2, <2>3 DEF s
<1>7. Taking(j, q, e, Args2(s, 3)) /\ Covers(s, Args2(s, 3)) /\ Rest(s) = e
  <2> DEFINE q1 == Skip(p)
  <2>1. TakesTwo(text[j+1], 3, 0) /\ 2 = 3-1 /\ 3 \in Nat \ {0} /\ 0 \in Nat
    BY <1>2 DEF s
  <2> HIDE DEF q1
  <2>2. Taking(j, q1, 2, <<>>)
    BY <1>6 DEF q1
  <2>3. /\ Taking(j, Operand(Operand(q1)), e, Args2(s, 3)) /\ Covers(s, Args2(s, 3))
        /\ Rest(s) = e + 0 /\ e \in Nat
    BY <1>1, <2>1, <2>2, ReadsTwo DEF s
  <2> QED
    BY <2>3 DEF q, q1
<1>8. Emit(q, Instr(op, ty, Opening.dst, q.args, Predicate(op)[W(s, 2).s], <<>>))
  BY <1>3, <1>3a, <1>5, <1>6 DEF o
<1> QED
  BY <1>1, <1>2, <1>7, <1>8, EmitOne DEF s

LEMMA WidenStep ==
  ASSUME NEW j, Ready(j), Widen
  PROVE  Advanced(j)
<1> DEFINE s == text[j+1]
           o == Opening
           op == OpWord(s).s
           tys == Known(text, j+1)
           ty == Meant(tys, W(s, 1))
           p == Skip(o.q)
           q == Operand(Skip(p))
<1>1. Entered(j) /\ o.op = op /\ op \in Widths /\ Instructed(text, j+1) /\ InBlock(text, j) /\ op # "str"
  BY EntersInstr, NotStr DEF Widen
<1>2. Takes(s, 3, {3}) /\ IsType(tys, W(s, 1)) /\ s.means = <<Instr(op, ty, Dest(s), Args1(s, 3), 0, <<>>)>>
  BY <1>1 DEF Instructed
<1>3. Emit(q, Instr(op, TypeNamed(Peek(o.q)), o.dst, q.args, 0, <<>>))
  BY <1>1 DEF Widen
<1> HIDE DEF s, o, op, tys, ty, p, q
<1>4. Rest(text[j+1]) \in Nat /\ Rest(text[j+1]) > 0
  BY <1>1, <1>2, TakingBegins DEF Takes, TakesTwo, s
<1>5. Peek(o.q) = W(s, 1) /\ Taking(j, Skip(o.q), 1, <<>>) /\ TypeNamed(Peek(o.q)) = ty /\ GoodType(ty)
  BY <1>1, <1>2, <1>4, TakingNamed DEF o, s, tys, ty
<1>6. Taking(j, Skip(p), 2, <<>>)
  <2>1. Taking(j, p, 1, <<>>) /\ 1 \in Nat /\ 1 < Rest(text[j+1]) /\ 2 = 1+1
    BY <1>2, <1>4, <1>5 DEF p, Takes, s
  <2> QED
    BY <1>1, <2>1, TakingSkip
<1>7. Taking(j, q, 3, Args1(s, 3)) /\ Covers(s, Args1(s, 3)) /\ Rest(s) = 3
  <2> DEFINE q1 == Skip(p)
  <2>1. Takes(text[j+1], 3, {3}) /\ 2 = 3-1 /\ 3 \in Nat \ {0} /\ 3 <= Rest(text[j+1])
    BY <1>2 DEF s, Takes
  <2> HIDE DEF q1
  <2>2. Taking(j, q1, 2, <<>>)
    BY <1>6 DEF q1
  <2>3. Taking(j, Operand(q1), 3, Args1(s, 3)) /\ Covers(s, Args1(s, 3)) /\ Rest(s) = 3
    BY <1>1, <2>1, <2>2, ReadsOne DEF s
  <2> QED
    BY <2>3 DEF q, q1
<1>8. Emit(q, Instr(op, ty, Opening.dst, q.args, 0, <<>>))
  BY <1>3, <1>5 DEF o
<1> QED
  BY <1>1, <1>2, <1>7, <1>8, EmitOne DEF s

LEMMA ConvertStep ==
  ASSUME NEW j, Ready(j), Convert
  PROVE  Advanced(j)
<1> DEFINE s == text[j+1]
           o == Opening
           op == OpWord(s).s
           tys == Known(text, j+1)
           ty == Meant(tys, W(s, 1))
           q == Operand(Skip(o.q))
<1>1. Entered(j) /\ o.op = op /\ op \in ToFloats /\ Instructed(text, j+1) /\ InBlock(text, j) /\ op # "str"
  BY EntersInstr, NotStr DEF Convert
<1>2. /\ Takes(s, 4, {2}) /\ IsType(tys, W(s, 1)) /\ IsType(tys, W(s, 4))
      /\ s.means = <<Instr(op, Meant(tys, W(s, 4)), Dest(s), Args1(s, 2), ty.kind, <<>>)>>
  BY <1>1 DEF Instructed
<1>3. Emit(From(q, 3), Instr(op, TypeNamed(Second(q)), o.dst, q.args, TypeNamed(Peek(o.q)).kind, <<>>))
  BY <1>1 DEF Convert
<1> HIDE DEF s, o, op, tys, ty, q
<1>4. Rest(text[j+1]) \in Nat /\ Rest(text[j+1]) > 0
  BY <1>1, <1>2, TakingBegins DEF Takes, TakesTwo, s
<1>5. Peek(o.q) = W(s, 1) /\ Taking(j, Skip(o.q), 1, <<>>) /\ TypeNamed(Peek(o.q)) = ty /\ GoodType(ty)
  BY <1>1, <1>2, <1>4, TakingNamed DEF o, s, tys, ty
<1>6. Taking(j, q, 2, Args1(s, 2)) /\ Covers(s, Args1(s, 2)) /\ Rest(s) = 4
  <2> DEFINE q1 == Skip(o.q)
  <2>1. Takes(text[j+1], 4, {2}) /\ 1 = 2-1 /\ 2 \in Nat \ {0} /\ 2 <= Rest(text[j+1])
    BY <1>2 DEF s, Takes
  <2> HIDE DEF q1
  <2>2. Taking(j, q1, 1, <<>>)
    BY <1>5 DEF q1
  <2>3. Taking(j, Operand(q1), 2, Args1(s, 2)) /\ Covers(s, Args1(s, 2)) /\ Rest(s) = 4
    BY <1>1, <2>1, <2>2, ReadsOne DEF s
  <2> QED
    BY <2>3 DEF q, q1
<1>7. Second(q) = W(s, 4) /\ Taking(j, From(q, 3), 4, Args1(s, 2)) /\ From(q, 3).args = q.args
  <2>1. 2 \in Nat /\ 3 \in Nat /\ 2 < Rest(text[j+1]) /\ 3 < Rest(text[j+1]) /\ 3 = 2+1 /\ 4 = 2+2 /\ 4 <= Rest(text[j+1])
    BY <1>6 DEF s
  <2> DEFINE ws == Args1(s, 2)
  <2> HIDE DEF ws
  <2>2. Taking(j, q, 2, ws)
    BY <1>6 DEF ws
  <2>3. Taking(j, Skip(q), 3, ws)
    BY <1>1, <2>1, <2>2, TakingSkip
  <2>4. Peek(Skip(q)) = W(text[j+1], 3+1)
    BY <1>1, <2>1, <2>3, TakingPeek
  <2>5. Taking(j, From(q, 3), 4, ws) /\ From(q, 3).args = q.args
    BY <1>1, <2>1, <2>2, TakingFrom
  <2> QED
    BY <2>4, <2>5 DEF ws, Second, s
<1>8. TypeNamed(W(s, 4)) = Meant(tys, W(s, 4))
  BY <1>1, <1>2, NamedType DEF tys
<1>9. Emit(From(q, 3), Instr(op, Meant(tys, W(s, 4)), Opening.dst, q.args, ty.kind, <<>>))
  BY <1>3, <1>5, <1>7, <1>8 DEF o
<1> DEFINE p == From(q, 3)
           pred == ty.kind
<1>10. Taking(j, p, Rest(text[j+1]), Args1(s, 2)) /\ Covers(text[j+1], Args1(s, 2)) /\ q.args = p.args
  BY <1>6, <1>7 DEF s
<1>11. Emit(p, Instr(op, Meant(tys, W(s, 4)), Opening.dst, q.args, pred, <<>>))
       /\ s.means = <<Instr(op, Meant(tys, W(s, 4)), Dest(s), Args1(s, 2), pred, <<>>)>>
  BY <1>2, <1>9
<1> HIDE DEF p, pred
<1> QED
  BY <1>1, <1>10, <1>11, EmitOne DEF s

LEMMA VaEndStep ==
  ASSUME NEW j, Ready(j), VaEnd
  PROVE  Advanced(j)
<1> DEFINE s == text[j+1]
           o == Opening
           op == OpWord(s).s
           tys == Known(text, j+1)
           ty == Meant(tys, W(s, 1))
           q == Operand(o.q)
<1>1. Entered(j) /\ o.op = op /\ op \in {"va_end"} /\ Instructed(text, j+1) /\ InBlock(text, j) /\ op # "str"
  BY EntersInstr, NotStr DEF VaEnd
<1>2. Takes(s, 1, {1}) /\ Body(s) = 0 /\ s.means = <<Instr(op, NoType, Dest(s), Args1(s, 1), 0, <<>>)>>
  BY <1>1 DEF Instructed
<1>3. Emit(q, Instr(op, NoType, NoDst, q.args, 0, <<>>))
  BY <1>1 DEF VaEnd
<1> HIDE DEF s, o, op, tys, ty, q
<1>4. Taking(j, o.q, 0, <<>>)
  BY <1>1, TakingBegins DEF o
<1>5. Taking(j, q, 1, Args1(s, 1)) /\ Covers(s, Args1(s, 1)) /\ Rest(s) = 1
  <2> DEFINE q1 == o.q
  <2>1. Takes(text[j+1], 1, {1}) /\ 0 = 1-1 /\ 1 \in Nat \ {0} /\ 1 <= Rest(text[j+1])
    BY <1>2 DEF s, Takes
  <2> HIDE DEF q1
  <2>2. Taking(j, q1, 0, <<>>)
    BY <1>4 DEF q1
  <2>3. Taking(j, Operand(q1), 1, Args1(s, 1)) /\ Covers(s, Args1(s, 1)) /\ Rest(s) = 1
    BY <1>1, <2>1, <2>2, ReadsOne DEF s
  <2> QED
    BY <2>3 DEF q, q1
<1>6. Dest(s) = Nothing
  BY <1>2 DEF Dest
<1>7. s.means = <<Instr(op, NoType, Nothing, Args1(s, 1), 0, <<>>)>>
  BY <1>2, <1>6
<1> QED
  BY <1>1, <1>3, <1>5, <1>7, EmitOne DEF s

LEMMA VaArgStep ==
  ASSUME NEW j, Ready(j), VaArg
  PROVE  Advanced(j)
<1> DEFINE s == text[j+1]
           o == Opening
           op == OpWord(s).s
           tys == Known(text, j+1)
           ty == Meant(tys, W(s, 1))
           q == Operand(o.q)
<1>1. Entered(j) /\ o.op = op /\ op \in {"va_arg"} /\ Instructed(text, j+1) /\ InBlock(text, j) /\ op # "str"
  BY EntersInstr, NotStr DEF VaArg
<1>2. Takes(s, 2, {1}) /\ IsType(tys, W(s, 2)) /\ s.means = <<Instr(op, Meant(tys, W(s, 2)), Dest(s), Args1(s, 1), 0, <<>>)>>
  BY <1>1 DEF Instructed
<1>3. Emit(Skip(q), Instr(op, TypeNamed(Peek(q)), o.dst, q.args, 0, <<>>))
  BY <1>1 DEF VaArg
<1> HIDE DEF s, o, op, tys, ty, q
<1>4. Taking(j, o.q, 0, <<>>)
  BY <1>1, TakingBegins DEF o
<1> DEFINE ws == Args1(s, 1)
<1>5. Taking(j, q, 1, ws) /\ Covers(s, ws) /\ Rest(s) = 2
  <2> DEFINE q1 == o.q
  <2>1. Takes(text[j+1], 2, {1}) /\ 0 = 1-1 /\ 1 \in Nat \ {0} /\ 1 <= Rest(text[j+1])
    BY <1>2 DEF s, Takes
  <2> HIDE DEF q1
  <2>2. Taking(j, q1, 0, <<>>)
    BY <1>4 DEF q1
  <2>3. Taking(j, Operand(q1), 1, Args1(s, 1)) /\ Covers(s, Args1(s, 1)) /\ Rest(s) = 2
    BY <1>1, <2>1, <2>2, ReadsOne DEF s
  <2> QED
    BY <2>3 DEF q, q1
<1> HIDE DEF ws
<1>6. Peek(q) = W(s, 2) /\ Taking(j, Skip(q), 2, ws) /\ Skip(q).args = q.args
  <2>1. 1 \in Nat /\ 1 < Rest(text[j+1]) /\ 2 = 1+1
    BY <1>5 DEF s
  <2>2. Peek(q) = W(text[j+1], 1+1)
    BY <1>1, <1>5, <2>1, TakingPeek
  <2>3. Taking(j, Skip(q), 2, ws) /\ Skip(q).args = q.args
    BY <1>1, <1>5, <2>1, TakingSkip
  <2> QED
    BY <2>2, <2>3 DEF s
<1>7. TypeNamed(W(s, 2)) = Meant(tys, W(s, 2))
  BY <1>1, <1>2, NamedType DEF tys
<1> DEFINE p == Skip(q)
<1>8. Emit(p, Instr(op, Meant(tys, W(s, 2)), Opening.dst, q.args, 0, <<>>)) /\ q.args = p.args
  BY <1>3, <1>6, <1>7 DEF o
<1>9. Taking(j, p, Rest(text[j+1]), ws) /\ Covers(text[j+1], ws)
  BY <1>5, <1>6 DEF s
<1>10. s.means = <<Instr(op, Meant(tys, W(s, 2)), Dest(s), ws, 0, <<>>)>>
  BY <1>2 DEF ws
<1> HIDE DEF p
<1> QED
  BY <1>1, <1>8, <1>9, <1>10, EmitOne DEF s

LEMMA VaStartStep ==
  ASSUME NEW j, Ready(j), VaStart
  PROVE  Advanced(j)
<1> DEFINE s == text[j+1]
           o == Opening
           op == OpWord(s).s
           tys == Known(text, j+1)
           ty == Meant(tys, W(s, 1))
<1>1. Entered(j) /\ o.op = op /\ op \in {"va_start"} /\ Instructed(text, j+1) /\ InBlock(text, j) /\ op # "str"
  BY EntersInstr, NotStr DEF VaStart
<1>2. Rest(s) = 0 /\ s.means = <<Instr(op, Scalar("i32"), Dest(s), <<>>, 0, <<>>)>>
  BY <1>1 DEF Instructed
<1>3. Emit(o.q, Instr(op, Scalar("i32"), o.dst, <<>>, 0, <<>>))
  BY <1>1 DEF VaStart
<1> HIDE DEF s, o, op, tys, ty
<1>4. Taking(j, o.q, 0, <<>>) /\ o.q.args = <<>>
  BY <1>1, TakingBegins, TakingNone DEF o
<1>5. Covers(s, <<>>)
  BY <1>2 DEF Covers
<1> DEFINE q == Opening.q
           args == <<>>
<1>6. Taking(j, q, Rest(text[j+1]), <<>>) /\ args = q.args /\ Emit(q, Instr(op, Scalar("i32"), Opening.dst, args, 0, <<>>))
  BY <1>2, <1>3, <1>4 DEF o, s
<1> HIDE DEF q, args
<1> QED
  BY <1>1, <1>2, <1>5, <1>6, EmitOne DEF s

LEMMA BrStep ==
  ASSUME NEW j, Ready(j), Br
  PROVE  Advanced(j)
<1> DEFINE s == text[j+1]
           o == Opening
           op == OpWord(s).s
           tys == Known(text, j+1)
           ty == Meant(tys, W(s, 1))
<1>1. Entered(j) /\ o.op = op /\ op \in {"br"} /\ Instructed(text, j+1) /\ InBlock(text, j) /\ op # "str"
  BY EntersInstr, NotStr DEF Br
<1>2. Takes(s, 1, {}) /\ Body(s) = 0 /\ s.means = <<Instr(op, NoType, Dest(s), <<>>, 0, <<W(s, 1).s>>)>>
  BY <1>1 DEF Instructed
<1>3. Emit(Skip(o.q), Instr(op, NoType, NoDst, <<>>, 0, <<Peek(o.q).s>>))
  BY <1>1 DEF Br
<1> HIDE DEF s, o, op, tys, ty
<1>4. Taking(j, o.q, 0, <<>>) /\ Rest(s) = 1
  BY <1>1, <1>2, TakingBegins DEF o, Takes
<1>5. Peek(o.q) = W(s, 1) /\ Taking(j, Skip(o.q), 1, <<>>)
  <2>1. 0 \in Nat /\ 0 < Rest(text[j+1]) /\ 1 = 0+1
    BY <1>4 DEF s
  <2>2. Peek(o.q) = W(text[j+1], 0+1)
    BY <1>1, <1>4, <2>1, TakingPeek
  <2>3. Taking(j, Skip(o.q), 1, <<>>)
    BY <1>1, <1>4, <2>1, TakingSkip
  <2> QED
    BY <2>2, <2>3 DEF s
<1> DEFINE q == Skip(o.q)
           args == <<>>
           labels == <<W(s, 1).s>>
<1>6. Covers(s, <<>>)
  <2>1. Keeps(s, {}, <<>>)
    BY DEF Keeps
  <2> QED
    BY <1>2, <2>1, TakesIs
<1>7. q.args = <<>>
  BY <1>5, TakingNone
<1>8. Dest(s) = Nothing
  BY <1>2 DEF Dest
<1>9. Taking(j, q, Rest(text[j+1]), <<>>) /\ args = q.args /\ Emit(q, Instr(op, NoType, NoDst, args, 0, labels))
      /\ s.means = <<Instr(op, NoType, Nothing, <<>>, 0, labels)>>
  BY <1>2, <1>3, <1>4, <1>5, <1>7, <1>8 DEF o, s
<1> HIDE DEF q, args, labels
<1> QED
  BY <1>1, <1>6, <1>9, EmitOne DEF s

LEMMA CbrStep ==
  ASSUME NEW j, Ready(j), Cbr
  PROVE  Advanced(j)
<1> DEFINE s == text[j+1]
           o == Opening
           op == OpWord(s).s
           tys == Known(text, j+1)
           ty == Meant(tys, W(s, 1))
           q == Operand(o.q)
<1>1. Entered(j) /\ o.op = op /\ op \in {"cbr"} /\ Instructed(text, j+1) /\ InBlock(text, j) /\ op # "str"
  BY EntersInstr, NotStr DEF Cbr
<1>2. Takes(s, 3, {1}) /\ Body(s) = 0 /\ s.means = <<Instr(op, NoType, Dest(s), Args1(s, 1), 0, <<W(s, 2).s, W(s, 3).s>>)>>
  BY <1>1 DEF Instructed
<1>3. Emit(From(q, 3), Instr(op, NoType, NoDst, q.args, 0, <<Peek(q).s, Second(q).s>>))
  BY <1>1 DEF Cbr
<1> HIDE DEF s, o, op, tys, ty, q
<1>4. Taking(j, o.q, 0, <<>>)
  BY <1>1, TakingBegins DEF o
<1> DEFINE ws == Args1(s, 1)
<1>5. Taking(j, q, 1, ws) /\ Covers(s, ws) /\ Rest(s) = 3
  <2> DEFINE q1 == o.q
  <2>1. Takes(text[j+1], 3, {1}) /\ 0 = 1-1 /\ 1 \in Nat \ {0} /\ 1 <= Rest(text[j+1])
    BY <1>2 DEF s, Takes
  <2> HIDE DEF q1
  <2>2. Taking(j, q1, 0, <<>>)
    BY <1>4 DEF q1
  <2>3. Taking(j, Operand(q1), 1, Args1(s, 1)) /\ Covers(s, Args1(s, 1)) /\ Rest(s) = 3
    BY <1>1, <2>1, <2>2, ReadsOne DEF s
  <2> QED
    BY <2>3 DEF q, q1
<1> HIDE DEF ws
<1>6. Peek(q) = W(s, 2) /\ Second(q) = W(s, 3) /\ Taking(j, From(q, 3), 3, ws) /\ From(q, 3).args = q.args
  <2>1. 1 \in Nat /\ 2 \in Nat /\ 1 < Rest(text[j+1]) /\ 2 < Rest(text[j+1]) /\ 2 = 1+1 /\ 3 = 1+2 /\ 3 <= Rest(text[j+1])
    BY <1>5 DEF s
  <2>2. Peek(q) = W(text[j+1], 1+1)
    BY <1>1, <1>5, <2>1, TakingPeek
  <2>3. Taking(j, Skip(q), 2, ws)
    BY <1>1, <1>5, <2>1, TakingSkip
  <2>4. Peek(Skip(q)) = W(text[j+1], 2+1)
    BY <1>1, <2>1, <2>3, TakingPeek
  <2>5. Taking(j, From(q, 3), 3, ws) /\ From(q, 3).args = q.args
    BY <1>1, <1>5, <2>1, TakingFrom
  <2> QED
    BY <2>2, <2>4, <2>5 DEF Second, s
<1> DEFINE p == From(q, 3)
           labels == <<W(s, 2).s, W(s, 3).s>>
<1>7. Dest(s) = Nothing
  BY <1>2 DEF Dest
<1>8. Taking(j, p, Rest(text[j+1]), ws) /\ Covers(text[j+1], ws) /\ q.args = p.args
  BY <1>5, <1>6 DEF s
<1>9. Emit(p, Instr(op, NoType, NoDst, q.args, 0, labels))
  BY <1>3, <1>6
<1>10. s.means = <<Instr(op, NoType, Nothing, ws, 0, labels)>>
  BY <1>2, <1>7 DEF ws
<1> HIDE DEF p, labels
<1> QED
  BY <1>1, <1>8, <1>9, <1>10, EmitOne DEF s

(* A statement begins with no number and no string, nor does the next.     *)
LEMMA FirstWord ==
  ASSUME NEW t, Conforms(t), NEW j \in 1..Len(t)
  PROVE  t[j].words[1].k \notin {"int", "string"}
<1> DEFINE s == t[j]
           w == s.words[1]
<1>1. Allowed(t, j)
  BY StatementsAre
<1>2. \A h : Word(h).k = "word"
  BY DEF Word
<1>3. CASE w \in {Word("type"), Word("func"), Word("block"), Word("}")}
  BY <1>2, <1>3
<1>4. CASE w \notin {Word("type"), Word("func"), Word("block"), Word("}")}
  <2> HIDE DEF s
  <2>1. Ignored(s) \/ Instructed(t, j)
    BY <1>1, <1>4 DEF Allowed, s
  <2>2. OpWord(s).k = "word"
    BY <2>1 DEF Ignored, Instructed, s
  <2>3. CASE IsVreg(w)
    BY <2>3 DEF IsVreg, s
  <2>4. CASE ~IsVreg(w)
    <3>1. OpWord(s) = w
      BY <2>4 DEF OpWord, Body
    <3> QED
      BY <2>2, <3>1 DEF s
  <2> QED
    BY <2>3, <2>4
<1> QED
  BY <1>3, <1>4

LEMMA NextWord ==
  ASSUME NEW j, Entered(j), NEW q, NEW ws, Taking(j, q, Rest(text[j+1]), ws)
  PROVE  Peek(q).k \notin {"int", "string"}
<1> DEFINE T == WordsIn(text, j+1, Len(text))
           t == text
<1>1. q.rest = T
  BY DEF Taking, Took, Reads, Entered, Begins
<1>2. Conforms(text) /\ j \in 0..Len(text)-1
  BY TakingBegins DEF Entered, Ready
<1>3. Len(text) \in Nat
  BY <1>2, StatementsAre
<1>4. CASE j+1 = Len(text)
  <2>1. T = <<>>
    <3>1. j+1 \in Nat
      BY <1>2
    <3> QED
      BY <1>4, <3>1, WordsNone
  <2> QED
    BY <1>1, <2>1 DEF Peek, EndOfFile
<1>5. CASE j+1 < Len(text)
  <2> DEFINE i == j+1
             a == text[i+1].words
             U == WordsIn(text, i+1, Len(text))
  <2>1. i \in 0..Len(text)-1 /\ i+1 \in 1..Len(text)
    BY <1>2, <1>3, <1>5
  <2> HIDE DEF i
  <2>2. U \in Seq(Words) /\ WordsIn(text, i, Len(text)) = a \o U
    BY <1>2, <2>1, WordsFirst
  <2>3. a \in Seq(Words) /\ Len(a) \in Nat \ {0} /\ a[1].k \notin {"int", "string"}
    BY <1>2, <2>1, StatementsAre, FirstWord
  <2>4. T = a \o U
    BY <2>2 DEF i
  <2> HIDE DEF a, U, T
  <2>5. IsSeq(a) /\ IsSeq(U) /\ 1 \in 1..Len(a) /\ T \in Seq(Words)
    BY <2>2, <2>3, <2>4, SeqIs
  <2>6. T[1] = a[1] /\ Len(T) > 0
    <3>1. Len(U) \in Nat
      BY <2>2
    <3>2. T[1] = a[1] /\ Len(T) = Len(a) + Len(U)
      BY <2>4, <2>5, ConcatIs
    <3> QED
      BY <2>3, <3>1, <3>2
  <2>7. Peek(q) = T[1]
    BY <1>1, <2>5, <2>6 DEF Peek
  <2> QED
    BY <2>3, <2>6, <2>7
<1> QED
  BY <1>2, <1>3, <1>4, <1>5

(* A literal stands for itself, and the number of a vreg for the vreg. *)
LEMMA LiteralIs ==
  ASSUME NEW q, NEW n \in Int
  PROVE  Holds(q, Imm(n), Literal(n)) /\ Imm(n) \in Opd
BY DEF Holds, Literal, Imm, Met, InTable, Denotes, IsVreg, Opd

LEMMA OneLiteral ==
  ASSUME NEW q, NEW d, Met(q, d), NEW n \in Int
  PROVE  Gathered(q, d, <<Imm(n)>>, <<Literal(n)>>)
<1> DEFINE a == Imm(n)
           l == Literal(n)
<1>1. Holds(q, a, l) /\ a \in Opd
  BY LiteralIs
<1> HIDE DEF a, l
<1>2. <<a>> \in Seq(Opd) /\ Len(<<a>>) = 1 /\ <<a>>[1] = a /\ Len(<<l>>) = 1 /\ <<l>>[1] = l
  BY <1>1
<1>3. IsSeq(<<l>>)
  BY SeqIs, <<l>> \in Seq({l})
<1>4. \A i \in 1..Len(<<l>>) : Holds(q, <<a>>[i], <<l>>[i])
  BY <1>1, <1>2
<1>5. Gathered(q, d, <<a>>, <<l>>)
  BY <1>2, <1>3, <1>4 DEF Gathered
<1> QED
  BY <1>5 DEF a, l

LEMMA NoneCovered ==
  ASSUME NEW s, Rest(s) = 0 \/ (Rest(s) = 1 /\ ~IsVreg(W(s, 1))) \/ (Rest(s) = 2 /\ ~IsVreg(W(s, 1)) /\ ~IsVreg(W(s, 2)))
  PROVE  Covers(s, <<>>)
<1>1. \A i \in 1..Rest(s) : ~IsVreg(W(s, i))
  <2> DEFINE n == Rest(s)
  <2>1. n \in {0, 1, 2} /\ (n >= 1 => ~IsVreg(W(s, 1))) /\ (n >= 2 => ~IsVreg(W(s, 2)))
    OBVIOUS
  <2> HIDE DEF n
  <2>2. \A i \in 1..n : (i = 1 /\ n >= 1) \/ (i = 2 /\ n >= 2)
    BY <2>1
  <2> QED
    BY <2>1, <2>2 DEF n
<1> QED
  BY <1>1 DEF Covers

LEMMA RetStep ==
  ASSUME NEW j, Ready(j), Ret
  PROVE  Advanced(j)
<1> DEFINE s == text[j+1]
           o == Opening
           op == OpWord(s).s
           tys == Known(text, j+1)
           ty == Meant(tys, W(s, 1))
           w == Peek(o.q)
           q == Operand(Skip(o.q))
           none == <<>>
<1>1. Entered(j) /\ o.op = op /\ op \in {"ret"} /\ Instructed(text, j+1) /\ InBlock(text, j) /\ op # "str"
  BY EntersInstr, NotStr DEF Ret
<1>2. /\ Rest(s) = 1 => W(s, 1) = Word("void") /\ s.means = <<Instr(op, NoType, Dest(s), <<>>, 0, <<>>)>>
      /\ Rest(s) # 1 => /\ Takes(s, 2, {2}) /\ IsType(tys, W(s, 1)) /\ W(s, 1) # Word("void")
                        /\ s.means = <<Instr(op, ty, Dest(s), Args1(s, 2), 0, <<>>)>>
      /\ Body(s) = 0
  BY <1>1 DEF Instructed
<1>3. /\ w = Word("void") => Emit(Skip(o.q), Instr(op, NoType, NoDst, <<>>, 0, <<>>))
      /\ w \notin {Word("void"), EndOfFile} => Emit(q, Instr(op, TypeNamed(w), NoDst, q.args, 0, <<>>))
  BY <1>1 DEF Ret
<1> HIDE DEF s, o, op, tys, ty, w, q, none
<1>4. Dest(s) = Nothing
  BY <1>2 DEF Dest
<1>5. Taking(j, o.q, 0, <<>>) /\ Rest(s) \in Nat
  BY <1>1, TakingBegins DEF o, s
<1>6. Rest(s) >= 1
  BY <1>2, <1>5 DEF Takes
<1>7. w = W(s, 1) /\ Taking(j, Skip(o.q), 1, <<>>)
  <2>1. 0 \in Nat /\ 0 < Rest(text[j+1]) /\ 1 = 0+1
    BY <1>5, <1>6 DEF s
  <2>2. Peek(o.q) = W(text[j+1], 0+1)
    BY <1>1, <1>5, <2>1, TakingPeek
  <2>3. Taking(j, Skip(o.q), 1, <<>>)
    BY <1>1, <1>5, <2>1, TakingSkip
  <2> QED
    BY <2>2, <2>3 DEF s, w
<1>8. CASE Rest(s) = 1
  <2> DEFINE p == Skip(o.q)
  <2>1. W(s, 1) = Word("void") /\ s.means = <<Instr(op, NoType, Nothing, <<>>, 0, <<>>)>>
    BY <1>2, <1>4, <1>8
  <2>2. Covers(s, <<>>)
    BY <1>8, <2>1, NoneCovered DEF IsVreg, Word
  <2>3. p.args = <<>>
    BY <1>7, TakingNone
  <2>4. Taking(j, p, Rest(text[j+1]), <<>>) /\ none = p.args /\ Emit(p, Instr(op, NoType, NoDst, none, 0, <<>>))
    BY <1>3, <1>7, <1>8, <2>1, <2>3 DEF s, none
  <2> HIDE DEF p
  <2> QED
    BY <1>1, <2>1, <2>2, <2>4, EmitOne DEF s
<1>9. CASE Rest(s) # 1
  <2>1. Takes(s, 2, {2}) /\ IsType(tys, W(s, 1)) /\ w # Word("void") /\ s.means = <<Instr(op, ty, Nothing, Args1(s, 2), 0, <<>>)>>
    BY <1>2, <1>4, <1>7, <1>9
  <2>5. w \notin {Word("void"), EndOfFile}
    <3>1. w.k = "word"
      BY <1>7, <2>1 DEF IsType
    <3>2. EndOfFile.k # "word"
      BY DEF EndOfFile
    <3> QED
      BY <2>1, <3>1, <3>2
  <2>2. TypeNamed(w) = ty
    BY <1>1, <1>7, <2>1, NamedType DEF tys, ty
  <2>3. Taking(j, q, 2, Args1(s, 2)) /\ Covers(s, Args1(s, 2)) /\ Rest(s) = 2
    <3> DEFINE q1 == Skip(o.q)
    <3>1. Takes(text[j+1], 2, {2}) /\ 1 = 2-1 /\ 2 \in Nat \ {0} /\ 2 <= Rest(text[j+1])
      BY <2>1 DEF s, Takes
    <3> HIDE DEF q1
    <3>2. Taking(j, q1, 1, <<>>)
      BY <1>7 DEF q1
    <3>3. Taking(j, Operand(q1), 2, Args1(s, 2)) /\ Covers(s, Args1(s, 2)) /\ Rest(s) = 2
      BY <1>1, <3>1, <3>2, ReadsOne DEF s
    <3> QED
      BY <3>3 DEF q, q1
  <2>4. Emit(q, Instr(op, ty, NoDst, q.args, 0, <<>>))
    BY <1>3, <2>2, <2>5
  <2> QED
    BY <1>1, <2>1, <2>3, <2>4, EmitOne DEF s
<1> QED
  BY <1>8, <1>9

LEMMA PhiStep ==
  ASSUME NEW j, Ready(j), Phi
  PROVE  Advanced(j)
<1> DEFINE s == text[j+1]
           o == Opening
           op == OpWord(s).s
           tys == Known(text, j+1)
           ty == Meant(tys, W(s, 1))
           q1 == Operand(Skip(o.q))
           q2 == Operand(Skip(q1))
           e == Second2(s, 3)
           vs == <<W(s, 2), W(s, e)>>
           labels == <<W(s, 3).s, W(s, e+1).s>>
<1>1. Entered(j) /\ o.op = op /\ op \in {"phi"} /\ Instructed(text, j+1) /\ InBlock(text, j) /\ op # "str"
  BY EntersInstr, NotStr DEF Phi
<1>2. /\ Takes(s, e+1, {2, e}) /\ IsType(tys, W(s, 1)) /\ Rest(s) \in {5, 6}
      /\ s.means = <<Instr(op, ty, Dest(s), vs, 0, labels)>>
  BY <1>1 DEF Instructed
<1>3. Emit(Skip(q2), Instr(op, TypeNamed(Peek(o.q)), o.dst, q2.args, 0, <<Peek(q1).s, Peek(q2).s>>))
  BY <1>1 DEF Phi, PhiLabels
<1> HIDE DEF s, o, op, tys, ty, q1, q2, labels
<1>4. Rest(text[j+1]) \in Nat /\ Rest(text[j+1]) > 0
  BY <1>1, <1>2, TakingBegins DEF Takes, TakesTwo, s
<1>5. Peek(o.q) = W(s, 1) /\ Taking(j, Skip(o.q), 1, <<>>) /\ TypeNamed(Peek(o.q)) = ty /\ GoodType(ty)
  BY <1>1, <1>2, <1>4, TakingNamed DEF o, s, tys, ty
<1>6. e \in {4, 5} /\ Rest(s) = e+1 /\ IsOperand(W(s, 2)) /\ IsOperand(W(s, e))
  <2>1. e \in {4, 5}
    BY DEF Second2
  <2>2. Rest(s) = e+1 /\ \A i \in 1..e+1 : i \in {2, e} => IsOperand(W(s, i))
    BY <1>2 DEF Takes
  <2> HIDE DEF e
  <2>3. 2 \in 1..e+1 /\ e \in 1..e+1
    BY <2>1
  <2> QED
    BY <2>1, <2>2, <2>3
<1> DEFINE us == Args1(s, 2)
<1>7. us = <<W(s, 2)>> /\ us = Append(<<>>, W(text[j+1], 2)) /\ vs = Append(us, W(text[j+1], e))
  BY Lists DEF us, Args1, s, vs
<1> HIDE DEF us, vs, e
<1>8. Taking(j, q1, 2, us)
  <2> DEFINE p == Skip(o.q)
  <2> HIDE DEF p
  <2>1. Taking(j, p, 1, <<>>) /\ 1 \in Nat /\ 1 < Rest(text[j+1]) /\ 2 = 1+1 /\ IsOperand(W(text[j+1], 1+1))
    BY <1>5, <1>6 DEF p, s
  <2>2. Taking(j, Operand(p), 2, us)
    BY <1>1, <1>7, <2>1, TakingOperand
  <2> QED
    BY <2>2 DEF p, q1
<1>9. Peek(q1) = W(s, 3) /\ Taking(j, Skip(q1), 3, us)
  <2>1. 2 \in Nat /\ 2 < Rest(text[j+1]) /\ 3 = 2+1
    BY <1>6 DEF s
  <2>2. Peek(q1) = W(text[j+1], 2+1)
    BY <1>1, <1>8, <2>1, TakingPeek
  <2>3. Taking(j, Skip(q1), 3, us)
    BY <1>1, <1>8, <2>1, TakingSkip
  <2> QED
    BY <2>2, <2>3 DEF s
<1>10. Taking(j, q2, e, vs)
  <2> DEFINE p == Skip(q1)
  <2> HIDE DEF p
  <2>1. Taking(j, p, 3, us) /\ 3 \in Nat /\ e = Second2(text[j+1], 3) /\ e <= Rest(text[j+1]) /\ IsOperand(W(text[j+1], e))
    BY <1>6, <1>9 DEF p, s, e
  <2>2. Taking(j, Operand(p), e, vs)
    BY <1>1, <1>7, <2>1, TakingSecond
  <2> QED
    BY <2>2 DEF p, q2
<1>11. Peek(q2) = W(s, e+1) /\ Taking(j, Skip(q2), e+1, vs) /\ Skip(q2).args = q2.args
  <2>1. e \in Nat /\ e < Rest(text[j+1])
    BY <1>6 DEF s
  <2>2. Peek(q2) = W(text[j+1], e+1)
    BY <1>1, <1>10, <2>1, TakingPeek
  <2> DEFINE d == e+1
  <2>3. d = e+1
    OBVIOUS
  <2> HIDE DEF d
  <2>4. Taking(j, Skip(q2), d, vs) /\ Skip(q2).args = q2.args
    BY <1>1, <1>10, <2>1, <2>3, TakingSkip
  <2> QED
    BY <2>2, <2>4 DEF s, d
<1>12. Covers(s, vs)
  <2>1. Keeps(s, {2, e}, vs)
    <3>1. vs[1] = W(s, 2) /\ vs[2] = W(s, e) /\ Len(vs) = 2
      BY Lists DEF vs
    <3> QED
      BY <3>1 DEF Keeps
  <2> QED
    BY <1>2, <2>1, TakesIs
<1> DEFINE q == Skip(q2)
<1>13. Taking(j, q, Rest(text[j+1]), vs) /\ q2.args = q.args
       /\ Emit(q, Instr(op, ty, Opening.dst, q2.args, 0, labels))
  BY <1>3, <1>5, <1>6, <1>9, <1>11 DEF o, s, labels
<1> HIDE DEF q
<1> QED
  BY <1>1, <1>2, <1>12, <1>13, EmitOne DEF s

LEMMA AllocaStep ==
  ASSUME NEW j, Ready(j), Alloca
  PROVE  Advanced(j)
<1> DEFINE s == text[j+1]
           o == Opening
           op == OpWord(s).s
           tys == Known(text, j+1)
           ty == Meant(tys, W(s, 1))
           t == TypeNamed(Peek(o.q))
           q == Skip(o.q)
           counted == Peek(q).k = "int" /\ Peek(q).n >= 0
           n == IF counted THEN Peek(q).n ELSE ParserAllocaSize(t)
<1>1. Entered(j) /\ o.op = op /\ op \in {"alloca"} /\ Instructed(text, j+1) /\ InBlock(text, j) /\ op # "str"
  BY EntersInstr, NotStr DEF Alloca
<1>2. /\ Rest(s) = 1 => /\ IsType(tys, W(s, 1)) /\ ty.kind # "f64" /\ Fits(SizeOf(ty))
                        /\ s.means = <<Instr(op, ty, Dest(s), <<Literal(SizeOf(ty))>>, 0, <<>>)>>
      /\ Rest(s) # 1 => /\ Takes(s, 2, {2}) /\ IsType(tys, W(s, 1)) /\ W(s, 2).k = "int" /\ W(s, 2).n >= 0
                        /\ s.means = <<Instr(op, ty, Dest(s), Args1(s, 2), 0, <<>>)>>
  BY <1>1 DEF Instructed
<1>3. Emit(IF counted THEN Skip(q) ELSE q, Instr(op, t, o.dst, <<Imm(AsInt(n))>>, 0, <<>>))
  BY <1>1 DEF Alloca
<1> HIDE DEF s, o, op, tys, ty, t, q, counted, n
<1>4. Rest(text[j+1]) \in Nat /\ Rest(text[j+1]) > 0
  BY <1>1, <1>2, TakingBegins DEF Takes, s
<1>5. Peek(o.q) = W(s, 1) /\ Taking(j, q, 1, <<>>) /\ t = ty /\ GoodType(ty)
  BY <1>1, <1>2, <1>4, TakingNamed DEF o, s, tys, ty, q, t
<1>6. W(s, 1).k = "word"
  BY <1>2 DEF IsType
<1>7. ASSUME NEW p, Taking(j, p, Rest(text[j+1]), <<>>), Covers(s, <<>>),
             n \in Int, AsInt(n) = n, s.means = <<Instr(op, ty, Dest(s), <<Literal(n)>>, 0, <<>>)>>,
             p = IF counted THEN Skip(q) ELSE q
      PROVE  Advanced(j)
  <2>1. Met(p, Dest(text[j+1])) /\ NumberIn(p, Dest(text[j+1])) = Opening.dst
    BY <1>1, <1>7, WentBy DEF s
  <2> DEFINE d == Dest(s)
             x == Opening.dst
             args == <<Imm(n)>>
             vs == <<Literal(n)>>
  <2>2. Gathered(p, d, args, vs) /\ x = NumberIn(p, d)
    BY <1>7, <2>1, OneLiteral DEF s
  <2>3. Emit(p, Instr(op, ty, x, args, 0, <<>>)) /\ s.means = <<Instr(op, ty, d, vs, 0, <<>>)>>
    BY <1>3, <1>5, <1>7 DEF o
  <2>4. Taking(j, p, Rest(text[j+1]), <<>>) /\ Covers(text[j+1], <<>>)
    BY <1>7 DEF s
  <2> HIDE DEF d, x, args, vs
  <2> QED
    BY <1>1, <2>2, <2>3, <2>4, EmitMeant DEF s
<1>8. CASE Rest(s) = 1
  <2>1. Taking(j, q, Rest(text[j+1]), <<>>)
    BY <1>5, <1>8 DEF s
  <2>2. ~counted
    BY <1>1, <2>1, NextWord DEF counted
  <2>3. n = ParserAllocaSize(t)
    BY <2>2 DEF n
  <2>4. n = SizeOf(ty) /\ SizeOf(ty) \in Nat
    BY <1>2, <1>5, <1>8, <2>3, StepIs DEF GoodType
  <2>5. n \in Int /\ AsInt(n) = n /\ s.means = <<Instr(op, ty, Dest(s), <<Literal(n)>>, 0, <<>>)>>
    BY <1>2, <1>8, <2>4 DEF Fits
  <2>6. Covers(s, <<>>)
    BY <1>6, <1>8, NoneCovered DEF IsVreg
  <2> QED
    BY <1>7, <2>1, <2>2, <2>5, <2>6
<1>9. CASE Rest(s) # 1
  <2>1. Rest(s) = 2 /\ IsOperand(W(s, 2)) /\ W(s, 2).k = "int" /\ W(s, 2).n >= 0
    BY <1>2, <1>9 DEF Takes
  <2>2. 1 \in Nat /\ 1 < Rest(text[j+1]) /\ 2 = 1+1
    BY <2>1 DEF s
  <2>3. Peek(q) = W(text[j+1], 1+1)
    BY <1>1, <1>5, <2>2, TakingPeek
  <2>4. Taking(j, Skip(q), 2, <<>>)
    BY <1>1, <1>5, <2>2, TakingSkip
  <2>5. W(s, 2) \in Words
    <3>1. Usable(NamesAt(text, j), W(text[j+1], 1+1))
      BY <1>1, <2>1, <2>2, WordAt DEF s
    <3> QED
      BY <3>1 DEF Usable, s
  <2>6. W(s, 2).n \in Int /\ W(s, 2) = Literal(W(s, 2).n)
    BY <2>1, <2>5 DEF Words, Literal
  <2>7. Peek(q) = W(s, 2) /\ counted /\ n = W(s, 2).n
    BY <2>1, <2>3 DEF counted, n, s
  <2>8. AsInt(n) = n
    BY <2>1, <2>7 DEF IsOperand, Fits
  <2>9. s.means = <<Instr(op, ty, Dest(s), <<Literal(n)>>, 0, <<>>)>>
    BY <1>2, <1>9, <2>6, <2>7 DEF Args1
  <2>10. Covers(s, <<>>)
    BY <1>6, <2>1, NoneCovered DEF IsVreg
  <2>11. Taking(j, Skip(q), Rest(text[j+1]), <<>>)
    BY <2>1, <2>4 DEF s
  <2> QED
    BY <1>7, <2>6, <2>7, <2>8, <2>9, <2>10, <2>11
<1> QED
  BY <1>8, <1>9

LEMMA UnknownWordStep ==
  ASSUME NEW j, Ready(j), UnknownWord
  PROVE  Advanced(j)
<1> DEFINE ops == {Opening.op}
           s == text[j+1]
<1>1. Statement(ops) /\ Opening.op \notin Opcodes /\ r' = Opening.q /\ UNCHANGED <<text, types, strings, funcs, F, B>>
  BY DEF UnknownWord, Statement
<1> HIDE DEF ops
<1>2. Entered(j) /\ Opening.op = OpWord(s).s /\ IsInstruction(text, j, s)
  BY <1>1, Enters
<1>3. Rest(s) = 0 /\ s.means = <<>>
  BY <1>1, <1>2 DEF IsInstruction
<1> QED
  BY <1>1, <1>2, <1>3, PassedBy

LEMMA StrStep ==
  ASSUME NEW j, Ready(j), Str
  PROVE  Advanced(j)
<1> DEFINE s == text[j+1]
           o == Opening
           q == Skip(o.q)
           ty == Scalar("i32")
<1>1. Entered(j) /\ o.op = OpWord(s).s /\ o.op \in {"str"} /\ IsInstruction(text, j, s)
  BY Enters DEF Str
<1>2. Taking(j, o.q, 0, <<>>) /\ j \in 0..Len(text)-1 /\ Rest(s) \in Nat
  BY <1>1, TakingBegins
<1>3. CASE Ignored(s) /\ s.means = <<>> /\ Rest(s) = 0
  <2>1. Peek(o.q).k # "string"
    BY <1>1, <1>2, <1>3, NextWord
  <2>2. r' = o.q /\ UNCHANGED <<text, types, strings, funcs, F, B>>
    BY <2>1 DEF Str
  <2> QED
    BY <1>1, <1>3, <2>2, PassedBy
<1>4. CASE Instructed(text, j+1) /\ InBlock(text, j)
  <2> DEFINE n == Strings(text, j+1)
             m == Instr("str", ty, Dest(s), <<Literal(n)>>, 0, <<>>)
             instr == Instr("str", ty, Opening.dst, <<Imm(n)>>, 0, <<>>)
  <2>1. Rest(s) = 1 /\ W(s, 1).k = "string" /\ s.means = <<m>>
    BY <1>1, <1>4 DEF Instructed
  <2>2. n \in Nat /\ j \in Nat /\ n = strings
    <3>1. j \in Nat
      BY <1>2
    <3> QED
      BY <1>1, <3>1, StringsStep DEF Entered, Ready, Standing
  <2>3. 0 \in Nat /\ 0 < Rest(text[j+1]) /\ 1 = 0+1
    BY <2>1
  <2>4. Peek(o.q) = W(text[j+1], 0+1)
    BY <1>1, <1>2, <2>3, TakingPeek
  <2>5. Taking(j, q, 1, <<>>)
    BY <1>1, <1>2, <2>3, TakingSkip
  <2>6. Put(q, <<instr>>) /\ strings' = strings + 1
    BY <2>1, <2>2, <2>4 DEF Str
  <2>7. Covers(s, <<>>)
    BY <2>1, NoneCovered DEF IsVreg
  <2>8. Taking(j, q, Rest(text[j+1]), <<>>)
    BY <2>1, <2>5
  <2> HIDE DEF q, n, s, m, instr
  <2>9. Met(q, Dest(s)) /\ NumberIn(q, Dest(s)) = Opening.dst
    BY <1>1, <2>7, <2>8, WentBy DEF s
  <2>10. Gathered(q, Dest(s), <<Imm(n)>>, <<Literal(n)>>)
    BY <2>2, <2>9, OneLiteral
  <2>11. Tells(q, instr, m) /\ m.op = "str"
    <3>1. Tells(q, Instr("str", ty, NumberIn(q, Dest(s)), <<Imm(n)>>, 0, <<>>), Instr("str", ty, Dest(s), <<Literal(n)>>, 0, <<>>))
          /\ Instr("str", ty, Dest(s), <<Literal(n)>>, 0, <<>>).op = "str"
      BY <2>10, TellsIs
    <3> QED
      BY <2>9, <3>1 DEF m, instr
  <2>12. IsSeq(<<instr>>) /\ Len(<<instr>>) = 1 /\ <<instr>>[1] = instr
    BY SeqIs, <<instr>> \in Seq({instr})
  <2>13. Len(s.means) = 1 /\ s.means[1] = m /\ s.means # <<>>
    BY <2>1
  <2>14. Sounds(s, q, <<instr>>)
    <3>1. s.types = <<>> /\ s.words[1] # Word("block") /\ s.words[1] # Word("}")
      BY <1>1 DEF IsInstruction
    <3>2. \A i \in 1..Len(s.means) : Tells(q, <<instr>>[i], s.means[i])
      BY <2>11, <2>12, <2>13
    <3> QED
      BY <2>12, <2>13, <3>1, <3>2 DEF Sounds
  <2>15. Strings(text, (j+1)+1) = n + 1
    BY <2>2, <2>11, <2>13, StringsStep DEF n, s
  <2>16. strings' = Strings(text, (j+1)+1)
    BY <2>2, <2>6, <2>15
  <2> QED
    BY <1>1, <1>4, <2>6, <2>7, <2>8, <2>14, <2>16, Finished DEF s
<1> QED
  BY <1>1, <1>3, <1>4 DEF IsInstruction

LEMMA TwoOf ==
  ASSUME NEW a, NEW b
  PROVE  IsSeq(<<a, b>>) /\ Len(<<a, b>>) = 2 /\ <<a, b>>[1] = a /\ <<a, b>>[2] = b
<1>1. IsSeq(<<a, b>>)
  BY SeqIs, <<a, b>> \in Seq({a, b})
<1> QED
  BY <1>1

LEMMA OneGathered ==
  ASSUME NEW q, NEW d, Met(q, d), NEW a \in Opd, NEW w, Holds(q, a, w)
  PROVE  Gathered(q, d, <<a>>, <<w>>)
<1>1. <<a>> \in Seq(Opd) /\ Len(<<a>>) = 1 /\ <<a>>[1] = a /\ Len(<<w>>) = 1 /\ <<w>>[1] = w
  OBVIOUS
<1>2. IsSeq(<<w>>)
  BY SeqIs, <<w>> \in Seq({w})
<1>3. \A i \in 1..Len(<<w>>) : Holds(q, <<a>>[i], <<w>>[i])
  BY <1>1
<1> QED
  BY <1>1, <1>2, <1>3 DEF Gathered

LEMMA ThreeGathered ==
  ASSUME NEW q, NEW d, Met(q, d), NEW a1 \in Opd, NEW w1, Holds(q, a1, w1), NEW a2 \in Opd, NEW w2, Holds(q, a2, w2),
         NEW a3 \in Opd, NEW w3, Holds(q, a3, w3)
  PROVE  Gathered(q, d, <<a1, a2, a3>>, <<w1, w2, w3>>)
<1> DEFINE xs == <<a1, a2, a3>>
           ws == <<w1, w2, w3>>
<1>1. xs \in Seq(Opd) /\ Len(xs) = 3 /\ xs[1] = a1 /\ xs[2] = a2 /\ xs[3] = a3
  OBVIOUS
<1>2. IsSeq(ws)
  BY SeqIs, ws \in Seq({w1, w2, w3})
<1>3. Len(ws) = 3 /\ ws[1] = w1 /\ ws[2] = w2 /\ ws[3] = w3
  OBVIOUS
<1> HIDE DEF xs, ws
<1>4. \A i \in 1..Len(ws) : Holds(q, xs[i], ws[i])
  <2>1. Len(ws) = 3
    BY <1>3
  <2>2. \A i \in 1..3 : i = 1 \/ i = 2 \/ i = 3
    OBVIOUS
  <2> QED
    BY <1>1, <1>3, <2>1, <2>2
<1>5. Gathered(q, d, xs, ws)
  BY <1>1, <1>2, <1>3, <1>4 DEF Gathered
<1> QED
  BY <1>5 DEF xs, ws

LEMMA VregHolds ==
  ASSUME NEW S, NEW q, Fine(S, q), NEW w \in Words, IsVreg(w), Met(q, w)
  PROVE  Holds(q, Vreg(NumberIn(q, w)), w) /\ Vreg(NumberIn(q, w)) \in Opd
<1>1. NumberIn(q, w) \in Int
  <2>1. CASE w.k = "num"
    <3>1. w.n \in Nat
      BY <2>1 DEF Words
    <3> QED
      BY <2>1, <3>1 DEF NumberIn
  <2>2. CASE w.k = "arg"
    <3>1. w.n \in Nat
      BY <2>2 DEF Words
    <3> QED
      BY <2>2, <3>1, IRAssumption DEF NumberIn, Param
  <2>3. CASE w.k = "name"
    <3>1. q.syms \in Seq(Sym)
      BY FineHas
    <3> DEFINE i == SymOf(q, w.s)
    <3>2. i \in 0..Len(q.syms) /\ i # 0
      BY <2>3, <3>1, SymOfIs DEF Met
    <3> HIDE DEF i
    <3>3. i \in 1..Len(q.syms)
      BY <3>1, <3>2
    <3>4. q.syms[i] \in Sym
      BY <3>1, <3>3, ElementIs
    <3>5. q.syms[i].v \in Int
      BY <3>4 DEF Sym
    <3>6. NumberIn(q, w) = q.syms[i].v
      BY <2>3, <3>2 DEF NumberIn, i
    <3> QED
      BY <3>5, <3>6
  <2> QED
    BY <2>1, <2>2, <2>3 DEF IsVreg
<1> DEFINE z == NumberIn(q, w)
<1> HIDE DEF z
<1>2. Vreg(z) \in Opd /\ Vreg(z).kind = "vreg"
  BY <1>1 DEF Vreg, Opd, z
<1>3. InTable(q, Vreg(z))
  BY <1>2 DEF InTable
<1>4. Denotes(q, Vreg(z), w)
  BY DEF Denotes, z, IsVreg
<1>5. Holds(q, Vreg(z), w)
  BY <1>3, <1>4 DEF Holds, IsVreg
<1> QED
  BY <1>2, <1>5 DEF z

(* What q.args holds. *)
LEMMA HeldAt ==
  ASSUME NEW j, NEW q, NEW c, NEW ws, Taking(j, q, c, ws), NEW i \in 1..Len(ws)
  PROVE  q.args[i] \in Opd /\ Holds(q, q.args[i], ws[i])
<1> DEFINE S == NamesAt(text, j)
<1>1. Fine(S, q) /\ Len(q.args) = Len(ws) /\ Holds(q, q.args[i], ws[i])
  BY DEF Taking, Took, Reads
<1> HIDE DEF S
<1>2. q.args \in Seq(Opd)
  BY <1>1, FineHas
<1>3. q.args[i] \in Opd
  BY <1>1, <1>2, ElementIs
<1> QED
  BY <1>1, <1>3

LEMMA StoreStep ==
  ASSUME NEW j, Ready(j), Store
  PROVE  Advanced(j)
<1> DEFINE s == text[j+1]
           o == Opening
           op == OpWord(s).s
           tys == Known(text, j+1)
           ty == Meant(tys, W(s, 1))
           t == TypeNamed(Peek(o.q))
           q == Operand(Operand(Skip(o.q)))
           e == Second2(s, 2)
           n == SizeOf(ty)
<1>1. Entered(j) /\ o.op = op /\ op \in {"store"} /\ Instructed(text, j+1) /\ InBlock(text, j) /\ op # "str"
  BY EntersInstr, NotStr DEF Store
<1>2. /\ TakesTwo(s, 2, 0) /\ IsType(tys, W(s, 1)) /\ Body(s) = 0
      /\ ~IsAggregate(ty) => s.means = <<Instr(op, ty, Dest(s), Args2(s, 2), 0, <<>>)>>
      /\ IsAggregate(ty) => s.means = <<Instr("memcpy", NoType, Nothing, <<W(s, e), W(s, 2), Literal(n)>>, 0, <<>>)>>
  BY <1>1 DEF Instructed
<1>3. /\ ~IsAggregate(t) => Emit(q, Instr(op, t, NoDst, q.args, 0, <<>>))
      /\ IsAggregate(t) => Emit(q, Instr("memcpy", NoType, NoDst, <<q.args[2], q.args[1], Imm(SizeOf(t))>>, 0, <<>>))
  BY <1>1 DEF Store, Memcpy
<1> HIDE DEF s, o, op, tys, ty, t, q
<1>4. Rest(text[j+1]) \in Nat /\ Rest(text[j+1]) > 0
  BY <1>1, <1>2, TakingBegins DEF TakesTwo, s
<1>5. Taking(j, Skip(o.q), 1, <<>>) /\ t = ty /\ GoodType(ty)
  BY <1>1, <1>2, <1>4, TakingNamed DEF o, s, tys, ty, t
<1>6. Taking(j, q, e, Args2(s, 2)) /\ Covers(s, Args2(s, 2)) /\ Rest(s) = e
  <2> DEFINE q1 == Skip(o.q)
  <2>1. TakesTwo(text[j+1], 2, 0) /\ 1 = 2-1 /\ 2 \in Nat \ {0} /\ 0 \in Nat
    BY <1>2 DEF s
  <2> HIDE DEF q1
  <2>2. Taking(j, q1, 1, <<>>)
    BY <1>5 DEF q1
  <2>3. /\ Taking(j, Operand(Operand(q1)), e, Args2(s, 2)) /\ Covers(s, Args2(s, 2))
        /\ Rest(s) = e + 0 /\ e \in Nat
    BY <1>1, <2>1, <2>2, ReadsTwo DEF s
  <2> QED
    BY <2>3 DEF q, q1
<1>7. CASE ~IsAggregate(ty)
  <2>1. s.means = <<Instr(op, ty, Nothing, Args2(s, 2), 0, <<>>)>>
    BY <1>2, <1>7 DEF Dest
  <2>2. Emit(q, Instr(op, ty, NoDst, q.args, 0, <<>>))
    BY <1>3, <1>5, <1>7
  <2> QED
    BY <1>1, <1>6, <2>1, <2>2, EmitOne DEF s
<1>8. CASE IsAggregate(ty)
  <2> DEFINE ws == Args2(s, 2)
             args == <<q.args[2], q.args[1], Imm(n)>>
             vs == <<W(s, e), W(s, 2), Literal(n)>>
  <2>1. ws = <<W(s, 2), W(s, e)>> /\ Len(ws) = 2 /\ ws[1] = W(s, 2) /\ ws[2] = W(s, e)
    BY Lists DEF Args2
  <2>2. n \in Int
    BY <1>5 DEF GoodType
  <2> HIDE DEF ws, n, e
  <2>3. 1 \in 1..Len(ws) /\ 2 \in 1..Len(ws) /\ Taking(j, q, e, ws)
    BY <1>6, <2>1 DEF ws
  <2>4. q.args[1] \in Opd /\ Holds(q, q.args[1], W(s, 2)) /\ q.args[2] \in Opd /\ Holds(q, q.args[2], W(s, e))
    BY <2>1, <2>3, HeldAt
  <2>5. Met(q, Nothing) /\ NumberIn(q, Nothing) = NoDst
    BY DEF Met, Nothing, NumberIn
  <2>6. Gathered(q, Nothing, args, vs)
    BY <2>2, <2>4, <2>5, LiteralIs, ThreeGathered
  <2>7. Emit(q, Instr("memcpy", NoType, NoDst, args, 0, <<>>))
        /\ s.means = <<Instr("memcpy", NoType, Nothing, vs, 0, <<>>)>>
    BY <1>2, <1>3, <1>5, <1>8 DEF n, e
  <2>8. Taking(j, q, Rest(text[j+1]), ws) /\ Covers(text[j+1], ws)
    BY <1>6 DEF ws, s, e
  <2> HIDE DEF args, vs
  <2> QED
    BY <1>1, <2>5, <2>6, <2>7, <2>8, EmitMeant DEF s
<1> QED
  BY <1>7, <1>8

(* The two instructions of a load of an aggregate. *)
Placed(s) == s.types = <<>> /\ s.words[1] # Word("block") /\ s.words[1] # Word("}")
Are(list, m, k) == list = <<m, k>>
LEMMA TwoSound ==
  ASSUME NEW s, Placed(s), NEW q,
         NEW a, NEW b, NEW m, NEW k, Tells(q, a, m), Tells(q, b, k), Are(s.means, m, k)
  PROVE  Sounds(s, q, <<a, b>>)
<1>1. IsSeq(<<a, b>>) /\ Len(<<a, b>>) = 2 /\ <<a, b>>[1] = a /\ <<a, b>>[2] = b
  BY TwoOf
<1>2. Len(s.means) = 2 /\ s.means[1] = m /\ s.means[2] = k
  BY TwoOf DEF Are
<1>3. \A i \in 1..Len(s.means) : Tells(q, <<a, b>>[i], s.means[i])
  <2>1. \A i \in 1..2 : i = 1 \/ i = 2
    OBVIOUS
  <2> QED
    BY <1>1, <1>2, <2>1
<1> QED
  BY <1>1, <1>2, <1>3 DEF Sounds, Placed

LEMMA LoadStep ==
  ASSUME NEW j, Ready(j), Load
  PROVE  Advanced(j)
<1> DEFINE s == text[j+1]
           o == Opening
           op == OpWord(s).s
           tys == Known(text, j+1)
           ty == Meant(tys, W(s, 1))
           t == TypeNamed(Peek(o.q))
           q == Operand(Skip(o.q))
           n == SizeOf(ty)
           d == Dest(s)
           x == o.dst
<1>1. Entered(j) /\ o.op = op /\ op \in {"load"} /\ Instructed(text, j+1) /\ InBlock(text, j) /\ op # "str"
  BY EntersInstr, NotStr DEF Load
<1>2. /\ Takes(s, 2, {2}) /\ IsType(tys, W(s, 1))
      /\ ~IsAggregate(ty) => s.means = <<Instr(op, ty, d, Args1(s, 2), 0, <<>>)>>
      /\ IsAggregate(ty) => /\ Body(s) # 0
                            /\ s.means = <<Instr("alloca", ty, d, <<Literal(n)>>, 0, <<>>),
                                           Instr("memcpy", NoType, Nothing, <<d, W(s, 2), Literal(n)>>, 0, <<>>)>>
  BY <1>1 DEF Instructed
<1>3. /\ ~IsAggregate(t) => Put(q, <<Instr(op, t, x, q.args, 0, <<>>)>>)
      /\ IsAggregate(t) => Put(q, <<Instr("alloca", t, x, <<Imm(SizeOf(t))>>, 0, <<>>),
                                    Instr("memcpy", NoType, NoDst, <<Vreg(x), q.args[1], Imm(SizeOf(t))>>, 0, <<>>)>>)
      /\ strings' = strings
  BY <1>1 DEF Load, Memcpy
<1> HIDE DEF s, o, op, tys, ty, t, q, d, x
<1>4. Rest(text[j+1]) \in Nat /\ Rest(text[j+1]) > 0
  BY <1>1, <1>2, TakingBegins DEF Takes, s
<1>5. Taking(j, Skip(o.q), 1, <<>>) /\ t = ty /\ GoodType(ty)
  BY <1>1, <1>2, <1>4, TakingNamed DEF o, s, tys, ty, t
<1>6. Taking(j, q, 2, Args1(s, 2)) /\ Covers(s, Args1(s, 2)) /\ Rest(s) = 2
  <2> DEFINE q1 == Skip(o.q)
  <2>1. Takes(text[j+1], 2, {2}) /\ 1 = 2-1 /\ 2 \in Nat \ {0} /\ 2 <= Rest(text[j+1])
    BY <1>2 DEF s, Takes
  <2> HIDE DEF q1
  <2>2. Taking(j, q1, 1, <<>>)
    BY <1>5 DEF q1
  <2>3. Taking(j, Operand(q1), 2, Args1(s, 2)) /\ Covers(s, Args1(s, 2)) /\ Rest(s) = 2
    BY <1>1, <2>1, <2>2, ReadsOne DEF s
  <2> QED
    BY <2>3 DEF q, q1
<1>7. CASE ~IsAggregate(ty)
  <2>1. s.means = <<Instr(op, ty, Dest(s), Args1(s, 2), 0, <<>>)>>
    BY <1>2, <1>7 DEF d
  <2>2. Emit(q, Instr(op, ty, Opening.dst, q.args, 0, <<>>))
    BY <1>3, <1>5, <1>7 DEF Emit, x, o
  <2> QED
    BY <1>1, <1>6, <2>1, <2>2, EmitOne DEF s
<1>8. CASE IsAggregate(ty)
  <2> DEFINE ws == Args1(s, 2)
             args == <<Vreg(x), q.args[1], Imm(n)>>
             vs == <<d, W(s, 2), Literal(n)>>
  <2>1. ws = <<W(s, 2)>> /\ Len(ws) = 1 /\ ws[1] = W(s, 2)
    BY Lists DEF Args1
  <2>2. n \in Int
    BY <1>5 DEF GoodType
  <2> HIDE DEF ws, n
  <2>3. 1 \in 1..Len(ws) /\ Taking(j, q, 2, ws)
    BY <1>6, <2>1 DEF ws
  <2>4. q.args[1] \in Opd /\ Holds(q, q.args[1], W(s, 2))
    BY <2>1, <2>3, HeldAt
  <2>5. Met(q, Nothing) /\ NumberIn(q, Nothing) = NoDst
    BY DEF Met, Nothing, NumberIn
  <2>6. Taking(j, q, Rest(text[j+1]), ws) /\ Covers(text[j+1], ws)
    BY <1>6 DEF ws, s
  <2>7. Met(q, d) /\ NumberIn(q, d) = x
    BY <1>1, <2>6, WentBy DEF d, s, x, o
  <2>8. d \in Words /\ IsVreg(d)
    <3>1. Body(s) = 2 /\ IsVreg(s.words[1]) /\ d = s.words[1]
      BY <1>2, <1>8 DEF Body, Dest, d
    <3>2. IsInstruction(text, j, s)
      BY <1>1 DEF Entered, Begins, s
    <3>3. s.words \in Seq(Words) /\ 1 \in 1..Len(s.words)
      <4>1. s.words \in Seq(Words) /\ Rest(s) >= 0
        BY <3>2 DEF IsInstruction
      <4>2. Len(s.words) - 2 - 1 >= 0 /\ Len(s.words) \in Nat
        BY <3>1, <4>1 DEF Rest
      <4> QED
        BY <4>1, <4>2
    <3> QED
      BY <3>1, <3>3, ElementIs
  <2>9. Holds(q, Vreg(x), d) /\ Vreg(x) \in Opd
    <3>1. Fine(NamesAt(text, j), q)
      BY <2>3 DEF Taking, Took, Reads
    <3> QED
      BY <2>7, <2>8, <3>1, VregHolds
  <2>10. Gathered(q, Nothing, args, vs)
    BY <2>2, <2>4, <2>5, <2>9, LiteralIs, ThreeGathered
  <2>11. Gathered(q, d, <<Imm(n)>>, <<Literal(n)>>)
    BY <2>2, <2>7, OneLiteral
  <2> DEFINE xs == <<Imm(n)>>
             us == <<Literal(n)>>
             a == Instr("alloca", ty, x, xs, 0, <<>>)
             m == Instr("alloca", ty, d, us, 0, <<>>)
             b == Instr("memcpy", NoType, NoDst, args, 0, <<>>)
             k == Instr("memcpy", NoType, Nothing, vs, 0, <<>>)
  <2>12. Put(q, <<a, b>>) /\ s.means = <<m, k>>
    BY <1>2, <1>3, <1>5, <1>8 DEF n
  <2> HIDE DEF args, vs, xs, us
  <2>13. Tells(q, Instr("alloca", ty, NumberIn(q, d), xs, 0, <<>>), m) /\ m.op = "alloca"
    BY <2>11, TellsIs DEF xs, us
  <2>14. Tells(q, Instr("memcpy", NoType, NumberIn(q, Nothing), args, 0, <<>>), k)
    BY <2>10, TellsIs
  <2>15. Tells(q, a, m) /\ Tells(q, b, k)
    BY <2>5, <2>7, <2>13, <2>14
  <2> HIDE DEF a, b, m, k
  <2>16. s.types = <<>> /\ s.words[1] # Word("block") /\ s.words[1] # Word("}")
    BY <1>1 DEF Entered, Begins, IsInstruction, s
  <2>17. Sounds(s, q, <<a, b>>)
    BY <2>12, <2>15, <2>16, TwoSound DEF Are, Placed
  <2>18. strings' = Strings(text, (j+1)+1)
    <3>1. j \in Nat
      <4>1. j \in 0..Len(text)-1
        BY <1>1, TakingBegins
      <4> QED
        BY <4>1
    <3>2. s.means[1].op # "str"
      BY <2>12, <2>13
    <3>3. strings = Strings(text, j+1)
      BY <1>1 DEF Entered, Ready, Standing
    <3> QED
      BY <1>3, <3>1, <3>2, <3>3, StringsStep DEF s
  <2> QED
    BY <1>1, <2>6, <2>12, <2>17, <2>18, Finished DEF s
<1> QED
  BY <1>7, <1>8

LEMMA GepStep ==
  ASSUME NEW j, Ready(j), Gep
  PROVE  Advanced(j)
<1> DEFINE s == text[j+1]
           o == Opening
           op == OpWord(s).s
           tys == Known(text, j+1)
           ty == Meant(tys, W(s, 1))
           t == TypeNamed(Peek(o.q))
           q == Operand(Operand(Skip(o.q)))
           e == Second2(s, 2)
           i == IF q.args[2].kind = "imm" THEN q.args[2].x ELSE 0
           off == IF t.kind = "struct" /\ i \in 0..Len(t.fields)-1 THEN t.offsets[i+1] ELSE 0
           w == W(s, e)
           field == W(s, Rest(s)) = Word("field")
<1>1. Entered(j) /\ o.op = op /\ op \in {"gep"} /\ Instructed(text, j+1) /\ InBlock(text, j) /\ op # "str"
  BY EntersInstr, NotStr DEF Gep
<1>2. /\ TakesTwo(s, 2, 1) /\ IsType(tys, W(s, 1))
      /\ field => /\ ty.kind = "struct" /\ w.k = "int" /\ w.n \in 0..Len(ty.fields)-1
                  /\ s.means = <<Instr("gep_field", ty, Dest(s), Args1(s, 2), ty.offsets[w.n + 1], <<>>)>>
      /\ ~field => s.means = <<Instr("gep", ty, Dest(s), Args2(s, 2), Stride(ty), <<>>)>>
  BY <1>1 DEF Instructed
<1>3. /\ Peek(q) = Word("field") => Emit(Skip(q), Instr("gep_field", t, o.dst, <<q.args[1]>>, off, <<>>))
      /\ Peek(q) # Word("field") => Emit(Skip(q), Instr("gep", t, o.dst, q.args, ParserStep(t), <<>>))
  BY <1>1 DEF Gep
<1> HIDE DEF s, o, op, tys, ty, t, q, i, off, w, field
<1>4. Rest(text[j+1]) \in Nat /\ Rest(text[j+1]) > 0
  BY <1>1, <1>2, TakingBegins DEF TakesTwo, s
<1>5. Taking(j, Skip(o.q), 1, <<>>) /\ t = ty /\ GoodType(ty)
  BY <1>1, <1>2, <1>4, TakingNamed DEF o, s, tys, ty, t
<1>6. Taking(j, q, e, Args2(s, 2)) /\ Covers(s, Args2(s, 2)) /\ Rest(s) = e + 1 /\ e \in Nat
  <2> DEFINE q1 == Skip(o.q)
  <2>1. TakesTwo(text[j+1], 2, 1) /\ 1 = 2-1 /\ 2 \in Nat \ {0} /\ 1 \in Nat
    BY <1>2 DEF s
  <2> HIDE DEF q1
  <2>2. Taking(j, q1, 1, <<>>)
    BY <1>5 DEF q1
  <2>3. /\ Taking(j, Operand(Operand(q1)), e, Args2(s, 2)) /\ Covers(s, Args2(s, 2))
        /\ Rest(s) = e + 1 /\ e \in Nat
    BY <1>1, <2>1, <2>2, ReadsTwo DEF s
  <2> QED
    BY <2>3 DEF q, q1
<1> DEFINE ws == Args2(s, 2)
           p == Skip(q)
<1>7. ws = <<W(s, 2), w>> /\ Len(ws) = 2 /\ ws[1] = W(s, 2) /\ ws[2] = w
  BY Lists DEF Args2, w
<1> HIDE DEF ws, e
<1>8. Taking(j, q, e, ws) /\ Covers(text[j+1], ws)
  BY <1>6 DEF ws, s
<1>9. Peek(q) = W(s, Rest(s)) /\ Taking(j, p, Rest(text[j+1]), ws) /\ p.args = q.args
  <2>1. e \in Nat /\ e < Rest(text[j+1]) /\ e+1 = Rest(s)
    BY <1>6 DEF s
  <2>2. Peek(q) = W(text[j+1], e+1)
    BY <1>1, <1>8, <2>1, TakingPeek
  <2> DEFINE d == e+1
  <2>3. d = e+1
    OBVIOUS
  <2> HIDE DEF d
  <2>4. Taking(j, Skip(q), d, ws) /\ Skip(q).args = q.args
    BY <1>1, <1>8, <2>1, <2>3, TakingSkip
  <2> QED
    BY <2>1, <2>2, <2>4 DEF s, d
<1> HIDE DEF p
<1>10. q.args[1] \in Opd /\ Holds(q, q.args[1], W(s, 2)) /\ q.args[2] \in Opd /\ Holds(q, q.args[2], w)
  <2>1. 1 \in 1..Len(ws) /\ 2 \in 1..Len(ws)
    BY <1>7
  <2> QED
    BY <1>7, <1>8, <2>1, HeldAt
<1>11. CASE field
  <2>1. q.args[2] = Imm(w.n)
    BY <1>2, <1>10, <1>11 DEF Holds, Denotes, IsVreg
  <2>2. i = w.n
    BY <2>1 DEF i, Imm
  <2>3. off = ty.offsets[w.n + 1]
    BY <1>2, <1>5, <1>11, <2>2 DEF off
  <2>4. Emit(p, Instr("gep_field", ty, Opening.dst, <<q.args[1]>>, ty.offsets[w.n + 1], <<>>))
    BY <1>3, <1>5, <1>9, <1>11, <2>3 DEF field, o, p
  <2> DEFINE pred == ty.offsets[w.n + 1]
             args == <<q.args[1]>>
             vs == <<W(s, 2)>>
  <2>5. s.means = <<Instr("gep_field", ty, Dest(s), vs, pred, <<>>)>>
    BY <1>2, <1>11 DEF Args1
  <2>6. Met(p, Dest(s)) /\ NumberIn(p, Dest(s)) = Opening.dst
    BY <1>1, <1>8, <1>9, WentBy DEF s
  <2>7. p.args[1] \in Opd /\ Holds(p, p.args[1], W(s, 2))
    <3>1. 1 \in 1..Len(ws)
      BY <1>7
    <3> QED
      BY <1>7, <1>9, <3>1, HeldAt
  <2>8. Gathered(p, Dest(s), args, vs)
    BY <1>9, <2>6, <2>7, OneGathered
  <2>9. Emit(p, Instr("gep_field", ty, Opening.dst, args, pred, <<>>))
    BY <2>4
  <2> HIDE DEF pred, args, vs
  <2> QED
    BY <1>1, <1>8, <1>9, <2>5, <2>6, <2>8, <2>9, EmitMeant DEF s
<1>12. CASE ~field
  <2>1. ParserStep(t) = Stride(ty)
    BY <1>5, StepIs
  <2> DEFINE pred == Stride(ty)
  <2>2. Emit(p, Instr("gep", ty, Opening.dst, q.args, pred, <<>>)) /\ q.args = p.args
    BY <1>3, <1>5, <1>9, <1>12, <2>1 DEF field, o, p
  <2>3. s.means = <<Instr("gep", ty, Dest(s), ws, pred, <<>>)>>
    BY <1>2, <1>12 DEF ws
  <2> HIDE DEF pred
  <2> QED
    BY <1>1, <1>8, <1>9, <2>2, <2>3, EmitOne DEF s
<1> QED
  BY <1>11, <1>12

(* The words between the parentheses of a call. *)
LEMMA CallList ==
  ASSUME NEW j, Entered(j), NEW q, Taking(j, q, 3, <<>>), Rest(text[j+1]) >= 4,
         W(text[j+1], Rest(text[j+1])) = Word(")"),
         NEW list, list = SubSeq(text[j+1].words, Body(text[j+1]) + 5, Len(text[j+1].words) - 1), Braced(list, {")"})
  PROVE  /\ Before(q, ")") = list /\ After(q, ")").rest = Drop(Opening.q.rest, Rest(text[j+1]))
         /\ list \in Seq(Words) /\ Len(list) = Rest(text[j+1]) - 4
         /\ \A i \in 1..Len(list) : list[i] = W(text[j+1], 3+i)
<1> DEFINE s == text[j+1]
           U == Opening.q.rest
           S == NamesAt(text, j)
           x == Rest(s)
           k == x - 3
           n == Len(s.words)
           b == Body(s)
<1>1. Reads(S, U, 3, q)
  BY DEF Taking, Took
<1>2. U \in Seq(Words) /\ Len(U) \in Nat /\ x \in Nat /\ x <= Len(U)
  BY TakingBegins
<1>3. \A i \in 1..x : U[i] = W(s, i)
  BY DEF Entered, Begins
<1>4. s.words \in Seq(Words)
  BY DEF Entered, Begins, IsInstruction
<1>5. x = n - b - 1 /\ b \in {0, 2} /\ n \in Nat /\ \A i : W(s, i) = s.words[b+1+i]
  BY <1>4 DEF Rest, Body, W
<1>6. x >= 4 /\ W(s, x) = Word(")")
  OBVIOUS
<1>0. list = SubSeq(s.words, b+5, n-1) /\ Braced(list, {")"})
  OBVIOUS
<1> DEFINE a == s.words
<1> HIDE DEF s, U, S, x, n, b, a
<1>7. b+5 \in Nat \ {0} /\ n-1 \in Nat /\ n-1 <= n /\ b+5 <= (n-1)+1 /\ (n-1)+1-(b+5) = x-4
  BY <1>5, <1>6
<1>8. list \in Seq(Words) /\ Len(list) = x-4 /\ \A i \in 1..x-4 : list[i] = a[(b+5)+i-1]
  <2> DEFINE lo == b+5
             hi == n-1
  <2>1. lo \in Nat \ {0} /\ hi \in Nat /\ hi <= Len(a) /\ lo <= hi+1 /\ a \in Seq(Words) /\ hi+1-lo = x-4
    BY <1>4, <1>7 DEF n, a
  <2> HIDE DEF lo, hi
  <2>2. SubSeq(a, lo, hi) \in Seq(Words) /\ Len(SubSeq(a, lo, hi)) = hi+1-lo
        /\ \A i \in 1..hi+1-lo : SubSeq(a, lo, hi)[i] = a[lo+i-1]
    BY <2>1, SubSeqIs
  <2>3. list = SubSeq(a, lo, hi)
    BY <1>0 DEF lo, hi, a
  <2> QED
    BY <2>1, <2>2, <2>3 DEF lo
<1>9. \A i \in 1..x-4 : list[i] = W(s, 3+i) /\ U[3+i] = W(s, 3+i)
  <2> TAKE i \in 1..x-4
  <2>1. (b+5)+i-1 = b+1+(3+i) /\ 3+i \in 1..x
    BY <1>2, <1>5
  <2>2. list[i] = a[b+1+(3+i)]
    BY <1>8, <2>1
  <2> QED
    BY <1>3, <1>5, <2>1, <2>2 DEF a
<1>10. k \in 1..Len(U)-3 /\ 3+k = x /\ k-1 = x-4 /\ k \in Nat /\ x \in 1..x
  BY <1>2, <1>6
<1> HIDE DEF k
<1>11. U[3+k] = Word(")") /\ \A i \in 1..k-1 : U[3+i] # Word(")")
  <2>1. U[3+k] = Word(")")
    BY <1>3, <1>6, <1>10
  <2>2. ASSUME NEW i \in 1..k-1 PROVE U[3+i] # Word(")")
    <3>1. i \in 1..x-4 /\ i \in DOMAIN list
      BY <1>8, <1>10
    <3>2. list[i] # Word(")")
      BY <1>0, <3>1 DEF Braced
    <3> QED
      BY <1>9, <3>1, <3>2
  <2> QED
    BY <2>1, <2>2
<1>12. /\ Find(q, ")") = k /\ Before(q, ")") \in Seq(Words) /\ Len(Before(q, ")")) = k-1
       /\ \A i \in 1..k-1 : Before(q, ")")[i] = U[3+i]
  <2> DEFINE c == 3
             z == ")"
  <2>1. FirstAt(U, c, z, k)
    BY <1>10, <1>11 DEF FirstAt
  <2>2. Reads(S, U, c, q) /\ c \in Nat /\ k \in Nat /\ U \in Seq(Words)
    BY <1>1, <1>2, <1>10
  <2> HIDE DEF c, z
  <2>3. /\ Find(q, z) = k /\ Before(q, z) \in Seq(Words) /\ Len(Before(q, z)) = k-1
        /\ \A i \in 1..k-1 : Before(q, z)[i] = U[c+i]
    BY <2>1, <2>2, FindIs
  <2> QED
    BY <2>3 DEF c, z
<1>13. Before(q, ")") = list
  <2> DEFINE y == Before(q, ")")
  <2>1. IsSeq(y) /\ IsSeq(list)
    BY <1>8, <1>12, SeqIs
  <2>2. Len(y) = x-4 /\ Len(list) = x-4 /\ \A i \in 1..x-4 : y[i] = list[i]
    BY <1>8, <1>9, <1>10, <1>12
  <2> HIDE DEF y
  <2>3. y = list
    BY <2>1, <2>2, SameSeq
  <2> QED
    BY <2>3 DEF y
<1>14. After(q, ")").rest = Drop(U, x)
  <2>1. q.rest = Drop(U, 3)
    BY <1>1 DEF Reads
  <2> DEFINE i == k+1
             D == Drop(U, 3)
  <2>2. i \in 1..Len(U)-3+1 /\ 3+i-1 = x /\ 3 \in 0..Len(U)
    BY <1>2, <1>6, <1>10
  <2> HIDE DEF i
  <2>3. SubSeq(D, i, Len(D)) = Drop(U, 3+i-1)
    BY <1>2, <2>2, DropMore
  <2> HIDE DEF D
  <2>4. From(q, i).rest = SubSeq(D, i, Len(D))
    <3> DEFINE y == SubSeq(D, i, Len(D))
    <3>1. From(q, i) = [q EXCEPT !.rest = y]
      BY <2>1 DEF From, D
    <3> HIDE DEF y
    <3>2. Fine(S, q)
      BY <1>1 DEF Reads
    <3>3. [q EXCEPT !.rest = y].rest = y
      <4>1. q = [rest |-> q.rest, syms |-> q.syms, next |-> q.next, fp |-> q.fp, args |-> q.args]
        BY <3>2, FineHas
      <4> QED
        BY <4>1
    <3> QED
      BY <3>1, <3>3 DEF y
  <2>5. After(q, ")") = From(q, i)
    BY <1>12 DEF After, i
  <2> QED
    BY <2>2, <2>3, <2>4, <2>5
<1> QED
  BY <1>8, <1>9, <1>12, <1>13, <1>14 DEF s, x, U

(* They are its operands, with commas between them. *)
LEMMA CallReads ==
  ASSUME NEW j, Entered(j), NEW q, Taking(j, q, 2, <<>>), Rest(text[j+1]) >= 4,
         NEW list \in Seq(Words), Len(list) = Rest(text[j+1]) - 4,
         \A i \in 1..Len(list) : list[i] = W(text[j+1], 3+i) /\ (list[i] = Comma \/ IsOperand(list[i])),
         W(text[j+1], 3) = Word("("), W(text[j+1], Rest(text[j+1])) = Word(")"),
         \A i \in {1, 2} : W(text[j+1], i).k = "word",
         NEW items, items = Items(list), NEW n, n = Len(items), NEW read, read = Readings(Rested(q, items), n)
  PROVE  LET p == Rested(read[n], Drop(Opening.q.rest, Rest(text[j+1])))
         IN  Taking(j, p, Rest(text[j+1]), items) /\ p.args = read[n].args /\ Covers(text[j+1], items)
<1> DEFINE s == text[j+1]
           S == NamesAt(text, j)
           U == Opening.q.rest
           q0 == Opening.q
           x == Rest(text[j+1])
           p == Rested(read[n], Drop(U, x))
           p0 == Rested(q, items)
<1>1. Took(S, U, q0, q, 2, <<>>) /\ Roomy(S) /\ x \in Nat /\ x <= Len(U) /\ U \in Seq(Words) /\ Len(U) \in Nat
  BY TakingBegins DEF Taking
<1>2. \A i \in 1..Len(list) : list[i] = W(s, 3+i) /\ (list[i] = Comma \/ IsOperand(list[i]))
  OBVIOUS
<1>3. x >= 4 /\ Len(list) = x - 4 /\ W(s, 3) = Word("(") /\ W(s, x) = Word(")") /\ W(s, 1).k = "word" /\ W(s, 2).k = "word"
  OBVIOUS
<1>4. items \in Seq(Words) /\ \A w \in ToSet(items) : w # Comma /\ w \in ToSet(list)
  BY ItemsAre
<1>5. \A w \in ToSet(list) : w # Comma => w \in ToSet(items)
  BY ItemsAre
<1>6. \A i \in 1..Len(list) : IsOperand(list[i]) => Usable(S, list[i])
  <2> TAKE i \in 1..Len(list)
  <2> DEFINE c == 2+i
  <2>1. c \in Nat /\ c < x /\ c+1 = 3+i
    BY <1>1, <1>3
  <2> HIDE DEF c
  <2>2. IsOperand(W(text[j+1], c+1)) => Usable(NamesAt(text, j), W(text[j+1], c+1))
    BY <2>1, WordAt DEF x
  <2> QED
    BY <1>2, <2>1, <2>2 DEF S, s
<1> HIDE DEF s, S, U, q0, x
<1>7. \A i \in 1..Len(items) : Usable(S, items[i])
  <2> TAKE i \in 1..Len(items)
  <2>1. items[i] \in ToSet(items)
    BY <1>4 DEF ToSet
  <2>2. items[i] # Comma /\ items[i] \in ToSet(list)
    BY <1>4, <2>1
  <2>3. PICK k \in 1..Len(list) : list[k] = items[i]
    BY <2>2 DEF ToSet
  <2> QED
    BY <1>2, <1>6, <2>2, <2>3
<1>8. Took(S, items, q0, p0, 0, <<>>)
  <2> DEFINE d == 0
             none == <<>>
             two == 2
  <2>1. Drop(items, 0) = items /\ d \in 0..Len(items)
    BY <1>4, DropAll
  <2>2. Took(S, U, q0, q, two, none)
    BY <1>1
  <2> HIDE DEF d, none, two
  <2>3. Took(S, items, q0, Rested(q, Drop(items, d)), d, none)
    BY <1>4, <2>1, <2>2, TookTo
  <2> QED
    BY <2>1, <2>3 DEF d, none
<1> HIDE DEF p0
<1>9. Took(S, items, q0, read[n], n, items)
  BY <1>1, <1>4, <1>7, <1>8, ReadingAll DEF p0
<1>10. Took(S, U, q0, p, x, items) /\ p.args = read[n].args
  <2> DEFINE v == read[n]
  <2>1. Took(S, items, q0, v, n, items) /\ x \in 0..Len(U)
    BY <1>1, <1>9
  <2> HIDE DEF v
  <2>2. Took(S, U, q0, Rested(v, Drop(U, x)), x, items) /\ Rested(v, Drop(U, x)).args = v.args
    BY <1>1, <2>1, TookTo
  <2> QED
    BY <2>2 DEF v
<1>11. Covers(s, items)
  <2>1. ASSUME NEW i \in 1..x, IsVreg(W(s, i)) PROVE \E k \in 1..Len(items) : items[k] = W(s, i)
    <3>1. \A w : (w.k = "word" => ~IsVreg(w)) /\ \A h : Word(h).k = "word"
      BY DEF IsVreg, Word
    <3>2. i # 1 /\ i # 2 /\ i # 3 /\ i # x
      BY <1>3, <2>1, <3>1
    <3>3. i-3 \in 1..Len(list) /\ 3+(i-3) = i
      BY <1>1, <1>3, <3>2
    <3>4. list[i-3] = W(s, i)
      BY <1>2, <3>3
    <3>5. list[i-3] \in ToSet(list) /\ list[i-3] # Comma
      <4>1. ~IsVreg(Comma)
        BY DEF IsVreg, Word, Comma
      <4> DEFINE k == i-3
      <4>2. k \in DOMAIN list
        BY <3>3
      <4> HIDE DEF k
      <4>3. list[k] \in ToSet(list)
        BY <4>2 DEF ToSet
      <4> QED
        BY <2>1, <3>4, <4>1, <4>3 DEF k
    <3>6. W(s, i) \in ToSet(items)
      BY <1>5, <3>4, <3>5
    <3> QED
      BY <1>4, <3>6 DEF ToSet
  <2> QED
    BY <2>1 DEF Covers, x, s
<1> QED
  BY <1>10, <1>11 DEF Taking, S, U, q0, x, s

LEMMA CallStep ==
  ASSUME NEW j, Ready(j), Call
  PROVE  Advanced(j)
<1> DEFINE s == text[j+1]
           o == Opening
           op == OpWord(s).s
           tys == Known(text, j+1)
           ty == Meant(tys, W(s, 1))
           q == From(o.q, 3)
           q1 == Skip(q)
           list == SubSeq(s.words, Body(s) + 5, Len(s.words) - 1)
           open == Peek(q) = Word("(")
           items == IF open THEN Items(Before(q1, ")")) ELSE <<>>
           n == Min({Len(items), MaxCallArgs})
           read == Readings([q EXCEPT !.rest = items], n)
           p == [read[n] EXCEPT !.rest = IF open THEN After(q1, ")").rest ELSE q.rest]
           x == Rest(text[j+1])
           labels == <<Second(o.q).s>>
<1>1. Entered(j) /\ o.op = op /\ op \in {"call"} /\ Instructed(text, j+1) /\ InBlock(text, j) /\ op # "str"
  BY EntersInstr, NotStr DEF Call
<1>2. /\ x >= 4 /\ IsType(tys, W(s, 1)) /\ W(s, 2).k = "word" /\ W(s, 3) = Word("(") /\ W(s, x) = Word(")")
      /\ Braced(list, {")"}) /\ Len(Items(list)) <= MaxCallArgs
      /\ \A i \in DOMAIN list : list[i] = Comma \/ IsOperand(list[i])
      /\ s.means = <<Instr(op, ty, Dest(s), Items(list), 0, <<W(s, 2).s>>)>>
  BY <1>1 DEF Instructed
<1>3. Emit(p, Instr(op, TypeNamed(Peek(o.q)), o.dst, read[n].args, 0, labels))
  BY <1>1 DEF Call, Readings
<1>4. q = From(o.q, 3) /\ q1 = Skip(q)
  OBVIOUS
<1> HIDE DEF s, o, op, tys, ty, q, q1, list, open, n, read, p, x, labels, items
<1>5. x \in Nat /\ x > 0 /\ W(s, 1).k = "word" /\ Taking(j, o.q, 0, <<>>)
  BY <1>1, <1>2, TakingBegins DEF IsType, x, o
<1>6. TypeNamed(Peek(o.q)) = ty /\ Peek(o.q) = W(s, 1) /\ Taking(j, Skip(o.q), 1, <<>>)
  BY <1>1, <1>2, <1>5, TakingNamed DEF o, s, tys, ty, x
<1>7. labels = <<W(s, 2).s>>
  <2>1. 1 \in Nat /\ 1 < Rest(text[j+1])
    BY <1>2, <1>5 DEF x
  <2>2. Peek(Skip(o.q)) = W(text[j+1], 1+1)
    BY <1>1, <1>6, <2>1, TakingPeek
  <2> QED
    BY <2>2 DEF labels, Second, s
<1>8. Taking(j, q, 2, <<>>) /\ Peek(q) = W(s, 3) /\ Taking(j, q1, 3, <<>>)
  <2>1. 0 \in Nat /\ 2 = 0+2 /\ 2 <= Rest(text[j+1]) /\ 2 \in Nat /\ 2 < Rest(text[j+1]) /\ 3 = 2+1
    BY <1>2, <1>5 DEF x
  <2>2. Taking(j, q, 2, <<>>)
    BY <1>1, <1>4, <1>5, <2>1, TakingFrom
  <2>3. Peek(q) = W(text[j+1], 2+1)
    BY <1>1, <2>1, <2>2, TakingPeek
  <2>4. Taking(j, q1, 3, <<>>)
    BY <1>1, <1>4, <2>1, <2>2, TakingSkip
  <2> QED
    BY <2>2, <2>3, <2>4 DEF s
<1>9. /\ Before(q1, ")") = list /\ After(q1, ")").rest = Drop(Opening.q.rest, x)
      /\ list \in Seq(Words) /\ Len(list) = x - 4 /\ \A i \in 1..Len(list) : list[i] = W(text[j+1], 3+i)
  <2>1. Taking(j, q1, 3, <<>>) /\ Rest(text[j+1]) >= 4 /\ W(text[j+1], Rest(text[j+1])) = Word(")") /\ Braced(list, {")"})
    BY <1>2, <1>8 DEF x, s
  <2>2. list = SubSeq(text[j+1].words, Body(text[j+1]) + 5, Len(text[j+1].words) - 1)
    BY DEF list, s
  <2> QED
    BY <1>1, <2>1, <2>2, CallList DEF x
<1>10. open /\ items = Items(list)
  BY <1>2, <1>8, <1>9 DEF open, items
<1>11. n = Len(items)
  <2>1. items \in Seq(Words)
    BY <1>9, <1>10, ItemsAre
  <2> DEFINE a == Len(items)
             b == MaxCallArgs
  <2>2. a \in Int /\ b \in Int /\ a <= b
    BY <1>2, <1>10, <2>1, ParserAssumption
  <2>3. n = Min({a, b})
    BY DEF n
  <2> HIDE DEF a, b
  <2>4. n = a
    BY <2>2, <2>3, MinOfTwo
  <2> QED
    BY <2>4 DEF a
<1>12. read = Readings(Rested(q, items), n)
  BY DEF read, Rested
<1>13. p = Rested(read[n], Drop(Opening.q.rest, x))
  BY <1>9, <1>10 DEF p, Rested
<1>14. Taking(j, p, Rest(text[j+1]), items) /\ p.args = read[n].args /\ Covers(text[j+1], items)
  <2>1. \A i \in 1..Len(list) : list[i] = W(text[j+1], 3+i) /\ (list[i] = Comma \/ IsOperand(list[i]))
    <3>1. DOMAIN list = 1..Len(list)
      BY <1>9
    <3> QED
      BY <1>2, <1>9, <3>1
  <2>2. \A i \in {1, 2} : W(text[j+1], i).k = "word"
    BY <1>2, <1>5 DEF s
  <2>3. Rest(text[j+1]) >= 4 /\ Len(list) = Rest(text[j+1]) - 4 /\ list \in Seq(Words)
        /\ W(text[j+1], 3) = Word("(") /\ W(text[j+1], Rest(text[j+1])) = Word(")")
    BY <1>2, <1>9 DEF x, s
  <2> HIDE DEF x
  <2>4. LET pp == Rested(read[n], Drop(Opening.q.rest, Rest(text[j+1])))
        IN  Taking(j, pp, Rest(text[j+1]), items) /\ pp.args = read[n].args /\ Covers(text[j+1], items)
    BY <1>1, <1>8, <1>10, <1>11, <1>12, <2>1, <2>2, <2>3, CallReads
  <2> QED
    BY <1>13, <2>4 DEF x
<1>15. s.means = <<Instr(op, ty, Dest(s), items, 0, labels)>>
  BY <1>2, <1>7, <1>10
<1>16. Emit(p, Instr(op, ty, Opening.dst, read[n].args, 0, labels)) /\ read[n].args = p.args
  BY <1>3, <1>6, <1>14 DEF o
<1> QED
  BY <1>1, <1>14, <1>15, <1>16, EmitOne DEF s

-----------------------------------------------------------------------------
(* Statements that are no instructions.  AtFront(j): statement j+1 is at the *)
(* front of the file, and Left(j, q, c): q has read its first c words and  *)
(* nothing else. *)
AtFront(j) ==
  /\ Ready(j) /\ j \in 0..Len(text)-1 /\ r.rest \in Seq(Words)
  /\ Len(text[j+1].words) \in 1..Len(r.rest) /\ Drop(r.rest, Len(text[j+1].words)) = WordsIn(text, j+1, Len(text))
  /\ \A i \in 1..Len(text[j+1].words) : r.rest[i] = text[j+1].words[i]
Left(j, q, c) ==
  /\ Reads(NamesAt(text, j), r.rest, c, q)
  /\ q.syms = r.syms /\ q.next = r.next /\ q.fp = r.fp
Ahead(j, c, i, d) == i \in Nat \ {0} /\ c+i = d+1 /\ d <= Len(text[j+1].words)

LEMMA FrontHas ==
  ASSUME NEW j, AtFront(j)
  PROVE  /\ Left(j, r, 0) /\ r.rest \in Seq(Words) /\ Len(r.rest) \in Nat /\ text[j+1].words \in Seq(Words)
         /\ Len(text[j+1].words) \in Nat \ {0} /\ Len(text[j+1].words) <= Len(r.rest) /\ j \in Nat /\ j+1 \in 1..Len(text)
         /\ Allowed(text, j+1) /\ Peek(r) = text[j+1].words[1]
<1> DEFINE T == r.rest
           S == NamesAt(text, j)
           s == text[j+1]
<1>1. Conforms(text) /\ Fine(S, r) /\ T \in Seq(Words) /\ j \in 0..Len(text)-1 /\ Len(s.words) \in 1..Len(T) /\ T[1] = s.words[1]
  BY DEF AtFront, Ready, Standing
<1>2. Len(T) \in Nat /\ Len(text) \in Nat
  BY <1>1, StatementsAre
<1>3. j \in Nat /\ j+1 \in 1..Len(text)
  BY <1>1, <1>2
<1>4. Allowed(text, j+1) /\ s.words \in Seq(Words) /\ Len(s.words) \in Nat \ {0}
  BY <1>1, <1>3, StatementsAre
<1> HIDE DEF S, s
<1>5. Reads(S, T, 0, r)
  <2>1. Drop(T, 0) = T /\ 0 \in 0..Len(T)
    BY <1>1, <1>2, DropAll
  <2> QED
    BY <1>1, <2>1 DEF Reads
<1>6. Peek(r) = T[1]
  <2> DEFINE c == 0
  <2>1. Reads(S, T, c, r) /\ c < Len(T) /\ c+1 = 1
    BY <1>1, <1>2, <1>4, <1>5
  <2> HIDE DEF c, T
  <2>2. Peek(r) = T[c+1]
    BY <1>1, <2>1, PeekIs
  <2> QED
    BY <2>1, <2>2
<1>7. Left(j, r, 0)
  BY <1>5 DEF Left, S
<1>8. Len(s.words) <= Len(T)
  BY <1>1, <1>2, <1>4
<1> QED
  BY <1>1, <1>2, <1>3, <1>4, <1>6, <1>7, <1>8 DEF s

LEMMA LeftPeek ==
  ASSUME NEW j, AtFront(j), NEW q, NEW c \in Nat, Left(j, q, c), c < Len(text[j+1].words)
  PROVE  Peek(q) = text[j+1].words[c+1]
<1> DEFINE T == r.rest
           S == NamesAt(text, j)
           n == Len(text[j+1].words)
<1>1. T \in Seq(Words) /\ Reads(S, T, c, q) /\ \A i \in 1..n : T[i] = text[j+1].words[i]
  BY DEF AtFront, Left
<1>2. n \in Nat /\ Len(T) \in Nat /\ n <= Len(T) /\ c < n
  BY FrontHas
<1> HIDE DEF T, S, n
<1>3. c < Len(T) /\ c+1 \in 1..n
  BY <1>2
<1>4. Peek(q) = T[c+1]
  BY <1>1, <1>3, PeekIs
<1> QED
  BY <1>1, <1>3, <1>4

(* Words are left out. *)
LEMMA LeftTo ==
  ASSUME NEW j, AtFront(j), NEW q, NEW c, Left(j, q, c), NEW d, d \in 0..Len(r.rest), NEW p, p = Rested(q, Drop(r.rest, d))
  PROVE  Left(j, p, d)
<1> DEFINE T == r.rest
           S == NamesAt(text, j)
<1>1. T \in Seq(Words) /\ Fine(S, q) /\ q.syms = r.syms /\ q.next = r.next /\ q.fp = r.fp /\ d \in 0..Len(T)
  BY DEF AtFront, Left, Reads
<1>2. p = Rested(q, Drop(T, d))
  OBVIOUS
<1> HIDE DEF S, T
<1>3. Drop(T, d) \in Seq(Words)
  BY <1>1, DropIs
<1> DEFINE rest == Drop(T, d)
<1> HIDE DEF rest
<1>4. p.rest = rest /\ p.syms = q.syms /\ p.next = q.next /\ p.fp = q.fp /\ Fine(S, p)
  <2>1. p = Rested(q, rest) /\ rest \in Seq(Words)
    BY <1>2, <1>3 DEF rest
  <2> QED
    BY <1>1, <2>1, RestedIs
<1> QED
  BY <1>1, <1>4 DEF Left, Reads, T, S, rest

LEMMA LeftSkip ==
  ASSUME NEW j, AtFront(j), NEW q, NEW c \in Nat, Left(j, q, c), c < Len(text[j+1].words), NEW d, d = c+1
  PROVE  Left(j, Skip(q), d)
<1> DEFINE T == r.rest
           S == NamesAt(text, j)
<1>1. T \in Seq(Words) /\ Reads(S, T, c, q)
  BY DEF AtFront, Left
<1>2. c < Len(T)
  BY FrontHas
<1> HIDE DEF T, S
<1>3. Skip(q) = Rested(q, Drop(T, c+1)) /\ c+1 \in 0..Len(T)
  BY <1>1, <1>2, SkipIs
<1>4. Skip(q) = Rested(q, Drop(r.rest, d)) /\ d \in 0..Len(r.rest)
  BY <1>3 DEF T
<1> QED
  BY <1>4, LeftTo

LEMMA LeftFrom ==
  ASSUME NEW j, AtFront(j), NEW q, NEW c \in Nat, Left(j, q, c), NEW i, NEW d \in Nat, Ahead(j, c, i, d)
  PROVE  Left(j, From(q, i), d)
<1> DEFINE T == r.rest
           n == Len(text[j+1].words)
<1>1. T \in Seq(Words) /\ q.rest = Drop(T, c) /\ c \in 0..Len(T)
  BY DEF AtFront, Left, Reads
<1>2. i \in Nat \ {0} /\ c+i = d+1 /\ d <= n
  BY DEF Ahead
<1>3. n <= Len(T) /\ n \in Nat /\ Len(T) \in Nat
  BY FrontHas
<1> HIDE DEF T, n
<1>4. i \in 1..Len(T)-c+1 /\ d = c+i-1 /\ d \in 0..Len(T)
  BY <1>1, <1>2, <1>3
<1> DEFINE x == Drop(T, c)
           y == Drop(T, d)
<1>5. SubSeq(x, i, Len(x)) = y
  BY <1>1, <1>4, DropMore
<1> HIDE DEF x, y
<1>6. From(q, i) = Rested(q, y)
  BY <1>1, <1>5 DEF From, Rested, x
<1>7. From(q, i) = Rested(q, Drop(r.rest, d)) /\ d \in 0..Len(r.rest)
  BY <1>4, <1>6 DEF T, y
<1> QED
  BY <1>7, LeftTo

(* Up to the word s, which is the k-th from here. *)
LEMMA LeftAfter ==
  ASSUME NEW j, AtFront(j), NEW q, NEW c \in Nat, Left(j, q, c), NEW k \in Nat, NEW s, FirstAt(text[j+1].words, c, s, k)
  PROVE  /\ Find(q, s) = k /\ Before(q, s) \in Seq(Words) /\ Len(Before(q, s)) = k-1
         /\ \A i \in 1..k-1 : Before(q, s)[i] = text[j+1].words[c+i]
         /\ \A d \in Nat : d = c+k => Left(j, After(q, s), d)
<1> DEFINE T == r.rest
           S == NamesAt(text, j)
           a == text[j+1].words
           n == Len(a)
<1>1. T \in Seq(Words) /\ Reads(S, T, c, q) /\ c \in 0..Len(T) /\ \A i \in 1..n : T[i] = a[i]
  BY DEF AtFront, Left, Reads
<1>2. n <= Len(T) /\ n \in Nat /\ Len(T) \in Nat
  BY FrontHas
<1>3. k \in 1..n-c /\ a[c+k] = Word(s) /\ \A i \in 1..k-1 : a[c+i] # Word(s)
  BY DEF FirstAt
<1> HIDE DEF T, S, a, n
<1>4. k \in 1..Len(T)-c /\ c+k \in 1..n /\ \A i \in 1..k-1 : c+i \in 1..n
  BY <1>1, <1>2, <1>3
<1>5. FirstAt(T, c, s, k)
  BY <1>1, <1>3, <1>4 DEF FirstAt
<1>6. /\ Find(q, s) = k /\ Before(q, s) \in Seq(Words) /\ Len(Before(q, s)) = k-1
      /\ \A i \in 1..k-1 : Before(q, s)[i] = T[c+i]
  BY <1>1, <1>5, FindIs
<1>7. \A i \in 1..k-1 : Before(q, s)[i] = a[c+i]
  BY <1>1, <1>4, <1>6
<1>8. ASSUME NEW d \in Nat, d = c+k PROVE Left(j, After(q, s), d)
  <2> DEFINE i == k+1
  <2>1. i \in Nat \ {0} /\ c+i = d+1 /\ d <= n
    BY <1>4, <1>8
  <2>2. Ahead(j, c, i, d)
    BY <2>1 DEF Ahead, n, a
  <2>3. After(q, s) = From(q, i)
    BY <1>6 DEF After
  <2> HIDE DEF i
  <2>4. Left(j, From(q, i), d)
    BY <2>2, LeftFrom
  <2> QED
    BY <2>3, <2>4
<1> QED
  BY <1>6, <1>7, <1>8 DEF a

(* The whole statement has been read. *)
LEMMA LeftAll ==
  ASSUME NEW j, AtFront(j), NEW q, Left(j, q, Len(text[j+1].words)), text[j+1].words[1] # Word("func"),
         \A i \in 1..Len(text[j+1].words) : ~IsVreg(text[j+1].words[i])
  PROVE  Went(text, j, r, q) /\ q.rest = WordsIn(text, j+1, Len(text))
<1> DEFINE S == NamesAt(text, j)
<1>1. j \in 0..Len(text)-1 /\ Fine(S, r) /\ Fine(S, q) /\ q.syms = r.syms /\ q.next = r.next /\ q.fp = r.fp
      /\ q.rest = WordsIn(text, j+1, Len(text))
  BY DEF AtFront, Ready, Standing, Left, Reads
<1>2. Extends(r, r)
  BY <1>1, ExtendsItself
<1>3. Extends(r, q)
  BY <1>1, <1>2 DEF Extends
<1> QED
  BY <1>1, <1>3 DEF Went

LEMMA Heads ==
  ASSUME NEW j, Ready(j), OpOf(Peek(r)) \in Headings
  PROVE  AtFront(j) /\ text[j+1].words[1] = Word(OpOf(Peek(r)))
<1> DEFINE T == r.rest
           S == NamesAt(text, j)
           s == text[j+1]
           n == Len(s.words)
           w == Peek(r)
<1>1. Conforms(text) /\ j \in 0..Len(text) /\ Fine(S, r) /\ T = WordsIn(text, j, Len(text))
  BY DEF Ready, Standing
<1>2. /\ T \in Seq(Words) /\ (T # <<>> => j < Len(text))
      /\ j < Len(text) => /\ n \in 1..Len(T) /\ Drop(T, n) = WordsIn(text, j+1, Len(text)) /\ w = s.words[1]
                           /\ \A i \in 1..n : T[i] = s.words[i]
  BY <1>1, FrontIs
<1>3. w.k = "word" /\ w.s = OpOf(w)
  BY DEF OpOf, Headings
<1>4. T # <<>>
  BY <1>3 DEF Peek, EndOfFile
<1>5. j \in 0..Len(text)-1 /\ j+1 \in 1..Len(text)
  <2>1. Len(text) \in Nat
    BY <1>1, StatementsAre
  <2> QED
    BY <1>1, <1>2, <1>4, <2>1
<1>6. AtFront(j)
  BY <1>2, <1>4, <1>5 DEF AtFront
<1>7. w \in Words
  <2>1. s.words \in Seq(Words) /\ n \in Nat \ {0} /\ w = s.words[1]
    BY <1>1, <1>2, <1>4, <1>5, StatementsAre
  <2> HIDE DEF s, w
  <2> QED
    BY <2>1, ElementIs
<1>8. w = Word(w.s)
  <2> HIDE DEF w
  <2> QED
    BY <1>3, <1>7 DEF Words, Word
<1> QED
  BY <1>2, <1>3, <1>4, <1>6, <1>8

LEMMA WordsDiffer ==
  ASSUME NEW g, NEW h, g # h
  PROVE  Word(g) # Word(h)
<1>1. Word(g).s = g /\ Word(h).s = h
  BY DEF Word
<1> QED
  BY <1>1

(* A statement of one word that says nothing. *)
LEMMA LoneWord ==
  ASSUME NEW j, AtFront(j), Len(text[j+1].words) = 1, NEW h, text[j+1].words[1] = Word(h), h # "func",
         NEW f2, NEW b2, Silent(text[j+1], F, B, f2, b2),
         r' = Skip(r), F' = f2, B' = b2, UNCHANGED <<text, types, strings, funcs>>
  PROVE  Advanced(j)
<1> DEFINE s == text[j+1]
<1>1. Left(j, r, 0) /\ 0 \in Nat /\ 0 < Len(text[j+1].words) /\ 1 = 0+1
  BY FrontHas
<1>2. Left(j, Skip(r), 1)
  BY <1>1, LeftSkip
<1>3. \A i \in 1..Len(s.words) : ~IsVreg(s.words[i])
  <2>1. ~IsVreg(Word(h))
    BY DEF Word, IsVreg
  <2>2. \A i \in 1..Len(s.words) : i = 1
    OBVIOUS
  <2> HIDE DEF s
  <2> QED
    BY <2>1, <2>2 DEF s
<1>4. s.words[1] # Word("func")
  BY DEF Word
<1>5. Went(text, j, r, Skip(r)) /\ Skip(r).rest = WordsIn(text, j+1, Len(text))
  <2> DEFINE q == Skip(r)
  <2>1. Left(j, q, Len(text[j+1].words))
    BY <1>2
  <2> HIDE DEF q
  <2>2. Went(text, j, r, q) /\ q.rest = WordsIn(text, j+1, Len(text))
    BY <1>3, <1>4, <2>1, LeftAll
  <2> QED
    BY <2>2 DEF q
<1>6. Conforms(text) /\ Standing(text, j, r, types, strings, funcs, F, B) /\ j \in 0..Len(text)-1
  BY DEF AtFront, Ready
<1>7. Standing(text, j+1, Skip(r), types, strings, funcs, f2, b2)
  BY <1>5, <1>6, Passed
<1> QED
  BY <1>5, <1>6, <1>7 DEF Advanced

LEMMA PunctuationStep ==
  ASSUME NEW j, Ready(j), Punctuation
  PROVE  Advanced(j)
<1> DEFINE s == text[j+1]
           h == OpOf(Peek(r))
<1>1. h \in {"{", "(", ")", ",", "="} /\ r' = Skip(r) /\ UNCHANGED <<text, types, strings, funcs, F, B>>
  BY DEF Punctuation
<1>2. AtFront(j) /\ s.words[1] = Word(h)
  BY <1>1, Heads DEF Headings
<1>3. Allowed(text, j+1)
  BY <1>2, FrontHas
<1> HIDE DEF s, h
<1>4. s.words[1] \notin {Word("type"), Word("func"), Word("block"), Word("}")}
  <2>1. h # "type" /\ h # "func" /\ h # "block" /\ h # "}"
    BY <1>1
  <2>2. Word(h) # Word("type") /\ Word(h) # Word("func") /\ Word(h) # Word("block") /\ Word(h) # Word("}")
    BY <2>1, WordsDiffer
  <2> QED
    BY <1>2, <2>2
<1>5. Ignored(s) \/ Instructed(text, j+1)
  BY <1>3, <1>4 DEF Allowed, s
<1>6. Body(s) = 0 /\ OpWord(s) = s.words[1]
  BY <1>2 DEF Body, OpWord, IsVreg, Word
<1>7. OpWord(s).s = h
  BY <1>2, <1>6 DEF Word
<1>8. h \notin Opcodes
  <2>1. \A x \in {"{", "(", ")", ",", "="} : x \notin Opcodes
    BY DEF Opcodes, Arithmetic, Unaries, Compares, Widths, ToFloats, Others
  <2> QED
    BY <1>1, <2>1
<1>9. Ignored(s)
  BY <1>5, <1>7, <1>8 DEF Instructed, s
<1>10. Plain(s) /\ Len(s.words) = 1
  <2>1. h \in Headings
    BY <1>1 DEF Headings
  <2> QED
    BY <1>7, <1>9, <2>1 DEF Ignored
<1>11. Silent(s, F, B, F, B)
  BY <1>4, <1>10 DEF Silent, Quiet, Plain
<1>12. h # "func"
  BY <1>1
<1> QED
  BY <1>1, <1>2, <1>10, <1>11, <1>12, LoneWord DEF s

LEMMA EndFuncStep ==
  ASSUME NEW j, Ready(j), EndFunc
  PROVE  Advanced(j)
<1> DEFINE s == text[j+1]
<1>1. OpOf(Peek(r)) = "}" /\ r' = Skip(r) /\ F' = 0 /\ B' = 0 /\ UNCHANGED <<text, types, strings, funcs>>
  BY DEF EndFunc
<1>2. AtFront(j) /\ s.words[1] = Word("}")
  BY <1>1, Heads DEF Headings
<1>3. Allowed(text, j+1)
  BY <1>2, FrontHas
<1> HIDE DEF s
<1>4. Word("}") # Word("type") /\ Word("}") # Word("func") /\ Word("}") # Word("block")
  BY WordsDiffer
<1>5. Len(s.words) = 1 /\ Plain(s)
  <2>1. s.words[1] \notin {Word("type"), Word("func"), Word("block")}
    BY <1>2, <1>4
  <2> QED
    BY <1>2, <1>3, <2>1 DEF Allowed, s
<1>6. Silent(s, F, B, 0, 0)
  BY <1>2, <1>4, <1>5 DEF Silent, Quiet, Plain
<1>7. "}" # "func"
  OBVIOUS
<1> QED
  BY <1>1, <1>2, <1>5, <1>6, <1>7, LoneWord DEF s

(* The type that a definition adds to the table. *)
LEMMA TypeAdded ==
  ASSUME NEW j, AtFront(j), NEW q, Left(j, q, Len(text[j+1].words)), text[j+1].words[1] = Word("type"),
         NEW name, NEW ty, text[j+1].types = <<[s |-> name, t |-> ty]>>, text[j+1].means = <<>>,
         Len(Known(text, j+1)) < TypeMax,
         \A i \in 1..Len(text[j+1].words) : ~IsVreg(text[j+1].words[i])
  PROVE  /\ Standing(text, j+1, q, Defined(name, ty), strings, funcs, F, B)
         /\ q.rest = WordsIn(text, j+1, Len(text))
<1> DEFINE s == text[j+1]
           x == Known(text, j+1)
           y == Known(text, (j+1)+1)
           e == [s |-> name, t |-> ty]
<1>1. Conforms(text) /\ Standing(text, j, r, types, strings, funcs, F, B) /\ types = x
  BY DEF AtFront, Ready, Standing
<1>2. Word("type") # Word("func") /\ Word("type") # Word("block") /\ Word("type") # Word("}")
  BY WordsDiffer
<1>3. Went(text, j, r, q) /\ q.rest = WordsIn(text, j+1, Len(text))
  BY <1>2, LeftAll
<1>4. Quiet(s, F, B, F, B)
  BY <1>2 DEF Quiet
<1>5. IsSeq(x) /\ y = x \o <<e>>
  <2>1. j+1 \in 1..Len(text)
    BY FrontHas
  <2>2. s.types = <<e>>
    OBVIOUS
  <2> QED
    BY <1>1, <2>1, <2>2, KnownLast
<1>6. Len(x) < TypeMax
  OBVIOUS
<1> HIDE DEF x, y, e, s
<1>7. Append(x, e) = y /\ Len(x) \in Nat
  <2> DEFINE S == ToSet(x) \cup {e}
  <2>1. x \in Seq(ToSet(x)) /\ ToSet(x) \subseteq S /\ e \in S
    BY <1>5 DEF IsSeq
  <2> HIDE DEF S
  <2>2. x \in Seq(S)
    BY <2>1
  <2> QED
    BY <1>5, <2>1, <2>2
<1>8. Defined(name, ty) = y
  BY <1>1, <1>6, <1>7, ParserAssumption DEF Defined, e
<1> QED
  BY <1>1, <1>3, <1>4, <1>8, WentOn DEF s, y

LEMMA TypeNamedWord ==
  ASSUME NEW j, Ready(j), NEW w, IsType(Known(text, j+1), w)
  PROVE  TypeNamed(w) = Meant(Known(text, j+1), w) /\ GoodType(Meant(Known(text, j+1), w))
<1>1. Conforms(text) /\ types = Known(text, j+1) /\ j \in 0..Len(text)
  BY DEF Ready, Standing
<1>2. j+1 \in 1..Len(text)+1
  BY <1>1, StatementsAre
<1>3. TypesOK(Known(text, j+1))
  BY <1>1, <1>2, KnownFine
<1>4. TypeIn(Known(text, j+1), w) = Meant(Known(text, j+1), w) /\ GoodType(Meant(Known(text, j+1), w))
  BY <1>3, TypeInIs
<1> QED
  BY <1>1, <1>4 DEF TypeNamed

(* How both forms begin. *)
LEMMA TypeBegins ==
  ASSUME NEW j, Ready(j), OpOf(Peek(r)) = "type"
  PROVE  /\ AtFront(j) /\ TypeDefined(text, j+1) /\ Outside(text, j) /\ text[j+1].words[1] = Word("type")
         /\ Left(j, From(r, 4), 3) /\ Peek(From(r, 4)) = text[j+1].words[4]
         /\ Second(r).s = text[j+1].words[2].s
<1> DEFINE s == text[j+1]
           n == Len(s.words)
<1>1. AtFront(j) /\ s.words[1] = Word("type")
  BY Heads DEF Headings
<1>2. Left(j, r, 0) /\ n \in Nat /\ Allowed(text, j+1) /\ j \in Nat
  BY <1>1, FrontHas
<1>3. TypeDefined(text, j+1) /\ Outside(text, j)
  <2>1. (j+1)-1 = j
    BY <1>2
  <2>2. TypeDefined(text, j+1) /\ Outside(text, (j+1)-1)
    <3>1. Word("type") # Word("func") /\ Word("type") # Word("block") /\ Word("type") # Word("}")
      BY WordsDiffer
    <3> QED
      BY <1>1, <1>2, <3>1 DEF Allowed
  <2> QED
    BY <2>1, <2>2
<1>4. n >= 4
  BY <1>3 DEF TypeDefined
<1>5. Left(j, Skip(r), 1) /\ Peek(Skip(r)) = s.words[2]
  <2>1. 0 \in Nat /\ 0 < n /\ 1 = 0+1 /\ 1 \in Nat /\ 1 < n /\ 1+1 = 2
    BY <1>2, <1>4
  <2> DEFINE q == Skip(r)
  <2>2. Left(j, q, 1)
    BY <1>1, <1>2, <2>1, LeftSkip
  <2> HIDE DEF q
  <2>3. Peek(q) = text[j+1].words[1+1]
    BY <1>1, <2>1, <2>2, LeftPeek
  <2> QED
    BY <2>1, <2>2, <2>3 DEF q
<1>6. Left(j, From(r, 4), 3) /\ Peek(From(r, 4)) = s.words[4]
  <2>1. Ahead(j, 0, 4, 3) /\ 0 \in Nat /\ 3 \in Nat /\ 3 < n /\ 3+1 = 4
    BY <1>2, <1>4 DEF Ahead
  <2> DEFINE q == From(r, 4)
  <2>2. Left(j, q, 3)
    BY <1>1, <1>2, <2>1, LeftFrom
  <2> HIDE DEF q
  <2>3. Peek(q) = text[j+1].words[3+1]
    BY <1>1, <2>1, <2>2, LeftPeek
  <2> QED
    BY <2>1, <2>2, <2>3 DEF q
<1> QED
  BY <1>1, <1>3, <1>5, <1>6 DEF Second

LEMMA TypeArrayStep ==
  ASSUME NEW j, Ready(j), TypeArray
  PROVE  Advanced(j)
<1> DEFINE s == text[j+1]
           tys == Known(text, j+1)
           w == s.words[4]
           elem == Meant(tys, w)
           q == From(r, 5)
           sized == Peek(q) = Word("[")
           k == IF sized THEN Second(q).n ELSE 0
           ty == ParserArray(TypeNamed(Peek(From(r, 4))), k)
           p == IF sized THEN SkipIf(From(q, 3), "]") ELSE q
           name == Second(r).s
           n == Len(s.words)
<1>1. /\ OpOf(Peek(r)) = "type" /\ Peek(From(r, 4)) # Word("{")
      /\ types' = Defined(name, ty) /\ r' = p /\ UNCHANGED <<text, strings, funcs, F, B>>
  BY DEF TypeArray
<1>2. /\ AtFront(j) /\ TypeDefined(text, j+1) /\ s.words[1] = Word("type")
      /\ Peek(From(r, 4)) = w /\ name = s.words[2].s
  BY <1>1, TypeBegins
<1>3. w # Word("{")
  BY <1>1, <1>2
<1>4. ArrayDefined(text, j+1)
  BY <1>2, <1>3 DEF TypeDefined, StructDefined
<1>5. /\ n = 7 /\ s.words[5] = Word("[") /\ s.words[7] = Word("]") /\ IsType(tys, w) /\ elem.kind # "array"
      /\ s.words[6].k = "int" /\ s.words[6].n \in Nat /\ s.types[1].t = BuilderArray(elem, s.words[6].n)
  BY <1>4 DEF ArrayDefined
<1>6. /\ s.words[2].k = "word" /\ s.words[3] = Word("=") /\ s.means = <<>>
      /\ s.types = <<[s |-> s.words[2].s, t |-> s.types[1].t]>> /\ Len(tys) < TypeMax
  BY <1>2 DEF TypeDefined
<1>7. TypeNamed(w) = elem /\ GoodType(elem) /\ w.k = "word"
  BY <1>5, TypeNamedWord DEF IsType
<1> HIDE DEF s, tys, w, elem, q, sized, k, ty, p, name, n
<1>8. Left(j, q, 4) /\ Peek(q) = s.words[5] /\ Second(q) = s.words[6] /\ Left(j, From(q, 3), 6) /\ Peek(From(q, 3)) = s.words[7]
      /\ Left(j, Skip(From(q, 3)), 7)
  <2>0. Len(text[j+1].words) = 7
    BY <1>5 DEF n, s
  <2>1. Left(j, r, 0)
    BY <1>2, FrontHas
  <2>2. Ahead(j, 0, 5, 4) /\ Ahead(j, 4, 3, 6) /\ 0 \in Nat /\ 4 \in Nat /\ 6 \in Nat /\ 5 \in Nat
        /\ 4 < Len(text[j+1].words) /\ 5 < Len(text[j+1].words) /\ 6 < Len(text[j+1].words)
        /\ 5 = 4+1 /\ 6 = 5+1 /\ 7 = 6+1
    BY <2>0 DEF Ahead
  <2>3. Left(j, From(r, 5), 4)
    BY <1>2, <2>1, <2>2, LeftFrom
  <2>4. Left(j, q, 4)
    BY <2>3 DEF q
  <2> DEFINE q1 == Skip(q)
             q2 == From(q, 3)
  <2>5. Left(j, q1, 5)
    BY <1>2, <2>2, <2>4, LeftSkip
  <2>6. Left(j, q2, 6)
    BY <1>2, <2>2, <2>4, LeftFrom
  <2> HIDE DEF q1, q2
  <2>7. Peek(q) = text[j+1].words[4+1] /\ Peek(q1) = text[j+1].words[5+1] /\ Peek(q2) = text[j+1].words[6+1]
    BY <1>2, <2>2, <2>4, <2>5, <2>6, LeftPeek
  <2>8. Left(j, Skip(q2), 7)
    BY <1>2, <2>2, <2>6, LeftSkip
  <2> QED
    BY <2>4, <2>6, <2>7, <2>8 DEF q1, q2, Second, s
<1>9. sized /\ k = s.words[6].n /\ p = Skip(From(q, 3))
  BY <1>5, <1>8 DEF sized, k, p, SkipIf
<1>10. ty = s.types[1].t
  <2>1. ParserArray(elem, s.words[6].n) = BuilderArray(elem, s.words[6].n)
    BY <1>5, <1>7, ArrayIs
  <2> QED
    BY <1>2, <1>5, <1>7, <1>9, <2>1 DEF ty
<1>11. \A i \in 1..n : ~IsVreg(s.words[i])
  <2>1. \A i \in 1..7 : s.words[i].k = "word" \/ s.words[i].k = "int"
    <3>1. \A h : Word(h).k = "word"
      BY DEF Word
    <3>2. \A i \in 1..7 : i = 1 \/ i = 2 \/ i = 3 \/ i = 4 \/ i = 5 \/ i = 6 \/ i = 7
      OBVIOUS
    <3>3. s.words[4].k = "word"
      BY <1>7 DEF w
    <3> QED
      BY <1>2, <1>5, <1>6, <3>1, <3>2, <3>3
  <2> QED
    BY <1>5, <2>1 DEF IsVreg
<1>12. s.types = <<[s |-> name, t |-> ty]>>
  BY <1>2, <1>6, <1>10
<1>13. Standing(text, j+1, p, Defined(name, ty), strings, funcs, F, B) /\ p.rest = WordsIn(text, j+1, Len(text))
  <2>1. Left(j, p, Len(text[j+1].words))
    BY <1>5, <1>8, <1>9 DEF n, s
  <2>2. text[j+1].words[1] = Word("type") /\ text[j+1].types = <<[s |-> name, t |-> ty]>> /\ text[j+1].means = <<>>
        /\ Len(Known(text, j+1)) < TypeMax /\ \A i \in 1..Len(text[j+1].words) : ~IsVreg(text[j+1].words[i])
    BY <1>2, <1>6, <1>11, <1>12 DEF s, tys, n
  <2> QED
    BY <1>2, <2>1, <2>2, TypeAdded
<1>14. j \in 0..Len(text)-1
  BY <1>2 DEF AtFront
<1> QED
  BY <1>1, <1>13, <1>14 DEF Advanced

(* Where reading the fields of a structure ends. *)
LastRead(list) == CHOOSE i \in 0..Len(list) : Len(Items(SubSeq(list, 1, i))) = FieldMax /\ list[i] # Word(",")
LEMMA LastReadIs ==
  ASSUME NEW list \in Seq(Words), Len(Items(list)) = FieldMax, Len(list) > 0, list[Len(list)] # Comma
  PROVE  LastRead(list) = Len(list)
<1> DEFINE m == Len(list)
           P(i) == Len(Items(SubSeq(list, 1, i))) = FieldMax /\ list[i] # Word(",")
<1>1. m \in Nat /\ m > 0
  OBVIOUS
<1>2. SubSeq(list, 1, m) = list
  BY ItemsAre
<1>3. P(m) /\ m \in 0..m
  <2>1. list[m] # Word(",") /\ Len(Items(list)) = FieldMax
    BY DEF Comma
  <2>2. m \in 0..m
    BY <1>1
  <2> HIDE DEF m
  <2> QED
    BY <1>2, <2>1, <2>2, Zenon
<1>4. ASSUME NEW i \in 0..m, P(i) PROVE i = m
  <2> DEFINE c == Len(Items(SubSeq(list, 1, i)))
  <2>1. c = FieldMax
    BY <1>4
  <2>2. i \in 0..m-1 => c < FieldMax
    BY LastItem
  <2> HIDE DEF c, P, m
  <2>3. ~(i \in 0..m-1)
    BY <2>1, <2>2, ParserAssumption
  <2> QED
    BY <1>1, <2>3
<1>5. LastRead(list) = CHOOSE i \in 0..m : P(i)
  BY DEF LastRead
<1> DEFINE last == LastRead(list)
<1> HIDE DEF P, m, last
<1>6. last \in 0..m /\ P(last)
  <2>1. last = CHOOSE i \in 0..m : P(i)
    BY <1>5 DEF last
  <2> QED
    BY <1>3, <2>1
<1>7. last = m
  BY <1>4, <1>6
<1> QED
  BY <1>7 DEF m, last

LEMMA FieldTypes ==
  ASSUME NEW j, Ready(j), NEW fields \in Seq(Words), \A i \in DOMAIN fields : IsType(Known(text, j+1), fields[i]),
         NEW ts, ts = [i \in DOMAIN fields |-> Meant(Known(text, j+1), fields[i])],
         \A i \in DOMAIN fields : IsField(ts[i])
  PROVE  ParserStruct([i \in DOMAIN fields |-> TypeNamed(fields[i])]) = BuilderStruct(ts)
<1> DEFINE n == Len(fields)
           tys == Known(text, j+1)
<1>1. n \in Nat /\ DOMAIN fields = 1..n
  OBVIOUS
<1>2. \A i \in 1..n : TypeNamed(fields[i]) = Meant(tys, fields[i]) /\ GoodType(Meant(tys, fields[i]))
  BY <1>1, TypeNamedWord
<1> HIDE DEF n, tys
<1>3. ts = [i \in 1..n |-> Meant(tys, fields[i])]
  BY <1>1 DEF tys
<1>4. ts = [i \in 1..n |-> ts[i]] /\ \A i \in 1..n : GoodType(ts[i]) /\ IsField(ts[i])
  BY <1>1, <1>2, <1>3
<1>5. ParserStruct(ts) = BuilderStruct(ts)
  BY <1>1, <1>4, StructIs
<1>6. [i \in DOMAIN fields |-> TypeNamed(fields[i])] = ts
  BY <1>1, <1>2, <1>3
<1> QED
  BY <1>5, <1>6

(* What stands does not depend on the words left. *)
LEMMA StandingStays ==
  ASSUME NEW t, NEW j, NEW q, NEW tys, NEW ns, NEW fs, NEW f, NEW b, Standing(t, j, q, tys, ns, fs, f, b),
         NEW p \in Reading, p.syms = q.syms, p.next = q.next, p.fp = q.fp
  PROVE  Standing(t, j, p, tys, ns, fs, f, b)
<1> DEFINE S == NamesAt(t, j)
           h == HeadAt(t, j)
<1>1. /\ j \in 0..Len(t) /\ Fine(S, q)
      /\ \A w \in ToSet(WordsIn(t, h, j)) : IsVreg(w) => Usable(S, w) /\ Met(q, w)
      /\ tys = Known(t, j+1) /\ ns = Strings(t, j+1)
      /\ Built(q, fs) /\ Scope(t, j, fs, f, b) /\ Coded(t, j, q, fs)
  BY DEF Standing
<1> HIDE DEF S, h
<1>2. Fine(S, p) /\ Extends(q, p)
  BY <1>1, SameTables
<1>3. \A w : Met(q, w) = Met(p, w)
  BY DEF Met, SymOf
<1>4. Built(p, fs)
  <2>1. q.fp.n \in Nat /\ p.fp.n \in Nat /\ q.fp.n <= p.fp.n
    BY <1>1, <1>2, FineHas DEF Extends
  <2> QED
    BY <1>1, <2>1, BuiltStays
<1>5. Coded(t, j, p, fs)
  <2> DEFINE g == fs[Len(fs)]
             m == MeansIn(t, h, j)
             c == CodeOf(g)
  <2>1. SUFFICES ASSUME h # 0
                 PROVE  /\ Len(fs) > 0 /\ g.nparams = t[h].params /\ g.vararg = t[h].vararg
                        /\ Len(c) = Len(m) /\ \A i \in 1..Len(m) : Tells(p, c[i], m[i])
    BY DEF Coded, h
  <2>2. /\ Len(fs) > 0 /\ g.nparams = t[h].params /\ g.vararg = t[h].vararg
        /\ Len(c) = Len(m) /\ \A i \in 1..Len(m) : Tells(q, c[i], m[i])
    BY <1>1, <2>1 DEF Coded, h
  <2> HIDE DEF c, m, g
  <2>3. \A i \in 1..Len(m) : Tells(p, c[i], m[i])
    BY <1>1, <1>2, <2>2, TellsStays
  <2> QED
    BY <2>2, <2>3
<1> QED
  BY <1>1, <1>2, <1>3, <1>4, <1>5 DEF Standing, S, h

(* The list u from the fifth word of a on, up to the m-th, with the word s *)
(* after it. *)
FromFifth(a, m, k, s, u) ==
  /\ 4 <= m /\ m < Len(a) /\ m+1 = 4+k
  /\ a[4+k] = Word(s) /\ u = SubSeq(a, 5, m) /\ Braced(u, {s})
LEMMA ListUpTo ==
  ASSUME NEW a \in Seq(Words), NEW m \in Nat, NEW k \in Nat, NEW s, NEW u, FromFifth(a, m, k, s, u)
  PROVE  FirstAt(a, 4, s, k) /\ u \in Seq(Words) /\ Len(u) = k-1 /\ \A i \in 1..k-1 : u[i] = a[4+i]
<1> DEFINE n == Len(a)
<1>1. n \in Nat /\ m < n /\ 4 <= m /\ m+1 = 4+k
  BY DEF FromFifth
<1> HIDE DEF n
<1>2. 5 \in Nat \ {0} /\ m <= n /\ 5 <= m+1 /\ m+1-5 = k-1 /\ k \in 1..n-4
  BY <1>1
<1>3. u \in Seq(Words) /\ Len(u) = m+1-5 /\ \A i \in 1..m+1-5 : u[i] = a[5+i-1]
  <2> DEFINE b == 5
  <2>1. b \in Nat \ {0} /\ m <= Len(a) /\ b <= m+1 /\ m+1-b = m+1-5 /\ b = 5
    BY <1>2 DEF n
  <2>2. u = SubSeq(a, b, m)
    BY DEF FromFifth
  <2> HIDE DEF b
  <2>3. u \in Seq(Words) /\ Len(u) = m+1-b /\ \A i \in 1..m+1-b : u[i] = a[b+i-1]
    <3>1. /\ SubSeq(a, b, m) \in Seq(Words) /\ Len(SubSeq(a, b, m)) = m+1-b
          /\ \A i \in 1..m+1-b : SubSeq(a, b, m)[i] = a[b+i-1]
      BY <2>1, SubSeqIs
    <3> QED
      BY <2>2, <3>1, Zenon
  <2> QED
    BY <2>1, <2>3
<1>4. \A i \in Int : 5+i-1 = 4+i
  OBVIOUS
<1>5. u \in Seq(Words) /\ Len(u) = k-1 /\ \A i \in 1..k-1 : u[i] = a[4+i]
  BY <1>2, <1>3, <1>4
<1>6. \A i \in 1..k-1 : a[4+i] # Word(s)
  <2>1. DOMAIN u = 1..k-1
    <3>1. DOMAIN u = 1..Len(u)
      BY <1>5, SeqIs
    <3> QED
      BY <1>5, <3>1
  <2> QED
    BY <1>5, <2>1 DEF Braced, FromFifth
<1> QED
  BY <1>2, <1>5, <1>6 DEF FirstAt, n, FromFifth

(* type NAME = { T, ... }: the list of its fields. *)
InBraces(j, q, list) ==
  LET s == text[j+1]
      n == Len(s.words)
      fields == Items(list)
  IN  /\ n \in Nat /\ n >= 5 /\ s.words[n-1] # Comma /\ s.words[4] = Word("{") /\ s.words[n] = Word("}")
      /\ list \in Seq(Words) /\ Len(list) = n-5 /\ (\A i \in 1..n-5 : list[i] = s.words[4+i])
      /\ fields \in Seq(Words) /\ Len(fields) <= FieldMax
      /\ s.types[1].t = ParserStruct([i \in DOMAIN fields |-> TypeNamed(fields[i])])
      /\ \A i \in 1..n : ~IsVreg(s.words[i])

Defines(j) ==
  AtFront(j) /\ TypeDefined(text, j+1) /\ StructDefined(text, j+1) /\ text[j+1].words[1] = Word("type")
Fielded(j, q, list) == Defines(j) /\ Left(j, q, 4) /\ list = Before(q, "}")
LEMMA FieldsOf ==
  ASSUME NEW j, NEW q, NEW list, Fielded(j, q, list)
  PROVE  InBraces(j, q, list) /\ Left(j, After(q, "}"), Len(text[j+1].words))
<1> DEFINE s == text[j+1]
           a == s.words
           n == Len(a)
           tys == Known(text, j+1)
           u == SubSeq(a, 5, n-1)
           fields == Items(u)
           ts == s.types[1].t.fields
<1>0. Left(j, q, 4) /\ list = Before(q, "}") /\ AtFront(j) /\ 4 \in Nat
  BY DEF Fielded, Defines
<1>1. /\ n >= 5 /\ a[4] = Word("{") /\ a[n] = Word("}") /\ a[n-1] # Comma /\ Braced(u, {"}"})
      /\ s.types[1].t = BuilderStruct(ts)
      /\ Len(fields) <= FieldMax /\ ts = [i \in DOMAIN fields |-> Meant(tys, fields[i])]
      /\ \A i \in DOMAIN fields : IsType(tys, fields[i]) /\ IsField(ts[i])
  BY DEF StructDefined, Defines, Fielded
<1>2. a[2].k = "word" /\ a[3] = Word("=")
  BY DEF TypeDefined, Defines, Fielded
<1>3. a \in Seq(Words) /\ n \in Nat /\ Ready(j) /\ AtFront(j)
  BY FrontHas DEF AtFront, Defines, Fielded
<1> HIDE DEF n, a, tys, ts, u, fields
<1> DEFINE k == n-4
           m == n-1
<1>4. n-5 \in Nat /\ k \in Nat /\ m \in Nat /\ 4 <= m /\ m < n /\ m+1 = 4+k /\ 4+k = n /\ k-1 = n-5
  <2>1. n >= 5 /\ n \in Nat
    BY <1>1, <1>3
  <2> QED
    BY <2>1
<1>14. k \in Nat /\ m \in Nat
  BY <1>4
<1>5. u = SubSeq(a, 5, m)
  BY DEF u
<1> HIDE DEF k, m
<1> DEFINE c == 4
           end == "}"
<1>6. c \in Nat /\ Left(j, q, c) /\ list = Before(q, end) /\ After(q, "}") = After(q, end) /\ c = 4
      /\ FromFifth(a, m, k, end, u)
  <2>1. m < Len(a) /\ a[4+k] = Word("}")
    BY <1>1, <1>4 DEF n
  <2> QED
    BY <1>0, <1>1, <1>4, <1>5, <2>1 DEF FromFifth
<1> HIDE DEF c, end
<1>7. FirstAt(a, c, end, k) /\ u \in Seq(Words) /\ Len(u) = k-1 /\ \A i \in 1..k-1 : u[i] = a[4+i]
  <2>1. FirstAt(a, 4, end, k) /\ u \in Seq(Words) /\ Len(u) = k-1 /\ \A i \in 1..k-1 : u[i] = a[4+i]
    <3>1. a \in Seq(Words) /\ FromFifth(a, m, k, end, u)
      BY <1>3, <1>6
    <3> QED
      BY <1>14, <3>1, ListUpTo
  <2> QED
    BY <1>6, <2>1
<1>8. /\ list \in Seq(Words) /\ Len(list) = k-1 /\ \A i \in 1..k-1 : list[i] = a[4+i]
      /\ \A d \in Nat : d = 4+k => Left(j, After(q, "}"), d)
  <2>1. AtFront(j) /\ FirstAt(text[j+1].words, c, end, k)
    BY <1>0, <1>7 DEF a
  <2>2. /\ Before(q, end) \in Seq(Words) /\ Len(Before(q, end)) = k-1
        /\ \A i \in 1..k-1 : Before(q, end)[i] = text[j+1].words[c+i]
        /\ \A d \in Nat : d = c+k => Left(j, After(q, end), d)
    <3>1. c \in Nat /\ Left(j, q, c)
      BY <1>6
    <3> QED
      BY <1>14, <2>1, <3>1, LeftAfter
  <2> QED
    BY <1>6, <2>2 DEF a
<1>9. list \in Seq(Words) /\ Len(list) = n-5 /\ (\A i \in 1..n-5 : list[i] = a[4+i]) /\ Left(j, After(q, "}"), n)
  BY <1>3, <1>4, <1>8
<1>10. list = u
  <2>1. IsSeq(list) /\ IsSeq(u)
    BY <1>7, <1>9, SeqIs
  <2>2. Len(list) = Len(u) /\ \A i \in 1..Len(list) : list[i] = u[i]
    BY <1>4, <1>7, <1>9
  <2> QED
    BY <2>1, <2>2, SameSeq
<1>11. fields \in Seq(Words) /\ (\A w \in ToSet(list) : w # Comma => w \in ToSet(fields)) /\ fields = Items(list)
  BY <1>9, <1>10, ItemsAre DEF fields
<1>12. s.types[1].t = ParserStruct([i \in DOMAIN fields |-> TypeNamed(fields[i])])
  <2>1. \A i \in DOMAIN fields : IsType(Known(text, j+1), fields[i])
    BY <1>1 DEF tys
  <2>2. ts = [i \in DOMAIN fields |-> Meant(Known(text, j+1), fields[i])] /\ \A i \in DOMAIN fields : IsField(ts[i])
    BY <1>1 DEF tys
  <2>3. ParserStruct([i \in DOMAIN fields |-> TypeNamed(fields[i])]) = BuilderStruct(ts)
    BY <1>3, <1>11, <2>1, <2>2, FieldTypes
  <2> QED
    BY <1>1, <2>3
<1>13. ASSUME NEW i \in 1..n PROVE a[i].k = "word"
  <2>1. \A h : Word(h).k = "word"
    BY DEF Word
  <2> DEFINE z == i-4
  <2>2. i = 1 \/ i = 2 \/ i = 3 \/ i = 4 \/ i = n \/ (z \in 1..n-5 /\ i = 4+z)
    <3>1. n \in Nat
      BY <1>3
    <3> QED
      BY <3>1
  <2> HIDE DEF z
  <2>3. CASE z \in 1..n-5 /\ i = 4+z
    <3> DEFINE w == a[i]
    <3>1. w \in ToSet(list)
      <4>0. DOMAIN list = 1..n-5
        <5>1. DOMAIN list = 1..Len(list)
          BY <1>9, SeqIs
        <5> QED
          BY <1>9, <5>1
      <4>1. list[z] = w /\ z \in DOMAIN list
        BY <1>9, <2>3, <4>0
      <4> QED
        BY <4>1 DEF ToSet
    <3> HIDE DEF w
    <3>2. CASE w = Comma
      BY <2>1, <3>2 DEF Comma, w
    <3>3. CASE w # Comma
      <4>1. w \in ToSet(fields)
        BY <1>11, <3>1, <3>3
      <4>2. PICK x \in DOMAIN fields : fields[x] = w
        BY <4>1 DEF ToSet
      <4>3. IsType(tys, w)
        BY <1>1, <4>2
      <4> QED
        BY <4>3 DEF IsType, w
    <3> QED
      BY <3>2, <3>3
  <2>4. a[1] = Word("type")
    BY DEF a, Defines, Fielded
  <2> QED
    BY <1>1, <1>2, <2>1, <2>2, <2>3, <2>4
<1>15. \A i \in 1..n : ~IsVreg(a[i])
  BY <1>13 DEF IsVreg
<1>16. InBraces(j, q, list)
  BY <1>1, <1>3, <1>9, <1>11, <1>12, <1>15 DEF InBraces, a, n
<1> QED
  BY <1>9, <1>16 DEF a, n

(* The parser stops after the last field that has room, before the brace. *)
Closed(j) ==
  /\ text' = text /\ j \in 0..Len(text)-1 /\ Standing(text, j+1, r', types', strings', funcs', F', B')
  /\ Closing(text, j+1, r'.rest)

LEMMA TypeStructDoes ==
  ASSUME TypeStruct
  PROVE  LET q == From(r, 5)
             list == Before(q, "}")
             fields == Items(list)
             full == Len(fields) >= FieldMax
             read == IF full THEN SubSeq(fields, 1, FieldMax) ELSE fields
         IN  /\ OpOf(Peek(r)) = "type" /\ Peek(From(r, 4)) = Word("{")
             /\ types' = Defined(Second(r).s, ParserStruct([i \in DOMAIN read |-> TypeNamed(read[i])]))
             /\ r' = IF full THEN From(q, LastRead(list) + 1) ELSE After(q, "}")
             /\ UNCHANGED <<text, strings, funcs, F, B>>
BY Zenon DEF TypeStruct, LastRead

LEMMA AheadFive ==
  ASSUME NEW j, NEW n, n \in Nat, n >= 5, n = Len(text[j+1].words)
  PROVE  Ahead(j, 0, 5, 4) /\ 0 \in Nat /\ 4 \in Nat
BY DEF Ahead

LEMMA StructBegins ==
  ASSUME NEW j, Ready(j), OpOf(Peek(r)) = "type", Peek(From(r, 4)) = Word("{"), NEW q, q = From(r, 5)
  PROVE  Fielded(j, q, Before(q, "}")) /\ Outside(text, j) /\ Second(r).s = text[j+1].words[2].s
         /\ j \in 0..Len(text)-1
<1> DEFINE s == text[j+1]
           n == Len(s.words)
<1>1. /\ AtFront(j) /\ TypeDefined(text, j+1) /\ Outside(text, j) /\ s.words[1] = Word("type")
      /\ Peek(From(r, 4)) = s.words[4] /\ Second(r).s = s.words[2].s
  BY TypeBegins
<1>2. ~ArrayDefined(text, j+1)
  BY <1>1 DEF ArrayDefined
<1>3. StructDefined(text, j+1)
  BY <1>1, <1>2 DEF TypeDefined
<1>4. n >= 5
  BY <1>3 DEF StructDefined
<1>5. Left(j, r, 0) /\ n \in Nat
  BY <1>1, FrontHas
<1>6. Left(j, q, 4)
  <2>1. Ahead(j, 0, 5, 4) /\ 0 \in Nat /\ 4 \in Nat
    BY <1>4, <1>5, AheadFive
  <2> DEFINE c == 0
             d == 4
             i == 5
  <2>2. Ahead(j, c, i, d) /\ c \in Nat /\ d \in Nat /\ Left(j, r, c) /\ d = 4 /\ i = 5
    BY <1>5, <2>1
  <2> HIDE DEF c, d, i
  <2>3. Left(j, From(r, i), d)
    BY <1>1, <2>2, LeftFrom
  <2> QED
    BY <2>2, <2>3
<1>7. j \in 0..Len(text)-1
  BY <1>1 DEF AtFront
<1> QED
  BY <1>1, <1>3, <1>6, <1>7 DEF Fielded, Defines

(* The type of the structure, and where reading it ends. *)
Structured(j, q, list, p) ==
  /\ Fielded(j, q, list) /\ InBraces(j, q, list) /\ Outside(text, j)
  /\ p = IF Len(Items(list)) >= FieldMax THEN From(q, LastRead(list) + 1) ELSE After(q, "}")
  /\ types' = Defined(text[j+1].words[2].s, text[j+1].types[1].t)

LEMMA StructReads ==
  ASSUME NEW j, Ready(j), TypeStruct
  PROVE  LET q == From(r, 5) IN Structured(j, q, Before(q, "}"), r')
         /\ UNCHANGED <<text, strings, funcs, F, B>>
<1> DEFINE q == From(r, 5)
           list == Before(q, "}")
           fields == Items(list)
           full == Len(fields) >= FieldMax
           read == IF full THEN SubSeq(fields, 1, FieldMax) ELSE fields
           p == IF full THEN From(q, LastRead(list) + 1) ELSE After(q, "}")
<1>1. /\ OpOf(Peek(r)) = "type" /\ Peek(From(r, 4)) = Word("{")
      /\ types' = Defined(Second(r).s, ParserStruct([i \in DOMAIN read |-> TypeNamed(read[i])]))
      /\ r' = p /\ UNCHANGED <<text, strings, funcs, F, B>>
  BY TypeStructDoes, Zenon
<1> DEFINE q1 == q
<1>2. q1 = From(r, 5)
  OBVIOUS
<1> HIDE DEF q1
<1>3. Fielded(j, q1, Before(q1, "}")) /\ Outside(text, j) /\ Second(r).s = text[j+1].words[2].s
  BY <1>1, <1>2, StructBegins, Zenon
<1>4. Fielded(j, q, list)
  BY <1>3, Zenon DEF q1
<1> HIDE DEF q, list
<1>5. InBraces(j, q, list)
  <2>1. list = Before(q, "}") /\ Fielded(j, q, list)
    BY <1>4 DEF list
  <2> QED
    BY <2>1, FieldsOf
<1>6. fields \in Seq(Words) /\ Len(fields) <= FieldMax
      /\ text[j+1].types[1].t = ParserStruct([i \in DOMAIN fields |-> TypeNamed(fields[i])])
  BY <1>5 DEF InBraces
<1> HIDE DEF fields
<1>7. read = fields
  <2>1. SubSeq(fields, 1, Len(fields)) = fields
    BY <1>6, ItemsAre, Zenon
  <2>2. full => Len(fields) = FieldMax
    <3>1. Len(fields) \in Nat
      BY <1>6, LenProperties
    <3> DEFINE m == Len(fields)
    <3> HIDE DEF m
    <3>2. m \in Nat /\ m <= FieldMax /\ FieldMax \in Nat
      BY <1>6, <3>1, ParserAssumption DEF m
    <3>3. m >= FieldMax => m = FieldMax
      BY <3>2
    <3> QED
      BY <3>3 DEF m
  <2> QED
    BY <2>1, <2>2, Zenon
<1> HIDE DEF read, full
<1>8. types' = Defined(text[j+1].words[2].s, text[j+1].types[1].t)
  BY <1>1, <1>3, <1>6, <1>7, Zenon
<1>9. p = IF Len(Items(list)) >= FieldMax THEN From(q, LastRead(list) + 1) ELSE After(q, "}")
  BY DEF p, full, fields
<1> HIDE DEF p
<1>10. Structured(j, q, list, p)
  BY <1>3, <1>4, <1>5, <1>8, <1>9 DEF Structured
<1> QED
  BY <1>1, <1>10, Zenon DEF q, list

BraceLeft(j, p, c) ==
  AtFront(j) /\ Left(j, p, c) /\ Len(text[j+1].words) = c+1 /\ text[j+1].words[c+1] = Word("}")
LEMMA LeftRest ==
  ASSUME NEW j, NEW p, NEW c \in Nat, BraceLeft(j, p, c)
  PROVE  p.rest # <<>> /\ Head(p.rest) = Word("}") /\ Tail(p.rest) = WordsIn(text, j+1, Len(text))
<1> DEFINE T == r.rest
           n == Len(text[j+1].words)
<1>1. T \in Seq(Words) /\ n \in 1..Len(T) /\ Drop(T, n) = WordsIn(text, j+1, Len(text))
      /\ (\A i \in 1..n : T[i] = text[j+1].words[i]) /\ p.rest = Drop(T, c)
  BY DEF AtFront, Left, Reads, BraceLeft
<1>2. n = c+1 /\ Len(T) \in Nat /\ text[j+1].words[c+1] = Word("}")
  BY FrontHas DEF BraceLeft
<1> HIDE DEF T, n
<1>3. c \in 0..Len(T)-1 /\ c+1 \in 1..n /\ T[c+1] = Word("}")
  <2>1. c \in 0..Len(T)-1 /\ c+1 \in 1..n
    <3> DEFINE l == Len(T)
    <3>1. n \in 1..l /\ l \in Nat /\ n = c+1
      BY <1>1, <1>2
    <3> HIDE DEF l
    <3>2. c \in 0..l-1 /\ c+1 \in 1..n
      BY <3>1
    <3> QED
      BY <3>2 DEF l
  <2> QED
    BY <1>1, <1>2, <2>1
<1> DEFINE x == Drop(T, c)
           y == Drop(T, c+1)
<1>4. x # <<>> /\ Head(x) = T[c+1] /\ Tail(x) = y
  BY <1>1, <1>3, DropOne
<1> HIDE DEF x, y
<1>5. p.rest = x /\ y = WordsIn(text, j+1, Len(text))
  BY <1>1, <1>2 DEF x, y
<1> QED
  BY <1>3, <1>4, <1>5

LEMMA StructAll ==
  ASSUME NEW j, NEW q, NEW list, NEW p, Structured(j, q, list, p)
  PROVE  Left(j, p, Len(text[j+1].words)) \/ \E c \in Nat : Left(j, p, c) /\ Len(text[j+1].words) = c+1
<1> DEFINE s == text[j+1]
           n == Len(s.words)
           m == Len(list)
           full == Len(Items(list)) >= FieldMax
<1>1. Fielded(j, q, list) /\ InBraces(j, q, list) /\ p = IF full THEN From(q, LastRead(list) + 1) ELSE After(q, "}")
  BY DEF Structured
<1>2. Left(j, After(q, "}"), n)
  BY <1>1, FieldsOf
<1>3. AtFront(j) /\ Left(j, q, 4)
  BY <1>1 DEF Fielded, Defines
<1>4. n \in Nat /\ n >= 5 /\ s.words[n-1] # Comma /\ list \in Seq(Words) /\ Len(list) = n-5
      /\ (\A i \in 1..n-5 : list[i] = s.words[4+i]) /\ Len(Items(list)) <= FieldMax /\ Items(list) \in Seq(Words)
  BY <1>1 DEF InBraces
<1> HIDE DEF s, n, m, full
<1>5. CASE ~full
  BY <1>1, <1>2, <1>5 DEF n, s
<1>6. CASE full
  <2>1. Len(Items(list)) = FieldMax /\ FieldMax >= 1
    <3> DEFINE x == Len(Items(list))
    <3>1. x \in Nat /\ x <= FieldMax /\ x >= FieldMax
      BY <1>4, <1>6, LenProperties DEF full
    <3> HIDE DEF x
    <3>2. x = FieldMax /\ FieldMax >= 1
      BY <3>1, ParserAssumption
    <3> QED
      BY <3>2 DEF x
  <2>2. list # <<>>
    <3>1. ASSUME list = <<>> PROVE FALSE
      <4>1. Items(list) = <<>>
        BY <3>1, ItemsEmpty
      <4>2. Len(Items(list)) = 0
        BY <4>1
      <4> QED
        BY <2>1, <4>2
    <3> QED
      BY <3>1
  <2>3. m \in Nat /\ m > 0 /\ m = n-5
    BY <1>4, <2>2 DEF m
  <2>4. list[m] # Comma
    <3>1. m \in 1..n-5 /\ 4+m = n-1
      BY <1>4, <2>3
    <3>2. list[m] = s.words[4+m]
      BY <1>4, <3>1
    <3> QED
      BY <1>4, <3>1, <3>2
  <2>5. LastRead(list) = m
    BY <1>4, <2>1, <2>3, <2>4, LastReadIs DEF m
  <2> DEFINE c == n-1
             i == m+1
  <2>6. p = From(q, i)
    BY <1>1, <1>6, <2>5
  <2>7. c \in Nat /\ n = c+1 /\ i \in Nat \ {0} /\ 4+i = c+1 /\ c <= n
    BY <1>4, <2>3
  <2> HIDE DEF c, i
  <2> DEFINE four == 4
  <2>8. Ahead(j, four, i, c) /\ four \in Nat /\ Left(j, q, four)
    BY <1>3, <2>7 DEF Ahead, n, s
  <2> HIDE DEF four
  <2>9. Left(j, From(q, i), c)
    BY <1>3, <2>7, <2>8, LeftFrom
  <2> QED
    BY <2>6, <2>7, <2>9 DEF n, s
<1> QED
  BY <1>5, <1>6

LEMMA TypeStructStep ==
  ASSUME NEW j, Ready(j), TypeStruct
  PROVE  Advanced(j) \/ Closed(j)
<1> DEFINE s == text[j+1]
           n == Len(s.words)
           name == s.words[2].s
           ty == s.types[1].t
           q == From(r, 5)
           list == Before(q, "}")
<1>1. Structured(j, q, list, r') /\ UNCHANGED <<text, strings, funcs, F, B>>
  BY StructReads
<1> HIDE DEF q, list
<1>2. /\ AtFront(j) /\ TypeDefined(text, j+1) /\ s.words[1] = Word("type") /\ Outside(text, j)
      /\ types' = Defined(name, ty) /\ InBraces(j, q, list)
  BY <1>1 DEF Structured, Fielded, Defines
<1>3. j \in 0..Len(text)-1 /\ j \in Nat /\ n \in Nat \ {0} /\ Len(text) \in Nat
  <2>1. Conforms(text) /\ j \in 0..Len(text)-1
    BY <1>2 DEF AtFront, Ready
  <2>2. Len(text) \in Nat
    BY <2>1, StatementsAre
  <2> QED
    BY <1>2, <2>1, <2>2, FrontHas
<1>4. /\ s.types = <<[s |-> name, t |-> ty]>> /\ s.means = <<>> /\ Len(Known(text, j+1)) < TypeMax
  BY <1>2 DEF TypeDefined
<1>5. (\A i \in 1..n : ~IsVreg(s.words[i])) /\ s.words[n] = Word("}") /\ n >= 5
  BY <1>2 DEF InBraces
<1> DEFINE now(p) == Standing(text, j+1, p, types', strings', funcs', F', B') /\ p.rest = WordsIn(text, j+1, Len(text))
<1>6. ASSUME NEW p, Left(j, p, n) PROVE now(p)
  <2>1. Left(j, p, Len(text[j+1].words)) /\ text[j+1].words[1] = Word("type")
        /\ text[j+1].types = <<[s |-> name, t |-> ty]>> /\ text[j+1].means = <<>>
        /\ \A i \in 1..Len(text[j+1].words) : ~IsVreg(text[j+1].words[i])
    BY <1>2, <1>4, <1>5, <1>6
  <2> HIDE DEF s, n, name, ty
  <2>2. Standing(text, j+1, p, Defined(name, ty), strings, funcs, F, B) /\ p.rest = WordsIn(text, j+1, Len(text))
    BY <1>2, <1>4, <2>1, TypeAdded
  <2> QED
    BY <1>1, <1>2, <2>2
<1>7. CASE Left(j, r', n)
  <2>1. now(r')
    BY <1>6, <1>7
  <2> QED
    BY <1>1, <1>3, <2>1 DEF Advanced
<1>8. ASSUME NEW c \in Nat, Left(j, r', c), n = c+1 PROVE Closed(j)
  <2> DEFINE p == r'
             p2 == Skip(p)
  <2>1. c < Len(text[j+1].words) /\ Left(j, p, c)
    BY <1>8
  <2> HIDE DEF p
  <2> DEFINE d == c+1
  <2>2. d = c+1
    OBVIOUS
  <2> HIDE DEF d
  <2>3. Left(j, p2, d)
    BY <1>2, <2>1, <2>2, LeftSkip
  <2> HIDE DEF p2
  <2>4. now(p2)
    <3>1. Left(j, p2, n)
      BY <1>8, <2>2, <2>3
    <3> QED
      BY <1>6, <3>1
  <2>5. Standing(text, j+1, p2, types', strings', funcs', F', B')
    BY <2>4
  <2>6. p \in Reading /\ p.syms = p2.syms /\ p.next = p2.next /\ p.fp = p2.fp
    BY <2>1, <2>3 DEF Left, Reads, Fine
  <2>7. Standing(text, j+1, p, types', strings', funcs', F', B')
    BY <2>5, <2>6, StandingStays
  <2>8. p.rest # <<>> /\ Head(p.rest) = Word("}") /\ Tail(p.rest) = WordsIn(text, j+1, Len(text))
    <3>1. BraceLeft(j, p, c)
      BY <1>2, <1>5, <1>8, <2>1 DEF BraceLeft
    <3> QED
      BY <3>1, LeftRest
  <2>9. Outside(text, j+1)
    <3>1. s.words[1] # Word("func")
      BY <1>2, WordsDiffer
    <3> QED
      BY <1>2, <1>3, <3>1, HeadStep
  <2>10. Closing(text, j+1, p.rest)
    <3>1. j+1 > 0 /\ Len(text[j+1].words) >= 2
      <4>1. j+1 > 0
        BY <1>3
      <4>2. n \in Nat /\ n >= 5
        BY <1>3, <1>5
      <4> HIDE DEF n
      <4>3. n >= 2
        BY <4>2
      <4> QED
        BY <4>1, <4>3 DEF n
    <3> QED
      BY <2>8, <2>9, <3>1 DEF Closing
  <2> QED
    BY <1>1, <1>3, <2>7, <2>10 DEF Closed, p
<1>9. Left(j, r', n) \/ \E c \in Nat : Left(j, r', c) /\ n = c+1
  <2> DEFINE p == r'
  <2>1. Structured(j, q, list, p)
    BY <1>1
  <2> HIDE DEF p
  <2>2. Left(j, p, Len(text[j+1].words)) \/ \E c \in Nat : Left(j, p, c) /\ Len(text[j+1].words) = c+1
    BY <2>1, StructAll
  <2> QED
    BY <2>2 DEF p
<1> QED
  BY <1>7, <1>8, <1>9

(* A function begins with empty tables. *)
Fresh(p) == [p EXCEPT !.syms = <<>>, !.next = 0]
NewFunc(x, y) == [nparams |-> x, vararg |-> y, blocks |-> <<>>]

LEMMA FreshIs ==
  ASSUME NEW S, NEW p, Fine(S, p), NEW S2
  PROVE  /\ Fine(S2, Fresh(p)) /\ Fresh(p).rest = p.rest /\ Fresh(p).fp = p.fp
<1> DEFINE q == Fresh(p)
           none == <<>>
<1>1. p \in Reading
  BY DEF Fine
<1>2. none \in Seq(Sym) /\ Len(none) = 0 /\ DOMAIN none = {}
  OBVIOUS
<1>3. q.rest = p.rest /\ q.syms = none /\ q.next = 0 /\ q.fp = p.fp
  BY <1>1 DEF Fresh, Reading
<1>4. q \in Reading
  BY <1>1, <1>2 DEF Fresh, Reading
<1>5. SymMax \in Nat /\ ParamBase \in Nat
  BY ParserAssumption, IRAssumption
<1> HIDE DEF q, none
<1>6. Len(q.syms) <= SymMax /\ q.next <= ParamBase /\ q.next = Len(q.syms) /\ DOMAIN q.syms = {}
  BY <1>2, <1>3, <1>5
<1>7. Fine(S2, q)
  BY <1>4, <1>6 DEF Fine
<1> QED
  BY <1>3, <1>7 DEF q

LEMMA BuiltMore ==
  ASSUME NEW q, NEW fs, Built(q, fs), NEW g, IsFunc(g), CodeOf(g) = <<>>
  PROVE  Built(q, Append(fs, g)) /\ Len(Append(fs, g)) = Len(fs) + 1 /\ Len(fs) \in Nat
         /\ Append(fs, g)[Len(fs) + 1] = g
<1> DEFINE fs2 == Append(fs, g)
           n == Len(fs)
<1>1. IsSeq(fs) /\ \A i \in 1..n : IsFunc(fs[i]) /\ Listed(q, fs[i])
  BY DEF Built
<1>2. IsSeq(fs2) /\ Len(fs2) = n+1 /\ (\A i \in 1..n : fs2[i] = fs[i]) /\ fs2[n+1] = g
  BY <1>1, AppendIs
<1>3. n \in Nat
  BY <1>1, SeqIs DEF IsSeq
<1>4. Listed(q, g)
  BY DEF Listed
<1> HIDE DEF fs2, n
<1>5. ASSUME NEW i \in 1..Len(fs2) PROVE IsFunc(fs2[i]) /\ Listed(q, fs2[i])
  <2>1. i \in 1..n \/ i = n+1
    BY <1>2, <1>3
  <2> QED
    BY <1>1, <1>2, <1>4, <2>1
<1> QED
  BY <1>2, <1>3, <1>5 DEF Built, fs2, n

(* The next function begins. *)
Begun(t, j, q, fs, p, fs2, f2) ==
  /\ j \in 0..Len(t)-1 /\ t[j+1].words[1] = Word("func") /\ Plain(t[j+1]) /\ Outside(t, j)
  /\ Fine(NamesAt(t, j), p) /\ p.fp = q.fp
  /\ fs2 = Append(fs, NewFunc(t[j+1].params, t[j+1].vararg)) /\ f2 = Len(fs) + 1
LEMMA FuncStands ==
  ASSUME NEW t, Conforms(t), NEW j, NEW q, NEW tys, NEW ns, NEW fs, NEW f, NEW b, Standing(t, j, q, tys, ns, fs, f, b),
         NEW p, NEW fs2, NEW f2, Begun(t, j, q, fs, p, fs2, f2)
  PROVE  Standing(t, j+1, Fresh(p), tys, ns, fs2, f2, b)
<1> DEFINE s == t[j+1]
           g == NewFunc(s.params, s.vararg)
           k == j+1
           o == Fresh(p)
           S == NamesAt(t, j)
<1>1. j \in Nat /\ k \in 1..Len(t) /\ Len(t) \in Nat
  BY StatementsAre DEF Begun
<1>2. /\ tys = Known(t, j+1) /\ ns = Strings(t, j+1) /\ Built(q, fs) /\ Scope(t, j, fs, f, b) /\ Fine(S, q)
  BY DEF Standing
<1>3. b = 0
  BY <1>2 DEF Scope, Begun
<1>4. Fine(NamesAt(t, k), o) /\ o.fp = q.fp
  <2>1. Fine(S, p) /\ p.fp = q.fp
    BY DEF Begun
  <2> HIDE DEF S
  <2> QED
    BY <2>1, FreshIs
<1>5. IsFunc(g) /\ CodeOf(g) = <<>> /\ g.nparams = s.params /\ g.vararg = s.vararg /\ g.blocks = <<>>
  BY CodeNone DEF NewFunc
<1>6. s.means = <<>> /\ s.types = <<>> /\ s.words[1] = Word("func") /\ fs2 = Append(fs, g)
  BY DEF Plain, Begun
<1>20. f2 = Len(fs) + 1
  BY DEF Begun
<1>7. Built(q, fs2) /\ Len(fs2) = Len(fs) + 1 /\ Len(fs) \in Nat /\ fs2[Len(fs) + 1] = g
  <2> HIDE DEF g
  <2> QED
    BY <1>2, <1>5, <1>6, BuiltMore
<1>8. tys = Known(t, k+1)
  <2> DEFINE x == Known(t, k)
             y == Known(t, k+1)
             u == t[k].types
  <2>1. IsSeq(x) /\ y = x \o u /\ u = <<>>
    BY <1>1, <1>6, KnownLast
  <2> HIDE DEF x, y, u
  <2>2. y = x
    BY <2>1, ConcatEmpty
  <2> QED
    BY <1>2, <2>2 DEF x, y
<1>9. ns = Strings(t, k+1)
  BY <1>1, <1>2, <1>6, StringsStep
<1>10. HeadAt(t, k) = k /\ ~Outside(t, k) /\ ~InBlock(t, k)
  <2>1. s.words[1] # Word("}") /\ s.words[1] # Word("block")
    BY <1>6, WordsDiffer
  <2> QED
    BY <1>1, <1>6, <2>1, HeadStep
<1>11. WordsIn(t, k, k) = <<>> /\ MeansIn(t, k, k) = <<>> /\ ToSet(WordsIn(t, k, k)) = {}
  <2>1. k \in Nat
    BY <1>1
  <2>2. WordsIn(t, k, k) = <<>> /\ MeansIn(t, k, k) = <<>>
    BY <2>1, WordsNone
  <2> QED
    BY <2>2 DEF ToSet
<1> HIDE DEF g, o, S
<1>12. Built(o, fs2)
  <2>1. q.fp.n \in Nat /\ o.fp.n \in Nat /\ q.fp.n <= o.fp.n
    <3> DEFINE x == q.fp.n
    <3>1. x \in Nat
      BY <1>2, FineHas
    <3>2. o.fp.n = x
      BY <1>4
    <3> HIDE DEF x
    <3>3. x <= x
      BY <3>1
    <3> QED
      BY <3>1, <3>2, <3>3 DEF x
  <2> QED
    BY <1>7, <2>1, BuiltStays
<1>13. Scope(t, k, fs2, f2, b)
  <2>1. f2 = Len(fs2) /\ f2 > 0 /\ fs2[f2] = g
    BY <1>7, <1>20
  <2>2. b \in 0..Len(fs2[f2].blocks)
    BY <1>3, <1>5, <2>1
  <2> QED
    BY <1>10, <2>1, <2>2 DEF Scope
<1>14. Coded(t, k, o, fs2)
  <2> DEFINE c == CodeOf(g)
             m == MeansIn(t, k, k)
  <2>1. Len(c) = Len(m) /\ \A i \in 1..Len(m) : Tells(o, c[i], m[i])
    BY <1>5, <1>11
  <2>2. Len(fs2) > 0 /\ fs2[Len(fs2)] = g
    BY <1>7
  <2>3. g.nparams = t[k].params /\ g.vararg = t[k].vararg
    BY <1>5
  <2> HIDE DEF k
  <2> QED
    BY <1>10, <2>1, <2>2, <2>3 DEF Coded
<1> HIDE DEF k, s
<1>15. k \in 0..Len(t)
  BY <1>1
<1>16. \A w \in ToSet(WordsIn(t, HeadAt(t, k), k)) : IsVreg(w) => Usable(NamesAt(t, k), w) /\ Met(o, w)
  BY <1>10, <1>11
<1>17. Standing(t, k, o, tys, ns, fs2, f2, b)
  BY <1>4, <1>8, <1>9, <1>12, <1>13, <1>14, <1>15, <1>16 DEF Standing
<1> QED
  BY <1>17 DEF k, o

(* func NAME T { or func NAME T ( T, ... ) { *)
Count(params) == Len(SelectSeq(params, LAMBDA w : w # Word("...")))
Variadic(params) == \E i \in DOMAIN params : params[i] = Word("...")

LEMMA FuncDoes ==
  ASSUME Func
  PROVE  LET q == From(r, 4)
             listed == Peek(q) = Word("(")
             params == IF listed THEN Items(Before(Skip(q), ")")) ELSE <<>>
             rest   == IF listed THEN After(Skip(q), ")") ELSE q
         IN  /\ OpOf(Peek(r)) = "func" /\ F' = Len(funcs) + 1 /\ UNCHANGED <<text, types, strings, B>>
             /\ funcs' = Append(funcs, NewFunc(Count(params), Variadic(params)))
             /\ r' = Fresh(After(rest, "{"))
BY Zenon DEF Func, Count, Variadic, NewFunc, Fresh

LEMMA FuncSays ==
  ASSUME NEW s, FuncHeaded(s)
  PROVE  LET n == Len(s.words)
             inside == SubSeq(s.words, 5, n-2)
             params == IF n = 4 THEN <<>> ELSE Items(inside)
         IN  /\ n >= 4 /\ s.words[n] = Word("{") /\ Plain(s) /\ \A i \in 1..n : s.words[i].k = "word"
             /\ n # 4 => n >= 6 /\ s.words[4] = Word("(") /\ s.words[n-1] = Word(")") /\ Braced(inside, {")"})
             /\ s.params = Count(params) /\ s.vararg = Variadic(params)
BY Zenon DEF FuncHeaded, Count, Variadic

(* What is between the heading and the brace. *)
Listing(j, q, list, n) ==
  /\ AtFront(j) /\ Left(j, q, 3) /\ n = Len(text[j+1].words) /\ n >= 6 /\ text[j+1].words[4] = Word("(")
  /\ text[j+1].words[n-1] = Word(")") /\ text[j+1].words[n] = Word("{")
  /\ list = SubSeq(text[j+1].words, 5, n-2) /\ Braced(list, {")"})
LEMMA ListingReads ==
  ASSUME NEW j, NEW q, NEW list, NEW n, Listing(j, q, list, n)
  PROVE  /\ Peek(q) = Word("(") /\ Before(Skip(q), ")") = list
         /\ Left(j, After(After(Skip(q), ")"), "{"), n)
<1> DEFINE a == text[j+1].words
           m == n-2
           k == n-5
           end == ")"
           l == n-1
           three == 3
           four == 4
<1>1. /\ AtFront(j) /\ Left(j, q, three) /\ n = Len(a) /\ n >= 6 /\ a[4] = Word("(") /\ a[n-1] = Word(end) /\ a[n] = Word("{")
      /\ list = SubSeq(a, 5, m) /\ Braced(list, {end})
  BY DEF Listing
<1>2. a \in Seq(Words) /\ n \in Nat
  BY <1>1, FrontHas
<1> HIDE DEF a
<1>3. m \in Nat /\ k \in Nat /\ l \in Nat /\ 4 <= m /\ m < n /\ m+1 = 4+k /\ 4+k = n-1 /\ three \in Nat /\ four \in Nat
      /\ three < n /\ four = three+1 /\ l = four+k /\ four = 4 /\ n-l = 1 /\ l+1 = n
  <2>1. n >= 6 /\ n \in Nat
    BY <1>1, <1>2
  <2> QED
    BY <2>1
<1> HIDE DEF m, k, end, l, three, four
<1>4. FromFifth(a, m, k, end, list)
  BY <1>1, <1>3 DEF FromFifth
<1>5. FirstAt(a, 4, end, k) /\ list \in Seq(Words) /\ Len(list) = k-1 /\ \A i \in 1..k-1 : list[i] = a[4+i]
  <2>1. m \in Nat /\ k \in Nat
    BY <1>3
  <2> QED
    BY <1>2, <1>4, <2>1, ListUpTo
<1> DEFINE p == Skip(q)
<1>6. Peek(q) = Word("(") /\ Left(j, p, four)
  <2>1. three < Len(text[j+1].words) /\ three \in Nat /\ four = three+1
    BY <1>1, <1>3 DEF a
  <2>2. Peek(q) = text[j+1].words[three+1]
    BY <1>1, <2>1, LeftPeek
  <2>3. Left(j, Skip(q), four)
    BY <1>1, <2>1, LeftSkip
  <2> QED
    BY <1>1, <1>3, <2>2, <2>3 DEF a
<1> HIDE DEF p
<1> DEFINE u == Before(p, end)
           o == After(p, end)
<1>7. u \in Seq(Words) /\ Len(u) = k-1 /\ (\A i \in 1..k-1 : u[i] = a[4+i]) /\ Left(j, o, l)
  <2>1. FirstAt(text[j+1].words, four, end, k) /\ four \in Nat /\ k \in Nat
    BY <1>3, <1>5 DEF a
  <2>2. /\ Before(p, end) \in Seq(Words) /\ Len(Before(p, end)) = k-1
        /\ \A i \in 1..k-1 : Before(p, end)[i] = text[j+1].words[four+i]
        /\ \A d \in Nat : d = four+k => Left(j, After(p, end), d)
    <3>1. AtFront(j) /\ Left(j, p, four)
      BY <1>1, <1>6
    <3>2. ASSUME NEW x, Left(j, x, four), NEW e, FirstAt(text[j+1].words, four, e, k)
          PROVE  /\ Before(x, e) \in Seq(Words) /\ Len(Before(x, e)) = k-1
                 /\ \A i \in 1..k-1 : Before(x, e)[i] = text[j+1].words[four+i]
                 /\ \A d \in Nat : d = four+k => Left(j, After(x, e), d)
      <4> DEFINE Told == /\ Find(x, e) = k /\ Before(x, e) \in Seq(Words) /\ Len(Before(x, e)) = k-1
                         /\ \A i \in 1..k-1 : Before(x, e)[i] = text[j+1].words[four+i]
                         /\ \A d \in Nat : d = four+k => Left(j, After(x, e), d)
      <4>1. Told
        BY <2>1, <3>1, <3>2, LeftAfter
      <4>2. Told => /\ Before(x, e) \in Seq(Words) /\ Len(Before(x, e)) = k-1
                    /\ \A i \in 1..k-1 : Before(x, e)[i] = text[j+1].words[four+i]
                    /\ \A d \in Nat : d = four+k => Left(j, After(x, e), d)
        OBVIOUS
      <4> QED
        BY <4>1, <4>2
    <3> QED
      BY <2>1, <3>1, <3>2
  <2> QED
    BY <1>3, <2>2 DEF a
<1> HIDE DEF u, o
<1>8. u = list
  <2>1. IsSeq(list) /\ IsSeq(u)
    BY <1>5, <1>7, SeqIs
  <2>2. Len(list) = Len(u) /\ \A i \in 1..Len(list) : list[i] = u[i]
    BY <1>5, <1>7
  <2> QED
    BY <2>1, <2>2, SameSeq
<1> DEFINE open == "{"
           one == 1
<1>9. FirstAt(text[j+1].words, l, open, one) /\ one \in Nat /\ n = l+one
  <2>1. one \in 1..n-l /\ l+one = n /\ 1..one-1 = {} /\ one \in Nat
    BY <1>3
  <2>2. a[l+one] = Word(open) /\ n = Len(a)
    BY <1>1, <2>1
  <2>3. FirstAt(a, l, open, one)
    BY <2>1, <2>2 DEF FirstAt
  <2> QED
    BY <2>1, <2>3 DEF a
<1> HIDE DEF open, one
<1>10. Left(j, After(o, open), n)
  <2>1. \A d \in Nat : d = l+one => Left(j, After(o, open), d)
    <3>1. l \in Nat /\ AtFront(j) /\ Left(j, o, l)
      BY <1>1, <1>3, <1>7
    <3>2. FirstAt(text[j+1].words, l, open, one) /\ one \in Nat
      BY <1>9
    <3> QED
      BY <3>1, <3>2, LeftAfter
  <2> QED
    BY <1>2, <1>9, <2>1
<1> QED
  BY <1>6, <1>8, <1>10 DEF u, o, p, end, open

LEMMA FuncBegins ==
  ASSUME NEW j, Ready(j), OpOf(Peek(r)) = "func", NEW q, q = From(r, 4)
  PROVE  /\ AtFront(j) /\ FuncHeaded(text[j+1]) /\ Outside(text, j) /\ text[j+1].words[1] = Word("func") /\ Left(j, q, 3)
<1> DEFINE s == text[j+1]
           n == Len(s.words)
<1>1. AtFront(j) /\ s.words[1] = Word("func")
  BY Heads DEF Headings
<1>2. Left(j, r, 0) /\ n \in Nat /\ Allowed(text, j+1) /\ j \in Nat
  BY <1>1, FrontHas
<1>3. FuncHeaded(s) /\ Outside(text, j)
  <2>1. (j+1)-1 = j
    BY <1>2
  <2>2. FuncHeaded(s) /\ Outside(text, (j+1)-1)
    <3>1. Word("func") # Word("type") /\ Word("func") # Word("block") /\ Word("func") # Word("}")
      BY WordsDiffer
    <3> QED
      BY <1>1, <1>2, <3>1 DEF Allowed
  <2> QED
    BY <2>1, <2>2
<1>4. n >= 4
  BY <1>3, FuncSays
<1> DEFINE c == 0
           d == 3
           i == 4
<1>5. Ahead(j, c, i, d) /\ c \in Nat /\ d \in Nat /\ Left(j, r, c) /\ d = 3 /\ i = 4
  BY <1>2, <1>4 DEF Ahead
<1> HIDE DEF c, d, i
<1>6. Left(j, From(r, i), d)
  BY <1>1, <1>5, LeftFrom
<1> QED
  BY <1>1, <1>3, <1>5, <1>6

LEMMA FuncReads ==
  ASSUME NEW j, Ready(j), Func
  PROVE  \E p : /\ Left(j, p, Len(text[j+1].words)) /\ r' = Fresh(p) /\ AtFront(j)
                /\ Outside(text, j) /\ text[j+1].words[1] = Word("func") /\ Plain(text[j+1])
                /\ funcs' = Append(funcs, NewFunc(text[j+1].params, text[j+1].vararg))
                /\ F' = Len(funcs) + 1 /\ UNCHANGED <<text, types, strings, B>>
<1> DEFINE s == text[j+1]
           n == Len(s.words)
           q == From(r, 4)
           listed == Peek(q) = Word("(")
           params == IF listed THEN Items(Before(Skip(q), ")")) ELSE <<>>
           rest   == IF listed THEN After(Skip(q), ")") ELSE q
           inside == SubSeq(s.words, 5, n-2)
           named  == IF n = 4 THEN <<>> ELSE Items(inside)
<1>1. /\ OpOf(Peek(r)) = "func" /\ F' = Len(funcs) + 1 /\ UNCHANGED <<text, types, strings, B>>
      /\ funcs' = Append(funcs, NewFunc(Count(params), Variadic(params)))
      /\ r' = Fresh(After(rest, "{"))
  BY FuncDoes, Zenon
<1> HIDE DEF rest, params
<1>2. /\ AtFront(j) /\ FuncHeaded(s) /\ Outside(text, j) /\ s.words[1] = Word("func") /\ Left(j, q, 3)
  BY <1>1, FuncBegins
<1>3. /\ n >= 4 /\ s.words[n] = Word("{") /\ Plain(s)
      /\ n # 4 => n >= 6 /\ s.words[4] = Word("(") /\ s.words[n-1] = Word(")") /\ Braced(inside, {")"})
      /\ s.params = Count(named) /\ s.vararg = Variadic(named)
  BY <1>2, FuncSays, Zenon
<1>4. n \in Nat
  BY <1>2, FrontHas
<1>5. params = named /\ Left(j, After(rest, "{"), n)
  <2>1. CASE n = 4
    <3> DEFINE c == 3
               one == 1
               open == "{"
               o == q
               d == n
    <3>1. c \in Nat /\ c < Len(text[j+1].words) /\ Left(j, o, c) /\ c+1 = 4 /\ one \in Nat /\ d = c+one /\ d \in Nat
      BY <1>2, <2>1
    <3>2. FirstAt(text[j+1].words, c, open, one)
      <4> DEFINE a == text[j+1].words
      <4>1. one \in 1..n-c /\ c+one = n /\ 1..one-1 = {}
        BY <2>1
      <4>2. a[c+one] = Word(open) /\ n = Len(a)
        BY <1>3, <4>1
      <4> HIDE DEF a, c, one, open, n
      <4>3. FirstAt(a, c, open, one)
        BY <4>1, <4>2 DEF FirstAt
      <4> QED
        BY <4>3 DEF a
    <3> HIDE DEF o, d
    <3>3. \A e \in Nat : e = c+one => Left(j, After(o, open), e)
      <4>1. Left(j, o, c) /\ c \in Nat /\ one \in Nat
        BY <3>1
      <4> HIDE DEF c, one, open
      <4> QED
        BY <1>2, <3>2, <4>1, LeftAfter
    <3>4. Left(j, After(o, open), d)
      <4>1. d = c+one /\ d \in Nat
        BY <3>1
      <4> HIDE DEF c, one, open
      <4> QED
        BY <3>3, <4>1
    <3>5. Peek(o) = text[j+1].words[4]
      <4>1. Left(j, o, c) /\ c \in Nat /\ c < Len(text[j+1].words) /\ c+1 = 4
        BY <3>1
      <4> HIDE DEF c
      <4> QED
        BY <1>2, <4>1, LeftPeek
    <3>6. Word("{") # Word("(")
      BY WordsDiffer
    <3>7. ~listed
      BY <1>3, <2>1, <3>5, <3>6 DEF o
    <3> QED
      BY <2>1, <3>4, <3>7 DEF params, rest, o, d
  <2>2. CASE n # 4
    <3> DEFINE o == q
               list == inside
    <3>1. Listing(j, o, list, n)
      BY <1>2, <1>3, <2>2, Zenon DEF Listing
    <3> HIDE DEF o, list
    <3>2. Peek(o) = Word("(") /\ Before(Skip(o), ")") = list /\ Left(j, After(After(Skip(o), ")"), "{"), n)
      BY <3>1, ListingReads
    <3> QED
      BY <2>2, <3>2, Zenon DEF params, rest, o, list
  <2> QED
    BY <2>1, <2>2
<1> HIDE DEF named
<1>6. funcs' = Append(funcs, NewFunc(s.params, s.vararg))
  BY <1>1, <1>3, <1>5, Zenon
<1> DEFINE p == After(rest, "{")
<1>7. Left(j, p, n) /\ r' = Fresh(p)
  BY <1>1, <1>5, Zenon
<1> HIDE DEF p
<1> QED
  BY <1>1, <1>2, <1>3, <1>6, <1>7, Zenon

LEMMA FuncStep ==
  ASSUME NEW j, Ready(j), Func
  PROVE  Advanced(j)
<1> DEFINE n == Len(text[j+1].words)
<1>1. PICK p : /\ Left(j, p, n) /\ r' = Fresh(p) /\ AtFront(j)
               /\ Outside(text, j) /\ text[j+1].words[1] = Word("func") /\ Plain(text[j+1])
               /\ funcs' = Append(funcs, NewFunc(text[j+1].params, text[j+1].vararg))
               /\ F' = Len(funcs) + 1 /\ UNCHANGED <<text, types, strings, B>>
  BY FuncReads, Zenon
<1>2. Conforms(text) /\ Standing(text, j, r, types, strings, funcs, F, B) /\ j \in 0..Len(text)-1
  BY <1>1 DEF Ready, AtFront
<1>3. Fine(NamesAt(text, j), p) /\ p.fp = r.fp /\ p.rest = Drop(r.rest, n)
  BY <1>1 DEF Left, Reads
<1>4. p.rest = WordsIn(text, j+1, Len(text))
  BY <1>1, <1>3 DEF AtFront
<1>5. Begun(text, j, r, funcs, p, funcs', F')
  BY <1>1, <1>2, <1>3 DEF Begun
<1>6. Standing(text, j+1, Fresh(p), types, strings, funcs', F', B)
  <2> DEFINE fs2 == funcs'
             f2 == F'
  <2>1. Begun(text, j, r, funcs, p, fs2, f2)
    BY <1>5
  <2> HIDE DEF fs2, f2
  <2>2. Standing(text, j+1, Fresh(p), types, strings, fs2, f2, B)
    BY <1>2, <2>1, FuncStands
  <2> QED
    BY <2>2 DEF fs2, f2
<1>7. Fresh(p).rest = p.rest
  BY <1>3, FreshIs
<1> QED
  BY <1>1, <1>2, <1>4, <1>6, <1>7 DEF Advanced

(* A block begins: its label is the first thing it says. *)
WithBlock(g, name) == [g EXCEPT !.blocks = Append(@, [name |-> name, instrs |-> <<>>])]
Labelled(t, j, q, new, name) ==
  /\ ~Outside(t, j) /\ t[j+1].words[1] = Word("block") /\ t[j+1].types = <<>>
  /\ t[j+1].means = <<Instr("block", NoType, Nothing, <<>>, 0, <<name>>)>>
  /\ new = <<Marker(name)>> /\ IsSeq(new) /\ Len(new) = Len(t[j+1].means)
  /\ \A i \in 1..Len(t[j+1].means) : Tells(q, new[i], t[j+1].means[i])

LEMMA LabelTold ==
  ASSUME NEW q, NEW name
  PROVE  LET m == <<Instr("block", NoType, Nothing, <<>>, 0, <<name>>)>>
             new == <<Marker(name)>>
         IN  IsSeq(new) /\ Len(new) = Len(m) /\ \A i \in 1..Len(m) : Tells(q, new[i], m[i])
<1> DEFINE x == Marker(name)
           y == Instr("block", NoType, Nothing, <<>>, 0, <<name>>)
           none == <<>>
<1>1. none \in Seq(Opd) /\ IsSeq(none) /\ Len(none) = 0
  <2>1. none \in Seq(Opd)
    OBVIOUS
  <2> QED
    BY <2>1, SeqIs
<1>2. Met(q, Nothing) /\ NumberIn(q, Nothing) = NoDst
  BY DEF NumberIn, Met, Nothing
<1>3. Gathered(q, Nothing, none, none)
  <2> HIDE DEF none
  <2>1. \A i \in 1..Len(none) : Holds(q, none[i], none[i])
    BY <1>1
  <2> QED
    BY <1>1, <1>2, <2>1 DEF Gathered
<1>4. Tells(q, Instr("block", NoType, NumberIn(q, Nothing), none, 0, <<name>>), Instr("block", NoType, Nothing, none, 0, <<name>>))
  BY <1>3, TellsIs, Zenon
<1>5. Tells(q, x, y)
  BY <1>2, <1>4, Zenon DEF Marker
<1> HIDE DEF x, y
<1>6. <<x>> \in Seq({x}) /\ Len(<<x>>) = 1 /\ Len(<<y>>) = 1 /\ <<x>>[1] = x /\ <<y>>[1] = y
  OBVIOUS
<1>7. IsSeq(<<x>>)
  BY <1>6, SeqIs
<1>8. \A i \in 1..Len(<<y>>) : Tells(q, <<x>>[i], <<y>>[i])
  <2>1. \A i \in 1..1 : i = 1
    OBVIOUS
  <2> QED
    BY <1>5, <1>6, <2>1
<1> QED
  BY <1>6, <1>7, <1>8, Zenon DEF x, y

LEMMA BlockStands ==
  ASSUME NEW t, Conforms(t), NEW j, NEW q0, NEW q, Went(t, j, q0, q),
         NEW tys, NEW ns, NEW fs, NEW f, NEW b, Standing(t, j, q0, tys, ns, fs, f, b),
         NEW new, NEW name, Labelled(t, j, q, new, name)
  PROVE  Standing(t, j+1, q, tys, ns, [fs EXCEPT ![f].blocks = Append(@, [name |-> name, instrs |-> <<>>])],
                  f, Len(fs[f].blocks) + 1)
<1> DEFINE h == HeadAt(t, j)
           S == NamesAt(t, j)
           s == t[j+1]
           g == fs[f]
           g2 == WithBlock(g, name)
           b2 == Len(g.blocks) + 1
           fs2 == [fs EXCEPT ![f].blocks = Append(@, [name |-> name, instrs |-> <<>>])]
<1>1. /\ j \in 0..Len(t)-1 /\ s.words[1] # Word("func") /\ Fine(S, q) /\ Extends(q0, q) /\ Fine(S, q0)
      /\ tys = Known(t, j+1)
      /\ Built(q0, fs) /\ Scope(t, j, fs, f, b) /\ Coded(t, j, q0, fs)
  BY DEF Went, Standing
<1>2. Len(t) \in Nat /\ j \in Nat /\ j+1 \in 0..Len(t) /\ j+1 \in 1..Len(t) /\ h \in 0..j
  <2>1. Len(t) \in Nat /\ j \in 0..Len(t)-1
    BY StatementsAre DEF Went
  <2>2. j \in Nat /\ j+1 \in 0..Len(t) /\ j+1 \in 1..Len(t)
    BY <2>1
  <2>3. h \in 0..j
    BY <2>2, HeadStep
  <2> QED
    BY <2>1, <2>2, <2>3
<1>3. /\ HeadAt(t, j+1) = h /\ NamesAt(t, j+1) = S
      /\ \A w \in ToSet(WordsIn(t, h, j+1)) : IsVreg(w) => Usable(S, w) /\ Met(q, w)
  BY <1>1, VregsMet DEF Standing
<1>4. tys = Known(t, (j+1)+1)
  <2> DEFINE x == Known(t, j+1)
             y == Known(t, (j+1)+1)
  <2>1. IsSeq(x) /\ y = x \o <<>>
    BY <1>2, KnownLast DEF Labelled
  <2> HIDE DEF x, y
  <2>2. x \o <<>> = x
    BY <2>1, ConcatEmpty
  <2> QED
    BY <1>1, <2>1, <2>2 DEF x, y
<1>5. f = Len(fs) /\ f > 0 /\ IsSeq(fs) /\ Len(fs) \in Nat /\ f \in 1..Len(fs)
      /\ fs = [i \in 1..Len(fs) |-> fs[i]]
  <2>1. f = Len(fs) /\ f > 0 /\ IsSeq(fs)
    BY <1>1 DEF Scope, Built, Labelled
  <2>2. Len(fs) \in Nat /\ fs = [i \in 1..Len(fs) |-> fs[i]]
    BY <2>1, SeqIs DEF IsSeq
  <2> QED
    BY <2>1, <2>2
<1>6. IsFunc(g) /\ Listed(q, g)
  <2>1. q0.fp.n \in Nat /\ q.fp.n \in Nat /\ q0.fp.n <= q.fp.n
    BY <1>1, FineHas DEF Extends
  <2>2. Built(q, fs)
    BY <1>1, <2>1, BuiltStays
  <2> QED
    BY <1>5, <2>2 DEF Built
<1>70. IsSeq(new) /\ Len(new) = Len(s.means)
  BY DEF Labelled
<1>7. /\ IsFunc(g2) /\ Len(g2.blocks) = Len(g.blocks) + 1 /\ CodeOf(g2) = CodeOf(g) \o new
      /\ g2.nparams = g.nparams /\ g2.vararg = g.vararg /\ IsSeq(CodeOf(g))
  <2>1. IsFunc(g) /\ new = <<Marker(name)>>
    BY <1>6 DEF Labelled
  <2> HIDE DEF g
  <2> QED
    BY <2>1, CodeBlock DEF WithBlock
<1>8. fs2 = [fs EXCEPT ![f] = g2]
  BY <1>5 DEF WithBlock
<1> HIDE DEF fs2, g2
<1>9. IsSeq(fs2) /\ Len(fs2) = Len(fs) /\ fs2[f] = g2 /\ \A i \in 1..Len(fs) : i # f => fs2[i] = fs[i]
  <2>1. fs2 = [i \in 1..Len(fs) |-> IF i = f THEN g2 ELSE fs[i]]
    BY <1>5, <1>8
  <2>2. fs2 = [i \in 1..Len(fs) |-> fs2[i]] /\ fs2[f] = g2 /\ \A i \in 1..Len(fs) : i # f => fs2[i] = fs[i]
    BY <1>5, <2>1
  <2>3. IsSeq(fs2) /\ Len(fs2) = Len(fs)
    BY <1>5, <2>2, FunctionIsSeq
  <2> QED
    BY <2>2, <2>3
<1> DEFINE c == CodeOf(g)
           c2 == CodeOf(g2)
           n == Len(c)
           k == Len(new)
<1>10. n \in Nat /\ k \in Nat /\ Len(c2) = n + k /\ (\A i \in 1..n : c2[i] = c[i]) /\ \A i \in 1..k : c2[n+i] = new[i]
  <2>1. IsSeq(c) /\ c2 = c \o new /\ IsSeq(new)
    BY <1>7, <1>70
  <2> HIDE DEF c, c2
  <2>2. Len(c) \in Nat /\ Len(new) \in Nat
    BY <2>1, SeqIs DEF IsSeq
  <2> QED
    BY <2>1, <2>2, ConcatIs
<1>11. \A i \in 1..n+k : i \in 1..n \/ (i-n \in 1..k /\ n+(i-n) = i)
  BY <1>10
<1>12. \A i \in 1..k : Tells(q, new[i], s.means[i])
  BY <1>70 DEF Labelled
<1>13. Listed(q, g2)
  <2> SUFFICES ASSUME NEW i \in 1..Len(c2)
               PROVE  c2[i].args \in Seq(Opd) /\ \A a \in DOMAIN c2[i].args : InTable(q, c2[i].args[a])
    BY DEF Listed
  <2>1. CASE i \in 1..n
    <3>1. c2[i] = c[i]
      BY <1>10, <2>1
    <3> QED
      BY <1>6, <2>1, <3>1 DEF Listed
  <2>2. CASE i \notin 1..n
    <3> DEFINE p == i-n
               x == new[p]
               y == s.means[p]
    <3>1. p \in 1..k /\ c2[i] = x
      <4>1. i \in 1..n+k
        BY <1>10
      <4>2. p \in 1..k /\ n+p = i
        BY <1>11, <2>2, <4>1
      <4> QED
        BY <1>10, <4>2
    <3>2. Tells(q, x, y)
      BY <1>12, <3>1
    <3> HIDE DEF x, y
    <3>3. x.args \in Seq(Opd) /\ Len(x.args) = Len(y.args) /\ \A a \in 1..Len(y.args) : InTable(q, x.args[a])
      BY <3>2 DEF Tells, Holds
    <3>4. DOMAIN x.args = 1..Len(y.args)
      BY <3>3
    <3> QED
      BY <3>1, <3>3, <3>4
  <2> QED
    BY <2>1, <2>2
<1>14. Built(q, fs2)
  <2> SUFFICES ASSUME NEW i \in 1..Len(fs2) PROVE IsFunc(fs2[i]) /\ Listed(q, fs2[i])
    BY <1>9 DEF Built
  <2>1. CASE i = f
    BY <1>7, <1>9, <1>13, <2>1
  <2>2. CASE i # f
    <3>1. fs2[i] = fs[i] /\ i \in 1..Len(fs)
      BY <1>9, <2>2
    <3>2. q0.fp.n \in Nat /\ q.fp.n \in Nat /\ q0.fp.n <= q.fp.n
      BY <1>1, FineHas DEF Extends
    <3>3. Built(q, fs)
      BY <1>1, <3>2, BuiltStays
    <3> QED
      BY <3>1, <3>3 DEF Built
  <2> QED
    BY <2>1, <2>2
<1>15. Scope(t, j+1, fs2, f, b2)
  <2>1. /\ Outside(t, j+1) <=> s.words[1] = Word("}") \/ (s.words[1] # Word("func") /\ Outside(t, j))
    BY <1>2, HeadStep
  <2>2. ~Outside(t, j+1)
    <3>1. s.words[1] = Word("block") /\ ~Outside(t, j)
      BY DEF Labelled
    <3>2. s.words[1] # Word("}")
      BY <3>1, WordsDiffer
    <3> QED
      BY <2>1, <3>1, <3>2
  <2>3. fs2[f].blocks = g2.blocks /\ Len(g2.blocks) = b2 /\ f = Len(fs2)
    BY <1>5, <1>7, <1>9
  <2>4. b2 \in 0..b2 /\ b2 > 0
    <3>1. Len(g.blocks) \in Nat
      BY <1>6, SeqIs DEF IsFunc, IsSeq
    <3> QED
      BY <3>1
  <2> QED
    BY <1>5, <2>2, <2>3, <2>4 DEF Scope
<1>16. Coded(t, j+1, q, fs2)
  <2> DEFINE m == MeansIn(t, h, j)
             m2 == MeansIn(t, h, j+1)
  <2>1. IsSeq(m) /\ m2 = m \o s.means /\ IsSeq(s.means)
    BY <1>1, <1>2, MeansLast, StatementsAre
  <2>2. SUFFICES ASSUME h # 0
                 PROVE  /\ g2.nparams = t[h].params /\ g2.vararg = t[h].vararg
                        /\ Len(c2) = Len(m2) /\ \A i \in 1..Len(m2) : Tells(q, c2[i], m2[i])
    BY <1>3, <1>5, <1>9 DEF Coded
  <2>3. /\ g.nparams = t[h].params /\ g.vararg = t[h].vararg
        /\ n = Len(m) /\ \A i \in 1..Len(m) : Tells(q0, c[i], m[i])
    BY <1>1, <1>5, <2>2 DEF Coded
  <2> HIDE DEF h, S, c, m, g, c2, m2, n
  <2>4. \A i \in 1..n : Tells(q, c[i], m[i])
    BY <1>1, <2>3, TellsStays
  <2>5. Len(m2) = n + k /\ (\A i \in 1..n : m2[i] = m[i]) /\ \A i \in 1..k : m2[n+i] = s.means[i]
    <3>1. k = Len(s.means)
      BY <1>70
    <3> HIDE DEF k, s
    <3> QED
      BY <2>1, <2>3, <3>1, ConcatIs
  <2>6. ASSUME NEW i \in 1..n+k PROVE Tells(q, c2[i], m2[i])
    <3>1. CASE i \in 1..n
      BY <1>10, <2>4, <2>5, <3>1
    <3>2. CASE i \notin 1..n
      <4> DEFINE p == i-n
      <4>1. p \in 1..k /\ n+p = i
        BY <1>11, <3>2
      <4> HIDE DEF p, k
      <4>2. c2[n+p] = new[p] /\ m2[n+p] = s.means[p] /\ Tells(q, new[p], s.means[p])
        BY <1>10, <1>12, <2>5, <4>1
      <4> QED
        BY <4>1, <4>2
    <3> QED
      BY <3>1, <3>2
  <2> QED
    BY <1>7, <1>10, <2>3, <2>5, <2>6
<1>18. ns = Strings(t, (j+1)+1)
  <2>1. ns = Strings(t, j+1)
    BY DEF Standing
  <2>2. s.means # <<>> => s.means[1].op # "str"
    <3>1. s.means = <<Instr("block", NoType, Nothing, <<>>, 0, <<name>>)>>
      BY DEF Labelled
    <3>2. s.means[1] = Instr("block", NoType, Nothing, <<>>, 0, <<name>>)
      BY <3>1
    <3>3. s.means[1].op = "block"
      BY <3>2 DEF Instr
    <3> QED
      BY <3>3
  <2> QED
    BY <1>2, <2>1, <2>2, StringsStep
<1>17. Standing(t, j+1, q, tys, ns, fs2, f, b2)
  BY <1>18, <1>1, <1>2, <1>3, <1>4, <1>14, <1>15, <1>16 DEF Standing
<1> QED
  BY <1>17 DEF fs2

LEMMA BlockStep ==
  ASSUME NEW j, Ready(j), Block
  PROVE  Advanced(j)
<1> DEFINE s == text[j+1]
           n == Len(s.words)
           name == s.words[2].s
           q == Skip(Skip(r))
           new == <<Marker(name)>>
<1>1. /\ OpOf(Peek(r)) = "block" /\ r' = q /\ UNCHANGED <<text, types, strings, F>>
      /\ funcs' = [funcs EXCEPT ![F].blocks = Append(@, [name |-> Second(r).s, instrs |-> <<>>])]
      /\ B' = Len(funcs[F].blocks) + 1
  BY DEF Block
<1>2. AtFront(j) /\ s.words[1] = Word("block")
  BY <1>1, Heads DEF Headings
<1>3. Left(j, r, 0) /\ n \in Nat /\ Allowed(text, j+1) /\ j \in Nat
  BY <1>2, FrontHas
<1>4. BlockNamed(s) /\ ~Outside(text, j)
  <2>1. (j+1)-1 = j
    BY <1>3
  <2>2. BlockNamed(s) /\ ~Outside(text, (j+1)-1)
    <3>1. Word("block") # Word("type") /\ Word("block") # Word("func") /\ Word("block") # Word("}")
      BY WordsDiffer
    <3> QED
      BY <1>2, <1>3, <3>1 DEF Allowed
  <2> QED
    BY <2>1, <2>2
<1>5. n = 2 /\ s.words[2].k = "word" /\ s.types = <<>>
      /\ s.means = <<Instr("block", NoType, Nothing, <<>>, 0, <<name>>)>>
  BY <1>4 DEF BlockNamed
<1> DEFINE zero == 0
           one == 1
           p == Skip(r)
<1>6. zero \in Nat /\ one \in Nat /\ Left(j, r, zero) /\ zero < Len(text[j+1].words) /\ one < Len(text[j+1].words)
      /\ one = zero+1 /\ n = one+1 /\ one = 1 /\ n = 2
  BY <1>3, <1>5
<1> HIDE DEF zero, one, n
<1>7. Left(j, p, one)
  BY <1>2, <1>6, LeftSkip
<1> HIDE DEF p
<1>8. Peek(p) = s.words[2] /\ Left(j, Skip(p), n)
  <2>1. Peek(p) = text[j+1].words[one+1]
    BY <1>2, <1>6, <1>7, LeftPeek
  <2>2. Left(j, Skip(p), n)
    BY <1>2, <1>6, <1>7, LeftSkip
  <2> QED
    BY <1>6, <2>1, <2>2
<1>9. Second(r).s = name /\ Left(j, q, Len(text[j+1].words))
  BY <1>8 DEF Second, p, n
<1>10. \A i \in 1..Len(text[j+1].words) : ~IsVreg(text[j+1].words[i])
  <2>1. \A i \in 1..2 : i = 1 \/ i = 2
    OBVIOUS
  <2>2. s.words[1].k = "word"
    BY <1>2 DEF Word
  <2>3. \A i \in 1..n : s.words[i].k = "word"
    BY <1>5, <2>1, <2>2
  <2> QED
    BY <2>3 DEF IsVreg, n
<1>11. s.words[1] # Word("func")
  BY <1>2, WordsDiffer
<1> HIDE DEF q
<1>12. Went(text, j, r, q) /\ q.rest = WordsIn(text, j+1, Len(text))
  BY <1>2, <1>9, <1>10, <1>11, LeftAll
<1>13. Labelled(text, j, q, new, name)
  <2> DEFINE m == <<Instr("block", NoType, Nothing, <<>>, 0, <<name>>)>>
  <2>1. IsSeq(new) /\ Len(new) = Len(m) /\ \A i \in 1..Len(m) : Tells(q, new[i], m[i])
    BY LabelTold, Zenon
  <2>2. s.means = m
    BY <1>5
  <2> HIDE DEF m
  <2>3. new = <<Marker(name)>>
    OBVIOUS
  <2> HIDE DEF new, name
  <2> QED
    BY <1>2, <1>4, <1>5, <2>1, <2>2, <2>3 DEF Labelled, m
<1>14. Conforms(text) /\ Standing(text, j, r, types, strings, funcs, F, B) /\ j \in 0..Len(text)-1
  BY <1>2 DEF Ready, AtFront
<1>15. Standing(text, j+1, q, types, strings, funcs', F, B')
  <2> HIDE DEF new
  <2>1. Standing(text, j+1, q, types, strings,
                 [funcs EXCEPT ![F].blocks = Append(@, [name |-> name, instrs |-> <<>>])], F, Len(funcs[F].blocks) + 1)
    BY <1>12, <1>13, <1>14, BlockStands
  <2> QED
    BY <1>1, <1>9, <2>1
<1> QED
  BY <1>1, <1>12, <1>14, <1>15 DEF Advanced

(* After the last field that has room there is the brace. *)
LEMMA ClosingStep ==
  ASSUME Conforms(text), NEW j, Standing(text, j, r, types, strings, funcs, F, B), Closing(text, j, r.rest), Next
  PROVE  /\ text' = text /\ Standing(text, j, r', types', strings', funcs', F', B')
         /\ r'.rest = WordsIn(text, j, Len(text))
<1>1. /\ Outside(text, j) /\ r.rest # <<>> /\ Head(r.rest) = Word("}")
      /\ Tail(r.rest) = WordsIn(text, j, Len(text))
  BY DEF Closing
<1>2. Peek(r) = Word("}") /\ OpOf(Peek(r)) = "}"
  <2>1. Peek(r) = Word("}")
    BY <1>1 DEF Peek
  <2>2. OpOf(Word("}")) = "}"
    BY DEF OpOf, Word
  <2> QED
    BY <2>1, <2>2
<1>3. EndFunc
  <2>1. \A ops : ~Statement(ops)
    BY <1>2 DEF Statement, Headings
  <2>2. ~Punctuation /\ ~TypeStruct /\ ~TypeArray /\ ~Func /\ ~Block /\ ~UnknownWord
    BY <1>2 DEF Punctuation, TypeStruct, TypeArray, Func, Block, UnknownWord, Headings
  <2>3. ~Arith /\ ~Unary /\ ~Compare /\ ~Widen /\ ~Convert /\ ~Ret /\ ~Br /\ ~Cbr /\ ~Phi
    BY <2>1, Zenon DEF Arith, Unary, Compare, Widen, Convert, Ret, Br, Cbr, Phi
  <2>4. ~Call /\ ~Alloca /\ ~Load /\ ~Store /\ ~Str /\ ~VaStart /\ ~VaArg /\ ~VaEnd /\ ~Gep
    BY <2>1, Zenon DEF Call, Alloca, Load, Store, Str, VaStart, VaArg, VaEnd, Gep
  <2> QED
    BY <2>2, <2>3, <2>4 DEF Next
<1>4. r' = Skip(r) /\ F' = 0 /\ B' = 0 /\ UNCHANGED <<text, types, strings, funcs>>
  BY <1>3 DEF EndFunc
<1> DEFINE S == NamesAt(text, j)
           T == WordsIn(text, j, Len(text))
<1>5. Fine(S, r) /\ j \in 0..Len(text)
  BY DEF Standing
<1>6. F = 0 /\ B = 0
  BY <1>1 DEF Standing, Scope
<1>7. T \in Seq(Words)
  <2>1. Tail(r.rest) = T /\ r.rest \in Seq(Words) /\ r.rest # <<>>
    BY <1>1, <1>5, FineHas
  <2> HIDE DEF T
  <2>2. Tail(r.rest) \in Seq(Words)
    BY <2>1, HeadTailProperties
  <2> QED
    BY <2>1, <2>2
<1>8. Skip(r) = Rested(r, T)
  BY <1>1 DEF Skip, Rested
<1> HIDE DEF T, S
<1> DEFINE p == Rested(r, T)
<1>9. p \in Reading /\ p.rest = T /\ p.syms = r.syms /\ p.next = r.next /\ p.fp = r.fp
  BY <1>5, <1>7, RestedIs
<1> HIDE DEF p
<1>10. Standing(text, j, p, types, strings, funcs, F, B)
  BY <1>9, StandingStays
<1>11. r' = p
  BY <1>4, <1>8 DEF p
<1> QED
  BY <1>4, <1>6, <1>9, <1>10, <1>11 DEF T

LEMMA EveryStep ==
  ASSUME NEW j, Ready(j), Next
  PROVE  Advanced(j) \/ Closed(j)
<1>1. CASE Punctuation
  BY <1>1, PunctuationStep
<1>2. CASE EndFunc
  BY <1>2, EndFuncStep
<1>3. CASE TypeStruct
  BY <1>3, TypeStructStep
<1>4. CASE TypeArray
  BY <1>4, TypeArrayStep
<1>5. CASE Func
  BY <1>5, FuncStep
<1>6. CASE Block
  BY <1>6, BlockStep
<1>7. CASE UnknownWord
  BY <1>7, UnknownWordStep
<1>8. CASE Arith
  BY <1>8, ArithStep
<1>9. CASE Unary
  BY <1>9, UnaryStep
<1>10. CASE Compare
  BY <1>10, CompareStep
<1>11. CASE Widen
  BY <1>11, WidenStep
<1>12. CASE Convert
  BY <1>12, ConvertStep
<1>13. CASE Ret
  BY <1>13, RetStep
<1>14. CASE Br
  BY <1>14, BrStep
<1>15. CASE Cbr
  BY <1>15, CbrStep
<1>16. CASE Phi
  BY <1>16, PhiStep
<1>17. CASE Call
  BY <1>17, CallStep
<1>18. CASE Alloca
  BY <1>18, AllocaStep
<1>19. CASE Load
  BY <1>19, LoadStep
<1>20. CASE Store
  BY <1>20, StoreStep
<1>21. CASE Str
  BY <1>21, StrStep
<1>22. CASE VaStart
  BY <1>22, VaStartStep
<1>23. CASE VaArg
  BY <1>23, VaArgStep
<1>24. CASE VaEnd
  BY <1>24, VaEndStep
<1>25. CASE Gep
  BY <1>25, GepStep
<1> QED
  BY <1>1, <1>2, <1>3, <1>4, <1>5, <1>6, <1>7, <1>8, <1>9, <1>10, <1>11, <1>12, <1>13, <1>14, <1>15,
     <1>16, <1>17, <1>18, <1>19, <1>20, <1>21, <1>22, <1>23, <1>24, <1>25 DEF Next

-----------------------------------------------------------------------------
(* Inv is inductive. *)
LEMMA EmptyIs ==
  /\ EmptyFp \in FpTable /\ EmptyFp.n = 0
  /\ IsSeq(<<>>) /\ Len(<<>>) = 0 /\ <<>> \in Seq(Sym) /\ <<>> \in Seq(Opd) /\ DOMAIN <<>> = 1..0 /\ DOMAIN <<>> = {}
  /\ \A q : Built(q, <<>>)
<1>1. IsSeq(<<>>) /\ Len(<<>>) = 0 /\ <<>> \in Seq(Sym) /\ <<>> \in Seq(Opd) /\ DOMAIN <<>> = 1..0 /\ DOMAIN <<>> = {}
  BY DEF IsSeq
<1>2. EmptyFp \in FpTable /\ EmptyFp.n = 0
  BY DEF EmptyFp, FpTable
<1>3. \A q : Built(q, <<>>)
  BY <1>1 DEF Built
<1> QED
  BY <1>1, <1>2, <1>3

LEMMA InitInv == Init => Inv
<1> SUFFICES ASSUME Init, Conforms(text)
             PROVE  Standing(text, 0, r, types, strings, funcs, F, B) /\ 0 \in 0..Len(text)
                    /\ r.rest = WordsIn(text, 0, Len(text))
  BY DEF Inv
<1> DEFINE words == WordsIn(text, 0, Len(text))
           S == NamesAt(text, 0)
<1>1. /\ r = [rest |-> FlattenSeq([i \in DOMAIN text |-> text[i].words]),
              syms |-> <<>>, next |-> 0, fp |-> EmptyFp, args |-> <<>>]
      /\ types = <<>> /\ strings = 0 /\ funcs = <<>> /\ F = 0 /\ B = 0
  BY DEF Init
<1>2. Len(text) \in Nat /\ DOMAIN text = 1..Len(text)
  BY StatementsAre
<1>3. FlattenSeq([i \in DOMAIN text |-> text[i].words]) = words
  <2>1. [i \in DOMAIN text |-> text[i].words] = [k \in 1..Len(text)-0 |-> text[0+k].words]
    BY <1>2
  <2> QED
    BY <2>1 DEF WordsIn
<1>4. words \in Seq(Words)
  <2>1. CASE Len(text) = 0
    <3>1. words = <<>>
      BY <2>1, <1>2, WordsNone
    <3> HIDE DEF words
    <3> QED
      BY <3>1
  <2>2. CASE Len(text) # 0
    <3> DEFINE j == Len(text)-1
               h == 0
    <3>1. j \in 0..Len(text)-1 /\ h \in 0..j /\ j+1 = Len(text)
      BY <1>2, <2>2
    <3> HIDE DEF j, h
    <3>2. WordsIn(text, h, j) \in Seq(Words) /\ WordsIn(text, h, j+1) = WordsIn(text, h, j) \o text[j+1].words
      BY <3>1, WordsLast
    <3>3. text[j+1].words \in Seq(Words)
      BY <3>1, <1>2, StatementsAre
    <3> DEFINE a == WordsIn(text, h, j)
               b == text[j+1].words
    <3>4. WordsIn(text, h, j+1) \in Seq(Words)
      <4>1. WordsIn(text, h, j+1) = a \o b /\ a \in Seq(Words) /\ b \in Seq(Words)
        BY <3>2, <3>3
      <4> HIDE DEF a, b
      <4>2. a \o b \in Seq(Words)
        BY <4>1
      <4> QED
        BY <4>1, <4>2
    <3> QED
      BY <3>1, <3>4 DEF h
  <2> QED
    BY <2>1, <2>2
<1> HIDE DEF words
<1>5. r = [rest |-> words, syms |-> <<>>, next |-> 0, fp |-> EmptyFp, args |-> <<>>]
  BY <1>1, <1>3
<1>6. Fine(S, r)
  <2> HIDE DEF S
  <2>1. r \in Reading
    BY <1>4, <1>5, EmptyIs DEF Reading
  <2>2. r.syms = <<>> /\ r.next = 0 /\ Len(r.syms) = 0 /\ DOMAIN r.syms = {}
    BY <1>5, EmptyIs
  <2>3. 0 <= SymMax /\ 0 <= ParamBase
    BY ParserAssumption, IRAssumption
  <2> QED
    BY <2>1, <2>2, <2>3 DEF Fine
<1>7. HeadAt(text, 0) = 0 /\ Outside(text, 0) /\ ~InBlock(text, 0)
  BY HeadStep
<1>8. \A w \in ToSet(WordsIn(text, HeadAt(text, 0), 0)) : IsVreg(w) => Usable(S, w) /\ Met(r, w)
  <2>1. WordsIn(text, 0, 0) = <<>>
    BY WordsNone
  <2>2. ToSet(<<>>) = {}
    BY DEF ToSet
  <2> QED
    BY <1>7, <2>1, <2>2
<1>9. types = Known(text, 0+1) /\ strings = Strings(text, 0+1)
  <2>1. Known(text, 1) = <<>>
    BY WordsNone
  <2>2. Strings(text, 1) = 0
    BY StringsStep
  <2> QED
    BY <1>1, <2>1, <2>2
<1>10. Built(r, funcs) /\ Scope(text, 0, funcs, F, B) /\ Coded(text, 0, r, funcs)
  BY <1>1, <1>7, EmptyIs DEF Scope, Coded
<1>11. 0 \in 0..Len(text)
  BY <1>2
<1> QED
  BY <1>3, <1>5, <1>6, <1>8, <1>9, <1>10, <1>11 DEF Standing, S, words

LEMMA TextStays == Next => text' = text
<1>1. \A q, instrs : Put(q, instrs) => text' = text
  BY Zenon DEF Put
<1>2. \A q, instr : Emit(q, instr) => text' = text
  BY <1>1, Zenon DEF Emit
<1>3. Punctuation \/ EndFunc \/ TypeStruct \/ TypeArray \/ Func \/ Block \/ UnknownWord => text' = text
  BY Zenon DEF Punctuation, EndFunc, TypeStruct, TypeArray, Func, Block, UnknownWord
<1>4. Arith \/ Unary \/ Compare \/ Widen \/ Convert \/ Br \/ Cbr \/ Phi \/ Call => text' = text
  BY <1>2, Zenon DEF Arith, Unary, Compare, Widen, Convert, Br, Cbr, Phi, Call
<1>5. Ret \/ Alloca \/ Store \/ VaStart \/ VaArg \/ VaEnd \/ Gep => text' = text
  BY <1>2, Zenon DEF Ret, Alloca, Store, VaStart, VaArg, VaEnd, Gep
<1>6. Load \/ Str => text' = text
  BY <1>1, Zenon DEF Load, Str
<1> QED
  BY <1>3, <1>4, <1>5, <1>6 DEF Next

LEMMA NextInv == Inv /\ [Next]_vars => Inv'
<1> SUFFICES ASSUME Inv, [Next]_vars, Conforms(text') PROVE Inv'
  BY DEF Inv
<1>1. CASE UNCHANGED vars
  BY <1>1 DEF Inv, vars
<1>2. CASE Next
  <2>1. text' = text
    BY <1>2, TextStays
  <2>2. Conforms(text)
    BY <2>1
  <2>3. PICK j \in 0..Len(text) : /\ Standing(text, j, r, types, strings, funcs, F, B)
                                  /\ r.rest = WordsIn(text, j, Len(text)) \/ Closing(text, j, r.rest)
    BY <2>2 DEF Inv
  <2>4. CASE r.rest = WordsIn(text, j, Len(text))
    <3>1. Advanced(j) \/ Closed(j)
      BY <1>2, <2>2, <2>3, <2>4, EveryStep DEF Ready
    <3>2. j+1 \in 0..Len(text)
      BY <3>1, <2>2, StatementsAre DEF Advanced, Closed
    <3> QED
      BY <2>1, <3>1, <3>2 DEF Inv, Advanced, Closed
  <2>5. CASE Closing(text, j, r.rest)
    <3>1. Standing(text, j, r', types', strings', funcs', F', B') /\ r'.rest = WordsIn(text, j, Len(text))
      BY <1>2, <2>2, <2>3, <2>5, ClosingStep
    <3> QED
      BY <2>1, <2>3, <3>1 DEF Inv
  <2> QED
    BY <2>3, <2>4, <2>5
<1> QED
  BY <1>1, <1>2

-----------------------------------------------------------------------------
(* How many words are left tells how many statements have been read. *)
LeftOver(t, i) == Len(WordsIn(t, i, Len(t)))

LEMMA Shorter ==
  ASSUME NEW t, Conforms(t), NEW i \in 0..Len(t)-1
  PROVE  /\ LeftOver(t, i+1) \in Nat /\ Len(t[i+1].words) \in Nat \ {0}
         /\ LeftOver(t, i) = Len(t[i+1].words) + LeftOver(t, i+1)
<1> DEFINE a == t[i+1].words
           b == WordsIn(t, i+1, Len(t))
           c == WordsIn(t, i, Len(t))
<1>1. b \in Seq(Words) /\ c = a \o b
  BY WordsFirst
<1>2. a \in Seq(Words) /\ Len(a) \in Nat \ {0}
  <2>1. i+1 \in 1..Len(t)
    BY StatementsAre
  <2> QED
    BY <2>1, StatementsAre
<1> HIDE DEF a, b, c
<1>3. Len(c) = Len(a) + Len(b) /\ Len(b) \in Nat
  BY <1>1, <1>2, SeqIs, ConcatIs
<1> QED
  BY <1>2, <1>3 DEF LeftOver, a, b, c

LEMMA Decreasing ==
  ASSUME NEW t, Conforms(t), NEW k \in 0..Len(t), NEW i \in 0..k
  PROVE  /\ LeftOver(t, k) \in Nat /\ LeftOver(t, i) \in Nat
         /\ i < k => LeftOver(t, i) > LeftOver(t, k)
<1> DEFINE n == Len(t)
           L(x) == LeftOver(t, x)
           S == {d \in 0..n : \A x \in 0..n : x+d <= n => L(x) \in Nat /\ L(x+d) \in Nat /\ (d > 0 => L(x) > L(x+d))}
<1>1. n \in Nat
  BY StatementsAre
<1>2. \A x \in 0..n-1 : L(x+1) \in Nat /\ L(x) \in Nat /\ L(x) > L(x+1)
  <2> SUFFICES ASSUME NEW x \in 0..n-1 PROVE L(x+1) \in Nat /\ L(x) \in Nat /\ L(x) > L(x+1)
    OBVIOUS
  <2>1. LeftOver(t, x+1) \in Nat /\ Len(t[x+1].words) \in Nat \ {0} /\ LeftOver(t, x) = Len(t[x+1].words) + LeftOver(t, x+1)
    BY Shorter
  <2> DEFINE m == Len(t[x+1].words)
  <2> HIDE DEF m
  <2> QED
    BY <2>1 DEF m
<1>3. L(n) \in Nat
  <2>1. WordsIn(t, n, n) = <<>>
    BY <1>1, WordsNone
  <2> QED
    BY <2>1 DEF LeftOver
<1> HIDE DEF L, n
<1>4. 0 \in S
  <2>1. \A x \in 0..n : x = n \/ x \in 0..n-1
    BY <1>1
  <2> QED
    BY <1>1, <1>2, <1>3, <2>1
<1>5. \A d \in 0..n-1 : d \in S => d+1 \in S
  <2> DEFINE Lowers(d, x) == L(x) \in Nat /\ L(x+d) \in Nat /\ (d > 0 => L(x) > L(x+d))
  <2>a. \A d \in 0..n : d \in S <=> \A x \in 0..n : x+d <= n => Lowers(d, x)
    OBVIOUS
  <2>b. \A d \in 0..n-1 : d \in 0..n /\ d+1 \in 0..n
    BY <1>1
  <2> HIDE DEF Lowers, S
  <2> SUFFICES ASSUME NEW d \in 0..n-1, d \in S, NEW x \in 0..n, x+(d+1) <= n
               PROVE  Lowers(d+1, x)
    BY <2>a, <2>b
  <2>1. x+d \in 0..n-1 /\ x+d <= n /\ x+(d+1) = (x+d)+1
    BY <1>1
  <2>2. L(x) \in Nat /\ L(x+d) \in Nat /\ (d > 0 => L(x) > L(x+d))
    BY <2>1, <2>a, <2>b DEF Lowers
  <2>3. L((x+d)+1) \in Nat /\ L(x+d) > L((x+d)+1)
    BY <1>2, <2>1
  <2>4. d = 0 => x+d = x
    BY <1>1
  <2>5. CASE d = 0
    BY <2>1, <2>2, <2>3, <2>4, <2>5 DEF Lowers
  <2>6. CASE d # 0
    <3>1. d > 0
      BY <1>1, <2>6
    <3>2. L(x) > L(x+d)
      BY <2>2, <3>1
    <3> DEFINE p == L(x)
               q == L(x+d)
               u == L((x+d)+1)
    <3>3. p \in Nat /\ q \in Nat /\ u \in Nat /\ p > q /\ q > u
      BY <2>2, <2>3, <3>2
    <3> HIDE DEF p, q, u
    <3>4. p > u
      BY <3>3
    <3> QED
      BY <2>1, <3>3, <3>4 DEF p, q, u, Lowers
  <2> QED
    BY <2>5, <2>6
<1>6. 0..n \subseteq S
  <2> HIDE DEF S
  <2> QED
    BY <1>1, <1>4, <1>5, Induction
<1>7. k-i \in 0..n /\ i \in 0..n /\ i+(k-i) = k /\ i+(k-i) <= n /\ (i < k => k-i > 0)
  BY <1>1 DEF n
<1>8. L(i) \in Nat /\ L(i+(k-i)) \in Nat /\ (k-i > 0 => L(i) > L(i+(k-i)))
  BY <1>6, <1>7
<1> QED
  BY <1>7, <1>8 DEF L

LEMMA WhereRead ==
  ASSUME Conforms(text), NEW j \in 0..Len(text)
  PROVE  /\ r.rest = WordsIn(text, j, Len(text)) => ReadUpTo = {j}
         /\ Closing(text, j, r.rest) /\ r.rest \in Seq(Words) => ReadUpTo = {}
<1> DEFINE n == Len(text)
           L(x) == LeftOver(text, x)
<1>1. n \in Nat
  BY StatementsAre
<1>2. \A k \in 0..n : \A i \in 0..k : L(k) \in Nat /\ L(i) \in Nat /\ (i < k => L(i) > L(k))
  BY Decreasing
<1>3. ReadUpTo = {x \in 0..n : L(x) = Len(r.rest)}
  BY DEF ReadUpTo, LeftOver
<1>4. ASSUME r.rest = WordsIn(text, j, Len(text)) PROVE ReadUpTo = {j}
  <2>1. Len(r.rest) = L(j)
    BY <1>4 DEF LeftOver
  <2> HIDE DEF L
  <2>2. \A x \in 0..n : L(x) = L(j) => x = j
    <3> SUFFICES ASSUME NEW x \in 0..n, L(x) = L(j) PROVE x = j
      OBVIOUS
    <3>1. x < j => L(x) > L(j)
      BY <1>1, <1>2
    <3>2. j < x => L(j) > L(x)
      BY <1>1, <1>2
    <3>3. L(j) \in Nat
      BY <1>1, <1>2
    <3>4. ~(x < j) /\ ~(j < x)
      BY <3>1, <3>2, <3>3
    <3> QED
      BY <1>1, <3>4
  <2> QED
    BY <1>3, <2>1, <2>2
<1>5. ASSUME Closing(text, j, r.rest), r.rest \in Seq(Words) PROVE ReadUpTo = {}
  <2>1. j > 0 /\ Len(text[j].words) >= 2 /\ r.rest # <<>> /\ Tail(r.rest) = WordsIn(text, j, Len(text))
    BY <1>5 DEF Closing
  <2>2. Len(r.rest) = L(j) + 1
    <3>1. Len(Tail(r.rest)) = Len(r.rest) - 1 /\ Len(r.rest) \in Nat
      BY <1>5, <2>1, HeadTailProperties
    <3>2. L(j) = Len(Tail(r.rest))
      BY <2>1 DEF LeftOver
    <3> HIDE DEF L
    <3> QED
      BY <3>1, <3>2
  <2>3. L(j-1) = Len(text[j].words) + L(j)
    <3> DEFINE i == j-1
    <3>1. i \in 0..Len(text)-1 /\ i+1 = j
      BY <1>1, <2>1
    <3> HIDE DEF i
    <3>2. LeftOver(text, i) = Len(text[i+1].words) + LeftOver(text, i+1)
      BY <3>1, Shorter
    <3> QED
      BY <3>1, <3>2 DEF i
  <2>4. Len(text[j].words) \in Nat
    BY <1>1, <2>1, StatementsAre
  <2> HIDE DEF L
  <2> DEFINE m == Len(text[j].words)
             o == Len(r.rest)
  <2>5. m \in Nat /\ m >= 2 /\ o = L(j) + 1 /\ L(j-1) = m + L(j)
    BY <2>1, <2>2, <2>3, <2>4
  <2> HIDE DEF m, o
  <2>6. \A x \in 0..n : L(x) # o
    <3> SUFFICES ASSUME NEW x \in 0..n, L(x) = o PROVE FALSE
      OBVIOUS
    <3>1. L(j) \in Nat
      BY <1>1, <1>2
    <3>2. CASE x < j
      <4>1. x \in 0..j-1 /\ j-1 \in 0..n
        BY <1>1, <2>1, <3>2
      <4>2. L(j-1) \in Nat /\ L(x) \in Nat /\ (x < j-1 => L(x) > L(j-1))
        BY <1>2, <4>1
      <4>3. x < j-1 \/ x = j-1
        BY <1>1, <4>1
      <4>4. x = j-1 => L(x) = L(j-1)
        OBVIOUS
      <4> DEFINE y == x < j-1
                 u == L(x)
                 v == L(j-1)
      <4>5. u \in Nat /\ v \in Nat /\ (u > v \/ u = v) /\ u = o /\ v = m + L(j)
        BY <2>5, <4>2, <4>3, <4>4
      <4> HIDE DEF u, v
      <4> QED
        BY <2>5, <3>1, <4>5
    <3>3. CASE ~(x < j)
      <4>1. j \in 0..x /\ (j < x \/ j = x)
        BY <1>1, <3>3
      <4>2. L(x) \in Nat /\ (j < x => L(j) > L(x))
        BY <1>2, <4>1
      <4> DEFINE u == L(x)
                 v == L(j)
      <4>5. u \in Nat /\ v \in Nat /\ (v > u \/ u = v) /\ u = v + 1
        BY <2>5, <3>1, <4>1, <4>2
      <4> HIDE DEF u, v
      <4> QED
        BY <4>5
    <3> QED
      BY <3>2, <3>3
  <2> QED
    BY <1>3, <2>6 DEF o
<1> QED
  BY <1>4, <1>5

Reached(j) == Ready(j) /\ ReadUpTo = {j} /\ Heading(j) = HeadAt(text, j)
LEMMA Between ==
  ASSUME Inv, Conforms(text)
  PROVE  \E j \in 0..Len(text) : Standing(text, j, r, types, strings, funcs, F, B) /\ (Reached(j) \/ ReadUpTo = {})
<1>1. PICK j \in 0..Len(text) : /\ Standing(text, j, r, types, strings, funcs, F, B)
                                /\ r.rest = WordsIn(text, j, Len(text)) \/ Closing(text, j, r.rest)
  BY DEF Inv
<1>2. r.rest \in Seq(Words)
  BY <1>1, FineHas DEF Standing
<1>3. CASE r.rest = WordsIn(text, j, Len(text))
  BY <1>1, <1>3, WhereRead DEF Reached, Ready, Heading, HeadAt
<1>4. CASE Closing(text, j, r.rest)
  BY <1>1, <1>2, <1>4, WhereRead
<1> QED
  BY <1>1, <1>3, <1>4

-----------------------------------------------------------------------------
(* What Inv implies. *)
LEMMA TypesHold ==
  ASSUME Inv, Conforms(text)
  PROVE  TypeOK
<1>1. PICK j \in 0..Len(text) : Standing(text, j, r, types, strings, funcs, F, B)
  BY Between
<1>2. /\ Fine(NamesAt(text, j), r) /\ types = Known(text, j+1) /\ Built(r, funcs) /\ Scope(text, j, funcs, F, B)
  BY <1>1 DEF Standing
<1>3. IsSeq(funcs) /\ \A g \in 1..Len(funcs) : IsFunc(funcs[g]) /\ Listed(r, funcs[g])
  BY <1>2 DEF Built
<1>4. DOMAIN funcs = 1..Len(funcs) /\ Len(funcs) \in Nat
  BY <1>3, SeqIs DEF IsSeq
<1>5. F \in {0, Len(funcs)}
  BY <1>2 DEF Scope
<1>6. B \in {0} \cup (IF F = 0 THEN {} ELSE DOMAIN funcs[F].blocks)
  <2>1. CASE Outside(text, j)
    BY <1>2, <2>1 DEF Scope
  <2>2. CASE ~Outside(text, j)
    <3>1. F = Len(funcs) /\ F > 0 /\ B \in 0..Len(funcs[F].blocks)
      BY <1>2, <2>2 DEF Scope
    <3>2. F \in 1..Len(funcs)
      BY <1>4, <3>1
    <3> DEFINE bs == funcs[F].blocks
    <3>3. IsSeq(bs)
      BY <1>3, <3>2 DEF IsFunc
    <3> HIDE DEF bs
    <3>4. DOMAIN bs = 1..Len(bs) /\ Len(bs) \in Nat
      BY <3>3, SeqIs DEF IsSeq
    <3>5. B \in 0..Len(bs) /\ F # 0
      BY <3>1, <1>4 DEF bs
    <3>6. B \in {0} \cup DOMAIN bs
      BY <3>4, <3>5
    <3> QED
      BY <3>5, <3>6 DEF bs
  <2> QED
    BY <2>1, <2>2
<1>7. (\A i \in DOMAIN r.syms : r.syms[i].v < r.next) /\ Len(r.syms) <= SymMax
  BY <1>2 DEF Fine
<1>8. Len(types) <= TypeMax
  <2> DEFINE k == j+1
  <2>1. k \in 1..Len(text)+1
    BY StatementsAre
  <2> HIDE DEF k
  <2>2. TypesOK(Known(text, k))
    BY <2>1, KnownFine
  <2> QED
    BY <1>2, <2>2 DEF TypesOK, k
<1>9. ASSUME NEW g \in DOMAIN funcs, NEW i \in DOMAIN CodeOf(funcs[g]), NEW a \in DOMAIN CodeOf(funcs[g])[i].args
      PROVE  InTable(r, CodeOf(funcs[g])[i].args[a])
  <2> DEFINE code == CodeOf(funcs[g])
  <2>1. IsFunc(funcs[g]) /\ Listed(r, funcs[g])
    BY <1>3, <1>4
  <2>2. IsSeq(code)
    <3> DEFINE h == funcs[g]
    <3>1. IsFunc(h)
      BY <2>1
    <3> HIDE DEF h
    <3>2. IsSeq(CodeOf(h))
      <4>1. Len(h.blocks) \in Nat /\ CodeOf(h) = Upto(h, Len(h.blocks)) /\ \A n \in 0..Len(h.blocks) : IsSeq(Upto(h, n))
        BY <3>1, CodeUpto
      <4> QED
        BY <4>1
    <3> QED
      BY <3>2 DEF h
  <2>3. \A k \in 1..Len(code) : \A b \in DOMAIN code[k].args : InTable(r, code[k].args[b])
    BY <2>1 DEF Listed
  <2> HIDE DEF code
  <2>4. DOMAIN code = 1..Len(code)
    BY <2>2, SeqIs DEF IsSeq
  <2>5. i \in DOMAIN code /\ a \in DOMAIN code[i].args
    BY DEF code
  <2> QED
    BY <2>3, <2>4, <2>5 DEF code
<1>10. \A g \in DOMAIN funcs : \A i \in DOMAIN CodeOf(funcs[g]) : \A a \in DOMAIN CodeOf(funcs[g])[i].args :
         CodeOf(funcs[g])[i].args[a].kind = "fp" => CodeOf(funcs[g])[i].args[a].x \in 0 .. Min({r.fp.n, FpMax}) - 1
  BY <1>9 DEF InTable
<1> QED
  BY <1>5, <1>6, <1>7, <1>8, <1>10 DEF TypeOK

(* Two vregs that both have been met have two numbers. *)
LEMMA TwoNumbers ==
  ASSUME NEW S, NEW q, Fine(S, q), NEW v, NEW w, v # w,
         IsVreg(v), IsVreg(w), Usable(S, v), Usable(S, w), Met(q, v), Met(q, w)
  PROVE  NumberIn(q, v) # NumberIn(q, w)
<1>1. /\ q.syms \in Seq(Sym) /\ q.next \in Nat /\ q.next <= ParamBase /\ ParamBase \in Nat
      /\ \A i \in DOMAIN q.syms : q.syms[i].v < q.next
      /\ \A i, k \in DOMAIN q.syms : i # k => q.syms[i].v # q.syms[k].v
      /\ Len(q.syms) \in Nat /\ DOMAIN q.syms = 1..Len(q.syms)
  BY FineHas, IRAssumption DEF Fine
<1>2. \A i \in 1..Len(q.syms) : q.syms[i].v \in Nat
  <2>1. \A i \in 1..Len(q.syms) : q.syms[i] \in Sym
    BY <1>1, ElementIs
  <2> QED
    BY <2>1 DEF Sym
<1> DEFINE N(x) == NumberIn(q, x)
           Name(x) == x.k = "name" /\ SymOf(q, x.s) \in 1..Len(q.syms) /\ q.syms[SymOf(q, x.s)].s = x.s
                      /\ N(x) = q.syms[SymOf(q, x.s)].v /\ N(x) \in Nat /\ N(x) < ParamBase /\ S # {}
                      /\ x.n = 0
           Num(x)  == x.k = "num" /\ x.n \in Nat /\ N(x) = x.n /\ S = {} /\ x.n < ParamBase /\ x.s = ""
           Arg(x)  == x.k = "arg" /\ x.n \in Nat /\ N(x) = ParamBase + x.n /\ x.s = ""
           Same(x, y) == x = [k |-> x.k, s |-> x.s, n |-> x.n] /\ y = [k |-> y.k, s |-> y.s, n |-> y.n]
<1>3. ASSUME NEW x, IsVreg(x), Usable(S, x), Met(q, x)
      PROVE  (Name(x) \/ Num(x) \/ Arg(x)) /\ x = [k |-> x.k, s |-> x.s, n |-> x.n]
  <2>1. x \in Words
    BY <1>3 DEF Usable
  <2>2. CASE x.k = "name"
    <3>1. SymOf(q, x.s) # 0 /\ x.s \in S
      BY <1>3, <2>2 DEF Met, Usable
    <3> DEFINE i == SymOf(q, x.s)
    <3>2. i \in 0..Len(q.syms) /\ (i # 0 => q.syms[i].s = x.s)
      BY <1>1, SymOfIs
    <3>3. N(x) = q.syms[i].v
      BY <2>2, <3>1 DEF NumberIn
    <3>4. x.n = 0 /\ x = [k |-> x.k, s |-> x.s, n |-> x.n]
      BY <2>1, <2>2 DEF Words
    <3> HIDE DEF i
    <3>5. i \in 1..Len(q.syms)
      BY <1>1, <3>1, <3>2 DEF i
    <3>6. N(x) \in Nat /\ N(x) < q.next
      BY <1>1, <1>2, <3>3, <3>5
    <3> HIDE DEF N
    <3>7. N(x) < ParamBase
      BY <1>1, <3>6
    <3> QED
      BY <2>2, <3>1, <3>2, <3>3, <3>4, <3>5, <3>6, <3>7 DEF i
  <2>3. CASE x.k = "num"
    <3>1. x.n \in Nat /\ x.s = "" /\ x = [k |-> x.k, s |-> x.s, n |-> x.n]
      BY <2>1, <2>3 DEF Words
    <3>2. S = {} /\ x.n < ParamBase
      BY <1>3, <2>3 DEF Usable
    <3>3. N(x) = x.n
      BY <2>3 DEF NumberIn
    <3> QED
      BY <2>3, <3>1, <3>2, <3>3
  <2>4. CASE x.k = "arg"
    <3>1. x.n \in Nat /\ x.s = "" /\ x = [k |-> x.k, s |-> x.s, n |-> x.n]
      BY <2>1, <2>4 DEF Words
    <3>3. N(x) = ParamBase + x.n
      BY <2>4 DEF NumberIn, Param
    <3> QED
      BY <2>4, <3>1, <3>3
  <2> QED
    BY <1>3, <2>2, <2>3, <2>4 DEF IsVreg
<1>4. (Name(v) \/ Num(v) \/ Arg(v)) /\ v = [k |-> v.k, s |-> v.s, n |-> v.n]
  BY <1>3
<1>5. (Name(w) \/ Num(w) \/ Arg(w)) /\ w = [k |-> w.k, s |-> w.s, n |-> w.n]
  BY <1>3
<1> HIDE DEF N
<1>6. ASSUME Name(v), Name(w) PROVE N(v) # N(w)
  <2>1. v.s # w.s
    BY <1>4, <1>5, <1>6
  <2> QED
    BY <1>1, <1>6, <2>1
<1>7. ASSUME Num(v), Num(w) PROVE N(v) # N(w)
  BY <1>4, <1>5, <1>7
<1>8. ASSUME Arg(v), Arg(w) PROVE N(v) # N(w)
  <2>1. v.n # w.n
    BY <1>4, <1>5, <1>8
  <2>2. \A a, b \in Nat : a # b => ParamBase + a # ParamBase + b
    BY <1>1
  <2> QED
    BY <1>8, <2>1, <2>2
<1>9. \A a, b \in Nat : a < ParamBase => a # ParamBase + b
  BY <1>1
<1>10. \A x, y : (Name(x) \/ Num(x)) /\ Arg(y) => N(x) # N(y)
  BY <1>9
<1> QED
  BY <1>4, <1>5, <1>6, <1>7, <1>8, <1>10 DEF N

LEMMA NamesHold ==
  ASSUME Inv, Conforms(text)
  PROVE  NamesApart
<1>1. PICK j \in 0..Len(text) : Standing(text, j, r, types, strings, funcs, F, B) /\ (Reached(j) \/ ReadUpTo = {})
  BY Between
<1>2. CASE ReadUpTo = {}
  BY <1>2 DEF NamesApart
<1>3. CASE Reached(j)
  <2>1. ReadUpTo = {j} /\ Heading(j) = HeadAt(text, j)
    BY <1>3 DEF Reached
  <2>2. Fine(NamesAt(text, j), r)
        /\ \A w \in ToSet(WordsIn(text, HeadAt(text, j), j)) : IsVreg(w) => Usable(NamesAt(text, j), w) /\ Met(r, w)
    BY <1>1 DEF Standing
  <2>3. \A v, w \in ToSet(WordsIn(text, HeadAt(text, j), j)) :
           IsVreg(v) /\ IsVreg(w) /\ v # w => NumberIn(r, v) # NumberIn(r, w)
    <3> DEFINE S == NamesAt(text, j)
               U == ToSet(WordsIn(text, HeadAt(text, j), j))
    <3> HIDE DEF S, U
    <3> SUFFICES ASSUME NEW v \in U, NEW w \in U, IsVreg(v), IsVreg(w), v # w
                 PROVE  NumberIn(r, v) # NumberIn(r, w)
      BY DEF U
    <3>1. Fine(S, r) /\ Usable(S, v) /\ Met(r, v) /\ Usable(S, w) /\ Met(r, w)
      BY <2>2 DEF S, U
    <3> QED
      BY <3>1, TwoNumbers
  <2> QED
    BY <2>1, <2>3, Zenon DEF NamesApart
<1> QED
  BY <1>1, <1>2, <1>3

LEMMA LayoutsHold ==
  ASSUME Inv, Conforms(text)
  PROVE  LayoutsAgree
<1>1. PICK j \in 0..Len(text) : Standing(text, j, r, types, strings, funcs, F, B) /\ (Reached(j) \/ ReadUpTo = {})
  BY Between
<1>2. types = Known(text, j+1)
  BY <1>1 DEF Standing
<1>3. types = FlattenSeq([i \in 1..j |-> text[i].types])
  <2>1. 1..(j+1)-1 = 1..j
    BY StatementsAre
  <2> QED
    BY <1>2, <2>1 DEF Known
<1>4. \A i \in DOMAIN types : SoundLayout(types[i].t)
  <2> DEFINE k == j+1
  <2>1. k \in 1..Len(text)+1
    BY StatementsAre
  <2> HIDE DEF k
  <2>2. TypesOK(Known(text, k))
    BY <2>1, KnownFine
  <2>3. \A e \in ToSet(types) : GoodType(e.t)
    BY <1>2, <2>2 DEF TypesOK, k
  <2>4. \A i \in DOMAIN types : types[i] \in ToSet(types)
    BY DEF ToSet
  <2> QED
    BY <2>3, <2>4 DEF GoodType
<1>5. \A i \in ReadUpTo : i = j
  BY <1>1 DEF Reached
<1> QED
  BY <1>3, <1>4, <1>5, Zenon DEF LayoutsAgree

LEMMA StatementsHold ==
  ASSUME Inv, Conforms(text), r.fp.n <= FpMax
  PROVE  StatementsKept
<1>1. PICK j \in 0..Len(text) : Standing(text, j, r, types, strings, funcs, F, B) /\ (Reached(j) \/ ReadUpTo = {})
  BY Between
<1>2. CASE ReadUpTo = {}
  BY <1>2 DEF StatementsKept
<1>3. CASE Reached(j) /\ HeadAt(text, j) = 0
  BY <1>3 DEF StatementsKept, Reached
<1>4. CASE Reached(j) /\ HeadAt(text, j) # 0
  <2> DEFINE h == HeadAt(text, j)
             m == MeansIn(text, h, j)
             g == funcs[Len(funcs)]
             code == CodeOf(g)
  <2>1. ReadUpTo = {j} /\ Heading(j) = h
    BY <1>4 DEF Reached
  <2>2. /\ g.nparams = text[h].params /\ g.vararg = text[h].vararg
        /\ Len(code) = Len(m) /\ \A i \in 1..Len(m) : Tells(r, code[i], m[i])
    BY <1>1, <1>4 DEF Standing, Coded
  <2>3. IsSeq(m)
    <3>1. j \in Nat /\ h \in 0..j /\ Len(text) \in Nat
      <4>1. j \in Nat /\ Len(text) \in Nat
        BY StatementsAre
      <4> QED
        BY <4>1, HeadStep
    <3>2. CASE h = j
      <4>1. m = <<>>
        BY <3>1, <3>2, WordsNone
      <4> QED
        BY <4>1, EmptyIs
    <3>3. CASE h # j
      <4> DEFINE i == j-1
      <4>1. i \in 0..Len(text)-1 /\ h \in 0..i /\ i+1 = j /\ i+1 \in 1..Len(text)
        BY <3>1, <3>3
      <4> HIDE DEF i, h
      <4>2. IsSeq(MeansIn(text, h, i)) /\ MeansIn(text, h, i+1) = MeansIn(text, h, i) \o text[i+1].means
        BY <4>1, MeansLast
      <4>3. IsSeq(text[i+1].means)
        BY <4>1, StatementsAre
      <4> DEFINE a == MeansIn(text, h, i)
                 b == text[i+1].means
      <4>4. IsSeq(MeansIn(text, h, i+1))
        <5>1. IsSeq(a) /\ IsSeq(b) /\ MeansIn(text, h, i+1) = a \o b
          BY <4>2, <4>3
        <5> HIDE DEF a, b
        <5>2. IsSeq(a \o b)
          BY <5>1, ConcatIs
        <5> QED
          BY <5>1, <5>2
      <4> QED
        BY <4>1, <4>4 DEF h
    <3> QED
      BY <3>2, <3>3
  <2>4. DOMAIN m = 1..Len(m)
    <3> HIDE DEF m
    <3> QED
      BY <2>3, SeqIs DEF IsSeq
  <2>5. \A x, y : Tells(r, x, y) => Says(r, x, y)
    BY DEF Tells, Says, Holds
  <2> HIDE DEF m, g, h
  <2>6. \A i \in DOMAIN m : Says(r, code[i], m[i])
    BY <2>2, <2>4, <2>5
  <2> QED
    BY <2>1, <2>2, <2>6, Zenon DEF StatementsKept, m, g, h
<1> QED
  BY <1>1, <1>2, <1>3, <1>4

-----------------------------------------------------------------------------
(* Wherever the parser is in a file that conforms, it stands between two   *)
(* statements, and has built what those before say; or it stands before    *)
(* the brace of a structure that fills its table of fields.                *)
THEOREM InvHolds == Spec => []Inv
  BY InitInv, NextInv, PTL DEF Spec

(* The indices parse() keeps stay within what it has built, its tables     *)
(* within their limits, and each operand that is a constant in the table   *)
(* of immediates is one that is in it.                                     *)
THEOREM TypesKept == Spec => [](Conforms(text) => TypeOK)
<1>1. Inv => (Conforms(text) => TypeOK)
  BY TypesHold
<1> QED
  BY <1>1, InvHolds, PTL

(* sym_intern and parse_operand give vregs that are written differently    *)
(* different numbers, none of them that of a parameter.                    *)
THEOREM NumbersApart == Spec => [](Conforms(text) => NamesApart)
<1>1. Inv => (Conforms(text) => NamesApart)
  BY NamesHold
<1> QED
  BY <1>1, InvHolds, PTL

(* lookup_ty finds, and type_define adds, the types as the builder would   *)
(* lay them out, with no two fields of a structure on one byte.            *)
THEOREM LayoutsRead == Spec => [](Conforms(text) => LayoutsAgree)
<1>1. Inv => (Conforms(text) => LayoutsAgree)
  BY LayoutsHold
<1> QED
  BY <1>1, InvHolds, PTL

(* After every statement, the function parse() is in has the instructions  *)
(* its statements mean, predicates by their values in include/ir.h, as     *)
(* long as the constants fit their table.                                  *)
THEOREM StatementsRead == Spec => [](Conforms(text) /\ r.fp.n <= FpMax => StatementsKept)
<1>1. Inv => (Conforms(text) /\ r.fp.n <= FpMax => StatementsKept)
  BY StatementsHold
<1> QED
  BY <1>1, InvHolds, PTL
=============================================================================
