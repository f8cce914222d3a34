------------------------ MODULE ParserMeaning_proofs ------------------------
(***************************************************************************)
(* Proofs that a parse whose callbacks leave the decision to the parser    *)
(* does what its grammar means, for every grammar and input, and that a    *)
(* translation calls back for the records of the tree that no node skips.  *)
(***************************************************************************)
EXTENDS ParserMeaning, ParserAst_proofs, WellFoundedInduction

-----------------------------------------------------------------------------
(* The meaning of each operator.                                           *)

Solves(x, e) == \A p \in Points(x) : e[p] = Mean(x, e, p)

LEMMA OpMeans ==
  ASSUME NEW x, NEW e, Solves(x, e), NEW p \in Points(x), NEW o, o = OpAt(x, p.op)
  PROVE  /\ o.id = "ALT" => e[p] = MeanAlt(e, p, o)
         /\ o.id = "CAT" => e[p] = MeanCat(e, p, o)
         /\ o.id = "REP" => e[p] = MeanRep(e, p, o)
         /\ o.id = "RNM" => e[p] = MeanRnm(x, e, p, o)
         /\ o.id \in TerminalIds => e[p] = MeanTerminal(x, p, o)
         /\ o.id = "AND" => e[p] = Check(Ahead(e, p))
         /\ o.id = "NOT" => e[p] = Check(~Ahead(e, p))
         /\ o.id = "BKA" => e[p] = Check(Behind(x, e, p))
         /\ o.id = "BKN" => e[p] = Check(~Behind(x, e, p))
         /\ o.id = "ABG" => e[p] = Check(p.beg = 0)
         /\ o.id = "AEN" => e[p] = Check(p.beg = Len(x.input))
BY DEF Solves, Mean, TerminalIds

LEMMA PointParts ==
  ASSUME NEW i, NEW k, NEW beg, NEW end, NEW rec
  PROVE  LET p == Point(i, k, beg, end, rec) IN
         p.op = i /\ p.k = k /\ p.beg = beg /\ p.end = end /\ p.rec = rec
BY DEF Point

\* what the operators that have children say in terms of the points of the children
LEMMA AltMeans ==
  ASSUME NEW x, NEW e, Solves(x, e), NEW i, NEW k, NEW beg, NEW end, NEW rec,
         Point(i, k, beg, end, rec) \in Points(x), OpAt(x, i).id = "ALT"
  PROVE  LET r == e[Node(OpAt(x, i).kids[k + 1], beg, end, rec)] IN
         e[Point(i, k, beg, end, rec)] =
           IF k >= Len(OpAt(x, i).kids) THEN Failed
           ELSE IF r.ok THEN r ELSE e[Point(i, k + 1, beg, end, rec)]
BY OpMeans, PointParts DEF MeanAlt, Kid, Rest

LEMMA CatMeans ==
  ASSUME NEW x, NEW e, Solves(x, e), NEW i, NEW k, NEW beg, NEW end, NEW rec,
         Point(i, k, beg, end, rec) \in Points(x), OpAt(x, i).id = "CAT"
  PROVE  LET r == e[Node(OpAt(x, i).kids[k + 1], beg, end, rec)] IN
         e[Point(i, k, beg, end, rec)] =
           IF k >= Len(OpAt(x, i).kids) THEN Found(0, << >>)
           ELSE IF r.ok THEN Then(r, e[Point(i, k + 1, beg + r.len, end, rec)]) ELSE Failed
BY OpMeans, PointParts DEF MeanCat, Kid, Rest

LEMMA RepMeans ==
  ASSUME NEW x, NEW e, Solves(x, e), NEW i, NEW k, NEW beg, NEW end, NEW rec,
         Point(i, k, beg, end, rec) \in Points(x), OpAt(x, i).id = "REP"
  PROVE  LET r == e[Node(i + 1, beg, end, rec)] IN
         e[Point(i, k, beg, end, rec)] =
           IF k >= OpAt(x, i).max THEN Found(0, << >>)
           ELSE IF ~r.ok THEN Check(k >= OpAt(x, i).min)
           ELSE IF r.len = 0 THEN r ELSE Then(r, e[Point(i, k + 1, beg + r.len, end, rec)])
BY OpMeans, PointParts DEF MeanRep, Kid, Rest

\* a rule is what its definition is, with a node around it
LEMMA RnmMeans ==
  ASSUME NEW x, NEW e, Solves(x, e), NEW i, NEW k, NEW beg, NEW end, NEW rec,
         Point(i, k, beg, end, rec) \in Points(x), OpAt(x, i).id = "RNM"
  PROVE  LET r == e[Node(x.g.rules[OpAt(x, i).index].op, beg, end, rec)]
             m == e[Point(i, k, beg, end, rec)]
         IN /\ m.ok <=> r.ok
            /\ m.len = r.len
            /\ m = Named(x, OpAt(x, i).index, Point(i, k, beg, end, rec), r)
<1> DEFINE r == e[Node(x.g.rules[OpAt(x, i).index].op, beg, end, rec)]
           p == Point(i, k, beg, end, rec)
<1>1. e[p] = Named(x, OpAt(x, i).index, p, r)
  BY OpMeans, PointParts DEF MeanRnm, Kid
<1>2. (Named(x, OpAt(x, i).index, p, r).ok <=> r.ok) /\ Named(x, OpAt(x, i).index, p, r).len = r.len
  BY DEF Named, Found
<1> QED
  BY <1>1, <1>2

-----------------------------------------------------------------------------
(* The invariant: what the operators on the stack are in the middle of.    *)

\* the opcode that the operator of f has called
ChildOp(f) ==
  IF Id(f) \in ListIds THEN Opcode(f.op).kids[f.k]
  ELSE IF Id(f) = "RNM" THEN grammar.rules[Opcode(f.op).index].op
  ELSE f.op + 1

\* the node that runs above frame n of s
OpAbove(s, n) == IF n = 0 THEN 0 ELSE ChildOp(s[n])
Rec(s, n) == \A m \in 1..n : ~IsLook(s[m])
NodeAbove(s, n) == Node(OpAbove(s, n), NodeBeg(s, n), NodeSubEnd(s, n), Rec(s, n))

\* the phrase of w is len characters and then the phrase of r
Extends(w, len, r) == (w.ok <=> r.ok) /\ w.len = IF r.ok THEN len + r.len ELSE 0

\* What an operator has done so far is what its opcode means, up to what is left of it.
FrameMeans(e, f, rec) ==
  LET Whole == e[Point(f.op, 0, f.beg, f.subEnd, rec)]
      Left(k) == e[Point(f.op, k, f.beg + f.len, f.subEnd, rec)]
  IN /\ Id(f) = "ALT" => Whole = e[Point(f.op, f.k - 1, f.beg, f.subEnd, rec)]
     /\ Id(f) = "CAT" => Extends(Whole, f.len, Left(f.k - 1))
     /\ Id(f) = "REP" => f.k < Opcode(f.op).max /\ Extends(Whole, f.len, Left(f.k))
     /\ Id(f) \in LookBackIds =>
          /\ f.k =< LookBackLimit(f)
          /\ \A d \in 0..(f.k - 1) : ~e[Node(f.op + 1, f.beg - d, f.beg, FALSE)].ok

StackMeans(e, s) ==
  \A n \in 1..Len(s) : s[n].op = OpAbove(s, n - 1) /\ FrameMeans(e, s[n], Rec(s, n - 1))

\* a node that returns to the stack s has done what its opcode means
AnswerMeans(e, s, state, length) ==
  LET r == e[NodeAbove(s, Len(s))] IN (state = "MATCH" <=> r.ok) /\ length = r.len

MeanInv(nodes) ==
  Parsing =>
    LET e == Meaning(ThisParse(nodes)) IN
    /\ StackMeans(e, stack)
    /\ pc = "call" => callee = OpAbove(stack, Len(stack))
    /\ pc = "return" => AnswerMeans(e, stack, uiOpState, uiPhraseLength)
    /\ uiSubStringEnd \in Ends(grammar, config)
    /\ uiLookBehindLength \in 0..uiInputStringLength
    /\ spState.outcome = "none"

\* A frame may be pushed that is the opcode called.
LEMMA PushMeans ==
  ASSUME NEW e, NEW s \in Seq(Frame), StackMeans(e, s), NEW f \in Frame,
         f.op = OpAbove(s, Len(s)), FrameMeans(e, f, Rec(s, Len(s)))
  PROVE  /\ StackMeans(e, Append(s, f))
         /\ OpAbove(Append(s, f), Len(Append(s, f))) = ChildOp(f)
         /\ Rec(Append(s, f), Len(Append(s, f))) <=> Rec(s, Len(s)) /\ ~IsLook(f)
<1> DEFINE t == Append(s, f)
<1>1. /\ t \in Seq(Frame)
      /\ Len(t) = Len(s) + 1
      /\ \A n \in 1..Len(s) : t[n] = s[n]
      /\ t[Len(s) + 1] = f
  BY AppendLemma DEF Top
<1>2. Len(s) \in Nat
  BY LenProperties
<1> HIDE DEF t
<1>3. \A n \in 0..Len(s) : OpAbove(t, n) = OpAbove(s, n)
  BY <1>1, <1>2 DEF OpAbove
<1>4. \A n \in 0..Len(s) : Rec(t, n) <=> Rec(s, n)
  BY <1>1, <1>2 DEF Rec
<1>5. ASSUME NEW n \in 1..Len(t)
      PROVE  t[n].op = OpAbove(t, n - 1) /\ FrameMeans(e, t[n], Rec(t, n - 1))
  <2>1. CASE n \in 1..Len(s)
    <3>1. t[n] = s[n] /\ n - 1 \in 0..Len(s)
      BY <1>1, <1>2, <2>1
    <3>2. s[n].op = OpAbove(s, n - 1) /\ FrameMeans(e, s[n], Rec(s, n - 1))
      BY <2>1 DEF StackMeans
    <3>3. Rec(t, n - 1) = Rec(s, n - 1)
      BY <1>4, <3>1 DEF Rec
    <3> QED
      BY <1>3, <3>1, <3>2, <3>3
  <2>2. CASE n = Len(s) + 1
    <3>1. t[n] = f /\ n - 1 = Len(s) /\ n - 1 \in 0..Len(s)
      BY <1>1, <1>2, <2>2
    <3>3. Rec(t, n - 1) = Rec(s, Len(s))
      BY <1>4, <3>1 DEF Rec
    <3> QED
      BY <1>3, <3>1, <3>3
  <2> QED
    BY <1>1, <1>2, <2>1, <2>2
<1>6. OpAbove(t, Len(t)) = ChildOp(f)
  BY <1>1, <1>2 DEF OpAbove
<1>7. Rec(t, Len(t)) <=> Rec(s, Len(s)) /\ ~IsLook(f)
  <2>1. \A n \in 1..Len(t) : n \in 1..Len(s) \/ n = Len(s) + 1
    BY <1>1, <1>2
  <2>2. Len(s) + 1 \in 1..Len(t) /\ \A n \in 1..Len(s) : n \in 1..Len(t)
    BY <1>1, <1>2
  <2> QED
    BY <1>1, <2>1, <2>2 DEF Rec
<1> QED
  BY <1>5, <1>6, <1>7 DEF StackMeans, t

\* The frame on top is the opcode that the frames below have called.
LEMMA PopMeans ==
  ASSUME NEW e, NEW s \in Seq(Frame), s # << >>, StackMeans(e, s)
  PROVE  /\ StackMeans(e, Pop(s))
         /\ Top(s).op = OpAbove(Pop(s), Len(Pop(s)))
         /\ FrameMeans(e, Top(s), Rec(Pop(s), Len(Pop(s))))
         /\ OpAbove(s, Len(s)) = ChildOp(Top(s))
         /\ Rec(s, Len(s)) <=> Rec(Pop(s), Len(Pop(s))) /\ ~IsLook(Top(s))
<1> DEFINE t == Pop(s)
<1>1. /\ t \in Seq(Frame)
      /\ Len(s) \in Nat \ {0}
      /\ Len(t) = Len(s) - 1
      /\ \A n \in 1..(Len(s) - 1) : t[n] = s[n]
      /\ Top(s) = s[Len(s)]
  BY PopLemma
<1> HIDE DEF t
<1>3. \A n \in 0..Len(t) : OpAbove(t, n) = OpAbove(s, n)
  BY <1>1 DEF OpAbove
<1>4. \A n \in 0..Len(t) : Rec(t, n) = Rec(s, n)
  BY <1>1 DEF Rec
<1>5. ASSUME NEW n \in 1..Len(t)
      PROVE  t[n].op = OpAbove(t, n - 1) /\ FrameMeans(e, t[n], Rec(t, n - 1))
  <2>1. t[n] = s[n] /\ n - 1 \in 0..Len(t) /\ n \in 1..Len(s)
    BY <1>1
  <2>2. s[n].op = OpAbove(s, n - 1) /\ FrameMeans(e, s[n], Rec(s, n - 1))
    BY <2>1 DEF StackMeans
  <2> QED
    BY <1>3, <1>4, <2>1, <2>2
<1>6. /\ s[Len(s)].op = OpAbove(s, Len(s) - 1)
      /\ FrameMeans(e, s[Len(s)], Rec(s, Len(s) - 1))
  BY <1>1 DEF StackMeans
<1>7. Len(t) = Len(s) - 1 /\ Len(t) \in 0..Len(t)
  BY <1>1
<1>8. Rec(s, Len(s)) <=> Rec(s, Len(s) - 1) /\ ~IsLook(Top(s))
  <2>1. \A n \in 1..Len(s) : n \in 1..(Len(s) - 1) \/ n = Len(s)
    BY <1>1
  <2>2. Len(s) \in 1..Len(s) /\ \A n \in 1..(Len(s) - 1) : n \in 1..Len(s)
    BY <1>1
  <2> QED
    BY <1>1, <2>1, <2>2 DEF Rec
<1>9. OpAbove(s, Len(s)) = ChildOp(Top(s))
  BY <1>1 DEF OpAbove
<1> QED
  BY <1>1, <1>3, <1>4, <1>5, <1>6, <1>7, <1>8, <1>9 DEF StackMeans, t

-----------------------------------------------------------------------------
(* The hypotheses, at the parse that runs.                                 *)

\* What the steps of a parse may assume.
Meant(nodes) ==
  /\ Contract /\ IInv /\ Decided /\ MeanInv(nodes)
  /\ AllPlain(nodes) /\ AllMean(nodes)

LEMMA InputSize ==
  ASSUME Contract, ConfigOK
  PROVE  uiInputStringLength \in Nat /\ Len(config.input) = uiInputStringLength
BY ConfigFacts DEF uiInputStringLength

\* The grammar has a meaning at every point of the parse, and the parser can give it.
LEMMA ParseFacts ==
  ASSUME NEW nodes, Meant(nodes), Parsing
  PROVE  LET x == ThisParse(nodes)
             e == Meaning(x)
         IN /\ Solves(x, e)
            /\ \A p \in Points(x) : e[p] \in Results
            /\ PlainParse(x, Ends(grammar, config))
            /\ x.g = grammar /\ x.input = config.input /\ x.start = config.start
            /\ x.behind = uiLookBehindLength /\ x.nodes = nodes
            /\ \A i : OpAt(x, i) = Opcode(i)
            /\ Len(x.input) = uiInputStringLength
<1> DEFINE x == ThisParse(nodes)
<1>1. ConfigOK /\ grammar \in Grammars /\ uiLookBehindLength \in 0..uiInputStringLength
  BY RunFacts DEF Meant, MeanInv
<1>2. Len(config.input) = uiInputStringLength
  BY DEF uiInputStringLength
<1>3. Accepted(grammar, config) /\ config \in Configs
  BY <1>1, <1>2 DEF ConfigOK, Accepted, uiRuleCount, Meant, Decided
<1>4. PlainParse(x, Ends(grammar, config))
  BY <1>1, <1>2, <1>3 DEF Meant, AllPlain, ThisParse
<1>5. HasMeaning(x)
  BY <1>1, <1>2, <1>3 DEF Meant, AllMean, ThisParse
<1>6. /\ x.g = grammar /\ x.input = config.input /\ x.start = config.start
      /\ x.behind = uiLookBehindLength /\ x.nodes = nodes
  BY DEF ThisParse, ParseOf
<1>7. \A i : OpAt(x, i) = Opcode(i)
  BY <1>6 DEF OpAt, Opcode
<1> HIDE DEF x
<1>8. Solves(x, Meaning(x)) /\ \A p \in Points(x) : Meaning(x)[p] \in Results
  BY <1>5 DEF HasMeaning, Means, Solves
<1> QED
  BY <1>2, <1>4, <1>6, <1>7, <1>8 DEF x

LEMMA PointFacts ==
  ASSUME NEW nodes, NEW i \in 0..Len(grammar.ops), NEW k \in Nat,
         NEW beg \in 0..uiInputStringLength, NEW end \in 0..uiInputStringLength, NEW rec \in BOOLEAN
  PROVE  /\ Point(i, k, beg, end, rec) \in Points(ThisParse(nodes))
         /\ Node(i, beg, end, rec) \in Points(ThisParse(nodes))
         /\ Node(i, beg, end, rec) = Point(i, 0, beg, end, rec)
BY DEF Points, Point, Node, ThisParse, ParseOf, uiInputStringLength

LEMMA ResultParts ==
  ASSUME NEW r \in Results
  PROVE  r.ok \in BOOLEAN /\ r.len \in Nat /\ (~r.ok => r = Failed /\ r.len = 0)
<1>1. CASE r = Failed
  BY <1>1 DEF Failed
<1>2. CASE r # Failed
  BY <1>2 DEF Results
<1> QED
  BY <1>1, <1>2

\* The meaning is a result at each point of the parse.
LEMMA ResultFacts ==
  ASSUME NEW nodes, Meant(nodes), Parsing, NEW p \in Points(ThisParse(nodes)),
         NEW r, r = Meaning(ThisParse(nodes))[p]
  PROVE  r \in Results /\ r.ok \in BOOLEAN /\ r.len \in Nat /\ (~r.ok => r = Failed /\ r.len = 0)
<1>1. r \in Results
  BY ParseFacts
<1> QED
  BY <1>1, ResultParts

\* The definitions that speak of the grammar do not change within a parse.
LEMMA MeansCarried ==
  ASSUME NEW nodes, UNCHANGED <<app, parse>>
  PROVE  /\ Meaning(ThisParse(nodes))' = Meaning(ThisParse(nodes))
         /\ \A e : StackMeans(e, stack)' <=> StackMeans(e, stack')
         /\ OpAbove(stack, Len(stack))' = OpAbove(stack', Len(stack'))
         /\ NodeAbove(stack, Len(stack))' = NodeAbove(stack', Len(stack'))
         /\ Ends(grammar, config)' = Ends(grammar, config)
<1>1. grammar' = grammar /\ config' = config /\ uiLookBehindLength' = uiLookBehindLength
  BY DEF app, parse
<1>2. ThisParse(nodes)' = ThisParse(nodes)
  BY <1>1 DEF ThisParse
<1>3. Meaning(ThisParse(nodes))' = Meaning(ThisParse(nodes))
  BY <1>2
<1>4. OpAbove(stack, Len(stack))' = OpAbove(stack', Len(stack'))
  BY <1>1 DEF OpAbove, ChildOp, Id, Opcode
<1>5. NodeSubEnd(stack, Len(stack))' = NodeSubEnd(stack', Len(stack'))
      /\ NodeBeg(stack, Len(stack))' = NodeBeg(stack', Len(stack'))
  BY Carried
<1>6. NodeAbove(stack, Len(stack))' = NodeAbove(stack', Len(stack'))
  BY <1>1, <1>4, <1>5 DEF NodeAbove, Rec, IsLook, Id, Opcode
<1>7. \A e : StackMeans(e, stack)' <=> StackMeans(e, stack')
  BY <1>1 DEF StackMeans, FrameMeans, OpAbove, ChildOp, Rec, IsLook, Id, Opcode, LookBackLimit
<1>8. Ends(grammar, config)' = Ends(grammar, config)
  BY <1>1
<1> QED
  BY <1>3, <1>4, <1>6, <1>7, <1>8

-----------------------------------------------------------------------------
(* How a step ends.                                                        *)

LEMMA CallMeans ==
  ASSUME NEW nodes, Meant(nodes), Parsing, UNCHANGED <<app, parse>>, spState' = spState,
         pc' = "call",
         StackMeans(Meaning(ThisParse(nodes)), stack'),
         callee' = OpAbove(stack', Len(stack')),
         uiSubStringEnd' \in Ends(grammar, config)
  PROVE  MeanInv(nodes)'
<1> DEFINE e == Meaning(ThisParse(nodes))
<1>1. spState.outcome = "none" /\ uiLookBehindLength \in 0..uiInputStringLength
  BY DEF Meant, MeanInv
<1>2. uiInputStringLength' = uiInputStringLength /\ uiLookBehindLength' = uiLookBehindLength
  BY Carried DEF parse
<1>3. e' = e
  BY MeansCarried
<1>4. StackMeans(e, stack)' /\ callee' = OpAbove(stack, Len(stack))'
      /\ (uiSubStringEnd \in Ends(grammar, config))'
  BY MeansCarried
<1> HIDE DEF e
<1> QED
  BY <1>1, <1>2, <1>3, <1>4 DEF MeanInv, e

LEMMA ReturnMeans ==
  ASSUME NEW nodes, Meant(nodes), Parsing, UNCHANGED <<app, parse>>, spState' = spState,
         pc' = "return",
         StackMeans(Meaning(ThisParse(nodes)), stack'),
         AnswerMeans(Meaning(ThisParse(nodes)), stack', uiOpState', uiPhraseLength'),
         uiSubStringEnd' \in Ends(grammar, config)
  PROVE  MeanInv(nodes)'
<1> DEFINE e == Meaning(ThisParse(nodes))
<1>1. spState.outcome = "none" /\ uiLookBehindLength \in 0..uiInputStringLength
  BY DEF Meant, MeanInv
<1>2. uiInputStringLength' = uiInputStringLength /\ uiLookBehindLength' = uiLookBehindLength
  BY Carried DEF parse
<1>3. e' = e
  BY MeansCarried
<1>4. StackMeans(e, stack)' /\ (uiSubStringEnd \in Ends(grammar, config))'
  BY MeansCarried
<1>5. AnswerMeans(e, stack, uiOpState, uiPhraseLength)'
  BY <1>3, MeansCarried DEF AnswerMeans
<1> HIDE DEF e
<1> QED
  BY <1>1, <1>2, <1>3, <1>4, <1>5 DEF MeanInv, e

LEMMA ThrowMeans ==
  ASSUME NEW nodes, pc' = "idle"
  PROVE  MeanInv(nodes)'
BY DEF MeanInv, Parsing

\* An operator that ends with an AST hook returns or throws.
LEMMA FinishMeans ==
  ASSUME NEW nodes, Meant(nodes), Parsing, UNCHANGED <<app, parse>>,
         NEW frames, NEW a, NEW state, NEW offset, NEW length,
         Finish(frames, a, state, offset, length),
         StackMeans(Meaning(ThisParse(nodes)), frames),
         AnswerMeans(Meaning(ThisParse(nodes)), frames, state, length),
         uiSubStringEnd' \in Ends(grammar, config)
  PROVE  MeanInv(nodes)'
<1>1. CASE a.error
  BY <1>1, ThrowMeans DEF Finish, Throw
<1>2. CASE ~a.error
  <2>1. /\ pc' = "return" /\ stack' = frames /\ uiOpState' = state /\ uiPhraseLength' = length
        /\ spState' = spState
    BY <1>2 DEF Finish, Return
  <2> QED
    BY <2>1, ReturnMeans
<1> QED
  BY <1>1, <1>2

\* An operator that begins pushes its frame and calls a child.
LEMMA OpenMeans ==
  ASSUME NEW nodes, Meant(nodes), pc = "call", UNCHANGED <<app, parse>>, spState' = spState,
         NEW f \in Frame, f.op = callee, f.beg = uiOffset, f.subEnd = uiSubStringEnd,
         FrameMeans(Meaning(ThisParse(nodes)), f, Rec(stack, Len(stack))),
         Call(Append(stack, f), ChildOp(f)),
         uiSubStringEnd' \in Ends(grammar, config)
  PROVE  MeanInv(nodes)'
<1>1. Parsing /\ stack \in Seq(Frame)
  BY CallFacts, RunFacts DEF Meant, StackOK
<1>2. StackMeans(Meaning(ThisParse(nodes)), stack) /\ callee = OpAbove(stack, Len(stack))
  BY <1>1 DEF Meant, MeanInv
<1>3. /\ StackMeans(Meaning(ThisParse(nodes)), Append(stack, f))
      /\ OpAbove(Append(stack, f), Len(Append(stack, f))) = ChildOp(f)
  BY <1>1, <1>2, PushMeans
<1> QED
  BY <1>1, <1>3, CallMeans DEF Call

\* The answer of an operator that has no frame.
LEMMA LeafMeans ==
  ASSUME NEW nodes, Meant(nodes), pc = "call", NEW state, NEW length, LeafReturn(state, length),
         LET r == Meaning(ThisParse(nodes))[Node(callee, uiOffset, uiSubStringEnd, Rec(stack, Len(stack)))]
         IN (state = "MATCH" <=> r.ok) /\ length = r.len
  PROVE  MeanInv(nodes)'
<1>1. Parsing /\ uiOffset = NodeBeg(stack, Len(stack)) /\ uiSubStringEnd = NodeSubEnd(stack, Len(stack))
  BY CallFacts, RunFacts DEF Meant
<1>2. /\ StackMeans(Meaning(ThisParse(nodes)), stack) /\ callee = OpAbove(stack, Len(stack))
      /\ uiSubStringEnd \in Ends(grammar, config)
  BY <1>1 DEF Meant, MeanInv
<1>3. UNCHANGED <<app, parse, sub>> /\ spState' = spState /\ pc' = "return" /\ stack' = stack
      /\ uiOpState' = state /\ uiPhraseLength' = length /\ uiSubStringEnd' = uiSubStringEnd
  BY DEF LeafReturn, Return, sub
<1>4. AnswerMeans(Meaning(ThisParse(nodes)), stack, state, length)
  BY <1>1, <1>2 DEF AnswerMeans, NodeAbove
<1> QED
  BY <1>1, <1>2, <1>3, <1>4, ReturnMeans

-----------------------------------------------------------------------------
(* Operators that have been called.                                        *)

\* Where the node that has been called stands.
LEMMA CalledAt ==
  ASSUME NEW nodes, Meant(nodes), pc = "call"
  PROVE  /\ Parsing
         /\ callee \in 0..Len(grammar.ops)
         /\ uiOffset \in 0..uiInputStringLength
         /\ uiSubStringEnd \in 0..uiInputStringLength
         /\ uiOffset =< uiSubStringEnd
         /\ uiSubStringEnd \in Ends(grammar, config)
         /\ Rec(stack, Len(stack)) \in BOOLEAN
         /\ uiInputStringLength \in Nat
<1>1. Parsing /\ callee \in 0..Len(grammar.ops) /\ Positions
  BY CallFacts, RunFacts DEF Meant
<1> QED
  BY <1>1 DEF Positions, Meant, MeanInv, Rec

\* What a prediction map decides is so.
LEMMA Predicted ==
  ASSUME NEW nodes, Meant(nodes), pc = "call", PpptState(callee) # "ACTIVE"
  PROVE  LET r == Meaning(ThisParse(nodes))[Node(callee, uiOffset, uiSubStringEnd, Rec(stack, Len(stack)))]
         IN /\ PpptResult(PpptState(callee)) = "MATCH" <=> r.ok
            /\ PpptLength(PpptState(callee)) = r.len
<1> DEFINE x == ThisParse(nodes)
           rec == Rec(stack, Len(stack))
<1>1. /\ callee \in 0..Len(x.g.ops) /\ uiOffset \in 0..Len(x.input) /\ uiSubStringEnd \in Ends(grammar, config)
      /\ uiOffset =< uiSubStringEnd /\ rec \in BOOLEAN
  BY CalledAt, ParseFacts
<1>2. PpptAt(x.g, OpAt(x, callee), callee, x.input, uiOffset, uiSubStringEnd) = PpptState(callee)
  BY CalledAt, ParseFacts DEF PpptState, acpInputString
<1>3. MapsTrue(x, Ends(grammar, config))
  BY CalledAt, ParseFacts DEF PlainParse
<1> HIDE DEF x, rec
<1>4. LET value == PpptAt(x.g, OpAt(x, callee), callee, x.input, uiOffset, uiSubStringEnd)
          r == Meaning(x)[Node(callee, uiOffset, uiSubStringEnd, rec)]
      IN uiOffset =< uiSubStringEnd /\ value # "ACTIVE" =>
           (r.ok <=> PpptResult(value) = "MATCH") /\ r.len = PpptLength(value)
  BY <1>1, <1>3 DEF MapsTrue
<1> QED
  BY <1>1, <1>2, <1>4 DEF x, rec

LEMMA PredictMeans ==
  ASSUME NEW nodes, Meant(nodes), Predict
  PROVE  MeanInv(nodes)'
BY Predicted, LeafMeans DEF Predict, Calling, Undecided

\* The meaning of the opcode called, as far as it has no children.
LEMMA CalleeMeans ==
  ASSUME NEW nodes, Meant(nodes), pc = "call", NEW o, o = Opcode(callee)
  PROVE  LET x == ThisParse(nodes)
             p == Node(callee, uiOffset, uiSubStringEnd, Rec(stack, Len(stack)))
         IN /\ o.id \in TerminalIds => Meaning(x)[p] = MeanTerminal(x, p, o)
            /\ o.id = "ABG" => Meaning(x)[p] = Check(uiOffset = 0)
            /\ o.id = "AEN" => Meaning(x)[p] = Check(uiOffset = uiInputStringLength)
            /\ p.beg = uiOffset /\ p.end = uiSubStringEnd
<1> DEFINE x == ThisParse(nodes)
           e == Meaning(x)
           p == Node(callee, uiOffset, uiSubStringEnd, Rec(stack, Len(stack)))
<1>1. Parsing /\ p \in Points(x)
  BY CalledAt, PointFacts
<1>2. p.op = callee /\ p.beg = uiOffset /\ p.end = uiSubStringEnd
  BY DEF Node, Point
<1>3. Solves(x, e) /\ OpAt(x, callee) = o /\ Len(x.input) = uiInputStringLength
  BY <1>1, ParseFacts
<1> HIDE DEF x, e, p
<1>4. /\ o.id \in TerminalIds => e[p] = MeanTerminal(x, p, o)
      /\ o.id = "ABG" => e[p] = Check(p.beg = 0)
      /\ o.id = "AEN" => e[p] = Check(p.beg = Len(x.input))
  BY <1>1, <1>2, <1>3, OpMeans
<1> QED
  BY <1>2, <1>3, <1>4 DEF x, e, p

LEMMA MatchTerminalMeans ==
  ASSUME NEW nodes, Meant(nodes), MatchTerminal
  PROVE  MeanInv(nodes)'
<1> DEFINE x == ThisParse(nodes)
           o == Opcode(callee)
           p == Node(callee, uiOffset, uiSubStringEnd, Rec(stack, Len(stack)))
           r == Meaning(x)[p]
<1>1. pc = "call" /\ o.id \in TerminalIds
  BY DEF MatchTerminal, Calling
<1>2. r = MeanTerminal(x, p, o) /\ p.beg = uiOffset /\ p.end = uiSubStringEnd
  BY <1>1, CalleeMeans
<1>3. x.input = acpInputString
  BY <1>1, CalledAt, ParseFacts DEF acpInputString
<1> HIDE DEF x, p, r
<1>4. ASSUME NEW str, NEW fold
      PROVE  CharsAt(x, str, p.beg, p.end, fold) <=> StringAt(str, fold)
  BY <1>2, <1>3 DEF CharsAt, StringAt
<1>5. r = IF Terminal(o) THEN Found(TerminalLength(o), << >>) ELSE Failed
  BY <1>2, <1>3, <1>4 DEF MeanTerminal, Terminal, TerminalLength
<1>6. CASE Terminal(o)
  <2>1. LeafReturn("MATCH", TerminalLength(o))
    BY <1>6 DEF MatchTerminal
  <2>2. r.ok /\ r.len = TerminalLength(o)
    BY <1>5, <1>6 DEF Found
  <2> QED
    BY <1>1, <2>1, <2>2, LeafMeans DEF x, p, r
<1>7. CASE ~Terminal(o)
  <2>1. LeafReturn("NOMATCH", 0)
    BY <1>7 DEF MatchTerminal
  <2>2. ~r.ok /\ r.len = 0
    BY <1>5, <1>7 DEF Failed
  <2> QED
    BY <1>1, <2>1, <2>2, LeafMeans DEF x, p, r
<1> QED
  BY <1>6, <1>7

LEMMA AnchorMeans ==
  ASSUME NEW nodes, Meant(nodes), Anchor
  PROVE  MeanInv(nodes)'
<1> DEFINE here == IF Opcode(callee).id = "ABG" THEN 0 ELSE uiInputStringLength
           r == Meaning(ThisParse(nodes))[Node(callee, uiOffset, uiSubStringEnd, Rec(stack, Len(stack)))]
<1>1. pc = "call" /\ Opcode(callee).id \in {"ABG", "AEN"}
      /\ LeafReturn(IF uiOffset = here THEN "MATCH" ELSE "NOMATCH", 0)
  BY DEF Anchor, Calling
<1>2. r = Check(uiOffset = here)
  BY <1>1, CalleeMeans
<1> HIDE DEF here
<1>3. (r.ok <=> uiOffset = here) /\ r.len = 0
  BY <1>2 DEF Check, Found, Failed
<1> QED
  BY <1>1, <1>3, LeafMeans

LEMMA UdtMeans ==
  ASSUME NEW nodes, Meant(nodes), Udt
  PROVE  FALSE
<1>1. pc = "call" /\ Opcode(callee).id = "UDT"
  BY DEF Udt, Calling
<1>2. Opcode(callee).index \in 1..Len(grammar.udts)
  BY <1>1, CallFacts DEF Meant
<1> QED
  BY <1>2 DEF Meant, Decided

-----------------------------------------------------------------------------
(* Operators that begin.                                                   *)

\* The frame an operator pushes, and that nothing has been said of it yet.
LEMMA NewFrameMeans ==
  ASSUME NEW nodes, Meant(nodes), pc = "call", NEW k \in Nat,
         Opcode(callee).id \in ListIds \cup NextIds \cup {"RNM"},
         k = IF Opcode(callee).id \in ListIds THEN 1 ELSE 0
  PROVE  LET f == NewFrame(k) IN
         /\ f \in Frame /\ f.op = callee /\ f.beg = uiOffset /\ f.subEnd = uiSubStringEnd
         /\ f.k = k /\ f.len = 0
         /\ Id(f) = Opcode(callee).id
         /\ FrameMeans(Meaning(ThisParse(nodes)), f, Rec(stack, Len(stack)))
<1> DEFINE f == NewFrame(k)
           x == ThisParse(nodes)
           e == Meaning(x)
           id == Opcode(callee).id
           rec == Rec(stack, Len(stack))
<1>1. Parsing /\ (id \in ListIds => k \in 1..Len(Opcode(callee).kids)) /\ Contract /\ IInv
  BY CallFacts DEF Meant
<1>2. id \in LookBackIds => k = 0
  BY DEF LookBackIds, ListIds
<1>3. f \in Frame
  BY <1>1, <1>2, Pushed
<1>4. /\ f.op = callee /\ f.beg = uiOffset /\ f.subEnd = uiSubStringEnd /\ f.k = k /\ f.len = 0
      /\ Id(f) = id
  BY DEF NewFrame, Id
<1> DEFINE w == e[Point(callee, 0, uiOffset, uiSubStringEnd, rec)]
<1>5. w.ok \in BOOLEAN /\ w.len \in Nat /\ (~w.ok => w.len = 0)
  <2>1. /\ callee \in 0..Len(grammar.ops) /\ uiOffset \in 0..uiInputStringLength
        /\ uiSubStringEnd \in 0..uiInputStringLength /\ rec \in BOOLEAN /\ 0 \in Nat
    BY CalledAt
  <2> HIDE DEF rec
  <2>2. Point(callee, 0, uiOffset, uiSubStringEnd, rec) \in Points(x)
    BY <2>1, PointFacts
  <2> QED
    BY <1>1, <2>2, ResultFacts
<1> HIDE DEF w
<1>6. Extends(w, 0, w)
  BY <1>5 DEF Extends
<1> USE DEF w
<1>7. uiOffset + 0 = uiOffset
  BY CalledAt
<1>8. /\ id = "ALT" => k = 1 /\ k - 1 = 0
      /\ id = "CAT" => k = 1 /\ k - 1 = 0
      /\ id = "REP" => k = 0 /\ Opcode(callee).max > 0
      /\ id \in LookBackIds => k = 0 /\ 0..(k - 1) = {}
  <2>1. id = "REP" => Opcode(callee).max > 0
    <3>1. ASSUME id = "REP"
          PROVE  callee \in 1..Len(grammar.ops) /\ Opcode(callee) = grammar.ops[callee]
      BY <1>1, <3>1, CallFacts DEF Opcode
    <3>2. RepetitionsPlain(grammar)
      BY <1>1, ParseFacts DEF PlainParse
    <3> QED
      BY <3>1, <3>2 DEF RepetitionsPlain
  <2> QED
    BY <1>2, <2>1, Kinds
<1> HIDE DEF f, x, e, id, rec
<1>9. FrameMeans(e, f, rec)
  <2>1. Id(f) = "ALT" => e[Point(f.op, 0, f.beg, f.subEnd, rec)] = e[Point(f.op, f.k - 1, f.beg, f.subEnd, rec)]
    BY <1>4, <1>8
  <2>2. Id(f) = "CAT" => Extends(e[Point(f.op, 0, f.beg, f.subEnd, rec)], f.len,
                                 e[Point(f.op, f.k - 1, f.beg + f.len, f.subEnd, rec)])
    BY <1>4, <1>6, <1>7, <1>8
  <2>3. Id(f) = "REP" => /\ f.k < Opcode(f.op).max
                         /\ Extends(e[Point(f.op, 0, f.beg, f.subEnd, rec)], f.len,
                                 e[Point(f.op, f.k, f.beg + f.len, f.subEnd, rec)])
    BY <1>4, <1>6, <1>7, <1>8
  <2>4. Id(f) \in LookBackIds =>
          /\ f.k =< LookBackLimit(f)
          /\ \A d \in 0..(f.k - 1) : ~e[Node(f.op + 1, f.beg - d, f.beg, FALSE)].ok
    <3>1. 0 =< LookBackLimit(f)
      BY <1>1, <1>4, CalledAt DEF LookBackLimit, Meant, MeanInv
    <3> QED
      BY <1>4, <1>8, <3>1
  <2> QED
    BY <2>1, <2>2, <2>3, <2>4 DEF FrameMeans
<1> QED
  BY <1>3, <1>4, <1>9 DEF f, x, e, id, rec

LEMMA AltOpenMeans ==
  ASSUME NEW nodes, Meant(nodes), AltOpen
  PROVE  MeanInv(nodes)'
<1>1. pc = "call" /\ Opcode(callee).id = "ALT" /\ Opcode(callee).id \in ListIds
  BY Kinds DEF AltOpen, Calling
<1>2. UNCHANGED <<app, parse, sub>> /\ spState' = spState /\ uiSubStringEnd' = uiSubStringEnd
  BY DEF AltOpen, sub
<1>3. /\ NewFrame(1) \in Frame /\ NewFrame(1).op = callee /\ NewFrame(1).k = 1
      /\ NewFrame(1).beg = uiOffset /\ NewFrame(1).subEnd = uiSubStringEnd
      /\ Id(NewFrame(1)) = Opcode(callee).id
      /\ FrameMeans(Meaning(ThisParse(nodes)), NewFrame(1), Rec(stack, Len(stack)))
  BY <1>1, NewFrameMeans
<1>4. ChildOp(NewFrame(1)) = Opcode(callee).kids[1]
  BY <1>1, <1>3 DEF ChildOp
<1>5. Call(Append(stack, NewFrame(1)), ChildOp(NewFrame(1)))
  BY <1>4 DEF AltOpen
<1> QED
  BY <1>1, <1>2, <1>3, <1>5, CalledAt, OpenMeans

LEMMA CatOpenMeans ==
  ASSUME NEW nodes, Meant(nodes), CatOpen
  PROVE  MeanInv(nodes)'
<1>1. pc = "call" /\ Opcode(callee).id = "CAT" /\ Opcode(callee).id \in ListIds
  BY Kinds DEF CatOpen, Calling
<1>2. UNCHANGED <<app, parse, sub>> /\ spState' = spState /\ uiSubStringEnd' = uiSubStringEnd
  BY DEF CatOpen, sub
<1>3. /\ NewFrame(1) \in Frame /\ NewFrame(1).op = callee /\ NewFrame(1).k = 1
      /\ NewFrame(1).beg = uiOffset /\ NewFrame(1).subEnd = uiSubStringEnd
      /\ Id(NewFrame(1)) = Opcode(callee).id
      /\ FrameMeans(Meaning(ThisParse(nodes)), NewFrame(1), Rec(stack, Len(stack)))
  BY <1>1, NewFrameMeans
<1>4. ChildOp(NewFrame(1)) = Opcode(callee).kids[1]
  BY <1>1, <1>3 DEF ChildOp
<1>5. Call(Append(stack, NewFrame(1)), ChildOp(NewFrame(1)))
  BY <1>4 DEF CatOpen
<1> QED
  BY <1>1, <1>2, <1>3, <1>5, CalledAt, OpenMeans

LEMMA NextOpenMeans ==
  ASSUME NEW nodes, Meant(nodes), RepOpen \/ LookAheadOpen \/ LookBackOpen
  PROVE  MeanInv(nodes)'
<1> DEFINE id == Opcode(callee).id
<1>1. pc = "call" /\ id \in NextIds /\ id \notin ListIds /\ id # "RNM"
  <2>1. pc = "call" /\ id \in {"REP"} \cup LookAheadIds \cup LookBackIds
    BY DEF RepOpen, LookAheadOpen, LookBackOpen, Calling
  <2> QED
    BY <2>1 DEF NextIds, ListIds, LookAheadIds, LookBackIds
<1>2. UNCHANGED <<app, parse>> /\ spState' = spState
  BY DEF RepOpen, LookAheadOpen, LookBackOpen
<1>3. /\ NewFrame(0) \in Frame /\ NewFrame(0).op = callee
      /\ NewFrame(0).beg = uiOffset /\ NewFrame(0).subEnd = uiSubStringEnd
      /\ Id(NewFrame(0)) = id
      /\ FrameMeans(Meaning(ThisParse(nodes)), NewFrame(0), Rec(stack, Len(stack)))
  BY <1>1, NewFrameMeans
<1>4. ChildOp(NewFrame(0)) = callee + 1
  BY <1>1, <1>3 DEF ChildOp
<1>5. Call(Append(stack, NewFrame(0)), ChildOp(NewFrame(0)))
  BY <1>4 DEF RepOpen, LookAheadOpen, LookBackOpen
<1>6. uiSubStringEnd' \in Ends(grammar, config)
  <2>1. CASE RepOpen \/ LookAheadOpen
    BY <1>1, <2>1, CalledAt DEF RepOpen, LookAheadOpen, sub
  <2>2. CASE LookBackOpen
    <3>1. id \in LookBackIds /\ uiSubStringEnd' = uiOffset
      BY <2>2 DEF LookBackOpen, Calling
    <3>2. callee \in 1..Len(grammar.ops) /\ Opcode(callee) = grammar.ops[callee]
      BY <1>1, CallFacts DEF Opcode, Meant
    <3>3. Ends(grammar, config) = 0..Len(config.input)
      BY <3>1, <3>2 DEF Ends
    <3> QED
      BY <1>1, <3>1, <3>3, CalledAt DEF uiInputStringLength
  <2> QED
    BY <2>1, <2>2
<1> QED
  BY <1>1, <1>2, <1>3, <1>5, <1>6, OpenMeans

\* A rule is its definition.
LEMMA RnmCallee ==
  ASSUME NEW nodes, Meant(nodes), pc = "call", Opcode(callee).id = "RNM"
  PROVE  LET e == Meaning(ThisParse(nodes))
             rec == Rec(stack, Len(stack))
             m == e[Node(callee, uiOffset, uiSubStringEnd, rec)]
             r == e[Node(grammar.rules[Opcode(callee).index].op, uiOffset, uiSubStringEnd, rec)]
         IN (m.ok <=> r.ok) /\ m.len = r.len
<1> DEFINE x == ThisParse(nodes)
           e == Meaning(x)
           rec == Rec(stack, Len(stack))
           p == Point(callee, 0, uiOffset, uiSubStringEnd, rec)
<1>1. Parsing /\ p \in Points(x) /\ Node(callee, uiOffset, uiSubStringEnd, rec) = p
  BY CalledAt, PointFacts
<1>2. Solves(x, e) /\ OpAt(x, callee) = Opcode(callee) /\ x.g = grammar
  BY <1>1, ParseFacts
<1> HIDE DEF x, e, rec
<1>3. LET r == e[Node(x.g.rules[OpAt(x, callee).index].op, uiOffset, uiSubStringEnd, rec)]
      IN (e[p].ok <=> r.ok) /\ e[p].len = r.len
  BY <1>1, <1>2, RnmMeans
<1> QED
  BY <1>1, <1>2, <1>3 DEF x, e, rec

LEMMA RnmDownMeans ==
  ASSUME NEW nodes, Meant(nodes), Calling({"RNM"}), NEW a, RnmDown(a), UNCHANGED <<app, parse, sub>>
  PROVE  MeanInv(nodes)'
<1> DEFINE f == NewFrame(0)
           value == PpptState(callee)
           child == grammar.rules[Opcode(callee).index].op
           e == Meaning(ThisParse(nodes))
           rec == Rec(stack, Len(stack))
<1>1. pc = "call" /\ Opcode(callee).id = "RNM" /\ Opcode(callee).id \notin ListIds
  BY Kinds DEF Calling
<1>2. /\ f \in Frame /\ f.op = callee
      /\ f.beg = uiOffset /\ f.subEnd = uiSubStringEnd
      /\ Id(f) = "RNM" /\ FrameMeans(e, f, rec)
  BY <1>1, NewFrameMeans
<1>3. ChildOp(f) = child /\ ~IsLook(f)
  BY <1>1, <1>2, Kinds DEF ChildOp, IsLook
<1>4. spState' = spState /\ uiSubStringEnd' \in Ends(grammar, config) /\ Parsing
  BY <1>1, CalledAt DEF RnmDown, sub
<1>5. CASE value = "ACTIVE"
  <2>1. Call(Append(stack, f), ChildOp(f))
    BY <1>3, <1>5 DEF RnmDown
  <2> QED
    BY <1>1, <1>2, <1>4, <2>1, OpenMeans
<1>6. CASE value # "ACTIVE"
  <2> DEFINE t == Append(stack, f)
  <2>1. /\ pc' = "return" /\ stack' = t
        /\ uiOpState' = PpptResult(value) /\ uiPhraseLength' = PpptLength(value)
    BY <1>6 DEF RnmDown, Return
  <2>2. stack \in Seq(Frame) /\ StackMeans(e, stack) /\ callee = OpAbove(stack, Len(stack))
    BY <1>1, <1>4, RunFacts DEF Meant, MeanInv, StackOK
  <2>3. StackMeans(e, t) /\ OpAbove(t, Len(t)) = child /\ Rec(t, Len(t)) = rec
    <3>1. StackMeans(e, t) /\ OpAbove(t, Len(t)) = ChildOp(f) /\ (Rec(t, Len(t)) <=> rec)
      BY <1>2, <1>3, <2>2, PushMeans
    <3> QED
      BY <1>3, <3>1 DEF Rec
  <2>4. NodeBeg(t, Len(t)) = uiOffset /\ NodeSubEnd(t, Len(t)) = uiSubStringEnd
    BY <1>1, Opened, Disjoint DEF Meant
  <2>5. AnswerMeans(e, t, uiOpState', uiPhraseLength')
    <3>1. NodeAbove(t, Len(t)) = Node(child, uiOffset, uiSubStringEnd, rec)
      BY <2>3, <2>4 DEF NodeAbove
    <3> DEFINE m == e[Node(callee, uiOffset, uiSubStringEnd, rec)]
               r == e[Node(child, uiOffset, uiSubStringEnd, rec)]
    <3>2. (PpptResult(value) = "MATCH" <=> m.ok) /\ PpptLength(value) = m.len
      BY <1>1, <1>6, Predicted
    <3>3. (m.ok <=> r.ok) /\ m.len = r.len
      BY <1>1, RnmCallee
    <3> QED
      BY <2>1, <3>1, <3>2, <3>3 DEF AnswerMeans
  <2> QED
    BY <1>4, <2>1, <2>3, <2>5, ReturnMeans
<1> QED
  BY <1>5, <1>6

LEMMA RnmOpenMeans ==
  ASSUME NEW nodes, Meant(nodes), RnmOpen
  PROVE  MeanInv(nodes)'
<1>1. Calling({"RNM"}) /\ UNCHANGED <<app, parse, sub>>
  BY DEF RnmOpen
<1>2. \A answer \in RnmResults : answer.state = "ACTIVE"
  BY DEF Meant, Decided
<1>3. pc' = "idle" \/ \E a : RnmDown(a)
  BY <1>2 DEF RnmOpen, Throw
<1> QED
  BY <1>1, <1>3, RnmDownMeans, ThrowMeans

-----------------------------------------------------------------------------
(* Operators that have been answered.                                      *)

\* What the frame on top has done, and what the answer of its child means.
LEMMA Answered ==
  ASSUME NEW nodes, Meant(nodes), pc = "return", stack # << >>,
         NEW f, f = Top(stack), NEW e, e = Meaning(ThisParse(nodes)),
         NEW rec, rec = Rec(Pop(stack), Len(Pop(stack))),
         NEW r, r = e[Node(ChildOp(f), ChildBeg(f), ChildSubEnd(f), rec /\ ~IsLook(f))]
  PROVE  /\ Parsing
         /\ f \in Frame /\ rec \in BOOLEAN
         /\ f.op \in 0..Len(grammar.ops)
         /\ f.beg \in 0..uiInputStringLength
         /\ f.subEnd \in 0..uiInputStringLength
         /\ FrameMeans(e, f, rec)
         /\ uiOpState = "MATCH" <=> r.ok
         /\ uiPhraseLength = r.len /\ uiPhraseLength \in Nat
         /\ uiInputStringLength \in Nat
         /\ r = e[NodeAbove(stack, Len(stack))]
<1>1. /\ Parsing /\ Fits(Pop(stack), f) /\ f \in Frame
      /\ f.op \in 0..Len(grammar.ops)
      /\ f.beg \in Nat /\ f.subEnd \in Nat
  BY ReturnFacts DEF Meant
<1>2. /\ stack \in Seq(Frame)
      /\ StackMeans(e, stack)
      /\ AnswerMeans(e, stack, uiOpState, uiPhraseLength)
      /\ StackOK(stack)
      /\ Positions
  BY <1>1, RunFacts DEF Meant, MeanInv, StackOK
<1>3. f.beg \in 0..uiInputStringLength /\ f.subEnd \in 0..uiInputStringLength
  BY <1>1, <1>2 DEF Fits, Positions
<1>4. /\ FrameMeans(e, f, rec)
      /\ OpAbove(stack, Len(stack)) = ChildOp(f)
      /\ Rec(stack, Len(stack)) <=> rec /\ ~IsLook(f)
  BY <1>2, PopMeans
<1>5. rec \in BOOLEAN /\ Rec(stack, Len(stack)) = (rec /\ ~IsLook(f))
  BY <1>4 DEF Rec
<1>6. NodeBeg(stack, Len(stack)) = ChildBeg(f) /\ NodeSubEnd(stack, Len(stack)) = ChildSubEnd(f)
  BY <1>2, PopStack
<1>7. NodeAbove(stack, Len(stack)) = Node(ChildOp(f), ChildBeg(f), ChildSubEnd(f), rec /\ ~IsLook(f))
  BY <1>4, <1>5, <1>6 DEF NodeAbove
<1> QED
  BY <1>1, <1>2, <1>3, <1>4, <1>5, <1>7 DEF AnswerMeans, Positions

\* The operator on top returns what its opcode means.
LEMMA CloseMeans ==
  ASSUME NEW nodes, Meant(nodes), pc = "return", stack # << >>, UNCHANGED <<app, parse>>,
         NEW f, f = Top(stack), NEW rec, rec = Rec(Pop(stack), Len(Pop(stack))),
         NEW w, w = Meaning(ThisParse(nodes))[Point(f.op, 0, f.beg, f.subEnd, rec)],
         NEW a, NEW state, NEW offset, NEW length,
         Finish(Pop(stack), a, state, offset, length),
         state = "MATCH" <=> w.ok, length = w.len,
         uiSubStringEnd' \in Ends(grammar, config)
  PROVE  MeanInv(nodes)'
<1> DEFINE e == Meaning(ThisParse(nodes))
<1>1. /\ Parsing /\ Fits(Pop(stack), f)
      /\ stack \in Seq(Frame) /\ StackMeans(e, stack)
  BY ReturnFacts, RunFacts DEF Meant, MeanInv, StackOK
<1>2. StackMeans(e, Pop(stack)) /\ f.op = OpAbove(Pop(stack), Len(Pop(stack)))
  BY <1>1, PopMeans
<1>3. NodeAbove(Pop(stack), Len(Pop(stack))) = Point(f.op, 0, f.beg, f.subEnd, rec)
  BY <1>1, <1>2 DEF Fits, NodeAbove, Node
<1>4. AnswerMeans(e, Pop(stack), state, length)
  BY <1>3 DEF AnswerMeans
<1> QED
  BY <1>1, <1>2, <1>4, FinishMeans

\* The operator on top calls another child.
LEMMA GoesOnMeans ==
  ASSUME NEW nodes, Meant(nodes), pc = "return", stack # << >>, UNCHANGED <<app, parse>>,
         spState' = spState,
         NEW g \in Frame, g.op = Top(stack).op,
         FrameMeans(Meaning(ThisParse(nodes)), g, Rec(Pop(stack), Len(Pop(stack)))),
         Call(Append(Pop(stack), g), ChildOp(g)),
         uiSubStringEnd' \in Ends(grammar, config)
  PROVE  MeanInv(nodes)'
<1> DEFINE e == Meaning(ThisParse(nodes))
           t == Append(Pop(stack), g)
<1>1. Parsing /\ stack \in Seq(Frame) /\ Pop(stack) \in Seq(Frame) /\ StackMeans(e, stack)
  BY ReturnFacts, RunFacts DEF Meant, MeanInv, StackOK
<1>2. StackMeans(e, Pop(stack)) /\ g.op = OpAbove(Pop(stack), Len(Pop(stack)))
  BY <1>1, PopMeans
<1>3. StackMeans(e, t) /\ OpAbove(t, Len(t)) = ChildOp(g)
  BY <1>1, <1>2, PushMeans
<1> QED
  BY <1>1, <1>3, CallMeans DEF Call

\* An operator that is not a look-behind restores nothing.
LEMMA SameEnd ==
  ASSUME NEW nodes, Meant(nodes), pc = "return", UNCHANGED sub
  PROVE  uiSubStringEnd' \in Ends(grammar, config)
BY DEF Meant, MeanInv, Parsing, sub

LEMMA AltNextMeans ==
  ASSUME NEW nodes, Meant(nodes), AltNext
  PROVE  MeanInv(nodes)'
<1> DEFINE f == Top(stack)
           x == ThisParse(nodes)
           e == Meaning(x)
           rec == Rec(Pop(stack), Len(Pop(stack)))
           kids == Opcode(f.op).kids
           Left(k) == e[Point(f.op, k, f.beg, f.subEnd, rec)]
           r == e[Node(kids[f.k], f.beg, f.subEnd, rec)]
<1>1. pc = "return" /\ stack # << >> /\ Id(f) = "ALT" /\ UNCHANGED <<app, parse, sub>>
  BY DEF AltNext, Returning, Id
<1>2. Id(f) \in ListIds /\ ~IsLook(f) /\ Id(f) \notin LookBackIds
  BY <1>1, Kinds, Disjoint DEF IsLook
<1>3. ChildOp(f) = kids[f.k] /\ ChildBeg(f) = f.beg /\ ChildSubEnd(f) = f.subEnd
  BY <1>1, <1>2 DEF ChildOp, ChildBeg, ChildSubEnd, IsLookBack, Id
<1>4. /\ Parsing
      /\ f \in Frame /\ rec \in BOOLEAN
      /\ f.op \in 0..Len(grammar.ops)
      /\ f.beg \in 0..uiInputStringLength
      /\ f.subEnd \in 0..uiInputStringLength
      /\ FrameMeans(e, f, rec)
      /\ uiOpState = "MATCH" <=> r.ok
      /\ uiPhraseLength = r.len
  <2>1. (rec /\ ~IsLook(f)) = rec
    BY <1>2 DEF Rec
  <2> QED
    BY <1>1, <1>3, <2>1, Answered
<1>5. Len(kids) \in Nat \ {0} /\ f.k \in 1..Len(kids) /\ f.k \in Nat
  BY <1>1, <1>2, ReturnFacts DEF Meant, Fits, FrameOK, Id
<1>6. Left(0) = Left(f.k - 1)
  BY <1>1, <1>4 DEF FrameMeans
<1>7. \A k \in Nat : Point(f.op, k, f.beg, f.subEnd, rec) \in Points(x)
  BY <1>4, PointFacts
<1>8. Solves(x, e) /\ OpAt(x, f.op) = Opcode(f.op)
  BY <1>4, ParseFacts
<1>9. Left(f.k - 1) = IF r.ok THEN r ELSE Left(f.k)
  <2>1. f.k - 1 \in Nat /\ (f.k - 1) + 1 = f.k /\ ~(f.k - 1 >= Len(kids))
    BY <1>5
  <2> HIDE DEF x, e, rec, f
  <2>2. LET q == e[Node(OpAt(x, f.op).kids[(f.k - 1) + 1], f.beg, f.subEnd, rec)] IN
        Left(f.k - 1) = IF f.k - 1 >= Len(OpAt(x, f.op).kids) THEN Failed
                        ELSE IF q.ok THEN q ELSE Left((f.k - 1) + 1)
    BY <1>1, <1>7, <1>8, <2>1, AltMeans DEF Id
  <2> QED
    BY <1>8, <2>1, <2>2
<1>10. Left(Len(kids)) = Failed
  <2>1. Len(kids) \in Nat /\ Len(kids) >= Len(kids)
    BY <1>5
  <2> HIDE DEF x, e, rec, f
  <2>2. Point(f.op, Len(kids), f.beg, f.subEnd, rec) \in Points(x)
    BY <1>7, <2>1
  <2> QED
    BY <1>1, <1>8, <2>1, <2>2, AltMeans DEF Id
<1>11. CASE OpReturn(ast, uiOpState, uiOffset, uiPhraseLength) /\ (uiOpState = "MATCH" \/ f.k = Len(kids))
  <2>1. (uiOpState = "MATCH" <=> Left(0).ok) /\ uiPhraseLength = Left(0).len
    <3>1. CASE uiOpState = "MATCH"
      BY <1>4, <1>6, <1>9, <3>1
    <3>2. CASE uiOpState # "MATCH"
      <4>1. Left(0) = Failed
        BY <1>4, <1>6, <1>9, <1>10, <1>11, <3>2
      <4>2. uiPhraseLength = 0
        BY <1>1, <3>2, ReturnFacts DEF Meant
      <4> QED
        BY <3>2, <4>1, <4>2 DEF Failed
    <3> QED
      BY <3>1, <3>2
  <2>2. Finish(Pop(stack), ast, uiOpState, uiOffset, uiPhraseLength)
    BY <1>11 DEF OpReturn
  <2>3. uiSubStringEnd' \in Ends(grammar, config)
    BY <1>1, SameEnd
  <2> HIDE DEF e, rec, f
  <2> QED
    BY <1>1, <2>1, <2>2, <2>3, CloseMeans DEF e, x, rec, f
<1>12. CASE /\ uiOpState # "MATCH" /\ f.k < Len(kids)
            /\ Call(Append(Pop(stack), NextTry(f)), kids[f.k + 1])
            /\ spState' = spState
  <2> DEFINE g == NextTry(f)
  <2>1. f.k + 1 \in Nat /\ (f.k + 1) - 1 = f.k
    BY <1>5
  <2>2. /\ g \in Frame /\ g.op = f.op /\ g.beg = f.beg /\ g.len = f.len /\ g.k = f.k + 1
        /\ g.subEnd = f.subEnd
    BY <1>4, <2>1 DEF NextTry, Frame
  <2>3. Id(g) = "ALT" /\ ChildOp(g) = kids[f.k + 1]
    BY <1>1, <1>2, <2>2 DEF Id, ChildOp
  <2>4. FrameMeans(e, g, rec)
    <3>1. Left(0) = Left(f.k)
      BY <1>4, <1>6, <1>9, <1>12
    <3> HIDE DEF x, e, rec, f, g
    <3> QED
      BY <2>1, <2>2, <2>3, <3>1, Kinds, Disjoint, <1>1, <1>2 DEF FrameMeans
  <2>5. uiSubStringEnd' \in Ends(grammar, config)
    BY <1>1, SameEnd
  <2> QED
    BY <1>1, <1>12, <2>2, <2>3, <2>4, <2>5, GoesOnMeans
<1>13. \/ OpReturn(ast, uiOpState, uiOffset, uiPhraseLength) /\ (uiOpState = "MATCH" \/ f.k = Len(kids))
       \/ /\ uiOpState # "MATCH" /\ f.k < Len(kids)
          /\ Call(Append(Pop(stack), NextTry(f)), kids[f.k + 1])
          /\ spState' = spState
  BY DEF AltNext
<1> QED
  BY <1>11, <1>12, <1>13

\* What is left after a match of a child, of a phrase that has failed, and of one that is done.
LEMMA ExtendsThen ==
  ASSUME NEW w, NEW len \in Nat, NEW r, r.len \in Nat, NEW m, m.ok \in BOOLEAN, m.len \in Nat,
         Extends(w, len, Then(r, m))
  PROVE  Extends(w, len + r.len, m)
<1>1. CASE m.ok
  <2>1. Then(r, m).ok /\ Then(r, m).len = r.len + m.len
    BY <1>1 DEF Then, Found
  <2>2. w.ok /\ w.len = len + (r.len + m.len)
    BY <2>1 DEF Extends
  <2> QED
    BY <1>1, <2>2 DEF Extends
<1>2. CASE ~m.ok
  BY <1>2 DEF Then, Failed, Extends
<1> QED
  BY <1>1, <1>2

LEMMA ExtendsEnd ==
  ASSUME NEW w, NEW len \in Nat
  PROVE  /\ Extends(w, len, Failed) => ~w.ok /\ w.len = 0
         /\ Extends(w, len, Found(0, << >>)) => w.ok /\ w.len = len
         /\ \A r : r.ok /\ r.len = 0 /\ Extends(w, len, r) => w.ok /\ w.len = len
BY DEF Extends, Failed, Found

\* CAT and REP wait for a child at the end of what they have matched.
LEMMA Accumulating ==
  ASSUME NEW nodes, Meant(nodes), pc = "return", stack # << >>,
         NEW f, f = Top(stack), Id(f) \in {"CAT", "REP"}
  PROVE  /\ ~IsLook(f) /\ Id(f) \notin LookBackIds
         /\ ChildBeg(f) = f.beg + f.len /\ ChildSubEnd(f) = f.subEnd
         /\ f.len \in Nat /\ f.k \in Nat
         /\ Plus(f.len, uiPhraseLength) = f.len + uiPhraseLength
         /\ f.beg + f.len \in 0..uiInputStringLength
         /\ (f.beg + f.len) + uiPhraseLength = f.beg + (f.len + uiPhraseLength)
         /\ (f.beg + f.len) + uiPhraseLength \in 0..uiInputStringLength
         /\ f.len + uiPhraseLength \in Nat
<1>1. ~IsLook(f) /\ Id(f) \notin LookBackIds
  BY Kinds, Disjoint DEF IsLook, LookIds, LookBackIds
<1>2. ChildBeg(f) = f.beg + f.len /\ ChildSubEnd(f) = f.subEnd
  BY <1>1 DEF ChildBeg, ChildSubEnd, IsLookBack, Id
<1>3. /\ f.beg \in Nat /\ f.len \in Nat /\ f.k \in Nat /\ f.subEnd \in Nat /\ Fits(Pop(stack), f)
      /\ Parsing
  BY ReturnFacts DEF Meant
<1>4. uiOffset = uiPhraseLength + (f.beg + f.len) /\ uiOffset =< f.subEnd
  BY <1>1, Ordinary DEF Id, Meant
<1>5. Positions /\ f.subEnd =< uiInputStringLength
  BY <1>3, RunFacts DEF Fits, Meant
<1>6. uiPhraseLength \in Nat /\ f.len + uiPhraseLength =< uiInputStringLength
  BY <1>3, <1>4, <1>5 DEF Positions
<1>7. Plus(f.len, uiPhraseLength) = f.len + uiPhraseLength
  BY <1>3, <1>5, <1>6, NoWrap
<1> QED
  BY SMTT(40), <1>1, <1>2, <1>3, <1>4, <1>5, <1>6, <1>7 DEF Positions

\* What the answer of a child of CAT leaves to say.
LEMMA CatTurn ==
  ASSUME NEW nodes, Meant(nodes), pc = "return", stack # << >>,
         NEW f, f = Top(stack), Id(f) = "CAT",
         NEW e, e = Meaning(ThisParse(nodes)), NEW rec, rec = Rec(Pop(stack), Len(Pop(stack))),
         NEW kids, kids = Opcode(f.op).kids, NEW beg, beg = f.beg + f.len,
         NEW r, r = e[Node(kids[f.k], beg, f.subEnd, rec)],
         NEW m, m = e[Point(f.op, f.k, beg + uiPhraseLength, f.subEnd, rec)],
         NEW left, left = e[Point(f.op, f.k - 1, beg, f.subEnd, rec)]
  PROVE  /\ r = e[NodeAbove(stack, Len(stack))]
         /\ m \in Results /\ left \in Results
         /\ left = IF r.ok THEN Then(r, m) ELSE Failed
         /\ f.k = Len(kids) => m = Found(0, << >>)
         /\ Extends(e[Point(f.op, 0, f.beg, f.subEnd, rec)], f.len, left)
<1> DEFINE x == ThisParse(nodes)
<1>2. Id(f) \in ListIds /\ ~IsLook(f)
  BY Kinds DEF IsLook
<1>3. /\ ChildBeg(f) = beg /\ ChildSubEnd(f) = f.subEnd
      /\ f.len \in Nat /\ f.k \in Nat
      /\ beg \in 0..uiInputStringLength
      /\ beg + uiPhraseLength \in 0..uiInputStringLength
  BY Accumulating
<1>4. /\ Parsing
      /\ f \in Frame /\ rec \in BOOLEAN
      /\ f.op \in 0..Len(grammar.ops)
      /\ f.subEnd \in 0..uiInputStringLength
      /\ FrameMeans(e, f, rec)
      /\ uiOpState = "MATCH" <=> r.ok
      /\ uiPhraseLength = r.len /\ uiPhraseLength \in Nat
      /\ r = e[NodeAbove(stack, Len(stack))]
  <2>1. (rec /\ ~IsLook(f)) = rec
    BY <1>2 DEF Rec
  <2>2. ChildOp(f) = kids[f.k]
    BY <1>2 DEF ChildOp
  <2>3. r = e[Node(ChildOp(f), ChildBeg(f), ChildSubEnd(f), rec /\ ~IsLook(f))]
    BY <1>3, <2>1, <2>2
  <2> QED
    BY <2>3, Answered
<1>5. Len(kids) \in Nat \ {0} /\ f.k \in 1..Len(kids) /\ uiOpState \in {"MATCH", "NOMATCH"}
      /\ (uiOpState = "NOMATCH" => uiPhraseLength = 0)
  BY <1>2, ReturnFacts DEF Meant, Fits, FrameOK, Id
<1>6. Extends(e[Point(f.op, 0, f.beg, f.subEnd, rec)], f.len, left)
  BY <1>4 DEF FrameMeans
<1>7. Solves(x, e) /\ OpAt(x, f.op) = Opcode(f.op)
  BY <1>4, ParseFacts
<1>8. f.k - 1 \in Nat /\ (f.k - 1) + 1 = f.k /\ ~(f.k - 1 >= Len(kids))
  BY <1>5
<1>9. /\ Point(f.op, f.k - 1, beg, f.subEnd, rec) \in Points(x)
      /\ Point(f.op, f.k, beg + uiPhraseLength, f.subEnd, rec) \in Points(x)
  BY SMTT(40), <1>3, <1>4, <1>8, PointFacts
<1>10. m \in Results /\ left \in Results
  BY <1>4, <1>9, ResultFacts
<1>11. left = IF r.ok THEN Then(r, m) ELSE Failed
  <2> HIDE DEF x
  <2>1. LET q == e[Node(OpAt(x, f.op).kids[(f.k - 1) + 1], beg, f.subEnd, rec)] IN
        left = IF f.k - 1 >= Len(OpAt(x, f.op).kids) THEN Found(0, << >>)
               ELSE IF q.ok THEN Then(q, e[Point(f.op, (f.k - 1) + 1, beg + q.len, f.subEnd, rec)])
                    ELSE Failed
    BY <1>7, <1>8, <1>9, CatMeans DEF Id
  <2>2. /\ r = e[Node(OpAt(x, f.op).kids[(f.k - 1) + 1], beg, f.subEnd, rec)]
        /\ m = e[Point(f.op, (f.k - 1) + 1, beg + r.len, f.subEnd, rec)]
        /\ ~(f.k - 1 >= Len(OpAt(x, f.op).kids))
    BY <1>4, <1>7, <1>8
  <2> QED
    BY ONLY <2>1, <2>2
<1>12. f.k = Len(kids) => m = Found(0, << >>)
  <2>1. f.k >= f.k
    BY <1>5
  <2> HIDE DEF x
  <2> QED
    BY <1>7, <1>9, <2>1, CatMeans DEF Id
<1> QED
  BY <1>4, <1>6, <1>10, <1>11, <1>12

LEMMA CatNextMeans ==
  ASSUME NEW nodes, Meant(nodes), CatNext
  PROVE  MeanInv(nodes)'
<1> DEFINE f == Top(stack)
           x == ThisParse(nodes)
           e == Meaning(x)
           rec == Rec(Pop(stack), Len(Pop(stack)))
           kids == Opcode(f.op).kids
           beg == f.beg + f.len
           len == Plus(f.len, uiPhraseLength)
           w == e[Point(f.op, 0, f.beg, f.subEnd, rec)]
           r == e[Node(kids[f.k], beg, f.subEnd, rec)]
           m == e[Point(f.op, f.k, beg + uiPhraseLength, f.subEnd, rec)]
<1>1. pc = "return" /\ stack # << >> /\ Id(f) = "CAT" /\ UNCHANGED <<app, parse, sub>>
  BY DEF CatNext, Returning, Id
<1>2. Id(f) \in ListIds /\ ~IsLook(f)
  BY <1>1, Kinds DEF IsLook
<1>3. /\ ChildBeg(f) = beg /\ ChildSubEnd(f) = f.subEnd
      /\ f.len \in Nat /\ f.k \in Nat
      /\ len = f.len + uiPhraseLength /\ len \in Nat
      /\ beg \in 0..uiInputStringLength
      /\ beg + uiPhraseLength = f.beg + len
      /\ beg + uiPhraseLength \in 0..uiInputStringLength
  BY <1>1, Accumulating
<1>4. /\ Parsing
      /\ f \in Frame /\ rec \in BOOLEAN
      /\ f.op \in 0..Len(grammar.ops)
      /\ f.subEnd \in 0..uiInputStringLength
      /\ FrameMeans(e, f, rec)
      /\ uiOpState = "MATCH" <=> r.ok
      /\ uiPhraseLength = r.len /\ uiPhraseLength \in Nat
  <2>1. (rec /\ ~IsLook(f)) = rec
    BY <1>2 DEF Rec
  <2>2. ChildOp(f) = kids[f.k]
    BY <1>2 DEF ChildOp
  <2> QED
    BY ZenonT(60), <1>1, <1>3, <2>1, <2>2, Answered
<1>5. Len(kids) \in Nat \ {0} /\ f.k \in 1..Len(kids) /\ uiOpState \in {"MATCH", "NOMATCH"}
      /\ (uiOpState = "NOMATCH" => uiPhraseLength = 0)
  BY <1>1, <1>2, ReturnFacts DEF Meant, Fits, FrameOK, Id
<1> DEFINE left == e[Point(f.op, f.k - 1, beg, f.subEnd, rec)]
<1>6. /\ m \in Results /\ Extends(w, f.len, left)
      /\ left = IF r.ok THEN Then(r, m) ELSE Failed
      /\ f.k = Len(kids) => m = Found(0, << >>)
  BY <1>1, CatTurn
<1>10. m.ok \in BOOLEAN /\ m.len \in Nat
  BY <1>6, ResultParts
<1>13. /\ uiOpState = "NOMATCH" => ~w.ok /\ w.len = 0
       /\ uiOpState = "MATCH" => Extends(w, len, m)
  <2> HIDE DEF w, r, m, len, left
  <2>1. CASE uiOpState = "NOMATCH"
    <3>1. left = Failed
      BY <1>4, <1>6, <2>1
    <3> QED
      BY <1>3, <1>6, <2>1, <3>1, ExtendsEnd DEF left, w
  <2>2. CASE uiOpState = "MATCH"
    <3>1. left = Then(r, m)
      BY <1>4, <1>6, <2>2
    <3>2. Extends(w, f.len + r.len, m)
      BY SMTT(40), <1>3, <1>4, <1>6, <1>10, <3>1, ExtendsThen DEF left, w
    <3> QED
      BY <1>3, <1>4, <2>2, <3>2 DEF len
  <2> QED
    BY <1>5, <2>1, <2>2
<1>14. uiSubStringEnd' \in Ends(grammar, config)
  BY <1>1, SameEnd
<1>15. CASE uiOpState = "NOMATCH" /\ \E a, offset : OpReturn(a, "NOMATCH", offset, uiPhraseLength)
  <2>1. PICK a, offset : Finish(Pop(stack), a, uiOpState, offset, uiPhraseLength)
    BY <1>15 DEF OpReturn
  <2>2. (uiOpState = "MATCH" <=> w.ok) /\ uiPhraseLength = w.len
    BY <1>5, <1>13, <1>15
  <2> HIDE DEF e, rec, f
  <2> QED
    BY <1>1, <1>14, <2>1, <2>2, CloseMeans DEF e, x, rec, f
<1>16. CASE uiOpState # "NOMATCH" /\ f.k = Len(kids) /\ \E a, offset : OpReturn(a, uiOpState, offset, len)
  <2>1. PICK a, offset : Finish(Pop(stack), a, uiOpState, offset, len)
    BY <1>16 DEF OpReturn
  <2>2. uiOpState = "MATCH"
    BY <1>5, <1>16
  <2>3. w.ok /\ w.len = len
    <3> HIDE DEF w, m, len
    <3> QED
      BY <1>3, <1>6, <1>13, <1>16, <2>2, ExtendsEnd
  <2> HIDE DEF e, rec, f
  <2> QED
    BY <1>1, <1>14, <2>1, <2>2, <2>3, CloseMeans DEF e, x, rec, f
<1>17. CASE /\ uiOpState # "NOMATCH" /\ f.k < Len(kids)
            /\ Call(Append(Pop(stack), [f EXCEPT !.k = @ + 1, !.len = len]), kids[f.k + 1])
            /\ spState' = spState
  <2> DEFINE g == [f EXCEPT !.k = @ + 1, !.len = len]
  <2>1. uiOpState = "MATCH" /\ f.k + 1 \in Nat /\ (f.k + 1) - 1 = f.k
    BY <1>3, <1>5, <1>17
  <2>2. /\ g \in Frame /\ g.op = f.op /\ g.beg = f.beg /\ g.len = len /\ g.k = f.k + 1
        /\ g.subEnd = f.subEnd
    <3> HIDE DEF f, len
    <3> QED
      BY <1>3, <1>4, <2>1 DEF Frame
  <2>3. Id(g) = "CAT" /\ ChildOp(g) = kids[f.k + 1]
    <3>1. Id(g) = "CAT"
      BY <1>1, <2>2 DEF Id
    <3> HIDE DEF g, f
    <3> QED
      BY <1>1, <1>2, <2>2, <3>1 DEF ChildOp
  <2>4. FrameMeans(e, g, rec)
    <3>1. Extends(w, len, e[Point(f.op, f.k, f.beg + len, f.subEnd, rec)])
      BY <1>3, <1>13, <2>1
    <3> HIDE DEF x, e, rec, f, g, len
    <3>2. Extends(e[Point(g.op, 0, g.beg, g.subEnd, rec)], g.len,
                  e[Point(g.op, g.k - 1, g.beg + g.len, g.subEnd, rec)])
      BY <2>1, <2>2, <3>1
    <3>3. Id(g) # "ALT" /\ Id(g) # "REP" /\ Id(g) \notin LookBackIds
      BY <2>3 DEF LookBackIds
    <3> QED
      BY <3>2, <3>3 DEF FrameMeans
  <2> HIDE DEF g, e, rec, f
  <2> QED
    BY <1>1, <1>14, <1>17, <2>2, <2>3, <2>4, GoesOnMeans DEF g, e, rec, f
<1>18. \/ uiOpState = "NOMATCH" /\ \E a, offset : OpReturn(a, "NOMATCH", offset, uiPhraseLength)
       \/ uiOpState # "NOMATCH" /\ f.k = Len(kids) /\ \E a, offset : OpReturn(a, uiOpState, offset, len)
       \/ /\ uiOpState # "NOMATCH" /\ f.k < Len(kids)
          /\ Call(Append(Pop(stack), [f EXCEPT !.k = @ + 1, !.len = len]), kids[f.k + 1])
          /\ spState' = spState
  BY DEF CatNext
<1> QED
  BY <1>15, <1>16, <1>17, <1>18

\* What the answer of a child of REP leaves to say.
LEMMA RepTurn ==
  ASSUME NEW nodes, Meant(nodes), pc = "return", stack # << >>,
         NEW f, f = Top(stack), Id(f) = "REP", NEW o, o = Opcode(f.op),
         NEW e, e = Meaning(ThisParse(nodes)), NEW rec, rec = Rec(Pop(stack), Len(Pop(stack))),
         NEW beg, beg = f.beg + f.len,
         NEW r, r = e[Node(f.op + 1, beg, f.subEnd, rec)],
         NEW m, m = e[Point(f.op, f.k + 1, beg + uiPhraseLength, f.subEnd, rec)],
         NEW left, left = e[Point(f.op, f.k, beg, f.subEnd, rec)]
  PROVE  /\ r = e[NodeAbove(stack, Len(stack))]
         /\ m \in Results /\ left \in Results
         /\ left = IF ~r.ok THEN Check(f.k >= o.min) ELSE IF r.len = 0 THEN r ELSE Then(r, m)
         /\ f.k + 1 >= o.max => m = Found(0, << >>)
         /\ f.k < o.max /\ Extends(e[Point(f.op, 0, f.beg, f.subEnd, rec)], f.len, left)
<1> DEFINE x == ThisParse(nodes)
<1>2. Id(f) \notin ListIds /\ ~IsLook(f)
  BY Kinds DEF IsLook
<1>3. /\ ChildBeg(f) = beg /\ ChildSubEnd(f) = f.subEnd
      /\ f.len \in Nat /\ f.k \in Nat
      /\ beg \in 0..uiInputStringLength
      /\ beg + uiPhraseLength \in 0..uiInputStringLength
  BY Accumulating
<1>4. /\ Parsing
      /\ f \in Frame /\ rec \in BOOLEAN
      /\ f.op \in 0..Len(grammar.ops)
      /\ f.subEnd \in 0..uiInputStringLength
      /\ FrameMeans(e, f, rec)
      /\ uiOpState = "MATCH" <=> r.ok
      /\ uiPhraseLength = r.len /\ uiPhraseLength \in Nat
      /\ r = e[NodeAbove(stack, Len(stack))]
  <2>1. (rec /\ ~IsLook(f)) = rec
    BY <1>2 DEF Rec
  <2>2. ChildOp(f) = f.op + 1
    BY <1>2 DEF ChildOp
  <2>3. r = e[Node(ChildOp(f), ChildBeg(f), ChildSubEnd(f), rec /\ ~IsLook(f))]
    BY <1>3, <2>1, <2>2
  <2> QED
    BY <2>3, Answered
<1>5. o.max \in Nat /\ o.min \in Nat
  BY ReturnFacts DEF Meant, OpcodeSet
<1>6. f.k < o.max /\ Extends(e[Point(f.op, 0, f.beg, f.subEnd, rec)], f.len, left)
  BY <1>4 DEF FrameMeans
<1>7. Solves(x, e) /\ OpAt(x, f.op) = o
  BY <1>4, ParseFacts
<1>8. f.k + 1 \in Nat /\ ~(f.k >= o.max)
  BY <1>3, <1>5, <1>6
<1>9. /\ Point(f.op, f.k, beg, f.subEnd, rec) \in Points(x)
      /\ Point(f.op, f.k + 1, beg + uiPhraseLength, f.subEnd, rec) \in Points(x)
  BY <1>3, <1>4, <1>8, PointFacts
<1>10. m \in Results /\ left \in Results
  BY <1>4, <1>9, ResultFacts
<1>11. left = IF ~r.ok THEN Check(f.k >= o.min) ELSE IF r.len = 0 THEN r ELSE Then(r, m)
  <2> HIDE DEF x
  <2>1. LET q == e[Node(f.op + 1, beg, f.subEnd, rec)] IN
        left = IF f.k >= OpAt(x, f.op).max THEN Found(0, << >>)
               ELSE IF ~q.ok THEN Check(f.k >= OpAt(x, f.op).min)
               ELSE IF q.len = 0 THEN q ELSE Then(q, e[Point(f.op, f.k + 1, beg + q.len, f.subEnd, rec)])
    BY <1>7, <1>9, RepMeans DEF Id
  <2>2. m = e[Point(f.op, f.k + 1, beg + r.len, f.subEnd, rec)] /\ ~(f.k >= OpAt(x, f.op).max)
    BY <1>4, <1>7, <1>8
  <2> QED
    BY <1>7, <2>1, <2>2
<1>12. f.k + 1 >= o.max => m = Found(0, << >>)
  <2> HIDE DEF x
  <2> QED
    BY <1>7, <1>9, RepMeans DEF Id
<1> QED
  BY <1>4, <1>6, <1>10, <1>11, <1>12

LEMMA RepNextMeans ==
  ASSUME NEW nodes, Meant(nodes), RepNext
  PROVE  MeanInv(nodes)'
<1> DEFINE f == Top(stack)
           o == Opcode(f.op)
           x == ThisParse(nodes)
           e == Meaning(x)
           rec == Rec(Pop(stack), Len(Pop(stack)))
           beg == f.beg + f.len
           len == Plus(f.len, uiPhraseLength)
           w == e[Point(f.op, 0, f.beg, f.subEnd, rec)]
           r == e[Node(f.op + 1, beg, f.subEnd, rec)]
           left == e[Point(f.op, f.k, beg, f.subEnd, rec)]
           m == e[Point(f.op, f.k + 1, beg + uiPhraseLength, f.subEnd, rec)]
<1>1. pc = "return" /\ stack # << >> /\ Id(f) = "REP" /\ UNCHANGED <<app, parse, sub>>
  BY DEF RepNext, Returning, Id
<1>2. Id(f) \notin ListIds /\ ~IsLook(f)
  BY <1>1, Kinds DEF IsLook
<1>3. /\ ChildBeg(f) = beg /\ ChildSubEnd(f) = f.subEnd
      /\ f.len \in Nat /\ f.k \in Nat
      /\ len = f.len + uiPhraseLength /\ len \in Nat
      /\ beg \in 0..uiInputStringLength
      /\ beg + uiPhraseLength = f.beg + len
      /\ beg + uiPhraseLength \in 0..uiInputStringLength
  BY <1>1, Accumulating
<1>4. /\ Parsing
      /\ f \in Frame /\ rec \in BOOLEAN
      /\ f.op \in 0..Len(grammar.ops)
      /\ f.subEnd \in 0..uiInputStringLength
      /\ FrameMeans(e, f, rec)
      /\ uiOpState = "MATCH" <=> r.ok
      /\ uiPhraseLength = r.len /\ uiPhraseLength \in Nat
  <2>1. (rec /\ ~IsLook(f)) = rec
    BY <1>2 DEF Rec
  <2>2. ChildOp(f) = f.op + 1
    BY <1>1, <1>2 DEF ChildOp
  <2>3. r = e[Node(ChildOp(f), ChildBeg(f), ChildSubEnd(f), rec /\ ~IsLook(f))]
    BY <1>3, <2>1, <2>2
  <2> QED
    BY <1>1, <2>3, Answered
<1>5. uiOpState \in {"MATCH", "NOMATCH"} /\ o.max \in Nat /\ o.min \in Nat
  BY <1>1, ReturnFacts DEF Meant, OpcodeSet
<1>6. /\ m \in Results /\ Extends(w, f.len, left) /\ f.k < o.max
      /\ left = IF ~r.ok THEN Check(f.k >= o.min) ELSE IF r.len = 0 THEN r ELSE Then(r, m)
      /\ f.k + 1 >= o.max => m = Found(0, << >>)
  BY <1>1, RepTurn
<1>8. f.k + 1 \in Nat /\ ~(f.k >= o.max)
  BY <1>3, <1>5, <1>6
<1>10. m.ok \in BOOLEAN /\ m.len \in Nat
  BY <1>6, ResultParts
<1>13. /\ uiOpState = "MATCH" /\ uiPhraseLength = 0 => w.ok /\ w.len = f.len
       /\ uiOpState = "NOMATCH" /\ f.k >= o.min => w.ok /\ w.len = f.len
       /\ uiOpState = "NOMATCH" /\ ~(f.k >= o.min) => ~w.ok /\ w.len = 0
       /\ uiOpState = "MATCH" /\ uiPhraseLength > 0 => Extends(w, len, m)
  <2> HIDE DEF w, r, m, len, left, o
  <2>1. CASE uiOpState = "NOMATCH"
    <3>1. left = IF f.k >= o.min THEN Found(0, << >>) ELSE Failed
      BY <1>4, <1>6, <2>1 DEF Check
    <3> QED
      BY <1>3, <1>6, <2>1, <3>1, ExtendsEnd
  <2>2. CASE uiOpState = "MATCH" /\ uiPhraseLength = 0
    <3>1. left = r /\ r.ok /\ r.len = 0
      BY <1>4, <1>6, <2>2
    <3>2. w.ok /\ w.len = f.len
      BY <1>3, <1>6, <3>1, ExtendsEnd
    <3> QED
      BY <2>2, <3>2
  <2>3. CASE uiOpState = "MATCH" /\ uiPhraseLength > 0
    <3>1. left = Then(r, m)
      BY <1>4, <1>6, <2>3
    <3>2. Extends(w, f.len + r.len, m)
      BY SMTT(40), <1>3, <1>4, <1>6, <1>10, <3>1, ExtendsThen
    <3> QED
      BY <1>3, <1>4, <2>3, <3>2
  <2> QED
    BY <1>4, <1>5, <2>1, <2>2, <2>3
<1>14. uiSubStringEnd' \in Ends(grammar, config)
  BY <1>1, SameEnd
<1> DEFINE g == [f EXCEPT !.k = @ + 1, !.len = len]
<1>15. ASSUME NEW a, NEW state, NEW offset, NEW length, OpReturn(a, state, offset, length),
              state = "MATCH" <=> w.ok, length = w.len
       PROVE  MeanInv(nodes)'
  <2>1. Finish(Pop(stack), a, state, offset, length)
    BY <1>15 DEF OpReturn
  <2> HIDE DEF e, rec, f
  <2> QED
    BY <1>1, <1>14, <1>15, <2>1, CloseMeans DEF e, x, rec, f
<1>16. CASE /\ uiOpState = "MATCH" /\ uiPhraseLength > 0 /\ ~(f.k + 1 >= o.max)
            /\ \E a : Continue(Append(Pop(stack), g), f.op + 1, a)
  <2>1. PICK a : Continue(Append(Pop(stack), g), f.op + 1, a)
    BY <1>16
  <2>2. /\ g \in Frame /\ g.op = f.op /\ g.beg = f.beg /\ g.len = len /\ g.k = f.k + 1
        /\ g.subEnd = f.subEnd
    <3> HIDE DEF f, len
    <3> QED
      BY <1>3, <1>4, <1>8 DEF Frame
  <2>3. Id(g) = "REP" /\ ChildOp(g) = f.op + 1
    <3>1. Id(g) = "REP"
      BY <1>1, <2>2 DEF Id
    <3> HIDE DEF g, f
    <3> QED
      BY <1>1, <1>2, <2>2, <3>1 DEF ChildOp
  <2>4. FrameMeans(e, g, rec)
    <3>1. Extends(w, len, e[Point(f.op, f.k + 1, f.beg + len, f.subEnd, rec)])
      BY <1>3, <1>13, <1>16
    <3>2. f.k + 1 < o.max
      BY <1>5, <1>8, <1>16
    <3> HIDE DEF x, e, rec, f, g, len
    <3>3. /\ g.k < Opcode(g.op).max
          /\ Extends(e[Point(g.op, 0, g.beg, g.subEnd, rec)], g.len,
                     e[Point(g.op, g.k, g.beg + g.len, g.subEnd, rec)])
      BY <2>2, <3>1, <3>2
    <3>4. Id(g) # "ALT" /\ Id(g) # "CAT" /\ Id(g) \notin LookBackIds
      BY <2>3 DEF LookBackIds
    <3> QED
      BY <3>3, <3>4 DEF FrameMeans
  <2>5. CASE a.error
    BY <2>1, <2>5, ThrowMeans DEF Continue, Throw
  <2>6. CASE ~a.error
    <3>1. Call(Append(Pop(stack), g), ChildOp(g)) /\ spState' = spState
      BY <2>1, <2>3, <2>6 DEF Continue
    <3> HIDE DEF g, e, rec, f
    <3> QED
      BY <1>1, <1>14, <2>2, <2>4, <3>1, GoesOnMeans DEF g, e, rec, f
  <2> QED
    BY <2>5, <2>6
<1>17. \/ \E a, offset : /\ uiOpState = "MATCH" /\ uiPhraseLength = 0
                         /\ OpReturn(a, "MATCH", offset, f.len)
       \/ \E a, offset : /\ uiOpState = "NOMATCH" /\ f.k >= o.min
                         /\ OpReturn(a, "MATCH", offset, f.len)
       \/ \E a, offset : /\ uiOpState = "NOMATCH" /\ ~(f.k >= o.min)
                         /\ OpReturn(a, "NOMATCH", offset, 0)
       \/ \E a, offset : /\ uiOpState = "MATCH" /\ uiPhraseLength > 0 /\ f.k + 1 >= o.max
                         /\ OpReturn(a, "MATCH", offset, len)
       \/ /\ uiOpState = "MATCH" /\ uiPhraseLength > 0 /\ ~(f.k + 1 >= o.max)
          /\ \E a : Continue(Append(Pop(stack), g), f.op + 1, a)
  <2>1. f.k >= o.min /\ f.k =< o.max <=> f.k >= o.min
    BY <1>3, <1>5, <1>6
  <2> QED
    BY <2>1 DEF RepNext
<1>18. uiOpState = "MATCH" /\ uiPhraseLength > 0 /\ f.k + 1 >= o.max => w.ok /\ w.len = len
  <2> HIDE DEF w, m, len, o
  <2> QED
    BY <1>3, <1>6, <1>13, ExtendsEnd
<1> HIDE DEF w, f, g, o, len
<1> QED
  BY <1>13, <1>15, <1>16, <1>17, <1>18

\* Rules and look-arounds wait where they began.
LEMMA Waiting ==
  ASSUME NEW nodes, Meant(nodes), pc = "return", stack # << >>,
         NEW f, f = Top(stack), Id(f) \notin {"CAT", "REP"} \cup LookBackIds
  PROVE  ChildBeg(f) = f.beg /\ ChildSubEnd(f) = f.subEnd
BY DEF ChildBeg, ChildSubEnd, IsLookBack, Id

LEMMA RnmCloseMeans ==
  ASSUME NEW nodes, Meant(nodes), RnmClose
  PROVE  MeanInv(nodes)'
<1> DEFINE f == Top(stack)
           x == ThisParse(nodes)
           e == Meaning(x)
           rec == Rec(Pop(stack), Len(Pop(stack)))
           child == grammar.rules[Opcode(f.op).index].op
           w == e[Point(f.op, 0, f.beg, f.subEnd, rec)]
           r == e[Node(child, f.beg, f.subEnd, rec)]
<1>1. pc = "return" /\ stack # << >> /\ Id(f) = "RNM" /\ UNCHANGED <<app, parse, sub>>
  BY DEF RnmClose, Returning, Id
<1>2. Id(f) \notin ListIds /\ ~IsLook(f) /\ Id(f) \notin LookBackIds
  BY <1>1, Kinds, Disjoint DEF IsLook
<1>3. ChildBeg(f) = f.beg /\ ChildSubEnd(f) = f.subEnd
  BY <1>1, <1>2, Waiting
<1>4. /\ Parsing
      /\ rec \in BOOLEAN
      /\ f.op \in 0..Len(grammar.ops)
      /\ f.beg \in 0..uiInputStringLength
      /\ f.subEnd \in 0..uiInputStringLength
      /\ uiOpState = "MATCH" <=> r.ok
      /\ uiPhraseLength = r.len
  <2>1. (rec /\ ~IsLook(f)) = rec
    BY <1>2 DEF Rec
  <2>2. ChildOp(f) = child
    BY <1>1, <1>2 DEF ChildOp
  <2> QED
    BY <1>1, <1>3, <2>1, <2>2, Answered
<1>5. Solves(x, e) /\ OpAt(x, f.op) = Opcode(f.op) /\ x.g = grammar
  BY <1>4, ParseFacts
<1>6. Point(f.op, 0, f.beg, f.subEnd, rec) \in Points(x)
  BY <1>4, PointFacts
<1>7. (w.ok <=> r.ok) /\ w.len = r.len
  <2> HIDE DEF x, e, rec, f
  <2>1. LET q == e[Node(x.g.rules[OpAt(x, f.op).index].op, f.beg, f.subEnd, rec)]
        IN (w.ok <=> q.ok) /\ w.len = q.len
    BY SMTT(40), <1>1, <1>5, <1>6, RnmMeans DEF Id
  <2> QED
    BY <1>5, <2>1
<1>8. \A answer \in RnmResults : answer.state = "ACTIVE"
  BY DEF Meant, Decided
<1>9. pc' = "idle" \/ \E a, offset : OpReturn(a, uiOpState, offset, uiPhraseLength)
  BY <1>8 DEF RnmClose, Throw, RnmReturn
<1>10. CASE \E a, offset : OpReturn(a, uiOpState, offset, uiPhraseLength)
  <2>1. PICK a, offset : Finish(Pop(stack), a, uiOpState, offset, uiPhraseLength)
    BY <1>10 DEF OpReturn
  <2>2. (uiOpState = "MATCH" <=> w.ok) /\ uiPhraseLength = w.len
    BY <1>4, <1>7
  <2>3. uiSubStringEnd' \in Ends(grammar, config)
    BY <1>1, SameEnd
  <2> HIDE DEF e, rec, f
  <2> QED
    BY <1>1, <2>1, <2>2, <2>3, CloseMeans DEF e, x, rec, f
<1> QED
  BY <1>9, <1>10, ThrowMeans

LEMMA LookAheadCloseMeans ==
  ASSUME NEW nodes, Meant(nodes), LookAheadClose
  PROVE  MeanInv(nodes)'
<1> DEFINE f == Top(stack)
           o == Opcode(f.op)
           x == ThisParse(nodes)
           e == Meaning(x)
           rec == Rec(Pop(stack), Len(Pop(stack)))
           p == Point(f.op, 0, f.beg, f.subEnd, rec)
           w == e[p]
           r == e[Node(f.op + 1, f.beg, f.subEnd, FALSE)]
           state == IF o.id = "NOT" THEN Negate(uiOpState) ELSE uiOpState
<1>1. pc = "return" /\ stack # << >> /\ Id(f) \in LookAheadIds /\ UNCHANGED <<app, parse, sub>>
  BY DEF LookAheadClose, Returning, Id
<1>2. Id(f) \notin ListIds \cup {"RNM", "CAT", "REP"} \cup LookBackIds /\ IsLook(f)
  BY <1>1 DEF IsLook, LookIds, ListIds, LookAheadIds, LookBackIds
<1>3. ChildBeg(f) = f.beg /\ ChildSubEnd(f) = f.subEnd
  BY <1>1, <1>2, Waiting
<1>4. /\ Parsing
      /\ rec \in BOOLEAN
      /\ f.op \in 0..Len(grammar.ops)
      /\ f.beg \in 0..uiInputStringLength
      /\ f.subEnd \in 0..uiInputStringLength
      /\ uiOpState = "MATCH" <=> r.ok
  <2>1. (rec /\ ~IsLook(f)) = FALSE
    BY <1>2
  <2>2. ChildOp(f) = f.op + 1
    BY <1>2 DEF ChildOp
  <2> QED
    BY <1>1, <1>3, <2>1, <2>2, Answered
<1>5. Solves(x, e) /\ OpAt(x, f.op) = o
  BY <1>4, ParseFacts
<1>6. p \in Points(x)
  BY <1>4, PointFacts
<1>7. Ahead(e, p) = r.ok
  <2>1. p.op = f.op /\ p.beg = f.beg /\ p.end = f.subEnd
    BY PointParts
  <2> HIDE DEF p, f, e
  <2> QED
    BY <2>1 DEF Ahead
<1>8. /\ o.id = "AND" => w = Check(r.ok)
      /\ o.id = "NOT" => w = Check(~r.ok)
  <2>1. p.op = f.op
    BY PointParts
  <2> HIDE DEF x, e, p, r, f, o
  <2>2. /\ o.id = "AND" => e[p] = Check(Ahead(e, p))
        /\ o.id = "NOT" => e[p] = Check(~Ahead(e, p))
    BY <1>5, <1>6, <2>1, OpMeans
  <2> QED
    BY <1>7, <2>2 DEF Check
<1>9. uiOpState \in {"MATCH", "NOMATCH"}
  BY <1>1, ReturnFacts DEF Meant
<1>10. (state = "MATCH" <=> w.ok) /\ w.len = 0
  <2>1. o.id \in {"AND", "NOT"}
    BY <1>1 DEF LookAheadIds, Id
  <2> HIDE DEF w, r, o
  <2> QED
    BY <1>4, <1>8, <1>9, <2>1 DEF Check, Found, Failed, Negate
<1>11. PICK a : Finish(Pop(stack), a, state, f.beg, 0)
  BY DEF LookAheadClose, OpReturn
<1>12. uiSubStringEnd' \in Ends(grammar, config)
  BY <1>1, SameEnd
<1> HIDE DEF e, rec, f, state
<1> QED
  BY <1>1, <1>10, <1>11, <1>12, CloseMeans DEF e, x, rec, f

\* What the frame of a look-behind waits for.
LEMMA Behinds ==
  ASSUME NEW nodes, Meant(nodes), Returning(LookBackIds)
  PROVE  LET f == Top(stack)
             e == Meaning(ThisParse(nodes))
             r == e[Node(f.op + 1, f.beg - f.k, f.beg, FALSE)]
         IN
         /\ pc = "return" /\ stack # << >> /\ Parsing
         /\ Id(f) \in LookBackIds
         /\ f \in Frame
         /\ f.op \in 1..Len(grammar.ops) /\ grammar.ops[f.op] = Opcode(f.op)
         /\ f.beg \in 0..uiInputStringLength
         /\ f.subEnd \in 0..uiInputStringLength
         /\ f.k \in Nat /\ f.k =< LookBackLimit(f)
         /\ Rec(Pop(stack), Len(Pop(stack))) \in BOOLEAN
         /\ \A d \in 0..(f.k - 1) : ~e[Node(f.op + 1, f.beg - d, f.beg, FALSE)].ok
         /\ uiOpState = "MATCH" <=> r.ok
         /\ uiPhraseLength = r.len
         /\ Ends(grammar, config) = 0..uiInputStringLength
<1> DEFINE f == Top(stack)
           e == Meaning(ThisParse(nodes))
           r == e[Node(f.op + 1, f.beg - f.k, f.beg, FALSE)]
<1> DEFINE rec == Rec(Pop(stack), Len(Pop(stack)))
<1>1. pc = "return" /\ stack # << >> /\ Id(f) \in LookBackIds /\ Parsing /\ f.k \in Nat
  BY LookBackFrame DEF Id, Meant
<1>2. Id(f) \notin ListIds \cup {"RNM"} /\ IsLook(f)
  BY <1>1 DEF IsLook, LookIds, ListIds, LookBackIds
<1>3. ChildBeg(f) = f.beg - f.k /\ ChildSubEnd(f) = f.beg
  BY <1>1 DEF ChildBeg, ChildSubEnd, IsLookBack, Id
<1>4. /\ f \in Frame
      /\ rec \in BOOLEAN
      /\ f.op \in 0..Len(grammar.ops)
      /\ f.beg \in 0..uiInputStringLength
      /\ f.subEnd \in 0..uiInputStringLength
      /\ FrameMeans(e, f, rec)
      /\ uiOpState = "MATCH" <=> r.ok
      /\ uiPhraseLength = r.len
  <2>1. (rec /\ ~IsLook(f)) = FALSE
    BY <1>2
  <2>2. ChildOp(f) = f.op + 1
    BY <1>2 DEF ChildOp
  <2> QED
    BY <1>1, <1>3, <2>1, <2>2, Answered
<1>5. f.k =< LookBackLimit(f) /\ \A d \in 0..(f.k - 1) : ~e[Node(f.op + 1, f.beg - d, f.beg, FALSE)].ok
  BY <1>1, <1>4 DEF FrameMeans
<1>6. f.op \in 1..Len(grammar.ops) /\ grammar.ops[f.op] = Opcode(f.op)
  <2>1. grammar \in Grammars /\ config.start \in 1..uiRuleCount
    BY <1>1, RunFacts DEF Meant
  <2>2. f.op \in 1..Len(grammar.ops)
    BY <1>2, <1>4, <2>1, OpcodeFacts DEF Id
  <2> QED
    BY <2>2 DEF Opcode
<1>7. Ends(grammar, config) = 0..uiInputStringLength
  BY <1>1, <1>6 DEF Ends, Id, uiInputStringLength
<1> QED
  BY <1>1, <1>4, <1>5, <1>6, <1>7

LEMMA LookBackAgainMeans ==
  ASSUME NEW nodes, Meant(nodes), LookBackAgain
  PROVE  MeanInv(nodes)'
<1> DEFINE f == Top(stack)
           e == Meaning(ThisParse(nodes))
           rec == Rec(Pop(stack), Len(Pop(stack)))
           r == e[Node(f.op + 1, f.beg - f.k, f.beg, FALSE)]
           g == NextTry(f)
<1>1. /\ pc = "return" /\ stack # << >> /\ Parsing /\ Id(f) \in LookBackIds
      /\ f \in Frame /\ f.k \in Nat /\ f.beg \in Nat
      /\ \A d \in 0..(f.k - 1) : ~e[Node(f.op + 1, f.beg - d, f.beg, FALSE)].ok
      /\ uiOpState = "MATCH" <=> r.ok
  <2>1. Returning(LookBackIds)
    BY DEF LookBackAgain
  <2>2. /\ pc = "return" /\ stack # << >> /\ Parsing /\ Id(f) \in LookBackIds
        /\ f \in Frame /\ f.k \in Nat
        /\ \A d \in 0..(f.k - 1) : ~e[Node(f.op + 1, f.beg - d, f.beg, FALSE)].ok
        /\ uiOpState = "MATCH" <=> r.ok
    BY <2>1, Behinds
  <2> HIDE DEF f, e
  <2> QED
    BY <2>2 DEF Frame
<1>2. /\ uiOpState # "MATCH" /\ f.k < LookBackLimit(f)
      /\ Call(Append(Pop(stack), g), f.op + 1)
      /\ UNCHANGED <<app, parse, sub>> /\ spState' = spState
  BY DEF LookBackAgain
<1>3. /\ g \in Frame /\ g.op = f.op /\ g.beg = f.beg /\ g.k = f.k + 1
  BY <1>1 DEF NextTry, Frame
<1>4. Id(g) \in LookBackIds /\ LookBackLimit(g) = LookBackLimit(f)
  BY <1>1, <1>3 DEF Id, LookBackLimit
<1>5. Id(g) \notin {"ALT", "CAT", "REP", "RNM"} \cup ListIds
  BY <1>4 DEF LookBackIds, ListIds
<1>6. ChildOp(g) = f.op + 1
  BY <1>3, <1>5 DEF ChildOp
<1>7. FrameMeans(e, g, rec)
  <2>1. uiLookBehindLength \in Nat
    BY DEF Meant, IInv, TypeOK
  <2>2. g.k =< LookBackLimit(g)
    BY <1>1, <1>2, <1>3, <1>4, <2>1 DEF LookBackLimit
  <2>3. \A d \in 0..(g.k - 1) : ~e[Node(f.op + 1, f.beg - d, f.beg, FALSE)].ok
    <3>1. ASSUME NEW d \in 0..(g.k - 1)
          PROVE  d = f.k \/ d \in 0..(f.k - 1)
      BY <1>1, <1>3
    <3> QED
      BY <1>1, <1>2, <3>1
  <2> HIDE DEF e, rec, g
  <2> QED
    BY <1>3, <1>4, <1>5, <2>2, <2>3 DEF FrameMeans
<1>8. uiSubStringEnd' \in Ends(grammar, config)
  BY <1>1, <1>2, SameEnd
<1> HIDE DEF e, rec, g
<1> QED
  BY <1>1, <1>2, <1>3, <1>6, <1>7, <1>8, GoesOnMeans DEF e, rec

\* The look-behind has found the one distance at which its child matches up to beg, or
\* there is none.
LEMMA BehindFound ==
  ASSUME NEW nodes, Meant(nodes), Returning(LookBackIds),
         NEW f, f = Top(stack), NEW x, x = ThisParse(nodes), NEW e, e = Meaning(x),
         NEW p, p.op = f.op, p.beg = f.beg,
         uiOpState = "MATCH" \/ f.k = LookBackLimit(f)
  PROVE  Behind(x, e, p) <=> uiOpState = "MATCH" /\ uiPhraseLength = f.k
<1> DEFINE Matches(d) == MatchesBehind(e, f.op + 1, f.beg, d)
           Ok(d) == e[Node(f.op + 1, f.beg - d, f.beg, FALSE)].ok
           max == LookBehindMax(x, f.beg)
<1>1. /\ Parsing /\ Id(f) \in LookBackIds
      /\ f.op \in 1..Len(grammar.ops) /\ grammar.ops[f.op] = Opcode(f.op)
      /\ f.beg \in 0..uiInputStringLength
      /\ f.k \in Nat /\ f.k =< LookBackLimit(f)
      /\ \A d \in 0..(f.k - 1) : ~Ok(d)
      /\ uiOpState = "MATCH" <=> Ok(f.k)
      /\ uiPhraseLength = e[Node(f.op + 1, f.beg - f.k, f.beg, FALSE)].len
  BY Behinds
<1>2. /\ x.g = grammar /\ x.behind = uiLookBehindLength /\ Len(x.input) = uiInputStringLength
      /\ FirstIsExact(x)
  BY <1>1, ParseFacts DEF PlainParse
<1>3. max = LookBackLimit(f) /\ max \in Nat
  <2>1. uiLookBehindLength \in Nat /\ uiInputStringLength \in Nat
    BY <1>1, RunFacts DEF Meant, IInv, TypeOK, Positions
  <2> QED
    BY <1>1, <1>2, <2>1 DEF LookBehindMax, LookBackLimit
<1>4. Behind(x, e, p) <=> \E d \in 0..max : Matches(d)
  BY DEF Behind
<1>5. \A d : Matches(d) => Ok(d)
  BY DEF MatchesBehind
<1>6. Matches(f.k) <=> Ok(f.k) /\ uiPhraseLength = f.k
  BY <1>1 DEF MatchesBehind
<1>7. \A d \in 0..max : Matches(d) => \A c \in 0..d : Ok(c) => Matches(c)
  BY <1>1, <1>2 DEF FirstIsExact, Id
<1> HIDE DEF Matches, Ok, max
<1>8. ASSUME NEW d \in 0..max, Matches(d)
      PROVE  Matches(f.k)
  <2>1. d \in Nat /\ ~(d \in 0..(f.k - 1))
    BY <1>1, <1>5, <1>8
  <2>2. d >= f.k
    BY <1>1, <2>1
  <2>3. CASE d = f.k
    BY <1>8, <2>3
  <2>4. CASE d > f.k
    <3>1. f.k \in 0..d /\ f.k # LookBackLimit(f)
      BY <1>1, <1>3, <2>1, <2>4
    <3>2. Ok(f.k)
      BY <1>1, <3>1
    <3> QED
      BY <1>7, <1>8, <3>1, <3>2
  <2> QED
    BY <1>1, <2>1, <2>2, <2>3, <2>4
<1>9. f.k \in 0..max
  BY <1>1, <1>3
<1> QED
  BY <1>1, <1>4, <1>6, <1>8, <1>9

LEMMA LookBackCloseMeans ==
  ASSUME NEW nodes, Meant(nodes), LookBackClose
  PROVE  MeanInv(nodes)'
<1> DEFINE f == Top(stack)
           o == Opcode(f.op)
           x == ThisParse(nodes)
           e == Meaning(x)
           rec == Rec(Pop(stack), Len(Pop(stack)))
           p == Point(f.op, 0, f.beg, f.subEnd, rec)
           w == e[p]
           found == uiOpState = "MATCH" /\ uiPhraseLength = f.k
           behind == IF found THEN "MATCH" ELSE "NOMATCH"
           state == IF o.id = "BKN" THEN Negate(behind) ELSE behind
<1>1. /\ Returning(LookBackIds) /\ UNCHANGED <<app, parse>>
      /\ uiOpState = "MATCH" \/ f.k = LookBackLimit(f)
      /\ uiSubStringEnd' = f.subEnd
      /\ \E a : Finish(Pop(stack), a, state, f.beg, 0)
  BY DEF LookBackClose, RestoreSubString
<1>2. /\ pc = "return" /\ stack # << >> /\ Parsing /\ Id(f) \in LookBackIds
      /\ f.op \in 0..Len(grammar.ops)
      /\ f.beg \in 0..uiInputStringLength
      /\ f.subEnd \in 0..uiInputStringLength
      /\ rec \in BOOLEAN
      /\ Ends(grammar, config) = 0..uiInputStringLength
  <2>1. f.op \in 1..Len(grammar.ops) => f.op \in 0..Len(grammar.ops)
    OBVIOUS
  <2> QED
    BY <1>1, <2>1, Behinds
<1>3. Solves(x, e) /\ OpAt(x, f.op) = o
  BY <1>2, ParseFacts
<1>4. p \in Points(x) /\ p.op = f.op /\ p.beg = f.beg
  BY <1>2, PointFacts, PointParts
<1>5. Behind(x, e, p) <=> found
  BY <1>1, <1>4, BehindFound
<1>6. /\ o.id = "BKA" => w = Check(found)
      /\ o.id = "BKN" => w = Check(~found)
  <2> HIDE DEF x, e, p, f, o, found
  <2>2. /\ o.id = "BKA" => e[p] = Check(Behind(x, e, p))
        /\ o.id = "BKN" => e[p] = Check(~Behind(x, e, p))
    BY <1>3, <1>4, OpMeans
  <2> QED
    BY <1>5, <2>2 DEF Check
<1>7. (state = "MATCH" <=> w.ok) /\ w.len = 0
  <2>1. o.id \in {"BKA", "BKN"}
    BY <1>2 DEF LookBackIds, Id
  <2> HIDE DEF w, o, found
  <2> QED
    BY <1>6, <2>1 DEF Check, Found, Failed, Negate
<1>8. PICK a : Finish(Pop(stack), a, state, f.beg, 0)
  BY <1>1
<1>9. uiSubStringEnd' \in Ends(grammar, config)
  BY <1>1, <1>2
<1> HIDE DEF e, rec, f, state
<1> QED
  BY <1>1, <1>2, <1>7, <1>8, <1>9, CloseMeans DEF e, x, rec, f

-----------------------------------------------------------------------------
(* The end of a parse, and the calls of the application.                   *)

\* A report made at the end of a parse is the meaning of the start rule.
LEMMA FinishReports ==
  ASSUME Meant({}), ParserFinish
  PROVE  ReportIs(ParseMeaning({}))'
<1> DEFINE r == Meaning(ThisParse({}))[StartNode(config)]
           n == SubStringLength(config)
           len == IF uiOffset > uiSubStringBeg THEN uiOffset - uiSubStringBeg ELSE 0
<1>1. Parsing /\ pc = "return" /\ stack = << >> /\ Len(stack) = 0
  BY EmptySeq DEF ParserFinish, Parsing
<1>2. RunOK /\ ConfigOK /\ Positions
  BY <1>1, RunFacts DEF Meant
<1>3. /\ uiSubStringBeg = SubStringBeg(config)
      /\ uiSubStringEnd = SubStringEnd(config)
      /\ uiOpState \in {"MATCH", "NOMATCH"}
      /\ uiOffset = SubStringBeg(config) + uiPhraseLength
  BY <1>1, <1>2 DEF RunOK, InForce, Returned, NodeBeg, NodeSubBeg, NodeSubEnd
<1>4. n = SubStringEnd(config) - SubStringBeg(config)
      /\ SubStringEnd(config) \in Nat /\ SubStringBeg(config) \in Nat
  BY <1>2, ConfigFacts DEF Meant
<1>5. len = uiPhraseLength /\ uiPhraseLength \in Nat
  BY <1>2, <1>3, <1>4 DEF Positions
<1>6. NodeAbove(stack, Len(stack)) = StartNode(config)
  <2>1. Rec(stack, Len(stack)) = TRUE
    BY <1>1 DEF Rec
  <2> QED
    BY <1>1, <2>1 DEF NodeAbove, StartNode, OpAbove, NodeBeg, NodeSubEnd
<1>7. (uiOpState = "MATCH" <=> r.ok) /\ uiPhraseLength = r.len
  BY <1>1, <1>6 DEF Meant, MeanInv, AnswerMeans
<1>8. r.ok \in BOOLEAN
  <2>1. /\ 0 \in 0..Len(grammar.ops) /\ TRUE \in BOOLEAN
        /\ SubStringBeg(config) \in 0..uiInputStringLength
        /\ SubStringEnd(config) \in 0..uiInputStringLength
    BY <1>2, <1>4, ConfigFacts, RunFacts, <1>1, LenProperties DEF Meant, GrammarOK
  <2>2. StartNode(config) \in Points(ThisParse({}))
    BY <2>1, PointFacts DEF StartNode
  <2> QED
    BY <1>1, <2>2, ResultFacts
<1>9. spState' = [outcome |-> "parsed", state |-> uiOpState,
                  success |-> uiOpState # "NOMATCH" /\ len = n,
                  length |-> len, stringLength |-> n, depth |-> uiMaxTreeDepth]
      /\ UNCHANGED <<app, parse>>
  BY DEF ParserFinish
<1>10. ParseMeaning({})' = r /\ SubStringBeg(config)' = SubStringBeg(config)
       /\ SubStringEnd(config)' = SubStringEnd(config)
  <2>1. config' = config
    BY <1>9 DEF parse
  <2> QED
    BY <1>9, <2>1, MeansCarried DEF ParseMeaning, StartNode, SubStringBeg, SubStringEnd
<1> HIDE DEF r, n, len
<1>11. /\ spState'.state = uiOpState /\ spState'.length = r.len
       /\ spState'.success = (uiOpState # "NOMATCH" /\ r.len = n)
  BY <1>5, <1>7, <1>9
<1>12. uiOpState = IF r.ok THEN "MATCH" ELSE "NOMATCH"
  BY <1>3, <1>7
<1>13. (uiOpState # "NOMATCH" /\ r.len = n)
         = (r.ok /\ SubStringBeg(config) + r.len = SubStringEnd(config))
  <2>1. r.len \in Nat
    BY <1>5, <1>7
  <2>2. r.len = n <=> SubStringBeg(config) + r.len = SubStringEnd(config)
    BY <1>4, <2>1
  <2>3. uiOpState # "NOMATCH" <=> r.ok
    BY <1>12
  <2> QED
    BY <1>8, <2>2, <2>3
<1> QED
  BY <1>10, <1>11, <1>12, <1>13 DEF ReportIs

\* A parse begins at the start rule.
LEMMA ParseMeans ==
  ASSUME NEW nodes, Contract, IInv, NEW c \in Configs, ParserParse(c)
  PROVE  MeanInv(nodes)'
<1>1. /\ config' = c /\ uiSubStringEnd' = SubStringEnd(c) /\ uiLookBehindLength' = LookBehind(c)
      /\ spState' = NoState /\ pc' = "call" /\ callee' = 0 /\ stack' = << >>
      /\ UNCHANGED app
  BY DEF ParserParse, Call
<1>2. /\ Parsing' /\ ConfigOK' /\ (uiSubStringEnd \in 0..uiInputStringLength)'
  <2>1. RunOK' /\ Parsing'
    BY <1>1, ParserParseStep DEF IInv, Parsing
  <2>2. TypeOK'
    BY ParserParseStep DEF IInv
  <2>3. (uiSubStringEnd \in Nat /\ uiInputStringLength \in Nat /\ uiSubStringEnd =< uiInputStringLength)'
    BY <2>1, <2>2, LenProperties DEF RunOK, InForce, TypeOK, ConfigSet, uiInputStringLength
  <2> QED
    BY <2>1, <2>3 DEF RunOK
<1>3. Len(stack') = 0
  BY <1>1, EmptySeq
<1>4. \A e : StackMeans(e, stack)'
  BY <1>3 DEF StackMeans
<1>5. callee' = OpAbove(stack, Len(stack))'
  BY <1>1, <1>3 DEF OpAbove
<1>6. (uiSubStringEnd \in Ends(grammar, config))'
  BY <1>1, <1>2 DEF Ends, SubStringEnd, uiInputStringLength
<1>7. (uiLookBehindLength \in 0..uiInputStringLength)'
  <2>1. Len(c.input) \in Nat /\ uiLookBehindLength \in Nat
    BY LenProperties, ParserAssumption DEF ConfigSet, IInv, TypeOK
  <2> QED
    BY <1>1, <2>1 DEF LookBehind, uiInputStringLength
<1>8. spState'.outcome = "none"
  BY <1>1 DEF NoState
<1> QED
  BY <1>1, <1>4, <1>5, <1>6, <1>7, <1>8 DEF MeanInv

-----------------------------------------------------------------------------
(* The theorem.                                                            *)

\* A step of the parser keeps the invariant.
LEMMA StepMeans ==
  ASSUME NEW nodes, Meant(nodes), ParserStep
  PROVE  MeanInv(nodes)'
<1>1. ParserFinish => pc' = "idle"
  BY DEF ParserFinish
<1> QED
  BY <1>1, ThrowMeans, PredictMeans, AltOpenMeans, AltNextMeans, CatOpenMeans, CatNextMeans,
     NextOpenMeans, RepNextMeans, RnmOpenMeans, RnmCloseMeans, MatchTerminalMeans, UdtMeans,
     LookAheadCloseMeans, LookBackAgainMeans, LookBackCloseMeans, AnchorMeans
     DEF ParserStep

\* Between parses the application only changes what the meaning does not depend on.
IdleOnly == pc = "idle" /\ UNCHANGED <<grammar, parse, pc, spState>>

LEMMA ApplicationSeen ==
  ASSUME Application
  PROVE  IdleOnly \/ \E c \in Configs : ParserParse(c) \/ ParserParseThrows(c)
<1>1. ASSUME NEW r \in AppRules, SetRuleCallback(r)
      PROVE  IdleOnly
  BY <1>1 DEF SetRuleCallback, control, IdleOnly
<1>2. ASSUME NEW u \in 1..Len(grammar.udts), SetUdtCallback(u)
      PROVE  IdleOnly
  BY <1>2 DEF SetUdtCallback, control, IdleOnly
<1>3. ASSUME NEW a, SetAst(a)
      PROVE  IdleOnly
  BY <1>3 DEF SetAst, app, control, IdleOnly
<1> QED
  BY <1>1, <1>2, <1>3 DEF Application, SetAstCallback

LEMMA IdleKeeps ==
  ASSUME UNCHANGED <<grammar, parse, spState>>, ParseIsMeaning
  PROVE  ParseIsMeaning'
<1>1. config' = config /\ uiLookBehindLength' = uiLookBehindLength
  BY DEF parse
<1>2. Decided' = Decided
  BY DEF Decided
<1>3. ParseMeaning({})' = ParseMeaning({})
  BY <1>1 DEF ParseMeaning, ThisParse, StartNode, SubStringBeg, SubStringEnd
<1>4. \A m : ReportIs(m)' = ReportIs(m)
  BY <1>1 DEF ReportIs, SubStringBeg, SubStringEnd
<1> QED
  BY <1>2, <1>3, <1>4 DEF ParseIsMeaning

\* What holds throughout.
Reported == IInv /\ (Decided => MeanInv({})) /\ ParseIsMeaning

LEMMA ReportedNext ==
  ASSUME Contract, AllPlain({}), AllMean({}), Reported, [Next]_vars
  PROVE  Reported'
<1>1. IInv'
  BY NextInv DEF Reported
<1>2. CASE ParserStep
  <2>1. UNCHANGED <<app, parse>>
    BY <1>2, StepSeen DEF GoesOn, IsAbandoned, ParserFinish
  <2>2. Decided' = Decided
    BY <2>1 DEF Decided, app
  <2>3. CASE ~Decided
    BY <1>1, <2>2, <2>3 DEF Reported, ParseIsMeaning
  <2>4. CASE Decided
    <3>1. Meant({})
      BY <2>4 DEF Meant, Reported
    <3>2. MeanInv({})'
      BY <1>2, <3>1, StepMeans
    <3>3. ParseIsMeaning'
      <4>1. CASE ParserFinish
        BY <3>1, <4>1, FinishReports DEF ParseIsMeaning
      <4>2. CASE GoesOn
        <5>1. Parsing' /\ spState'.outcome = "none"
          BY <3>2, <4>2 DEF GoesOn, Parsing, MeanInv
        <5> QED
          BY <5>1 DEF ParseIsMeaning
      <4>3. CASE IsAbandoned
        BY <4>3 DEF IsAbandoned, NoState, ParseIsMeaning
      <4> QED
        BY <1>2, <4>1, <4>2, <4>3, StepSeen
    <3> QED
      BY <1>1, <3>2, <3>3 DEF Reported
  <2> QED
    BY <2>3, <2>4
<1>3. ASSUME NEW c \in Configs, ParserParse(c)
      PROVE  Reported'
  <2>1. spState' = NoState
    BY <1>3 DEF ParserParse
  <2>2. ParseIsMeaning'
    BY <2>1 DEF NoState, ParseIsMeaning
  <2>3. MeanInv({})'
    BY <1>3, ParseMeans DEF Reported
  <2> QED
    BY <1>1, <2>2, <2>3 DEF Reported
<1>4. ASSUME NEW c \in Configs, ParserParseThrows(c)
      PROVE  Reported'
  <2>1. pc' = "idle" /\ spState'.outcome = "argument"
    BY <1>4 DEF ParserParseThrows, Throw, NoState
  <2> QED
    BY <1>1, <2>1, ThrowMeans DEF Reported, ParseIsMeaning
<1>5. CASE IdleOnly
  <2>1. ParseIsMeaning'
    BY <1>5, IdleKeeps DEF IdleOnly, Reported
  <2>2. MeanInv({})'
    BY <1>5, ThrowMeans DEF IdleOnly
  <2> QED
    BY <1>1, <2>1, <2>2 DEF Reported
<1>6. CASE UNCHANGED vars
  <2>1. UNCHANGED <<grammar, parse, sub, phrase, control, spState>>
    BY <1>6 DEF vars, app
  <2>2. ParseIsMeaning'
    BY <2>1, IdleKeeps DEF Reported
  <2>3. (Decided => MeanInv({}))' = (Decided => MeanInv({}))
    BY <2>1 DEF Decided, MeanInv, parse, sub, phrase, control, Parsing, ThisParse, StackMeans,
       FrameMeans, AnswerMeans, OpAbove, ChildOp, NodeAbove, NodeBeg, NodeSubEnd, ChildBeg,
       ChildSubEnd, IsLookBack, SubStringBeg, SubStringEnd, Rec, IsLook, Id, Opcode, LookBackLimit,
       uiInputStringLength
  <2> QED
    BY <1>1, <2>2, <2>3 DEF Reported
<1> QED
  BY <1>2, <1>3, <1>4, <1>5, <1>6, ApplicationSeen DEF Next

LEMMA ReportedInit ==
  ASSUME Init
  PROVE  Reported
BY InitInv DEF Reported, Init, NoState, ParseIsMeaning, MeanInv, Parsing

\* vParserParse reports what the grammar means: whether the start rule matches at the
\* beginning of the sub-string, how much of it, and whether that is all of it, for every
\* grammar that means something and that the parser does not read otherwise than SABNF.md
\* does, every input and sub-string, with or without prediction, with any AST and any
\* parser callbacks that leave the decision to the parser, however many parses came before
\* and whatever exceptions ended them.
THEOREM MeaningReported ==
  Contract /\ AllPlain({}) /\ AllMean({}) => (Spec => []ParseIsMeaning)
<1> SUFFICES ASSUME Contract, AllPlain({}), AllMean({})
             PROVE  Spec => []ParseIsMeaning
  OBVIOUS
<1>1. Init => Reported
  BY ReportedInit
<1>2. Reported /\ [Next]_vars => Reported'
  BY ReportedNext
<1>3. Reported => ParseIsMeaning
  BY DEF Reported
<1> QED
  BY <1>1, <1>2, <1>3, PTL DEF Spec

-----------------------------------------------------------------------------
(* What records say.                                                       *)

Line(x) == <<x.index, x.state, x.offset, x.length>>

\* what the records behind the first c, up to the first d, say
Lines(r, c, d) == [k \in 1..(d - c) |-> Line(r[c + k])]

Node4 == Nat \X {"PRE", "POST"} \X Nat \X Nat

LEMMA LineType ==
  ASSUME NEW x \in Record
  PROVE  Line(x) \in Node4
BY RecordParts DEF Line, Node4

LEMMA LinesParts ==
  ASSUME NEW r \in Seq(Record), NEW c \in Nat, NEW d \in Nat, c =< d, d =< Len(r)
  PROVE  /\ Lines(r, c, d) \in Seq(Node4)
         /\ Len(Lines(r, c, d)) = d - c
         /\ \A k \in 1..(d - c) : Lines(r, c, d)[k] = Line(r[c + k])
<1> DEFINE n == d - c
           t == Lines(r, c, d)
<1>1. n \in Nat /\ Len(r) \in Nat
  BY LenProperties
<1>2. \A k \in 1..n : Line(r[c + k]) \in Node4
  <2> TAKE k \in 1..n
  <2>1. c + k \in 1..Len(r)
    BY <1>1
  <2> QED
    BY <2>1, ElementOfSeq, LineType
<1>3. t = [k \in 1..n |-> Line(r[c + k])]
  BY DEF Lines
<1> HIDE DEF n, t
<1>4. t \in Seq(Node4) /\ Len(t) = n
  BY <1>1, <1>2, <1>3
<1> QED
  BY <1>3, <1>4 DEF n, t

LEMMA LinesEmpty ==
  ASSUME NEW r, NEW c \in Nat
  PROVE  Lines(r, c, c) = << >>
<1>1. 1..(c - c) = {}
  OBVIOUS
<1> QED
  BY <1>1 DEF Lines

LEMMA LinesSame ==
  ASSUME NEW a, NEW b, NEW c \in Nat, NEW d \in Nat, \A k \in 1..d : a[k] = b[k]
  PROVE  Lines(a, c, d) = Lines(b, c, d)
<1>1. \A k \in 1..(d - c) : c + k \in 1..d
  OBVIOUS
<1> QED
  BY <1>1 DEF Lines

LEMMA LinesJoin ==
  ASSUME NEW r \in Seq(Record), NEW c \in Nat, NEW d \in Nat, NEW n \in Nat,
         c =< d, d =< n, n =< Len(r)
  PROVE  Lines(r, c, d) \o Lines(r, d, n) = Lines(r, c, n)
<1> DEFINE s == Lines(r, c, d)
           t == Lines(r, d, n)
           u == Lines(r, c, n)
<1>1. /\ s \in Seq(Node4) /\ Len(s) = d - c
      /\ \A k \in 1..(d - c) : s[k] = Line(r[c + k])
  <2>1. d =< Len(r)
    BY LenProperties
  <2> QED
    BY <2>1, LinesParts
<1>2. /\ t \in Seq(Node4) /\ Len(t) = n - d
      /\ \A k \in 1..(n - d) : t[k] = Line(r[d + k])
  BY LinesParts
<1>3. /\ u \in Seq(Node4) /\ Len(u) = n - c
      /\ \A k \in 1..(n - c) : u[k] = Line(r[c + k])
  <2>1. c =< n
    OBVIOUS
  <2> QED
    BY <2>1, LinesParts
<1> HIDE DEF s, t, u
<1>4. /\ s \o t \in Seq(Node4) /\ Len(s \o t) = n - c
      /\ \A k \in 1..(n - c) : (s \o t)[k] = IF k =< d - c THEN s[k] ELSE t[k - (d - c)]
  <2>1. Len(s) + Len(t) = n - c
    BY <1>1, <1>2
  <2> QED
    BY <1>1, <1>2, <2>1, ConcatProperties
<1>5. \A k \in 1..(n - c) : (s \o t)[k] = u[k]
  <2> TAKE k \in 1..(n - c)
  <2>1. CASE k =< d - c
    BY <1>1, <1>3, <1>4, <2>1
  <2>2. CASE ~(k =< d - c)
    <3>1. k - (d - c) \in 1..(n - d) /\ d + (k - (d - c)) = c + k
      BY <2>2
    <3>2. (s \o t)[k] = t[k - (d - c)]
      BY <1>4, <2>2
    <3>3. t[k - (d - c)] = Line(r[d + (k - (d - c))])
      BY <1>2, <3>1
    <3> QED
      BY <1>3, <3>1, <3>2, <3>3
  <2> QED
    BY <2>1, <2>2
<1>6. s \o t = u
  BY <1>3, <1>4, <1>5, SeqEqual
<1> QED
  BY <1>6 DEF s, t, u

LEMMA LinesWhole ==
  ASSUME NEW r \in Seq(Record)
  PROVE  Lines(r, 0, Len(r)) = Flatten(r)
<1>1. Len(r) \in Nat /\ Len(r) - 0 = Len(r)
  BY LenProperties
<1>2. \A k \in 1..Len(r) : 0 + k = k
  BY <1>1
<1> QED
  BY <1>1, <1>2 DEF Lines, Flatten, Line

\* A rule that has ended says its node around what its definition says.
LEMMA LinesEnded ==
  ASSUME NEW r \in Seq(Record), NEW c \in Nat, NEW f, Waits(r, c, f), NEW length \in Nat,
         NEW i, i = Opcode(f.op).index
  PROVE  Lines(Ended(r, c, length), c, Len(r) + 1) =
           <<<<i, "PRE", f.beg, length>>>> \o Lines(r, c + 1, Len(r))
             \o <<<<i, "POST", f.beg, length>>>>
<1> DEFINE e == Ended(r, c, length)
           n == Len(r)
           first == <<i, "PRE", f.beg, length>>
           last == <<i, "POST", f.beg, length>>
           mid == Lines(r, c + 1, n)
<1>1. /\ n \in Nat /\ c < n /\ r[c + 1].state = "PRE" /\ r[c + 1].index = i
      /\ r[c + 1].offset = f.beg /\ c + 1 \in 1..n
  BY LenProperties DEF Waits
<1>2. /\ e \in Seq(Record) /\ Len(e) = n + 1
      /\ \A k \in 1..n : k # c + 1 => e[k] = r[k]
      /\ Line(e[c + 1]) = first /\ Line(e[n + 1]) = last
  <2>1. c \in Nat /\ c < Len(r)
    BY <1>1
  <2>2. /\ e \in Seq(Record) /\ Len(e) = n + 1
        /\ \A k \in 1..n : k # c + 1 => e[k] = r[k]
        /\ e[c + 1].index = r[c + 1].index /\ e[c + 1].state = r[c + 1].state
        /\ e[c + 1].offset = r[c + 1].offset /\ e[c + 1].length = length
        /\ e[n + 1].index = r[c + 1].index /\ e[n + 1].state = "POST"
        /\ e[n + 1].offset = r[c + 1].offset /\ e[n + 1].length = length
    <3>1. r \in Seq(Record) /\ c \in Nat /\ c < Len(r) /\ length \in Nat
      BY <2>1
    <3> QED
      BY ONLY <3>1, EndedParts, ZenonT(60)
  <2> HIDE DEF e, n
  <2>3. Line(e[c + 1]) = first
    BY <1>1, <2>2 DEF Line
  <2>4. Line(e[n + 1]) = last
    BY <1>1, <2>2 DEF Line
  <2> QED
    BY <2>2, <2>3, <2>4
<1>3. first \in Node4 /\ last \in Node4
  <2>1. r[c + 1] \in Record
    BY <1>1, ElementOfSeq
  <2> QED
    BY <1>1, <2>1, RecordParts DEF Node4
<1> HIDE DEF e, first, last, n
<1>4. /\ mid \in Seq(Node4) /\ Len(mid) = n - (c + 1)
      /\ \A k \in 1..(n - (c + 1)) : mid[k] = Line(r[(c + 1) + k])
  <2>1. c + 1 \in Nat /\ c + 1 =< n /\ n =< Len(r)
    BY <1>1 DEF n
  <2> HIDE DEF n
  <2> QED
    BY <1>1, <2>1, LinesParts
<1>5. /\ Lines(e, c, n + 1) \in Seq(Node4) /\ Len(Lines(e, c, n + 1)) = (n + 1) - c
      /\ \A k \in 1..((n + 1) - c) : Lines(e, c, n + 1)[k] = Line(e[c + k])
  <2>1. c =< n + 1 /\ n + 1 =< Len(e) /\ n + 1 \in Nat
    BY <1>1, <1>2
  <2> QED
    BY <1>2, <2>1, LinesParts
<1> HIDE DEF mid
<1> DEFINE s == <<first>> \o mid
           t == s \o <<last>>
<1>6. /\ s \in Seq(Node4) /\ Len(s) = n - c
      /\ \A k \in 1..(n - c) : s[k] = IF k =< 1 THEN first ELSE mid[k - 1]
  <2>1. <<first>> \in Seq(Node4) /\ Len(<<first>>) = 1 /\ <<first>>[1] = first
    BY <1>3
  <2>2. 1 + Len(mid) = n - c
    BY <1>1, <1>4
  <2>3. /\ s \in Seq(Node4) /\ Len(s) = n - c
        /\ \A k \in 1..(n - c) : s[k] = IF k =< 1 THEN <<first>>[k] ELSE mid[k - 1]
    BY <1>4, <2>1, <2>2, ConcatProperties
  <2> QED
    BY <1>1, <2>1, <2>3
<1> HIDE DEF s
<1>7. /\ t \in Seq(Node4) /\ Len(t) = (n + 1) - c
      /\ \A k \in 1..((n + 1) - c) : t[k] = IF k =< n - c THEN s[k] ELSE last
  <2>1. <<last>> \in Seq(Node4) /\ Len(<<last>>) = 1 /\ <<last>>[1] = last
    BY <1>3
  <2>2. Len(s) + 1 = (n + 1) - c
    BY <1>1, <1>6
  <2>3. /\ t \in Seq(Node4) /\ Len(t) = (n + 1) - c
        /\ \A k \in 1..((n + 1) - c) : t[k] = IF k =< n - c THEN s[k] ELSE <<last>>[k - (n - c)]
    BY <1>6, <2>1, <2>2, ConcatProperties
  <2>4. \A k \in 1..((n + 1) - c) : k =< n - c \/ k - (n - c) = 1
    BY <1>1
  <2> QED
    BY <2>1, <2>3, <2>4
<1> HIDE DEF t
<1>8. \A k \in 1..((n + 1) - c) : Lines(e, c, n + 1)[k] = t[k]
  <2> TAKE k \in 1..((n + 1) - c)
  <2>1. CASE k = 1
    <3>1. c + k = c + 1 /\ k =< n - c /\ k \in 1..(n - c)
      BY <1>1, <2>1
    <3> QED
      BY <1>2, <1>5, <1>6, <1>7, <2>1, <3>1
  <2>2. CASE k # 1 /\ k =< n - c
    <3>1. /\ k - 1 \in 1..(n - (c + 1)) /\ (c + 1) + (k - 1) = c + k
          /\ c + k \in 1..n /\ c + k # c + 1 /\ k \in 1..(n - c) /\ ~(k =< 1)
      BY <1>1, <2>2
    <3> QED
      BY <1>2, <1>4, <1>5, <1>6, <1>7, <2>2, <3>1
  <2>3. CASE ~(k =< n - c)
    <3>1. c + k = n + 1
      BY <1>1, <2>3
    <3> QED
      BY <1>2, <1>5, <1>7, <2>3, <3>1
  <2> QED
    BY <2>1, <2>2, <2>3
<1>9. Lines(e, c, n + 1) = t
  BY <1>5, <1>7, <1>8, SeqEqual
<1> QED
  BY <1>9 DEF e, first, last, n, mid, s, t

-----------------------------------------------------------------------------
(* What the records between the cuts say. E gives, for every node on the   *)
(* stack, how many records there were when it was called.                  *)

\* CAT counts the child it waits for, REP those it has had
Turns(f) == IF Id(f) = "CAT" THEN f.k - 1 ELSE f.k

\* the opcode of f as a whole, and what is left of it from the child it waits for
WholeOf(e, f) == e[Point(f.op, 0, f.beg, f.subEnd, TRUE)]
LeftOf(e, f) == e[Point(f.op, Turns(f), f.beg + f.len, f.subEnd, TRUE)]

\* t and then what is left is all there is
Leads(e, f, t) == LeftOf(e, f).ok => WholeOf(e, f).tree = t \o LeftOf(e, f).tree

\* the records of the earlier turns of each operator
Sayings(e, s, r, E) ==
  \A n \in 1..Len(s) :
    Id(s[n]) \in {"CAT", "REP"} /\ Rec(s, n - 1) => Leads(e, s[n], Lines(r, E[n].cb, E[n + 1].cb))

\* the records of the node that has returned
Told(e, s, r, E) == Rec(s, Len(s)) => Lines(r, Top(E).cb, Len(r)) = e[NodeAbove(s, Len(s))].tree

Cuttings(s, E) ==
  /\ s \in Seq(Frame) /\ E \in Seq(Env) /\ Len(E) = Len(s) + 1
  /\ \A n \in 1..Len(E) : E[n].cb \in Nat /\ E[n].cb =< Top(E).cb

LEMMA TreeCuts ==
  ASSUME NEW a \in AstSet, NEW s \in Seq(Frame), NEW la, NEW E, Tree(a, s, la, E)
  PROVE  /\ Cuttings(s, E) /\ Top(E) \in Env /\ Top(E).cb \in Nat /\ Top(E).cb =< Len(a.records)
         /\ Len(a.records) \in Nat /\ a.records \in Seq(Record) /\ Top(E) = E[Len(s) + 1]
<1>1. E \in Seq(Env) /\ Chain(a, s, E) /\ Held(a, E)
  BY DEF Tree
<1>2. /\ Len(E) = Len(s) + 1 /\ Top(E) \in Env /\ Top(E) = E[Len(E)] /\ Top(E).cb \in Nat
      /\ \A n \in 1..Len(E) : Below(E[n], Top(E)) /\ E[n].cb \in Nat
  BY <1>1, ChainParts
<1>3. Top(E).cb =< Len(a.records)
  BY <1>1 DEF Held
<1> QED
  BY <1>1, <1>2, <1>3, AstParts DEF Cuttings, Below

\* Records behind the last cut do not count.
LEMMA SaySame ==
  ASSUME NEW e, NEW s, NEW E, Cuttings(s, E), NEW r, NEW q, Sayings(e, s, r, E),
         \A k \in 1..Top(E).cb : q[k] = r[k]
  PROVE  Sayings(e, s, q, E)
<1>1. Len(s) \in Nat /\ Len(E) = Len(s) + 1
  BY LenProperties DEF Cuttings
<1>2. ASSUME NEW n \in 1..Len(s)
      PROVE  Lines(q, E[n].cb, E[n + 1].cb) = Lines(r, E[n].cb, E[n + 1].cb)
  <2>1. n \in 1..Len(E) /\ n + 1 \in 1..Len(E)
    BY <1>1
  <2>2. E[n].cb \in Nat /\ E[n + 1].cb \in Nat /\ E[n + 1].cb =< Top(E).cb
    BY <2>1 DEF Cuttings
  <2>3. Top(E).cb \in Nat
    <3>1. Len(E) \in 1..Len(E)
      BY <1>1
    <3> QED
      BY <3>1 DEF Cuttings, Top
  <2>4. \A k \in 1..E[n + 1].cb : q[k] = r[k]
    BY <2>2, <2>3
  <2> QED
    BY <2>2, <2>4, LinesSame
<1> QED
  BY <1>2 DEF Sayings

LEMMA SayPush ==
  ASSUME NEW e, NEW s, NEW E, Cuttings(s, E), NEW r, Sayings(e, s, r, E),
         NEW f \in Frame, NEW h \in Env,
         Id(f) \in {"CAT", "REP"} /\ Rec(s, Len(s)) => Leads(e, f, Lines(r, Top(E).cb, h.cb))
  PROVE  Sayings(e, Append(s, f), r, Append(E, h))
<1> DEFINE t == Append(s, f)
           F == Append(E, h)
<1>1. s \in Seq(Frame) /\ E \in Seq(Env) /\ Len(s) \in Nat /\ Len(E) = Len(s) + 1
  BY LenProperties DEF Cuttings
<1>2. /\ Len(t) = Len(s) + 1 /\ \A n \in 1..Len(s) : t[n] = s[n]
      /\ t[Len(s) + 1] = f
  BY <1>1, AppendLemma DEF Top
<1>3. /\ \A n \in 1..(Len(s) + 1) : F[n] = E[n]
      /\ F[Len(s) + 2] = h /\ E[Len(s) + 1] = Top(E)
  <2>1. Len(F) = Len(E) + 1 /\ (\A n \in 1..Len(E) : F[n] = E[n]) /\ Top(F) = h
    BY <1>1, AppendLemma
  <2>2. Len(F) = Len(s) + 2
    BY <1>1, <2>1
  <2> QED
    BY <1>1, <2>1, <2>2 DEF Top
<1> HIDE DEF t, F
<1>4. \A n \in 0..Len(s) : Rec(t, n) <=> Rec(s, n)
  BY <1>1, <1>2 DEF Rec
<1>5. ASSUME NEW n \in 1..Len(t), Id(t[n]) \in {"CAT", "REP"} /\ Rec(t, n - 1)
      PROVE  Leads(e, t[n], Lines(r, F[n].cb, F[n + 1].cb))
  <2>1. CASE n \in 1..Len(s)
    <3>1. n - 1 \in 0..Len(s) /\ n \in 1..(Len(s) + 1) /\ n + 1 \in 1..(Len(s) + 1)
      BY <1>1, <2>1
    <3>2. t[n] = s[n] /\ F[n] = E[n] /\ F[n + 1] = E[n + 1] /\ Rec(s, n - 1)
      BY <1>2, <1>3, <1>4, <1>5, <2>1, <3>1
    <3>3. Leads(e, s[n], Lines(r, E[n].cb, E[n + 1].cb))
      BY <1>5, <2>1, <3>2 DEF Sayings
    <3> QED
      BY <3>2, <3>3
  <2>2. CASE n = Len(s) + 1
    <3>1. n - 1 = Len(s) /\ n - 1 \in 0..Len(s) /\ n + 1 = Len(s) + 2 /\ n \in 1..(Len(s) + 1)
      BY <1>1, <2>2
    <3>2. t[n] = f /\ F[n] = Top(E) /\ F[n + 1] = h
      BY <1>2, <1>3, <2>2, <3>1
    <3>3. Rec(s, Len(s))
      BY <1>4, <1>5, <3>1
    <3> QED
      BY <1>5, <3>2, <3>3
  <2> QED
    BY <1>1, <1>2, <2>1, <2>2
<1> QED
  BY <1>5 DEF Sayings, t, F

LEMMA SayPop ==
  ASSUME NEW e, NEW s, NEW E, Cuttings(s, E), NEW r, Sayings(e, s, r, E), s # << >>
  PROVE  /\ Sayings(e, Pop(s), r, Pop(E))
         /\ Id(Top(s)) \in {"CAT", "REP"} /\ Rec(Pop(s), Len(Pop(s))) =>
              Leads(e, Top(s), Lines(r, Top(Pop(E)).cb, Top(E).cb))
         /\ Pop(E) \in Seq(Env) /\ Len(Pop(E)) = Len(Pop(s)) + 1 /\ Pop(s) \in Seq(Frame)
         /\ Top(Pop(E)) = E[Len(s)] /\ Top(E) = E[Len(s) + 1]
<1> DEFINE t == Pop(s)
           F == Pop(E)
<1>1. s \in Seq(Frame) /\ E \in Seq(Env) /\ Len(s) \in Nat \ {0} /\ Len(E) = Len(s) + 1
  BY PopLemma DEF Cuttings
<1>2. /\ t \in Seq(Frame) /\ Len(t) = Len(s) - 1 /\ Top(s) = s[Len(s)]
      /\ \A n \in 1..(Len(s) - 1) : t[n] = s[n]
  BY <1>1, PopLemma
<1>3. /\ F \in Seq(Env) /\ Len(F) = Len(s) /\ Top(E) = E[Len(s) + 1] /\ Top(F) = E[Len(s)]
      /\ \A n \in 1..Len(s) : F[n] = E[n]
  <2>1. E # << >> /\ Len(E) - 1 = Len(s)
    BY <1>1, EmptySeq
  <2>2. /\ F \in Seq(Env) /\ Len(F) = Len(s) /\ Top(E) = E[Len(s) + 1]
        /\ \A n \in 1..Len(s) : F[n] = E[n]
    BY <1>1, <2>1, PopLemma
  <2> QED
    BY <1>1, <2>2 DEF Top
<1> HIDE DEF t, F
<1>4. \A n \in 0..Len(t) : Rec(t, n) <=> Rec(s, n)
  <2> TAKE n \in 0..Len(t)
  <2>1. \A m \in 1..n : t[m] = s[m]
    <3>1. \A m \in 1..n : m \in 1..(Len(s) - 1)
      BY <1>1, <1>2
    <3> QED
      BY <1>2, <3>1
  <2> QED
    BY <2>1 DEF Rec
<1>5. ASSUME NEW n \in 1..Len(t), Id(t[n]) \in {"CAT", "REP"} /\ Rec(t, n - 1)
      PROVE  Leads(e, t[n], Lines(r, F[n].cb, F[n + 1].cb))
  <2>1. /\ n - 1 \in 0..Len(t) /\ n \in 1..Len(s) /\ n + 1 \in 1..Len(s) /\ n \in 1..(Len(s) - 1)
    BY <1>1, <1>2
  <2>2. t[n] = s[n] /\ F[n] = E[n] /\ F[n + 1] = E[n + 1] /\ Rec(s, n - 1)
    BY <1>2, <1>3, <1>4, <1>5, <2>1
  <2>3. Leads(e, s[n], Lines(r, E[n].cb, E[n + 1].cb))
    BY <1>5, <2>1, <2>2 DEF Sayings
  <2> QED
    BY <2>2, <2>3
<1>6. Id(Top(s)) \in {"CAT", "REP"} /\ Rec(t, Len(t)) => Leads(e, Top(s), Lines(r, Top(F).cb, Top(E).cb))
  <2>1. Len(s) - 1 = Len(t) /\ Len(t) \in 0..Len(t) /\ Len(s) \in 1..Len(s)
    BY <1>1, <1>2
  <2>2. Rec(t, Len(t)) => Rec(s, Len(s) - 1)
    BY <1>4, <2>1
  <2> QED
    BY <1>2, <1>3, <2>1, <2>2 DEF Sayings
<1>7. Len(F) = Len(t) + 1
  BY <1>1, <1>2, <1>3
<1> QED
  BY <1>2, <1>3, <1>5, <1>6, <1>7 DEF Sayings, t, F

-----------------------------------------------------------------------------
(* Answers that are given without a frame, or predicted, say nothing.      *)

\* What the steps of a parse may assume whose records are to be the nodes of the meaning.
Watched(nodes) ==
  /\ Meant(nodes) /\ AllBare(nodes)
  /\ Parsing /\ ast.attached /\ ast.callbacks = nodes /\ uiLookaroundAtStart = 0
  /\ \A r \in nodes : ~Hidden(r)

LEMMA TreeParts ==
  ASSUME NEW r \in Results
  PROVE  r.tree \in Seq(Node4) /\ (~r.ok => r.tree = << >>)
<1>1. CASE r = Failed
  BY <1>1 DEF Failed
<1>2. CASE r # Failed
  BY <1>2 DEF Results, Node4
<1> QED
  BY <1>1, <1>2

\* A map that decides an opcode of this parse leaves nothing out.
LEMMA BareFacts ==
  ASSUME NEW nodes, Watched(nodes), NEW i \in 0..Len(grammar.ops),
         NEW beg \in 0..uiInputStringLength, NEW end \in Ends(grammar, config), beg =< end,
         PpptAt(grammar, Opcode(i), i, acpInputString, beg, end) # "ACTIVE"
  PROVE  Meaning(ThisParse(nodes))[Node(i, beg, end, TRUE)].tree = << >>
<1> DEFINE x == ThisParse(nodes)
<1>1. Meant(nodes) /\ Parsing
  BY DEF Watched
<1>2. /\ x.g = grammar /\ x.input = config.input /\ x.nodes = nodes /\ OpAt(x, i) = Opcode(i)
      /\ Len(x.input) = uiInputStringLength
  BY <1>1, ParseFacts
<1>3. MapsBare(x, Ends(grammar, config))
  <2>1. ConfigOK /\ grammar \in Grammars /\ uiLookBehindLength \in 0..uiInputStringLength
    BY <1>1, RunFacts DEF Meant, MeanInv
  <2>2. Len(config.input) = uiInputStringLength
    BY DEF uiInputStringLength
  <2>3. Accepted(grammar, config) /\ config \in Configs
    BY <1>1, <2>1, <2>2 DEF ConfigOK, Accepted, uiRuleCount, Meant, Decided
  <2> QED
    BY <2>1, <2>2, <2>3 DEF Watched, AllBare, ThisParse
<1>4. \A r \in x.nodes : ~Hides(x.g, r)
  BY <1>2 DEF Watched, Hidden
<1> HIDE DEF x
<1>5. \A j \in 0..Len(x.g.ops), b \in 0..Len(x.input), d \in Ends(grammar, config) :
        b =< d /\ PpptAt(x.g, OpAt(x, j), j, x.input, b, d) # "ACTIVE" =>
          Meaning(x)[Node(j, b, d, TRUE)].tree = << >>
  BY <1>3, <1>4 DEF MapsBare
<1>6. i \in 0..Len(x.g.ops) /\ beg \in 0..Len(x.input)
      /\ PpptAt(x.g, OpAt(x, i), i, x.input, beg, end) # "ACTIVE"
  BY <1>2 DEF acpInputString
<1> QED
  BY <1>5, <1>6 DEF x

LEMMA CalleeBare ==
  ASSUME NEW nodes, Watched(nodes), pc = "call", PpptState(callee) # "ACTIVE"
  PROVE  Meaning(ThisParse(nodes))[Node(callee, uiOffset, uiSubStringEnd, TRUE)].tree = << >>
<1>1. /\ callee \in 0..Len(grammar.ops) /\ uiOffset \in 0..uiInputStringLength
      /\ uiSubStringEnd \in Ends(grammar, config) /\ uiOffset =< uiSubStringEnd
  BY CalledAt DEF Watched
<1> QED
  BY <1>1, BareFacts DEF PpptState

\* The node of the opcode that has been called.
LEMMA CalleeAbove ==
  ASSUME NEW nodes, Meant(nodes), pc = "call"
  PROVE  NodeAbove(stack, Len(stack)) = Node(callee, uiOffset, uiSubStringEnd, Rec(stack, Len(stack)))
<1>1. Parsing /\ uiOffset = NodeBeg(stack, Len(stack)) /\ uiSubStringEnd = NodeSubEnd(stack, Len(stack))
  BY CallFacts, RunFacts DEF Meant
<1>2. callee = OpAbove(stack, Len(stack))
  BY <1>1 DEF Meant, MeanInv
<1> QED
  BY <1>1, <1>2 DEF NodeAbove

LEMMA LeafSays ==
  ASSUME NEW nodes, Watched(nodes), Predict \/ MatchTerminal \/ Anchor, Rec(stack, Len(stack))
  PROVE  Meaning(ThisParse(nodes))[NodeAbove(stack, Len(stack))].tree = << >>
<1> DEFINE x == ThisParse(nodes)
           p == Node(callee, uiOffset, uiSubStringEnd, Rec(stack, Len(stack)))
           o == Opcode(callee)
<1>1. Meant(nodes) /\ pc = "call"
  BY DEF Watched, Predict, MatchTerminal, Anchor, Calling
<1>2. NodeAbove(stack, Len(stack)) = p
  BY <1>1, CalleeAbove
<1>3. CASE Predict
  <2>1. PpptState(callee) # "ACTIVE"
    BY <1>3 DEF Predict, Undecided
  <2>2. Rec(stack, Len(stack)) = TRUE
    BY DEF Rec
  <2> QED
    BY <1>1, <1>2, <2>1, <2>2, CalleeBare
<1>4. CASE MatchTerminal \/ Anchor
  <2>1. o.id \in TerminalIds \cup {"ABG", "AEN"}
    BY <1>4 DEF MatchTerminal, Anchor, Calling
  <2>2. /\ o.id \in TerminalIds => Meaning(x)[p] = MeanTerminal(x, p, o)
        /\ o.id = "ABG" => Meaning(x)[p] = Check(uiOffset = 0)
        /\ o.id = "AEN" => Meaning(x)[p] = Check(uiOffset = uiInputStringLength)
    BY <1>1, CalleeMeans
  <2> HIDE DEF x, p, o
  <2>3. MeanTerminal(x, p, o).tree = << >> /\ \A b : Check(b).tree = << >>
    BY DEF MeanTerminal, Check, Found, Failed
  <2>4. Meaning(x)[p].tree = << >>
    BY <2>1, <2>2, <2>3
  <2> QED
    BY <1>2, <2>4 DEF x, p
<1> QED
  BY <1>3, <1>4

\* A rule of which the map decides says nothing, and so does what it is defined as.
LEMMA RuleBare ==
  ASSUME NEW nodes, Watched(nodes), pc = "call", Opcode(callee).id = "RNM",
         PpptState(callee) # "ACTIVE"
  PROVE  Meaning(ThisParse(nodes))[Node(grammar.rules[Opcode(callee).index].op,
                                        uiOffset, uiSubStringEnd, TRUE)].tree = << >>
<1> DEFINE x == ThisParse(nodes)
           e == Meaning(x)
           rec == TRUE
           p == Point(callee, 0, uiOffset, uiSubStringEnd, rec)
           i == Opcode(callee).index
           r == e[Node(grammar.rules[i].op, uiOffset, uiSubStringEnd, rec)]
<1>1. Meant(nodes) /\ Parsing
  BY DEF Watched
<1>2. p \in Points(x) /\ Node(callee, uiOffset, uiSubStringEnd, rec) = p
  BY <1>1, CalledAt, PointFacts
<1>3. Solves(x, e) /\ OpAt(x, callee) = Opcode(callee) /\ x.g = grammar
  BY <1>1, ParseFacts
<1>4. e[p].tree = << >>
  BY <1>2, CalleeBare
<1>5. /\ grammar.rules[i].op \in 0..Len(grammar.ops) /\ uiOffset \in 0..uiInputStringLength
      /\ uiSubStringEnd \in 0..uiInputStringLength
  BY <1>1, CallFacts, CalledAt DEF Meant
<1>6. r \in Results
  <2>1. Node(grammar.rules[i].op, uiOffset, uiSubStringEnd, rec) \in Points(x)
    BY <1>5, PointFacts
  <2> QED
    BY <1>1, <2>1, ResultFacts
<1> HIDE DEF x, e, p, rec
<1>7. e[p] = Named(x, i, p, r)
  <2>1. LET q == e[Node(x.g.rules[OpAt(x, callee).index].op, uiOffset, uiSubStringEnd, rec)]
        IN e[p] = Named(x, OpAt(x, callee).index, p, q)
    BY <1>2, <1>3, RnmMeans DEF p
  <2> QED
    BY <1>3, <2>1
<1> HIDE DEF r, i
<1>8. r.tree = << >>
  <2>1. CASE e[p] = r
    BY <1>4, <2>1
  <2>2. CASE e[p] # r
    <3> DEFINE first == <<i, "PRE", p.beg, r.len>>
               last == <<i, "POST", p.beg, r.len>>
    <3>1. e[p].tree = <<first>> \o r.tree \o <<last>>
      BY <1>7, <2>2 DEF Named, Found
    <3>2. i \in Nat /\ p.beg \in Nat /\ r.len \in Nat /\ r.tree \in Seq(Node4)
      <4>1. i \in 1..uiRuleCount
        BY <1>1, CallFacts DEF Meant, i
      <4>2. p.beg = uiOffset
        BY PointParts DEF p
      <4> QED
        BY <1>5, <1>6, <4>1, <4>2, TreeParts, ResultParts
    <3>3. first \in Node4 /\ last \in Node4
      BY <3>2 DEF Node4
    <3> HIDE DEF first, last
    <3>4. <<first>> \in Seq(Node4) /\ <<last>> \in Seq(Node4) /\ Len(<<last>>) = 1
      BY <3>3
    <3>5. <<first>> \o r.tree \in Seq(Node4)
          /\ Len((<<first>> \o r.tree) \o <<last>>) = Len(<<first>> \o r.tree) + 1
          /\ Len(<<first>> \o r.tree) \in Nat
      BY <3>2, <3>4, ConcatProperties, LenProperties
    <3> QED
      BY <1>4, <3>1, <3>5, EmptySeq
  <2> QED
    BY <2>1, <2>2
<1> QED
  BY <1>8 DEF r, i, e, x, rec

-----------------------------------------------------------------------------
(* What a child's answer adds to what its operator has said.               *)

\* Who takes an answer.
LEMMA TakesAnswer ==
  ASSUME ParserStep, pc = "return", stack # << >>
  PROVE  /\ Id(Top(stack)) = "CAT" => CatNext
         /\ Id(Top(stack)) = "REP" => RepNext
<1> DEFINE id == Id(Top(stack))
<1>1. ~ParserFinish
  BY DEF ParserFinish
<1>2. ~(Predict \/ AltOpen \/ CatOpen \/ RepOpen \/ RnmOpen \/ MatchTerminal \/ Udt \/ LookAheadOpen
        \/ LookBackOpen \/ Anchor)
  BY DEF Predict, AltOpen, CatOpen, RepOpen, RnmOpen, MatchTerminal, Udt, LookAheadOpen,
         LookBackOpen, Anchor, Calling
<1>3. /\ AltNext => id = "ALT"
      /\ RnmClose => id = "RNM"
      /\ CatNext => id = "CAT"
      /\ RepNext => id = "REP"
      /\ LookAheadClose => id \in LookAheadIds
      /\ LookBackAgain \/ LookBackClose => id \in LookBackIds
  BY DEF AltNext, RnmClose, CatNext, RepNext, LookAheadClose, LookBackAgain, LookBackClose,
         Returning, Id
<1>4. "CAT" \notin LookAheadIds \cup LookBackIds /\ "REP" \notin LookAheadIds \cup LookBackIds
  BY DEF LookAheadIds, LookBackIds
<1> QED
  BY <1>1, <1>2, <1>3, <1>4 DEF ParserStep

LEMMA ThenParts ==
  ASSUME NEW r \in Results, NEW m \in Results
  PROVE  /\ Then(r, m).ok <=> m.ok
         /\ m.ok => Then(r, m).tree = r.tree \o m.tree
         /\ m = Found(0, << >>) => m.ok /\ m.tree = << >> /\ Then(r, m).tree = r.tree
<1>1. r.tree \in Seq(Node4)
  BY TreeParts
<1>2. r.tree \o << >> = r.tree
  BY <1>1, ConcatEmptySeq
<1>3. Then(r, m).ok <=> m.ok
  BY DEF Then, Found, Failed
<1>4. m.ok => Then(r, m).tree = r.tree \o m.tree
  BY DEF Then, Found
<1>5. m = Found(0, << >>) => m.ok /\ m.tree = << >>
  BY DEF Found
<1> QED
  BY <1>2, <1>3, <1>4, <1>5

\* A node that has returned has found what its opcode means.
LEMMA NodeResult ==
  ASSUME NEW nodes, Meant(nodes), pc = "return",
         NEW r, r = Meaning(ThisParse(nodes))[NodeAbove(stack, Len(stack))]
  PROVE  /\ r \in Results
         /\ uiOpState = "MATCH" <=> r.ok
         /\ uiPhraseLength = r.len
         /\ uiOpState \in {"MATCH", "NOMATCH"}
<1>1. /\ Parsing /\ StackOK(stack) /\ Positions /\ RunOK
  BY RunFacts DEF Meant, Parsing
<1>2. /\ uiOpState = "MATCH" <=> r.ok
      /\ uiPhraseLength = r.len
  BY <1>1 DEF Meant, MeanInv, AnswerMeans
<1>3. NodeBeg(stack, Len(stack)) \in 0..uiInputStringLength
      /\ NodeSubEnd(stack, Len(stack)) \in 0..uiInputStringLength
  BY <1>1, NodeFacts DEF Meant, Positions, RunOK
<1>4. OpAbove(stack, Len(stack)) \in 0..Len(grammar.ops)
  <2>1. CASE stack = << >>
    <3>1. Len(stack) = 0 /\ 0 \in 0..Len(grammar.ops)
      BY <1>1, <2>1, EmptySeq, LenProperties, RunFacts DEF Meant, GrammarOK
    <3> QED
      BY <3>1 DEF OpAbove
  <2>2. CASE stack # << >>
    <3> DEFINE f == Top(stack)
    <3>1. OpAbove(stack, Len(stack)) = ChildOp(f)
      <4>1. stack \in Seq(Frame) /\ Len(stack) # 0
        BY <1>1, <2>2, EmptySeq DEF StackOK
      <4> QED
        BY <4>1 DEF OpAbove, Top
    <3>2. /\ f.op \in 0..Len(grammar.ops) /\ FrameOK(f)
          /\ Id(f) \in ListIds => \A k \in 1..Len(Opcode(f.op).kids) :
                                    Opcode(f.op).kids[k] \in 0..Len(grammar.ops)
          /\ Id(f) \in NextIds => f.op + 1 \in 0..Len(grammar.ops)
      BY <2>2, ReturnFacts DEF Meant, Fits, Id
    <3>3. Id(f) = "RNM" => grammar.rules[Opcode(f.op).index].op \in 0..Len(grammar.ops)
      <4>1. grammar \in Grammars /\ config.start \in 1..uiRuleCount
        BY <1>1, RunFacts DEF Meant
      <4> QED
        BY <3>2, <4>1, OpcodeFacts DEF Id
    <3>4. /\ Id(f) \in ListIds \cup NextIds \cup {"RNM"}
          /\ Id(f) \in ListIds => f.k \in 1..Len(Opcode(f.op).kids)
      BY <3>2 DEF FrameOK, Id
    <3> HIDE DEF f
    <3> QED
      BY <3>1, <3>2, <3>3, <3>4 DEF ChildOp
  <2> QED
    BY <2>1, <2>2
<1>5. Rec(stack, Len(stack)) \in BOOLEAN
  BY DEF Rec
<1> DEFINE p == NodeAbove(stack, Len(stack))
<1>6. p \in Points(ThisParse(nodes))
  BY <1>3, <1>4, <1>5, PointFacts DEF NodeAbove
<1>7. uiOpState \in {"MATCH", "NOMATCH"}
  BY <1>1 DEF RunOK, Returned
<1> QED
  BY <1>1, <1>2, <1>6, <1>7, ResultFacts

\* When CAT ends with a match, and when it goes on.
LEMMA CatActs ==
  ASSUME CatNext, NEW f, f = Top(stack), uiOpState \in {"MATCH", "NOMATCH"}
  PROVE  /\ pc' = "return" /\ uiOpState' = "MATCH" =>
              uiOpState = "MATCH" /\ f.k = Len(Opcode(f.op).kids)
         /\ pc' = "call" =>
              /\ uiOpState = "MATCH"
              /\ stack' = Append(Pop(stack), [f EXCEPT !.k = @ + 1, !.len = Plus(f.len, uiPhraseLength)])
<1> DEFINE kids == Opcode(f.op).kids
           len == Plus(f.len, uiPhraseLength)
           g == [f EXCEPT !.k = @ + 1, !.len = len]
<1>1. \/ uiOpState = "NOMATCH" /\ \E a, offset : OpReturn(a, "NOMATCH", offset, uiPhraseLength)
      \/ uiOpState # "NOMATCH" /\ f.k = Len(kids) /\ \E a, offset : OpReturn(a, uiOpState, offset, len)
      \/ /\ uiOpState # "NOMATCH" /\ f.k < Len(kids)
         /\ Call(Append(Pop(stack), g), kids[f.k + 1])
  BY DEF CatNext
<1>2. ASSUME NEW a, NEW state, NEW offset, NEW length, OpReturn(a, state, offset, length)
      PROVE  pc' # "call" /\ (pc' = "return" => uiOpState' = state)
  BY <1>2 DEF OpReturn, Finish, Throw, Return
<1>3. ASSUME NEW s, NEW i, Call(s, i)
      PROVE  pc' = "call" /\ stack' = s
  BY <1>3 DEF Call
<1> HIDE DEF g, kids
<1>4. CASE uiOpState = "NOMATCH" /\ \E a, offset : OpReturn(a, "NOMATCH", offset, uiPhraseLength)
  BY <1>2, <1>4
<1>5. CASE uiOpState # "NOMATCH" /\ f.k = Len(kids) /\ \E a, offset : OpReturn(a, uiOpState, offset, len)
  BY <1>2, <1>5 DEF kids
<1>6. CASE uiOpState # "NOMATCH" /\ Call(Append(Pop(stack), g), kids[f.k + 1])
  BY <1>3, <1>6 DEF g
<1> QED
  BY <1>1, <1>4, <1>5, <1>6

\* When REP ends with a match, and when it goes on.
LEMMA RepActs ==
  ASSUME RepNext, NEW f, f = Top(stack)
  PROVE  /\ pc' = "return" /\ uiOpState' = "MATCH" =>
              \/ uiOpState = "MATCH" /\ uiPhraseLength = 0
              \/ uiOpState = "NOMATCH" /\ f.k >= Opcode(f.op).min
              \/ uiOpState = "MATCH" /\ uiPhraseLength > 0 /\ f.k + 1 >= Opcode(f.op).max
         /\ pc' = "call" =>
              /\ uiOpState = "MATCH" /\ uiPhraseLength > 0
              /\ stack' = Append(Pop(stack), [f EXCEPT !.k = @ + 1, !.len = Plus(f.len, uiPhraseLength)])
<1> DEFINE o == Opcode(f.op)
           len == Plus(f.len, uiPhraseLength)
           g == [f EXCEPT !.k = @ + 1, !.len = len]
<1>1. \/ \E a, offset : /\ uiOpState = "MATCH" /\ uiPhraseLength = 0
                         /\ OpReturn(a, "MATCH", offset, f.len)
      \/ \E a, offset : /\ uiOpState = "NOMATCH" /\ f.k >= o.min
                         /\ OpReturn(a, "MATCH", offset, f.len)
      \/ \E a, offset : uiOpState = "NOMATCH" /\ OpReturn(a, "NOMATCH", offset, 0)
      \/ \E a, offset : /\ uiOpState = "MATCH" /\ uiPhraseLength > 0 /\ f.k + 1 >= o.max
                         /\ OpReturn(a, "MATCH", offset, len)
      \/ /\ uiOpState = "MATCH" /\ uiPhraseLength > 0
         /\ \E a : Continue(Append(Pop(stack), g), f.op + 1, a)
  BY DEF RepNext
<1>2. ASSUME NEW a, NEW state, NEW offset, NEW length, OpReturn(a, state, offset, length)
      PROVE  pc' # "call" /\ (pc' = "return" => uiOpState' = state)
  BY <1>2 DEF OpReturn, Finish, Throw, Return
<1>3. ASSUME NEW s, NEW i, NEW a, Continue(s, i, a)
      PROVE  pc' # "return" /\ (pc' = "call" => stack' = s)
  BY <1>3 DEF Continue, Call, Throw
<1> HIDE DEF g, o, len
<1>4. \/ uiOpState = "MATCH" /\ uiPhraseLength = 0 /\ pc' # "call"
      \/ uiOpState = "NOMATCH" /\ f.k >= o.min /\ pc' # "call"
      \/ pc' # "call" /\ (pc' = "return" => uiOpState' = "NOMATCH")
      \/ uiOpState = "MATCH" /\ uiPhraseLength > 0 /\ f.k + 1 >= o.max /\ pc' # "call"
      \/ /\ uiOpState = "MATCH" /\ uiPhraseLength > 0
         /\ pc' # "return" /\ (pc' = "call" => stack' = Append(Pop(stack), g))
  BY <1>1, <1>2, <1>3
<1> QED
  BY <1>4 DEF g, o, len

\* CAT and REP that end with a match have nothing left to say but the answer of their child.
LEMMA LastSays ==
  ASSUME NEW nodes, Watched(nodes), ParserStep, pc = "return", stack # << >>,
         pc' = "return", uiOpState' = "MATCH",
         NEW f, f = Top(stack), Id(f) \in {"CAT", "REP"}, Rec(Pop(stack), Len(Pop(stack))),
         NEW e, e = Meaning(ThisParse(nodes))
  PROVE  LeftOf(e, f).ok /\ LeftOf(e, f).tree = e[NodeAbove(stack, Len(stack))].tree
<1> DEFINE rec == Rec(Pop(stack), Len(Pop(stack)))
           beg == f.beg + f.len
           r == e[NodeAbove(stack, Len(stack))]
           o == Opcode(f.op)
           kids == Opcode(f.op).kids
           mc == e[Point(f.op, f.k, beg + uiPhraseLength, f.subEnd, rec)]
           mr == e[Point(f.op, f.k + 1, beg + uiPhraseLength, f.subEnd, rec)]
           left == LeftOf(e, f)
<1>0. Meant(nodes)
  BY DEF Watched
<1>a. pc = "return" /\ stack # << >> /\ f = Top(stack) /\ e = Meaning(ThisParse(nodes))
  OBVIOUS
<1>1. rec = TRUE
  BY DEF Rec
<1>2. left = e[Point(f.op, Turns(f), beg, f.subEnd, rec)]
  BY <1>1, Zenon DEF LeftOf
<1>3. /\ r \in Results
      /\ uiOpState = "MATCH" <=> r.ok
      /\ uiPhraseLength = r.len
      /\ uiOpState \in {"MATCH", "NOMATCH"}
  BY <1>0, NodeResult
<1>4. Id(f) = "CAT" =>
        /\ mc \in Results /\ left \in Results
        /\ left = IF r.ok THEN Then(r, mc) ELSE Failed
        /\ f.k = Len(kids) => mc = Found(0, << >>)
  <2> SUFFICES ASSUME Id(f) = "CAT"
               PROVE  /\ mc \in Results /\ left \in Results
                      /\ left = IF r.ok THEN Then(r, mc) ELSE Failed
                      /\ f.k = Len(kids) => mc = Found(0, << >>)
    OBVIOUS
  <2> DEFINE q == e[Node(kids[f.k], beg, f.subEnd, rec)]
             l == e[Point(f.op, f.k - 1, beg, f.subEnd, rec)]
  <2>1. /\ q = r /\ mc \in Results /\ l \in Results
        /\ l = IF q.ok THEN Then(q, mc) ELSE Failed
        /\ f.k = Len(kids) => mc = Found(0, << >>)
    BY ONLY <1>0, <1>a, Id(f) = "CAT", CatTurn
  <2>2. l = left
    BY <1>2 DEF Turns
  <2> HIDE DEF q, l, mc, left, r
  <2> QED
    BY <2>1, <2>2
<1>5. Id(f) = "REP" =>
        /\ mr \in Results /\ left \in Results
        /\ left = IF ~r.ok THEN Check(f.k >= o.min) ELSE IF r.len = 0 THEN r ELSE Then(r, mr)
        /\ f.k + 1 >= o.max => mr = Found(0, << >>)
  <2> SUFFICES ASSUME Id(f) = "REP"
               PROVE  /\ mr \in Results /\ left \in Results
                      /\ left = IF ~r.ok THEN Check(f.k >= o.min) ELSE IF r.len = 0 THEN r ELSE Then(r, mr)
                      /\ f.k + 1 >= o.max => mr = Found(0, << >>)
    OBVIOUS
  <2> DEFINE q == e[Node(f.op + 1, beg, f.subEnd, rec)]
             l == e[Point(f.op, f.k, beg, f.subEnd, rec)]
  <2>1. /\ q = r /\ mr \in Results /\ l \in Results
        /\ l = IF ~q.ok THEN Check(f.k >= o.min) ELSE IF q.len = 0 THEN q ELSE Then(q, mr)
        /\ f.k + 1 >= o.max => mr = Found(0, << >>)
    BY ONLY <1>0, <1>a, Id(f) = "REP", RepTurn
  <2>2. l = left
    BY <1>2 DEF Turns
  <2> HIDE DEF q, l, mr, left, r, o
  <2> QED
    BY <2>1, <2>2
<1> HIDE DEF mc, mr, left, r, o, kids, rec
<1>6. CASE Id(f) = "CAT"
  <2>1. r.ok /\ f.k = Len(kids)
    BY <1>3, <1>6, TakesAnswer, CatActs DEF kids
  <2>2. mc = Found(0, << >>) /\ left = Then(r, mc) /\ mc \in Results
    BY <1>4, <1>6, <2>1
  <2>3. mc.ok /\ (Then(r, mc).ok <=> mc.ok) /\ Then(r, mc).tree = r.tree /\ left.ok \in BOOLEAN
    BY <1>3, <1>4, <1>6, <2>2, ThenParts, ResultParts
  <2> QED
    BY <2>2, <2>3 DEF left, r
<1>7. CASE Id(f) = "REP"
  <2>1. \/ uiOpState = "MATCH" /\ uiPhraseLength = 0
        \/ uiOpState = "NOMATCH" /\ f.k >= o.min
        \/ uiOpState = "MATCH" /\ uiPhraseLength > 0 /\ f.k + 1 >= o.max
    BY <1>7, TakesAnswer, RepActs DEF o
  <2>2. CASE uiOpState = "MATCH" /\ uiPhraseLength = 0
    <3>1. left = r /\ r.ok
      BY <1>3, <1>5, <1>7, <2>2
    <3> QED
      BY <3>1 DEF left, r
  <2>3. CASE uiOpState = "NOMATCH" /\ f.k >= o.min
    <3>1. left = Found(0, << >>) /\ ~r.ok
      BY <1>3, <1>5, <1>7, <2>3 DEF Check
    <3>2. r.tree = << >>
      BY <1>3, <3>1, TreeParts
    <3> QED
      BY <3>1, <3>2 DEF Found, left, r
  <2>4. CASE uiOpState = "MATCH" /\ uiPhraseLength > 0 /\ f.k + 1 >= o.max
    <3>1. mr = Found(0, << >>) /\ left = Then(r, mr) /\ mr \in Results
      BY <1>3, <1>5, <1>7, <2>4
    <3>2. mr.ok /\ (Then(r, mr).ok <=> mr.ok) /\ Then(r, mr).tree = r.tree /\ left.ok \in BOOLEAN
      BY <1>3, <1>5, <1>7, <3>1, ThenParts, ResultParts
    <3> QED
      BY <3>1, <3>2 DEF left, r
  <2> QED
    BY <2>1, <2>2, <2>3, <2>4
<1> QED
  BY <1>6, <1>7

\* CAT and REP that go on are left to say what their child has not said.
LEMMA NextSays ==
  ASSUME NEW nodes, Watched(nodes), ParserStep, pc = "return", stack # << >>, pc' = "call",
         NEW f, f = Top(stack), Id(f) \in {"CAT", "REP"}, Rec(Pop(stack), Len(Pop(stack))),
         NEW e, e = Meaning(ThisParse(nodes)), NEW g \in Frame, stack' = Append(Pop(stack), g)
  PROVE  /\ WholeOf(e, g) = WholeOf(e, f)
         /\ LeftOf(e, g) \in Results /\ e[NodeAbove(stack, Len(stack))] \in Results
         /\ LeftOf(e, f) = Then(e[NodeAbove(stack, Len(stack))], LeftOf(e, g))
<1> DEFINE rec == Rec(Pop(stack), Len(Pop(stack)))
           beg == f.beg + f.len
           len == Plus(f.len, uiPhraseLength)
           r == e[NodeAbove(stack, Len(stack))]
           o == Opcode(f.op)
           kids == Opcode(f.op).kids
           mc == e[Point(f.op, f.k, beg + uiPhraseLength, f.subEnd, rec)]
           mr == e[Point(f.op, f.k + 1, beg + uiPhraseLength, f.subEnd, rec)]
           left == LeftOf(e, f)
           h == [f EXCEPT !.k = @ + 1, !.len = len]
<1>0. Meant(nodes)
  BY DEF Watched
<1>a. pc = "return" /\ stack # << >> /\ f = Top(stack) /\ e = Meaning(ThisParse(nodes))
  OBVIOUS
<1>1. rec = TRUE
  BY DEF Rec
<1>2. left = e[Point(f.op, Turns(f), beg, f.subEnd, rec)]
  BY <1>1, Zenon DEF LeftOf
<1>3. /\ r \in Results
      /\ uiOpState = "MATCH" <=> r.ok
      /\ uiPhraseLength = r.len
      /\ uiOpState \in {"MATCH", "NOMATCH"}
  BY <1>0, NodeResult
<1>4. /\ f \in Frame /\ Pop(stack) \in Seq(Frame)
      /\ len = f.len + uiPhraseLength /\ len \in Nat /\ f.k \in Nat
      /\ beg + uiPhraseLength = f.beg + len
  <2>1. f \in Frame /\ Pop(stack) \in Seq(Frame)
    BY <1>0, ReturnFacts DEF Meant, StackOK
  <2> QED
    BY <1>0, <2>1, Accumulating
<1>5. /\ stack' = Append(Pop(stack), h)
      /\ uiOpState = "MATCH"
      /\ Id(f) = "REP" => uiPhraseLength > 0
  BY <1>3, TakesAnswer, CatActs, RepActs
<1>6. h \in Frame /\ h.op = f.op /\ h.beg = f.beg /\ h.subEnd = f.subEnd /\ h.k = f.k + 1 /\ h.len = len
  <2>1. f \in Frame /\ len \in Nat /\ f.k \in Nat
    BY <1>4
  <2> HIDE DEF len
  <2>2. f.k + 1 \in Nat
    BY <2>1
  <2>3. h \in Frame
    BY <2>1, <2>2 DEF Frame
  <2>4. h.op = f.op /\ h.beg = f.beg /\ h.subEnd = f.subEnd
    BY <2>1 DEF Frame
  <2>5. h.k = f.k + 1 /\ h.len = len
    BY <2>1 DEF Frame
  <2> QED
    BY <2>3, <2>4, <2>5
<1>7. g = h
  <2> HIDE DEF h
  <2>1. Top(Append(Pop(stack), g)) = g /\ Top(Append(Pop(stack), h)) = h
    BY <1>4, <1>6, PopAppended
  <2> QED
    BY <1>5, <2>1
<1> HIDE DEF h
<1>8. Id(g) = Id(f)
  BY <1>6, <1>7 DEF Id
<1>9. WholeOf(e, g) = WholeOf(e, f)
  BY <1>6, <1>7 DEF WholeOf
<1>10. LeftOf(e, g) = e[Point(f.op, Turns(g), beg + uiPhraseLength, f.subEnd, rec)]
  BY <1>1, <1>4, <1>6, <1>7, Zenon DEF LeftOf
<1>11. CASE Id(f) = "CAT"
  <2> DEFINE q == e[Node(kids[f.k], beg, f.subEnd, rec)]
             l == e[Point(f.op, f.k - 1, beg, f.subEnd, rec)]
  <2>1. /\ q = r /\ mc \in Results
        /\ l = IF q.ok THEN Then(q, mc) ELSE Failed
    BY ONLY <1>0, <1>a, <1>11, CatTurn
  <2>2. l = left
    BY <1>2, <1>11 DEF Turns
  <2>3. LeftOf(e, g) = mc
    <3>1. Turns(g) = f.k
      BY <1>4, <1>6, <1>7, <1>8, <1>11 DEF Turns
    <3> QED
      BY <1>10, <3>1
  <2> HIDE DEF q, l, mc, left, r
  <2> QED
    BY <1>3, <1>5, <1>9, <2>1, <2>2, <2>3 DEF left, r
<1>12. CASE Id(f) = "REP"
  <2> DEFINE q == e[Node(f.op + 1, beg, f.subEnd, rec)]
             l == e[Point(f.op, f.k, beg, f.subEnd, rec)]
  <2>1. /\ q = r /\ mr \in Results
        /\ l = IF ~q.ok THEN Check(f.k >= o.min) ELSE IF q.len = 0 THEN q ELSE Then(q, mr)
    BY ONLY <1>0, <1>a, <1>12, RepTurn
  <2>2. l = left
    BY <1>2, <1>12 DEF Turns
  <2>3. LeftOf(e, g) = mr
    <3>1. Turns(g) = f.k + 1
      BY <1>4, <1>6, <1>7, <1>8, <1>12 DEF Turns
    <3> QED
      BY <1>10, <3>1
  <2>4. r.ok /\ r.len # 0
    BY <1>3, <1>5, <1>12
  <2> HIDE DEF q, l, mr, left, r, o
  <2> QED
    BY <1>3, <1>9, <2>1, <2>2, <2>3, <2>4 DEF left, r
<1> QED
  BY <1>11, <1>12

-----------------------------------------------------------------------------
(* A step of the parser keeps what the records say.                        *)

\* a step of a parse that is watched, whose recorder fits
Steps(nodes, E) ==
  /\ Watched(nodes) /\ LookInv /\ StackFits' /\ IInv' /\ ParserStep /\ Parsing'
  /\ TreeHolds(E)

\* the records say what the operators have answered so far
Says(nodes, s, r, E) == Sayings(Meaning(ThisParse(nodes)), s, r, E)
SaysAnswer(nodes, s, r, E) == Told(Meaning(ThisParse(nodes)), s, r, E)

\* A frame is inside no look-around when no look-around is below it.
LEMMA RecLook ==
  ASSUME NEW s \in Seq(Frame)
  PROVE  Rec(s, Len(s)) <=> 0 + Cardinality(Look(s)) = 0
<1>1. Rec(s, Len(s)) <=> Look(s) = {}
  BY DEF Rec, Look
<1> QED
  BY <1>1, LookFree

LEMMA StepFacts ==
  ASSUME NEW nodes, NEW E, Steps(nodes, E)
  PROVE  /\ Meant(nodes) /\ Contract /\ IInv /\ Parsing /\ Shape /\ UNCHANGED <<app, parse>>
         /\ ast \in AstSet /\ stack \in Seq(Frame) /\ stack' \in Seq(Frame) /\ ast' \in AstSet
         /\ Rec(stack, Len(stack)) <=> uiInLookaround = 0
         /\ Rec(stack', Len(stack')) <=> uiInLookaround' = 0
         /\ Tree(ast, stack, uiInLookaround, E)
         /\ Cuttings(stack, E) /\ Top(E) \in Env /\ Top(E).cb \in Nat
         /\ Top(E).cb =< Len(ast.records) /\ Len(ast.records) \in Nat /\ ast.records \in Seq(Record)
         /\ (pc = "call" \/ uiOpState = "NOMATCH" \/ uiInLookaround # 0) => Len(ast.records) = Top(E).cb
<1>1. Meant(nodes) /\ Contract /\ IInv /\ Parsing /\ uiLookaroundAtStart = 0
  BY DEF Steps, Watched, Meant
<1>2. Shape /\ UNCHANGED <<app, parse>>
  BY <1>1, StepShape, ParseKeeps DEF Steps
<1>3. /\ ast \in AstSet /\ stack \in Seq(Frame) /\ stack' \in Seq(Frame) /\ ast' \in AstSet
  BY <1>1 DEF Steps, IInv, TypeOK
<1>4. Rec(stack, Len(stack)) <=> uiInLookaround = 0
  BY <1>1, <1>3, RecLook DEF Steps, LookInv
<1>5. Rec(stack', Len(stack')) <=> uiInLookaround' = 0
  <2>1. uiInLookaround' = uiLookaroundAtStart + Cardinality(Look(stack'))
    BY <1>1, <1>2, LookStep DEF Steps
  <2>2. Rec(stack', Len(stack')) <=> 0 + Cardinality(Look(stack')) = 0
    <3>1. \A s \in Seq(Frame) : Rec(s, Len(s)) <=> 0 + Cardinality(Look(s)) = 0
      BY RecLook
    <3> QED
      BY <1>3, <3>1
  <2> QED
    BY <1>1, <2>1, <2>2
<1>6. /\ Tree(ast, stack, uiInLookaround, E)
      /\ (pc = "call" \/ uiOpState = "NOMATCH" \/ uiInLookaround # 0) => Len(ast.records) = Top(E).cb
  BY DEF Steps, TreeHolds
<1> QED
  BY <1>1, <1>2, <1>3, <1>4, <1>5, <1>6, TreeCuts

\* What answers without a frame.
LEMMA PassActs ==
  ASSUME NEW nodes, Meant(nodes), ParserStep, pc = "call", pc' = "return", stack' = stack
  PROVE  (Predict \/ MatchTerminal \/ Anchor) /\ ast' = ast
<1>1. /\ ~(AltNext \/ CatNext \/ RepNext \/ RnmClose \/ LookAheadClose \/ LookBackAgain \/ LookBackClose)
      /\ ~ParserFinish
  BY DEF AltNext, CatNext, RepNext, RnmClose, LookAheadClose, LookBackAgain, LookBackClose,
         Returning, ParserFinish
<1>2. ~(AltOpen \/ CatOpen \/ RepOpen \/ LookAheadOpen \/ LookBackOpen)
  BY DEF AltOpen, CatOpen, RepOpen, LookAheadOpen, LookBackOpen, Call
<1>3. ~Udt
  <2> SUFFICES ASSUME Udt PROVE FALSE
    OBVIOUS
  <2>1. Opcode(callee).id = "UDT"
    BY DEF Udt, Calling
  <2>2. Opcode(callee).index \in 1..Len(grammar.udts) /\ Len(grammar.udts) = 0
    BY <2>1, CallFacts DEF Meant, Decided
  <2> QED
    BY <2>2
<1>4. ~RnmOpen
  <2> SUFFICES ASSUME RnmOpen PROVE FALSE
    OBVIOUS
  <2>1. Calling({"RNM"})
    BY DEF RnmOpen
  <2>2. \A answer \in RnmResults : answer.state = "ACTIVE"
    BY DEF Meant, Decided
  <2>3. \E a : RnmDown(a)
    BY <2>2 DEF RnmOpen, Throw
  <2>4. stack' = Append(stack, NewFrame(0))
    BY <2>3 DEF RnmDown, Call, Return
  <2>5. NewFrame(0) \in Frame /\ stack \in Seq(Frame)
    <3>1. Opcode(callee).id = "RNM"
      BY <2>1 DEF Calling
    <3>2. Opcode(callee).id \notin LookBackIds /\ Opcode(callee).id \notin ListIds
      BY <3>1, Disjoint, Kinds
    <3> QED
      BY <3>1, <3>2, Pushed DEF Meant, IInv, TypeOK
  <2>6. Len(stack') = Len(stack) + 1 /\ Len(stack) \in Nat
    BY <2>4, <2>5, Appended
  <2> QED
    BY <2>6
<1>5. Predict \/ MatchTerminal \/ Anchor
  BY <1>1, <1>2, <1>3, <1>4 DEF ParserStep
<1>6. ast' = ast
  BY <1>5 DEF Predict, MatchTerminal, Anchor, LeafReturn
<1> QED
  BY <1>5, <1>6

LEMMA PassedSays ==
  ASSUME NEW nodes, NEW E, Steps(nodes, E), Says(nodes, stack, ast.records, E), NodePassed
  PROVE  /\ Says(nodes, stack', ast'.records, E)
         /\ SaysAnswer(nodes, stack', ast'.records, E)
<1>1. /\ Meant(nodes) /\ Watched(nodes) /\ ParserStep /\ pc = "call" /\ pc' = "return" /\ stack' = stack
  BY StepFacts DEF NodePassed, Steps
<1>2. (Predict \/ MatchTerminal \/ Anchor) /\ ast' = ast
  BY <1>1, PassActs
<1>3. Len(ast.records) = Top(E).cb /\ Top(E).cb \in Nat
  BY <1>1, StepFacts
<1>4. Lines(ast.records, Top(E).cb, Len(ast.records)) = << >>
  BY <1>3, LinesEmpty
<1>5. SaysAnswer(nodes, stack, ast.records, E)
  <2> SUFFICES ASSUME Rec(stack, Len(stack))
               PROVE  Meaning(ThisParse(nodes))[NodeAbove(stack, Len(stack))].tree = << >>
    BY <1>4 DEF SaysAnswer, Told
  <2> QED
    BY <1>1, <1>2, LeafSays
<1> QED
  BY <1>1, <1>2, <1>5

\* What an operator that begins has pushed.
LEMMA OpenActs ==
  ASSUME NEW nodes, Meant(nodes), ParserStep, pc = "call", NEW f \in Frame, stack' = Append(stack, f)
  PROVE  /\ f.op = callee /\ f.beg = uiOffset /\ f.subEnd = uiSubStringEnd /\ f.len = 0
         /\ Id(f) = Opcode(callee).id
         /\ f.k = IF Opcode(callee).id \in ListIds THEN 1 ELSE 0
         /\ f = NewFrame(f.k)
         /\ pc' = "return" => Id(f) = "RNM" /\ PpptState(callee) # "ACTIVE"
<1> DEFINE id == Opcode(callee).id
           k == IF id \in ListIds THEN 1 ELSE 0
<1>1. /\ ~(AltNext \/ CatNext \/ RepNext \/ RnmClose \/ LookAheadClose \/ LookBackAgain \/ LookBackClose)
      /\ ~ParserFinish
  BY DEF AltNext, CatNext, RepNext, RnmClose, LookAheadClose, LookBackAgain, LookBackClose,
         Returning, ParserFinish
<1>2. stack \in Seq(Frame) /\ stack' # stack /\ stack' # << >> /\ Top(stack') = f
  <2>1. stack \in Seq(Frame)
    BY DEF Meant, IInv, TypeOK
  <2>2. Len(stack') = Len(stack) + 1 /\ Len(stack) \in Nat /\ stack' # << >> /\ Top(stack') = f
    BY <2>1, Appended, PopAppended
  <2> QED
    BY <2>1, <2>2
<1>3. ~(Predict \/ MatchTerminal \/ Anchor)
  BY <1>2 DEF Predict, MatchTerminal, Anchor, LeafReturn, Return
<1>4. ~Udt
  BY <1>2 DEF Udt, Finish, Throw, Return
<1>5. \/ /\ AltOpen \/ CatOpen \/ RepOpen \/ LookAheadOpen \/ LookBackOpen
         /\ pc' = "call" /\ stack' = Append(stack, NewFrame(k)) /\ id \in ListIds \cup NextIds
      \/ /\ RnmOpen /\ stack' = Append(stack, NewFrame(k)) /\ id = "RNM"
         /\ pc' = "return" => PpptState(callee) # "ACTIVE"
  <2>1. ASSUME AltOpen \/ CatOpen
        PROVE  pc' = "call" /\ stack' = Append(stack, NewFrame(1)) /\ id \in ListIds
    BY <2>1, Kinds DEF AltOpen, CatOpen, Call, Calling
  <2>2. ASSUME RepOpen \/ LookAheadOpen \/ LookBackOpen
        PROVE  pc' = "call" /\ stack' = Append(stack, NewFrame(0)) /\ id \in NextIds /\ id \notin ListIds
    BY <2>2, Disjoint DEF RepOpen, LookAheadOpen, LookBackOpen, Call, Calling
  <2>3. ASSUME RnmOpen
        PROVE  /\ stack' = Append(stack, NewFrame(0)) /\ id = "RNM" /\ id \notin ListIds
               /\ pc' = "return" => PpptState(callee) # "ACTIVE"
    <3>1. Calling({"RNM"})
      BY <2>3 DEF RnmOpen
    <3>2. \A answer \in RnmResults : answer.state = "ACTIVE"
      BY DEF Meant, Decided
    <3>3. \E a : RnmDown(a)
      BY <1>2, <2>3, <3>2 DEF RnmOpen, Throw
    <3>4. stack' = Append(stack, NewFrame(0)) /\ (pc' = "return" => PpptState(callee) # "ACTIVE")
      BY <3>3 DEF RnmDown, Call, Return
    <3> QED
      BY <3>1, <3>4, Disjoint DEF Calling
  <2> QED
    BY <1>1, <1>3, <1>4, <2>1, <2>2, <2>3 DEF ParserStep
<1>6. f = NewFrame(k) /\ id \in ListIds \cup NextIds \cup {"RNM"}
  <2>1. stack' = Append(stack, NewFrame(k)) /\ id \in ListIds \cup NextIds \cup {"RNM"}
    BY <1>5
  <2>2. NewFrame(k) \in Frame
    <3>1. id \in ListIds => k \in 1..Len(Opcode(callee).kids)
      BY CallFacts DEF Meant
    <3>2. k \in Nat /\ (id \in LookBackIds => k = 0)
      BY Disjoint
    <3> QED
      BY <2>1, <3>1, <3>2, Pushed DEF Meant
  <2>3. Top(stack') = NewFrame(k)
    BY <1>2, <2>1, <2>2, PopAppended
  <2> QED
    BY <1>2, <2>1, <2>3
<1>7. /\ f.op = callee /\ f.beg = uiOffset /\ f.subEnd = uiSubStringEnd /\ f.len = 0
      /\ f.k = k /\ Id(f) = id
  BY <1>6 DEF NewFrame, Id
<1> QED
  BY <1>1, <1>3, <1>4, <1>5, <1>6, <1>7, Disjoint

\* An operator that begins adds records at most behind those there are, a rule one.
LEMMA OpenedHeads ==
  ASSUME NEW a \in AstSet, NEW la, NEW f, Opcode(f.op).index \in Nat, f.beg \in Nat,
         NEW b, b = OpenedAst(f, a, la)
  PROVE  /\ Id(f) # "RNM" => b.records = a.records
         /\ \A k \in 1..Len(a.records) : b.records[k] = a.records[k]
<1> DEFINE i == Opcode(f.op).index
<1>1. ASSUME NEW c \in AstSet
      PROVE  AST_OP_OPEN(c, la) \in AstSet /\ AST_OP_OPEN(c, la).records = c.records
  <2>1. CASE Recording(c, la)
    BY <2>1, OpOpenFields DEF AST_OP_OPEN
  <2>2. CASE ~Recording(c, la)
    BY <2>2, HooksOff
  <2> QED
    BY <2>1, <2>2
<1>2. CASE Id(f) # "RNM"
  <2>1. b.records = a.records
    <3> DEFINE c == AST_OP_OPEN(a, la)
    <3>1. c \in AstSet /\ c.records = a.records
      BY <1>1
    <3>2. b = a \/ b = c \/ b = AST_OP_OPEN(c, la)
      BY <1>2 DEF OpenedAst
    <3> HIDE DEF c
    <3> QED
      BY <1>1, <3>1, <3>2
  <2> QED
    BY <2>1
<1>3. CASE Id(f) = "RNM"
  <2>1. b = AST_RULE_OPEN(a, la, i, f.beg)
    BY <1>3 DEF OpenedAst
  <2>2. CASE ~Recording(a, la)
    BY <1>3, <2>1, <2>2, HooksOff
  <2>3. CASE Recording(a, la) /\ i \in a.callbacks
    <3> DEFINE x == PreRecord(i, f.beg, Len(a.records))
    <3>1. b.records = Append(a.records, x)
      BY <2>1, <2>3, RuleOpenFields DEF AST_RULE_OPEN
    <3>2. a.records \in Seq(Record) /\ x \in Record
      BY AstParts, PreRecordParts
    <3> HIDE DEF x
    <3> QED
      BY <1>3, <3>1, <3>2, Appended
  <2>4. CASE Recording(a, la) /\ i \notin a.callbacks
    <3>1. b = AstOpOpen(a)
      BY <2>1, <2>4 DEF AST_RULE_OPEN, AstRuleOpen
    <3> QED
      BY <1>3, <3>1, OpOpenFields
  <2> QED
    BY <2>2, <2>3, <2>4
<1> QED
  BY <1>2, <1>3

LEMMA OpenedSays ==
  ASSUME NEW nodes, NEW E, Steps(nodes, E), Says(nodes, stack, ast.records, E), NodeOpened,
         NEW F, CallsFrom(stack, stack', E, F)
  PROVE  /\ Says(nodes, stack', ast'.records, F)
         /\ pc' = "return" => SaysAnswer(nodes, stack', ast'.records, F)
<1> DEFINE e == Meaning(ThisParse(nodes))
<1>1. PICK f \in Frame, h \in Env : /\ stack' = Append(stack, f) /\ F = Append(E, h)
                                    /\ h.cb = Len(ast'.records) /\ h.la = uiInLookaround'
  BY DEF CallsFrom
<1>2. /\ Meant(nodes) /\ Watched(nodes) /\ ParserStep /\ Parsing /\ pc = "call"
      /\ stack \in Seq(Frame) /\ ast \in AstSet /\ E \in Seq(Env)
      /\ Cuttings(stack, E) /\ Top(E).cb \in Nat
      /\ Len(ast.records) = Top(E).cb
  BY StepFacts DEF NodeOpened, Steps, Cuttings
<1>3. FrameOK(f) /\ ast' = OpenedAst(f, ast, uiInLookaround)
  <2>1. PICK g \in Frame : FrameOK(g) /\ stack' = Append(stack, g)
                           /\ ast' = OpenedAst(g, ast, uiInLookaround)
    BY DEF NodeOpened
  <2>2. Top(stack') = g /\ Top(stack') = f
    BY <1>1, <1>2, <2>1, PopAppended
  <2> QED
    BY <2>1, <2>2
<1>4. /\ f.op = callee /\ f.beg = uiOffset /\ f.subEnd = uiSubStringEnd /\ f.len = 0
      /\ Id(f) = Opcode(callee).id
      /\ f.k = IF Opcode(callee).id \in ListIds THEN 1 ELSE 0
      /\ f = NewFrame(f.k)
      /\ pc' = "return" => Id(f) = "RNM" /\ PpptState(callee) # "ACTIVE"
  BY <1>1, <1>2, OpenActs
<1>5. /\ Id(f) # "RNM" => ast'.records = ast.records
      /\ \A k \in 1..Len(ast.records) : ast'.records[k] = ast.records[k]
  <2>1. Opcode(f.op).index \in Nat /\ f.beg \in Nat
    BY <1>2, <1>3, RuleOfFrame DEF Meant
  <2> QED
    BY <1>2, <1>3, <2>1, OpenedHeads
<1>6. Sayings(e, stack, ast'.records, E)
  <2>1. Sayings(e, stack, ast.records, E)
    BY DEF Says
  <2> QED
    BY <1>2, <1>5, <2>1, SaySame
<1>7. Id(f) \in {"CAT", "REP"} => Leads(e, f, Lines(ast'.records, Top(E).cb, h.cb))
  <2> SUFFICES ASSUME Id(f) \in {"CAT", "REP"}
               PROVE  Leads(e, f, Lines(ast'.records, Top(E).cb, h.cb))
    OBVIOUS
  <2>1. Lines(ast'.records, Top(E).cb, h.cb) = << >>
    BY <1>1, <1>2, <1>5, LinesEmpty
  <2>2. Turns(f) = 0 /\ f.beg + f.len = f.beg
    <3>1. f.beg \in Nat
      BY <1>2, <1>4, CalledAt
    <3> QED
      BY <1>4, <3>1, Kinds DEF Turns
  <2>3. LeftOf(e, f) = WholeOf(e, f)
    BY <2>2 DEF LeftOf, WholeOf
  <2>4. WholeOf(e, f).tree \in Seq(Node4)
    <3>1. Point(f.op, 0, f.beg, f.subEnd, TRUE) \in Points(ThisParse(nodes))
      <4>1. \A rec \in BOOLEAN : Point(f.op, 0, f.beg, f.subEnd, rec) \in Points(ThisParse(nodes))
        BY <1>2, <1>4, CalledAt, PointFacts
      <4>2. TRUE \in BOOLEAN
        OBVIOUS
      <4> QED
        BY <4>1, <4>2, Zenon
    <3>2. WholeOf(e, f) \in Results
      BY <1>2, <3>1, ResultFacts DEF WholeOf
    <3> QED
      BY <3>2, TreeParts
  <2> HIDE DEF e
  <2>5. << >> \o WholeOf(e, f).tree = WholeOf(e, f).tree
    BY <2>4, ConcatEmptySeq
  <2> QED
    BY <2>1, <2>3, <2>5 DEF Leads
<1>8. Says(nodes, stack', ast'.records, F)
  BY <1>1, <1>2, <1>6, <1>7, SayPush DEF Says
<1>9. ASSUME pc' = "return"
      PROVE  SaysAnswer(nodes, stack', ast'.records, F)
  <2> DEFINE t == Append(stack, f)
             child == grammar.rules[Opcode(callee).index].op
  <2> SUFFICES ASSUME Rec(t, Len(t))
               PROVE  Lines(ast'.records, Top(F).cb, Len(ast'.records)) = e[NodeAbove(t, Len(t))].tree
    BY <1>1 DEF SaysAnswer, Told
  <2>1. Id(f) = "RNM" /\ PpptState(callee) # "ACTIVE" /\ Opcode(callee).id = "RNM" /\ f.k = 0
    BY <1>4, <1>9, Disjoint
  <2>2. Lines(ast'.records, Top(F).cb, Len(ast'.records)) = << >>
    <3>1. Top(F) = h /\ h.cb \in Nat
      BY <1>1, <1>2, PopAppended, EnvParts
    <3> QED
      BY <1>1, <3>1, LinesEmpty
  <2>3. NodeBeg(t, Len(t)) = uiOffset /\ NodeSubEnd(t, Len(t)) = uiSubStringEnd
    <3>1. f = NewFrame(0)
      BY <1>4, <2>1
    <3>2. /\ NodeBeg(Append(stack, NewFrame(0)), Len(Append(stack, NewFrame(0)))) = uiOffset
          /\ NodeSubEnd(Append(stack, NewFrame(0)), Len(Append(stack, NewFrame(0)))) = uiSubStringEnd
      BY <1>2, <2>1, Opened, Disjoint DEF Meant
    <3> QED
      BY <3>1, <3>2
  <2>4. OpAbove(t, Len(t)) = child
    <3>1. t[Len(t)] = f /\ Len(t) # 0
      BY <1>2, Appended
    <3>2. ChildOp(f) = child
      BY <1>4, <2>1, Disjoint DEF ChildOp
    <3> QED
      BY <3>1, <3>2 DEF OpAbove
  <2>5. Rec(t, Len(t)) = TRUE
    BY DEF Rec
  <2>6. NodeAbove(t, Len(t)) = Node(child, uiOffset, uiSubStringEnd, TRUE)
    BY <2>3, <2>4, <2>5, Zenon DEF NodeAbove
  <2>7. e[Node(child, uiOffset, uiSubStringEnd, TRUE)].tree = << >>
    BY <1>2, <2>1, RuleBare
  <2> HIDE DEF t, child, e
  <2> QED
    BY <2>2, <2>6, <2>7
<1> QED
  BY <1>8, <1>9

LEMMA PopCuts ==
  ASSUME NEW a, NEW s \in Seq(Frame), s # << >>, NEW la, NEW E, Tree(a, s, la, E)
  PROVE  Cuttings(Pop(s), Pop(E))
<1> DEFINE F == Pop(E)
<1>1. E \in Seq(Env) /\ Chain(a, s, E)
  BY DEF Tree
<1>2. F \in Seq(Env) /\ Chain(a, Pop(s), F) /\ Pop(s) \in Seq(Frame)
  BY <1>1, ChainPop
<1>3. /\ Len(F) = Len(Pop(s)) + 1
      /\ \A n \in 1..Len(F) : Below(F[n], Top(F)) /\ F[n].cb \in Nat
  BY <1>2, ChainParts
<1> QED
  BY <1>2, <1>3 DEF Cuttings, Below

\* What an operator has said, its child's answer, and what is left.
LEMMA LeadsOn ==
  ASSUME NEW e, NEW f, NEW g, NEW r \in Seq(Record), NEW c \in Nat, NEW d \in Nat, NEW n \in Nat,
         c =< d, d =< n, n =< Len(r), NEW m \in Results,
         WholeOf(e, g) = WholeOf(e, f), LeftOf(e, g) \in Results,
         LeftOf(e, f) = Then(m, LeftOf(e, g)),
         Leads(e, f, Lines(r, c, d)), Lines(r, d, n) = m.tree
  PROVE  Leads(e, g, Lines(r, c, n))
<1> SUFFICES ASSUME LeftOf(e, g).ok
             PROVE  WholeOf(e, g).tree = Lines(r, c, n) \o LeftOf(e, g).tree
  BY DEF Leads
<1> DEFINE s == Lines(r, c, d)
           t == m.tree
           u == LeftOf(e, g).tree
           l == LeftOf(e, g)
<1>a. /\ m \in Results /\ l \in Results /\ LeftOf(e, f) = Then(m, l)
      /\ Lines(r, d, n) = t
  OBVIOUS
<1>1. LeftOf(e, f).ok /\ LeftOf(e, f).tree = t \o u
  <2>1. /\ Then(m, l).ok <=> l.ok
        /\ l.ok => Then(m, l).tree = t \o l.tree
    BY ONLY <1>a, ThenParts
  <2> QED
    BY <1>a, <2>1, Zenon
<1>2. WholeOf(e, g).tree = s \o (t \o u)
  BY <1>1 DEF Leads
<1>3. s \in Seq(Node4) /\ t \in Seq(Node4) /\ u \in Seq(Node4)
  <2>1. Len(r) \in Nat
    BY LenProperties
  <2>2. d =< Len(r)
    BY <2>1
  <2> QED
    BY <2>2, LinesParts, TreeParts
<1>4. s \o t = Lines(r, c, n)
  <2>1. s \o Lines(r, d, n) = Lines(r, c, n)
    BY LinesJoin
  <2> QED
    BY ONLY <1>a, <2>1
<1> HIDE DEF s, t, u
<1>5. s \o (t \o u) = (s \o t) \o u
  BY ONLY SMTT(40), <1>3, ConcatAssociative
<1> QED
  BY <1>2, <1>4, <1>5 DEF u

LEMMA GoesOnSays ==
  ASSUME NEW nodes, NEW E, Steps(nodes, E), Says(nodes, stack, ast.records, E),
         SaysAnswer(nodes, stack, ast.records, E), NodeGoesOn,
         NEW F, CallsFrom(Pop(stack), stack', Pop(E), F), ast'.records = ast.records
  PROVE  Says(nodes, stack', ast'.records, F)
<1> DEFINE e == Meaning(ThisParse(nodes))
           D == Pop(E)
           f == Top(stack)
           q == ast.records
           m == e[NodeAbove(stack, Len(stack))]
<1>1. PICK g \in Frame, h \in Env : /\ stack' = Append(Pop(stack), g) /\ F = Append(D, h)
                                    /\ h.cb = Len(q) /\ h.la = uiInLookaround'
  BY DEF CallsFrom
<1>2. /\ Meant(nodes) /\ Watched(nodes) /\ ParserStep /\ Parsing
      /\ pc = "return" /\ pc' = "call" /\ stack # << >>
      /\ stack \in Seq(Frame) /\ ast \in AstSet /\ Tree(ast, stack, uiInLookaround, E)
      /\ Cuttings(stack, E) /\ Top(E).cb \in Nat /\ Top(E).cb =< Len(q)
      /\ Len(q) \in Nat /\ q \in Seq(Record)
  BY StepFacts DEF NodeGoesOn, Steps
<1>3. Sayings(e, stack, q, E) /\ Told(e, stack, q, E)
  BY DEF Says, SaysAnswer
<1>4. /\ Sayings(e, Pop(stack), q, D) /\ Cuttings(Pop(stack), D)
      /\ Id(f) \in {"CAT", "REP"} /\ Rec(Pop(stack), Len(Pop(stack))) =>
           Leads(e, f, Lines(q, Top(D).cb, Top(E).cb))
      /\ Pop(stack) \in Seq(Frame)
  <2> HIDE DEF e, q
  <2> QED
    BY <1>2, <1>3, SayPop, PopCuts
<1>5. Id(g) = Id(f)
  <2>1. PICK x \in Frame : x.op = f.op /\ stack' = Append(Pop(stack), x)
    BY DEF NodeGoesOn
  <2>2. Top(stack') = g /\ Top(stack') = x
    BY <1>1, <1>4, <2>1, PopAppended
  <2> QED
    BY <2>1, <2>2 DEF Id
<1>6. Top(D).cb \in Nat /\ Top(D).cb =< Top(E).cb
  BY <1>2, TopLink
<1>7. ASSUME Id(g) \in {"CAT", "REP"} /\ Rec(Pop(stack), Len(Pop(stack)))
      PROVE  Leads(e, g, Lines(q, Top(D).cb, h.cb))
  <2>0. /\ Id(f) \in {"CAT", "REP"} /\ Rec(Pop(stack), Len(Pop(stack)))
    BY <1>5, <1>7
  <2>1. /\ WholeOf(e, g) = WholeOf(e, f) /\ LeftOf(e, g) \in Results /\ m \in Results
        /\ LeftOf(e, f) = Then(m, LeftOf(e, g))
    BY <1>1, <1>2, <2>0, NextSays
  <2>2. Leads(e, f, Lines(q, Top(D).cb, Top(E).cb))
    BY <1>4, <2>0
  <2>3. Lines(q, Top(E).cb, Len(q)) = m.tree
    <3>1. Rec(stack, Len(stack))
      <4>1. ~IsLook(f)
        BY <2>0, Kinds DEF IsLook
      <4>2. StackMeans(e, stack)
        BY <1>2 DEF Meant, MeanInv
      <4> HIDE DEF e
      <4>3. Rec(stack, Len(stack)) <=> Rec(Pop(stack), Len(Pop(stack))) /\ ~IsLook(f)
        BY <1>2, <4>2, PopMeans
      <4> QED
        BY <2>0, <4>1, <4>3
    <3> QED
      BY <1>3, <3>1 DEF Told
  <2> HIDE DEF e, D, f, q, m
  <2>4. Leads(e, g, Lines(q, Top(D).cb, Len(q)))
    BY <1>2, <1>6, <2>1, <2>2, <2>3, LeadsOn
  <2> QED
    BY <1>1, <2>4
<1>8. Sayings(e, stack', q, F)
  <2> HIDE DEF e, D, q
  <2> QED
    BY <1>1, <1>4, <1>7, SayPush
<1> QED
  BY <1>8 DEF Says

\* An alternative that has matched says what its child says.
LEMMA AltSays ==
  ASSUME NEW nodes, Meant(nodes), pc = "return", stack # << >>, uiOpState = "MATCH",
         NEW f, f = Top(stack), Id(f) = "ALT",
         NEW e, e = Meaning(ThisParse(nodes)), NEW rec, rec = Rec(Pop(stack), Len(Pop(stack)))
  PROVE  e[Point(f.op, 0, f.beg, f.subEnd, rec)] = e[NodeAbove(stack, Len(stack))]
<1> DEFINE x == ThisParse(nodes)
           kids == Opcode(f.op).kids
           Left(k) == e[Point(f.op, k, f.beg, f.subEnd, rec)]
           r == e[Node(kids[f.k], f.beg, f.subEnd, rec)]
<1>2. Id(f) \in ListIds /\ ~IsLook(f) /\ Id(f) \notin LookBackIds
  BY Kinds, Disjoint DEF IsLook
<1>3. ChildOp(f) = kids[f.k] /\ ChildBeg(f) = f.beg /\ ChildSubEnd(f) = f.subEnd
  BY <1>2 DEF ChildOp, ChildBeg, ChildSubEnd, IsLookBack, Id
<1>4. /\ Parsing
      /\ f \in Frame /\ rec \in BOOLEAN
      /\ f.op \in 0..Len(grammar.ops)
      /\ f.beg \in 0..uiInputStringLength
      /\ f.subEnd \in 0..uiInputStringLength
      /\ FrameMeans(e, f, rec)
      /\ uiOpState = "MATCH" <=> r.ok
      /\ r = e[NodeAbove(stack, Len(stack))]
  <2>1. (rec /\ ~IsLook(f)) = rec
    BY <1>2 DEF Rec
  <2> QED
    BY <1>3, <2>1, Answered
<1>5. Len(kids) \in Nat \ {0} /\ f.k \in 1..Len(kids) /\ f.k \in Nat
  BY <1>2, ReturnFacts DEF Meant, Fits, FrameOK, Id
<1>6. Left(0) = Left(f.k - 1)
  BY <1>4 DEF FrameMeans
<1>7. \A k \in Nat : Point(f.op, k, f.beg, f.subEnd, rec) \in Points(x)
  BY <1>4, PointFacts
<1>8. Solves(x, e) /\ OpAt(x, f.op) = Opcode(f.op)
  BY <1>4, ParseFacts
<1>9. Left(f.k - 1) = IF r.ok THEN r ELSE Left(f.k)
  <2>1. f.k - 1 \in Nat /\ (f.k - 1) + 1 = f.k /\ ~(f.k - 1 >= Len(kids))
    BY <1>5
  <2>0. Opcode(f.op).id = "ALT"
    BY DEF Id
  <2> HIDE DEF x
  <2>2. LET q == e[Node(OpAt(x, f.op).kids[(f.k - 1) + 1], f.beg, f.subEnd, rec)] IN
        Left(f.k - 1) = IF f.k - 1 >= Len(OpAt(x, f.op).kids) THEN Failed
                        ELSE IF q.ok THEN q ELSE Left((f.k - 1) + 1)
    BY ONLY <1>7, <1>8, <2>0, <2>1, AltMeans
  <2> QED
    BY <1>8, <2>1, <2>2
<1> HIDE DEF r
<1>10. Left(0) = r
  BY <1>4, <1>6, <1>9
<1> QED
  BY <1>4, <1>10

\* A rule says its node around what its definition says.
LEMMA RnmSays ==
  ASSUME NEW nodes, Meant(nodes), pc = "return", stack # << >>,
         NEW f, f = Top(stack), Id(f) = "RNM",
         NEW e, e = Meaning(ThisParse(nodes)), NEW rec, rec = Rec(Pop(stack), Len(Pop(stack))),
         NEW p, p = Point(f.op, 0, f.beg, f.subEnd, rec)
  PROVE  /\ e[p] = Named(ThisParse(nodes), Opcode(f.op).index, p, e[NodeAbove(stack, Len(stack))])
         /\ p.rec = rec /\ p.beg = f.beg /\ ThisParse(nodes).nodes = nodes
<1> DEFINE x == ThisParse(nodes)
           child == grammar.rules[Opcode(f.op).index].op
           r == e[Node(child, f.beg, f.subEnd, rec)]
<1>2. Id(f) \notin ListIds /\ ~IsLook(f) /\ Id(f) \notin LookBackIds
  BY Kinds, Disjoint DEF IsLook
<1>3. ChildBeg(f) = f.beg /\ ChildSubEnd(f) = f.subEnd
  BY <1>2, Waiting
<1>4. /\ Parsing
      /\ rec \in BOOLEAN
      /\ f.op \in 0..Len(grammar.ops)
      /\ f.beg \in 0..uiInputStringLength
      /\ f.subEnd \in 0..uiInputStringLength
      /\ r = e[NodeAbove(stack, Len(stack))]
  <2>1. (rec /\ ~IsLook(f)) = rec
    BY <1>2 DEF Rec
  <2>2. ChildOp(f) = child
    BY <1>2 DEF ChildOp
  <2> QED
    BY <1>3, <2>1, <2>2, Answered
<1>5. Solves(x, e) /\ OpAt(x, f.op) = Opcode(f.op) /\ x.g = grammar /\ x.nodes = nodes
  BY <1>4, ParseFacts
<1>6. Point(f.op, 0, f.beg, f.subEnd, rec) \in Points(x)
  BY <1>4, PointFacts
<1>7. e[p] = Named(x, Opcode(f.op).index, p, r)
  <2> HIDE DEF x
  <2>1. LET q == e[Node(x.g.rules[OpAt(x, f.op).index].op, f.beg, f.subEnd, rec)]
        IN e[Point(f.op, 0, f.beg, f.subEnd, rec)]
             = Named(x, OpAt(x, f.op).index, Point(f.op, 0, f.beg, f.subEnd, rec), q)
    BY <1>5, <1>6, RnmMeans DEF Id
  <2> QED
    BY <1>5, <2>1
<1>8. p.rec = rec /\ p.beg = f.beg
  BY PointParts
<1> QED
  BY <1>4, <1>5, <1>7, <1>8

\* A look-around says nothing.
LEMMA LookSays ==
  ASSUME NEW nodes, Meant(nodes), pc = "return", stack # << >>,
         NEW f, f = Top(stack), IsLook(f),
         NEW e, e = Meaning(ThisParse(nodes)), NEW rec, rec = Rec(Pop(stack), Len(Pop(stack)))
  PROVE  e[Point(f.op, 0, f.beg, f.subEnd, rec)].tree = << >>
<1> DEFINE x == ThisParse(nodes)
           p == Point(f.op, 0, f.beg, f.subEnd, rec)
<1>1. /\ Parsing
      /\ rec \in BOOLEAN
      /\ f.op \in 0..Len(grammar.ops)
      /\ f.beg \in 0..uiInputStringLength
      /\ f.subEnd \in 0..uiInputStringLength
  BY Answered
<1>2. Solves(x, e) /\ OpAt(x, f.op) = Opcode(f.op) /\ p \in Points(x) /\ p.op = f.op
  BY <1>1, ParseFacts, PointFacts, PointParts
<1>3. Opcode(f.op).id \in {"AND", "NOT", "BKA", "BKN"}
  BY DEF IsLook, Id, LookIds, LookAheadIds, LookBackIds
<1> HIDE DEF x, p
<1>4. \E b : e[p] = Check(b)
  BY <1>2, <1>3, OpMeans
<1>5. \A b : Check(b).tree = << >>
  BY DEF Check, Found, Failed
<1> QED
  BY <1>4, <1>5 DEF p

\* The answer that a step gives, by the meaning of the node that gives it.
LEMMA AnswerAfter ==
  ASSUME NEW nodes, MeanInv(nodes)', Parsing', pc' = "return", UNCHANGED <<app, parse>>,
         NEW m, m = Meaning(ThisParse(nodes))[NodeAbove(stack', Len(stack'))]
  PROVE  (uiOpState' = "MATCH" <=> m.ok) /\ uiPhraseLength' = m.len
<1>1. /\ Meaning(ThisParse(nodes))' = Meaning(ThisParse(nodes))
      /\ NodeAbove(stack, Len(stack))' = NodeAbove(stack', Len(stack'))
  BY MeansCarried
<1>2. AnswerMeans(Meaning(ThisParse(nodes)), stack, uiOpState, uiPhraseLength)'
  BY DEF MeanInv
<1> QED
  BY <1>1, <1>2 DEF AnswerMeans

\* An operator that has ended has said all its turns.
LEMMA LeadsEnd ==
  ASSUME NEW e, NEW f, NEW r \in Seq(Record), NEW c \in Nat, NEW d \in Nat, NEW n \in Nat,
         c =< d, d =< n, n =< Len(r), Leads(e, f, Lines(r, c, d)),
         LeftOf(e, f).ok /\ LeftOf(e, f).tree = Lines(r, d, n)
  PROVE  WholeOf(e, f).tree = Lines(r, c, n)
<1>1. WholeOf(e, f).tree = Lines(r, c, d) \o Lines(r, d, n)
  BY DEF Leads
<1> QED
  BY <1>1, LinesJoin

\* What the node on top has recorded, now that its operator has ended with a match.
LEMMA MatchSays ==
  ASSUME NEW nodes, NEW E, Steps(nodes, E), NodeClosed,
         Says(nodes, stack, ast.records, E), SaysAnswer(nodes, stack, ast.records, E),
         Rec(Pop(stack), Len(Pop(stack))), uiOpState' = "MATCH",
         NEW f, f = Top(stack), NEW c, c = Top(Pop(E)).cb,
         NEW e, e = Meaning(ThisParse(nodes)), NEW w, w = WholeOf(e, f), w \in Results, w.ok,
         uiPhraseLength' = w.len,
         ClosedRecords(ast, ast', f, c, uiOpState', uiPhraseLength', uiInLookaround')
  PROVE  Lines(ast'.records, c, Len(ast'.records)) = w.tree
<1> DEFINE D == Pop(E)
           q == ast.records
           p == ast'.records
           rec == Rec(Pop(stack), Len(Pop(stack)))
           r == e[NodeAbove(stack, Len(stack))]
<1>1. /\ Meant(nodes) /\ Watched(nodes) /\ ParserStep /\ Parsing
      /\ pc = "return" /\ pc' = "return" /\ stack # << >> /\ stack' = Pop(stack)
      /\ stack \in Seq(Frame) /\ ast \in AstSet /\ Tree(ast, stack, uiInLookaround, E)
      /\ Cuttings(stack, E) /\ Top(E).cb \in Nat /\ Top(E).cb =< Len(q)
      /\ Len(q) \in Nat /\ q \in Seq(Record)
  BY StepFacts DEF NodeClosed, Steps
<1>r. /\ Meant(nodes) /\ pc = "return" /\ stack # << >> /\ f = Top(stack)
      /\ e = Meaning(ThisParse(nodes)) /\ rec = Rec(Pop(stack), Len(Pop(stack)))
  BY <1>1
<1>2. rec = TRUE
  BY DEF Rec
<1>3. w = e[Point(f.op, 0, f.beg, f.subEnd, rec)]
  BY <1>2, Zenon DEF WholeOf
<1>4. uiInLookaround' = 0
  BY <1>1, StepFacts
<1>5. IF Records(ast, f) THEN p = Ended(q, c, uiPhraseLength') /\ Waits(q, c, f) ELSE p = q
  BY <1>4 DEF ClosedRecords
<1>6. /\ Id(f) \in {"ALT", "CAT", "REP", "RNM"} \/ IsLook(f)
      /\ f \in Frame
  <2>1. FrameOK(f) /\ f \in Frame
    BY <1>1, ReturnFacts DEF Meant, Fits
  <2>2. Id(f) \in ListIds \cup NextIds \cup {"RNM"}
    BY <2>1 DEF FrameOK, Id
  <2> QED
    BY <2>1, <2>2, Kinds DEF IsLook
<1>7. /\ Link(ast, f, Top(D), Top(E))
      /\ c \in Nat /\ c =< Top(E).cb /\ Top(D).la \in Nat /\ Top(E).la = uiInLookaround
  BY <1>1, TopLink
<1>8. Top(D).la = 0
  <2>1. uiInLookaround' = Top(D).la
    BY <1>1, ClosedStep, StepFacts, HooksAttached DEF Steps, Watched, Meant, CallbacksRecorded, Decided
  <2> QED
    BY <1>4, <2>1
<1>9. /\ Rec(stack, Len(stack)) <=> ~IsLook(f)
      /\ ~IsLook(f) => Lines(q, Top(E).cb, Len(q)) = r.tree
  <2>1. StackMeans(e, stack)
    BY <1>1 DEF Meant, MeanInv
  <2>2. Rec(stack, Len(stack)) <=> Rec(Pop(stack), Len(Pop(stack))) /\ ~IsLook(f)
    BY <1>1, <2>1, PopMeans
  <2> QED
    BY <2>2 DEF SaysAnswer, Told
<1>10. CASE Id(f) = "ALT"
  <2>1. uiOpState = "MATCH"
    BY <1>10 DEF NodeClosed, ClosedAst
  <2>2. e[Point(f.op, 0, f.beg, f.subEnd, rec)] = r
    BY <1>1, <1>10, <2>1, AltSays
  <2>3. p = q /\ Top(E).cb = c /\ ~IsLook(f)
    BY <1>5, <1>7, <1>10, Kinds DEF Records, Link, IsLook
  <2> QED
    BY <1>3, <1>9, <2>2, <2>3
<1>11. CASE Id(f) \in {"CAT", "REP"}
  <2>1. p = q /\ ~IsLook(f)
    BY <1>5, <1>11, Kinds DEF Records, IsLook
  <2>2. Leads(e, f, Lines(q, c, Top(E).cb))
    <3>1. Sayings(e, stack, q, E)
      BY DEF Says
    <3> HIDE DEF q
    <3> QED
      BY <1>1, <1>11, <3>1, SayPop
  <2>3. LeftOf(e, f).ok /\ LeftOf(e, f).tree = r.tree
    BY <1>1, <1>11, LastSays
  <2>4. LeftOf(e, f).tree = Lines(q, Top(E).cb, Len(q))
    BY <1>9, <2>1, <2>3
  <2> HIDE DEF q, p, r
  <2>5. WholeOf(e, f).tree = Lines(q, c, Len(q))
    BY ONLY <1>1, <1>7, <2>2, <2>3, <2>4, LeadsEnd
  <2> QED
    BY <2>1, <2>5 DEF p, q
<1>12. CASE Id(f) = "RNM"
  <2> DEFINE i == Opcode(f.op).index
             pt == Point(f.op, 0, f.beg, f.subEnd, rec)
  <2>1. /\ w = Named(ThisParse(nodes), i, pt, r)
        /\ pt.rec = rec /\ pt.beg = f.beg /\ ThisParse(nodes).nodes = nodes
    <3>1. /\ e[pt] = Named(ThisParse(nodes), i, pt, r)
          /\ pt.rec = rec /\ pt.beg = f.beg /\ ThisParse(nodes).nodes = nodes
      BY ONLY <1>r, <1>12, RnmSays
    <3> QED
      BY ONLY <1>3, <3>1
  <2>2. ~IsLook(f) /\ (Records(ast, f) <=> i \in nodes)
    BY <1>1, <1>12, Kinds DEF IsLook, Records, Watched
  <2>3. Lines(q, Top(E).cb, Len(q)) = r.tree
    BY <1>9, <2>2
  <2>4. CASE i \notin nodes
    <3>1. w = r
      BY <2>1, <2>4 DEF Named
    <3>2. p = q /\ Top(E).cb = c
      BY <1>5, <1>7, <1>8, <1>12, <2>2, <2>4 DEF Link
    <3> QED
      BY <2>3, <3>1, <3>2
  <2>5. CASE i \in nodes
    <3>1. w.len = r.len /\ w.tree = <<<<i, "PRE", f.beg, r.len>>>> \o r.tree
                                     \o <<<<i, "POST", f.beg, r.len>>>>
      <4>1. w.ok = TRUE
        BY ResultParts
      <4>2. w # r \/ r.ok
        BY <4>1
      <4> HIDE DEF pt, r, i
      <4>3. w = Found(r.len, <<<<i, "PRE", pt.beg, r.len>>>> \o r.tree
                               \o <<<<i, "POST", pt.beg, r.len>>>>)
        BY <1>2, <2>1, <2>5, <4>2 DEF Named
      <4> QED
        BY <2>1, <4>3 DEF Found
    <3>2. p = Ended(q, c, r.len) /\ Waits(q, c, f) /\ Top(E).cb = c + 1
      BY <1>5, <1>7, <1>8, <1>12, <2>2, <2>5, <3>1 DEF Link
    <3>3. c < Len(q) /\ r.len \in Nat
      BY <3>1, <3>2, ResultParts DEF Waits
    <3>4. Len(p) = Len(q) + 1
      BY SMTT(40), <1>1, <1>7, <3>2, <3>3, EndedParts
    <3> HIDE DEF p, q, r, i
    <3>5. Lines(Ended(q, c, r.len), c, Len(q) + 1) =
            <<<<i, "PRE", f.beg, r.len>>>> \o Lines(q, c + 1, Len(q))
              \o <<<<i, "POST", f.beg, r.len>>>>
      BY ONLY SMTT(40), <1>1, <1>7, <3>2, <3>3, LinesEnded DEF i
    <3> QED
      BY <2>3, <3>1, <3>2, <3>4, <3>5 DEF p
  <2> QED
    BY <2>4, <2>5
<1>13. CASE IsLook(f)
  <2>1. w.tree = << >>
    <3>1. e[Point(f.op, 0, f.beg, f.subEnd, rec)].tree = << >>
      BY ONLY <1>r, <1>13, LookSays
    <3> QED
      BY ONLY <1>3, <3>1
  <2>2. Id(f) \notin {"ALT", "CAT", "REP", "RNM"}
    BY <1>13, Kinds DEF IsLook
  <2>3. p = q /\ Top(E).cb = c
    BY <1>5, <1>7, <1>8, <2>2 DEF Link, Records
  <2>4. Len(q) = c
    <3>1. uiInLookaround # 0
      BY <1>7, <1>8, <1>13 DEF Link
    <3> QED
      BY <2>3, <3>1, StepFacts
  <2>5. Lines(p, c, Len(p)) = << >>
    BY <1>7, <2>3, <2>4, LinesEmpty
  <2> QED
    BY <2>1, <2>5
<1> QED
  BY <1>6, <1>10, <1>11, <1>12, <1>13

\* What an operator that has ended has recorded is what it means.
LEMMA ClosedFacts ==
  ASSUME NEW nodes, NEW E, Steps(nodes, E), NodeClosed
  PROVE  /\ ClosedRecords(ast, ast', Top(stack), Top(Pop(E)).cb, uiOpState', uiPhraseLength', uiInLookaround')
         /\ uiOpState' \in {"MATCH", "NOMATCH"}
<1>1. /\ Contract /\ IInv /\ IInv' /\ LookInv /\ StackFits' /\ Parsing /\ Parsing'
      /\ UNCHANGED <<app, parse>> /\ ast.attached /\ CallbacksRecorded /\ TreeHolds(E)
  BY StepFacts DEF Steps, Watched, Meant, CallbacksRecorded, Decided
<1>2. /\ Closes(ast, Top(stack), uiOpState, uiOpState', uiPhraseLength', uiInLookaround', ast')
      /\ Bare(ast, E, uiOpState, uiInLookaround)
      /\ uiInLookaround' = Top(Pop(E)).la
  BY <1>1, ClosedStep
<1>3. /\ ast \in AstSet /\ stack \in Seq(Frame) /\ stack # << >>
      /\ Tree(ast, stack, uiInLookaround, E)
  BY StepFacts DEF NodeClosed
<1>5. ClosedRecords(ast, ast', Top(stack), Top(Pop(E)).cb, uiOpState', uiPhraseLength', uiInLookaround')
  <2> DEFINE a == ast
             s == stack
             b == ast'
             la == uiInLookaround
             lb == uiInLookaround'
             answer == uiOpState
             state == uiOpState'
             length == uiPhraseLength'
  <2>1. /\ a \in AstSet /\ a.attached /\ s \in Seq(Frame) /\ s # << >> /\ Tree(a, s, la, E)
        /\ Bare(a, E, answer, la) /\ lb = Top(Pop(E)).la
        /\ Closes(a, Top(s), answer, state, length, lb, b)
    BY <1>1, <1>2, <1>3
  <2> HIDE DEF a, s, la, lb, b, answer, state, length
  <2>2. \A F, up, st, l, v, g : F = Pop(E) /\ g = Top(s) /\ up = Top(F).la
          /\ Closes(a, g, answer, st, l, up, v) => ClosedRecords(a, v, g, Top(F).cb, st, l, up)
    BY ONLY <2>1, RecordsClosed
  <2>3. ClosedRecords(a, b, Top(s), Top(Pop(E)).cb, state, length, lb)
    BY ONLY <2>1, <2>2, Zenon
  <2> QED
    BY <2>3 DEF a, s, lb, b, state, length
<1>6. uiOpState' \in {"MATCH", "NOMATCH"}
  BY <1>1 DEF NodeClosed, IInv, RunOK, Returned
<1> QED
  BY <1>5, <1>6

LEMMA ClosedSays ==
  ASSUME NEW nodes, NEW E, Steps(nodes, E), NodeClosed, MeanInv(nodes)',
         Says(nodes, stack, ast.records, E), SaysAnswer(nodes, stack, ast.records, E),
         uiOpState' = "NOMATCH" => Len(ast'.records) = Top(Pop(E)).cb
  PROVE  /\ Says(nodes, stack', ast'.records, Pop(E))
         /\ SaysAnswer(nodes, stack', ast'.records, Pop(E))
<1> DEFINE e == Meaning(ThisParse(nodes))
           f == Top(stack)
           c == Top(Pop(E)).cb
           rec == Rec(Pop(stack), Len(Pop(stack)))
           w == WholeOf(e, f)
           n == NodeAbove(Pop(stack), Len(Pop(stack)))
<1>1. /\ Meant(nodes) /\ Parsing' /\ UNCHANGED <<app, parse>>
      /\ pc = "return" /\ pc' = "return" /\ stack # << >> /\ stack' = Pop(stack)
      /\ stack \in Seq(Frame) /\ Tree(ast, stack, uiInLookaround, E) /\ Cuttings(stack, E)
  BY StepFacts DEF NodeClosed, Steps
<1>2. /\ ClosedRecords(ast, ast', f, c, uiOpState', uiPhraseLength', uiInLookaround')
      /\ uiOpState' \in {"MATCH", "NOMATCH"}
  BY ClosedFacts
<1>3. Says(nodes, stack', ast'.records, Pop(E))
  <2>1. Sayings(e, Pop(stack), ast.records, Pop(E))
    BY <1>1, SayPop DEF Says
  <2>2. Cuttings(Pop(stack), Pop(E))
    BY <1>1, PopCuts
  <2>3. \A k \in 1..c : ast'.records[k] = ast.records[k]
    BY <1>2 DEF ClosedRecords
  <2> HIDE DEF e
  <2>4. Sayings(e, Pop(stack), ast'.records, Pop(E))
    BY ONLY <2>1, <2>2, <2>3, SaySame
  <2> QED
    BY <1>1, <2>4 DEF Says, e
<1>4. ASSUME rec
      PROVE  Lines(ast'.records, c, Len(ast'.records)) = e[n].tree
  <2>1. rec = TRUE
    BY <1>4 DEF Rec
  <2>2. /\ f \in Frame /\ f.op \in 0..Len(grammar.ops)
        /\ f.beg \in 0..uiInputStringLength /\ f.subEnd \in 0..uiInputStringLength
        /\ Parsing
    <3>1. \A p, x : p = Rec(Pop(stack), Len(Pop(stack))) /\ x = e =>
            /\ f \in Frame /\ f.op \in 0..Len(grammar.ops)
            /\ f.beg \in 0..uiInputStringLength /\ f.subEnd \in 0..uiInputStringLength
            /\ Parsing
      BY ONLY <1>1, Answered
    <3> QED
      BY <3>1
  <2>3. n = Point(f.op, 0, f.beg, f.subEnd, rec)
    <3>1. Fits(Pop(stack), f) /\ StackMeans(e, stack)
      BY <1>1, <2>2, ReturnFacts, RunFacts DEF Meant, MeanInv, StackOK
    <3>2. f.op = OpAbove(Pop(stack), Len(Pop(stack)))
      BY <1>1, <3>1, PopMeans
    <3> QED
      BY <3>1, <3>2 DEF Fits, NodeAbove, Node
  <2>4. w = e[n]
    BY <2>1, <2>3, Zenon DEF WholeOf
  <2>5. w \in Results /\ w.ok \in BOOLEAN /\ (~w.ok => w = Failed)
    <3>1. \A p \in Points(ThisParse(nodes)) : \A r : r = Meaning(ThisParse(nodes))[p] =>
            r \in Results /\ r.ok \in BOOLEAN /\ (~r.ok => r = Failed)
      BY ONLY <1>1, <2>2, ResultFacts
    <3>2. Point(f.op, 0, f.beg, f.subEnd, rec) \in Points(ThisParse(nodes))
      <4>1. 0 \in Nat /\ rec \in BOOLEAN
        BY <2>1
      <4> HIDE DEF rec, f
      <4> QED
        BY ONLY <2>2, <4>1, PointFacts
    <3> HIDE DEF n
    <3> QED
      BY <2>3, <2>4, <3>1, <3>2, Zenon DEF e
  <2>6. (uiOpState' = "MATCH" <=> w.ok) /\ uiPhraseLength' = w.len
    <3>1. \A m : m = Meaning(ThisParse(nodes))[NodeAbove(stack', Len(stack'))] =>
            (uiOpState' = "MATCH" <=> m.ok) /\ uiPhraseLength' = m.len
      BY ONLY <1>1, MeanInv(nodes)', AnswerAfter
    <3>2. w = Meaning(ThisParse(nodes))[NodeAbove(stack', Len(stack'))]
      BY <1>1, <2>4
    <3> QED
      BY ONLY <3>1, <3>2, Zenon
  <2>7. CASE uiOpState' = "MATCH"
    <3>1. w.ok
      BY <2>6, <2>7
    <3>2. Lines(ast'.records, c, Len(ast'.records)) = w.tree
      <4>1. \A g, d, x, v : g = Top(stack) /\ d = Top(Pop(E)).cb /\ x = Meaning(ThisParse(nodes))
              /\ v = WholeOf(x, g) /\ v \in Results /\ v.ok /\ uiPhraseLength' = v.len
              /\ ClosedRecords(ast, ast', g, d, uiOpState', uiPhraseLength', uiInLookaround')
              => Lines(ast'.records, d, Len(ast'.records)) = v.tree
        BY ONLY Steps(nodes, E), NodeClosed, Says(nodes, stack, ast.records, E),
                SaysAnswer(nodes, stack, ast.records, E), <1>4, <2>7, MatchSays
      <4>2. /\ f = Top(stack) /\ c = Top(Pop(E)).cb /\ e = Meaning(ThisParse(nodes))
            /\ w = WholeOf(e, f)
        OBVIOUS
      <4> HIDE DEF f, c, e, w
      <4> QED
        BY ONLY <1>2, <2>5, <2>6, <3>1, <4>1, <4>2, Zenon
    <3> QED
      BY <2>4, <3>2
  <2>8. CASE uiOpState' = "NOMATCH"
    <3>1. w = Failed
      BY <2>5, <2>6, <2>8
    <3>2. w.tree = << >>
      BY <3>1 DEF Failed
    <3>3. Len(ast'.records) = c /\ c \in Nat
      <4>1. c \in Nat
        <5>1. Cuttings(Pop(stack), Pop(E))
          BY <1>1, PopCuts
        <5>2. Len(Pop(E)) = Len(Pop(stack)) + 1 /\ Pop(stack) \in Seq(Frame)
          BY <5>1 DEF Cuttings
        <5>3. Len(Pop(E)) \in 1..Len(Pop(E))
          BY <5>2, LenProperties
        <5> QED
          BY <5>1, <5>3 DEF Cuttings, Top
      <4> QED
        BY <2>8, <4>1
    <3>4. Lines(ast'.records, c, Len(ast'.records)) = << >>
      BY <3>3, LinesEmpty
    <3> QED
      BY <2>4, <3>2, <3>4
  <2> QED
    BY <1>2, <2>7, <2>8
<1>5. SaysAnswer(nodes, stack', ast'.records, Pop(E))
  BY <1>1, <1>4 DEF SaysAnswer, Told
<1> QED
  BY <1>3, <1>5

\* the recorder fits what runs, and its records say what has been answered
Written(nodes, E) ==
  /\ TreeHolds(E)
  /\ Says(nodes, stack, ast.records, E)
  /\ pc = "return" => SaysAnswer(nodes, stack, ast.records, E)

\* A step of the parser keeps what the records say.
LEMMA SaysStep ==
  ASSUME NEW nodes, NEW E, Steps(nodes, E), Written(nodes, E)
  PROVE  \E F : /\ Tree(ast', stack', uiInLookaround', F)
                /\ (pc' = "call" \/ uiOpState' = "NOMATCH" \/ uiInLookaround' # 0) =>
                     Len(ast'.records) = Top(F).cb
                /\ Says(nodes, stack', ast'.records, F)
                /\ pc' = "return" => SaysAnswer(nodes, stack', ast'.records, F)
<1>1. /\ Meant(nodes) /\ Watched(nodes) /\ ParserStep
      /\ Contract /\ IInv /\ IInv' /\ LookInv /\ StackFits' /\ Parsing /\ Parsing' /\ Shape
      /\ UNCHANGED <<app, parse>> /\ ast.attached /\ TreeHolds(E)
  BY StepFacts DEF Steps, Watched
<1>2. ast'.attached /\ CallbacksRecorded'
  BY <1>1, HooksAttached DEF CallbacksRecorded, app, Meant, Decided
<1>3. PICK F : /\ Tree(ast', stack', uiInLookaround', F)
               /\ (pc' = "call" \/ uiOpState' = "NOMATCH" \/ uiInLookaround' # 0) =>
                    Len(ast'.records) = Top(F).cb
               /\ TreeMoves(E, F)
  BY <1>1, <1>2, TreeStep
<1>4. MeanInv(nodes)'
  BY <1>1, StepMeans
<1>5. Says(nodes, stack', ast'.records, F) /\ (pc' = "return" => SaysAnswer(nodes, stack', ast'.records, F))
  <2>1. CASE NodeOpened /\ CallsFrom(stack, stack', E, F)
    BY <2>1, OpenedSays DEF Written
  <2>2. CASE NodePassed /\ F = E
    BY <2>2, PassedSays DEF Written
  <2>3. CASE NodeGoesOn /\ CallsFrom(Pop(stack), stack', Pop(E), F) /\ ast'.records = ast.records
    <3>1. pc = "return" /\ pc' = "call"
      BY <2>3 DEF NodeGoesOn
    <3> QED
      BY <2>3, <3>1, GoesOnSays DEF Written
  <2>4. CASE NodeClosed /\ F = Pop(E)
    <3>1. pc = "return"
      BY <2>4 DEF NodeClosed
    <3> QED
      BY <1>3, <1>4, <2>4, <3>1, ClosedSays DEF Written
  <2> QED
    BY <1>3, <2>1, <2>2, <2>3, <2>4 DEF TreeMoves
<1> QED
  BY <1>3, <1>5

\* What records say depends on the grammar and the configuration, which a parse keeps.
LEMMA SaysCarried ==
  ASSUME NEW nodes, UNCHANGED <<app, parse>>, NEW E
  PROVE  /\ Says(nodes, stack, ast.records, E)' <=> Says(nodes, stack', ast'.records, E)
         /\ SaysAnswer(nodes, stack, ast.records, E)' <=> SaysAnswer(nodes, stack', ast'.records, E)
<1>1. /\ Meaning(ThisParse(nodes))' = Meaning(ThisParse(nodes))
      /\ NodeAbove(stack, Len(stack))' = NodeAbove(stack', Len(stack'))
  BY MeansCarried
<1>2. \A f : Id(f)' = Id(f) /\ (IsLook(f)' <=> IsLook(f))
  BY DEF app, parse, Id, IsLook, Opcode
<1>3. \A n : Rec(stack, n)' <=> Rec(stack', n)
  BY <1>2 DEF Rec
<1>4. \A e, f, t : Leads(e, f, t)' <=> Leads(e, f, t)
  <2>1. \A e, f : WholeOf(e, f)' = WholeOf(e, f) /\ LeftOf(e, f)' = LeftOf(e, f)
    BY <1>2 DEF WholeOf, LeftOf, Turns
  <2> QED
    BY <2>1 DEF Leads
<1>5. \A e : Sayings(e, stack, ast.records, E)' <=> Sayings(e, stack', ast'.records, E)
  BY <1>2, <1>3, <1>4 DEF Sayings
<1>6. \A e : Told(e, stack, ast.records, E)' <=> Told(e, stack', ast'.records, E)
  BY <1>1, <1>3 DEF Told
<1> QED
  BY <1>1, <1>5, <1>6 DEF Says, SaysAnswer

-----------------------------------------------------------------------------
(* The AST callbacks are the application's: no parse sets one.              *)

\* b has the callbacks that are set, and has them still when its exception is caught
Keeps(b) == b.callbacks = ast.callbacks /\ [b EXCEPT !.error = FALSE].callbacks = ast.callbacks

LEMMA AstKeeps ==
  ASSUME NEW a \in AstSet, a.callbacks = ast.callbacks
  PROVE  /\ Keeps(a)
         /\ \A la, state : AST_OP_OPEN(a, la) \in AstSet /\ AST_OP_OPEN(a, la).callbacks = ast.callbacks
                        /\ AST_OP_CLOSE(a, la, state) \in AstSet
                        /\ AST_OP_CLOSE(a, la, state).callbacks = ast.callbacks
                        /\ Keeps(AST_OP_OPEN(a, la)) /\ Keeps(AST_OP_CLOSE(a, la, state))
         /\ \A la, i, state, offset, length : Keeps(AST_RULE_CLOSE(a, la, i, state, offset, length))
<1>1. \A b \in AstSet : b.callbacks = ast.callbacks => Keeps(b)
  BY DEF Keeps, AstSet
<1>2. \A la, state : AST_OP_OPEN(a, la) \in AstSet /\ AST_OP_OPEN(a, la).callbacks = ast.callbacks
                  /\ AST_OP_CLOSE(a, la, state) \in AstSet
                  /\ AST_OP_CLOSE(a, la, state).callbacks = ast.callbacks
  BY OpHookKeeps
<1>3. \A la, i, state, offset, length : Keeps(AST_RULE_CLOSE(a, la, i, state, offset, length))
  BY RuleCloseKeeps DEF Keeps
<1> QED
  BY <1>1, <1>2, <1>3

LEMMA EndKeeps ==
  ASSUME NEW b, Keeps(b)
  PROVE  /\ \A outcome : Throw(outcome, b) => ast'.callbacks = ast.callbacks
         /\ \A frames, state, offset, length :
              Finish(frames, b, state, offset, length) => ast'.callbacks = ast.callbacks
         /\ \A state, offset, length : OpReturn(b, state, offset, length) => ast'.callbacks = ast.callbacks
         /\ \A frames, child : Continue(frames, child, b) => ast'.callbacks = ast.callbacks
BY DEF Keeps, Throw, Finish, OpReturn, Continue

LEMMA CallbacksKept ==
  ASSUME Contract, IInv, ParserStep
  PROVE  ast'.callbacks = ast.callbacks
<1>1. CASE Parsing'
  <2>1. Parsing
    BY DEF ParserStep, Predict, AltOpen, AltNext, CatOpen, CatNext, RepOpen, RepNext, RnmOpen, RnmClose,
           MatchTerminal, Udt, LookAheadOpen, LookAheadClose, LookBackOpen, LookBackAgain, LookBackClose,
           Anchor, ParserFinish, Calling, Returning, Parsing
  <2> QED
    BY <1>1, <2>1, StepShape, HooksAttached
<1> SUFFICES ASSUME ~Parsing' PROVE ast'.callbacks = ast.callbacks
  BY <1>1
<1>2. ast \in AstSet /\ uiOffset \in Nat
  BY DEF IInv, TypeOK, Positions
<1>3. /\ Keeps(ast)
      /\ \A x, state : Keeps(AST_OP_CLOSE(ast, x, state))
      /\ \A x, i, state, offset, length : Keeps(AST_RULE_CLOSE(ast, x, i, state, offset, length))
  BY <1>2, AstKeeps
<1>4. CASE Predict \/ MatchTerminal \/ Anchor \/ ParserFinish
  BY <1>4 DEF Predict, MatchTerminal, Anchor, LeafReturn, ParserFinish
<1>5. CASE AltOpen \/ CatOpen \/ RepOpen \/ LookAheadOpen \/ LookBackOpen \/ LookBackAgain
  BY <1>5 DEF AltOpen, CatOpen, RepOpen, LookAheadOpen, LookBackOpen, LookBackAgain, Call, Parsing
<1>6. CASE AltNext
  BY <1>3, <1>6, EndKeeps DEF AltNext
<1>7. CASE CatNext
  BY <1>3, <1>7, EndKeeps DEF CatNext
<1>8. CASE RepNext
  <2> DEFINE a == AST_OP_CLOSE(ast, uiInLookaround, uiOpState)
  <2>1. a \in AstSet /\ a.callbacks = ast.callbacks
    BY <1>2, AstKeeps
  <2>2. \/ \E state, offset, length : OpReturn(AST_OP_CLOSE(a, uiInLookaround, state), state, offset, length)
        \/ \E frames, child : Continue(frames, child, AST_OP_OPEN(a, uiInLookaround))
    BY <1>8 DEF RepNext
  <2> HIDE DEF a
  <2> QED
    BY <2>1, <2>2, AstKeeps, EndKeeps
<1>9. CASE RnmOpen
  <2> DEFINE r == Opcode(callee).index
             a == AST_RULE_OPEN(ast, uiInLookaround, r, uiOffset)
  <2>1. r \in Nat
    BY <1>9, CallFacts, RunFacts, LenProperties DEF RnmOpen, Calling, uiRuleCount, GrammarOK
  <2>2. a \in AstSet /\ a.callbacks = ast.callbacks
    BY <1>2, <2>1, RuleOpenKeeps
  <2>3. ~RnmDown(a)
    BY DEF RnmDown, Call, Return, Parsing
  <2>4. \/ Throw("callback", a)
        \/ \E frames, state, offset, length, to, n :
             Finish(frames, AST_RULE_CLOSE(a, uiInLookaround, r, state, uiOffset, length), state, to, n)
    BY <1>9, <2>3 DEF RnmOpen
  <2> HIDE DEF a, r
  <2> QED
    BY <2>2, <2>4, AstKeeps, EndKeeps
<1>10. CASE RnmClose
  BY <1>3, <1>10, EndKeeps DEF RnmClose, RnmReturn
<1>11. CASE Udt
  <2> DEFINE i == uiRuleCount + Opcode(callee).index
             a == AST_RULE_OPEN(ast, uiInLookaround, i, uiOffset)
  <2>1. i \in Nat
    BY <1>11, CallFacts, RunFacts, LenProperties DEF Udt, Calling, uiRuleCount, GrammarOK
  <2>2. a \in AstSet /\ a.callbacks = ast.callbacks
    BY <1>2, <2>1, RuleOpenKeeps
  <2>3. \/ Throw("callback", a)
        \/ \E frames, state, offset, length, to, n :
             Finish(frames, AST_RULE_CLOSE(a, uiInLookaround, i, state, uiOffset, length), state, to, n)
    BY <1>11 DEF Udt
  <2> HIDE DEF a, i
  <2> QED
    BY <2>2, <2>3, AstKeeps, EndKeeps
<1>12. CASE LookAheadClose
  BY <1>3, <1>12, EndKeeps DEF LookAheadClose
<1>13. CASE LookBackClose
  BY <1>3, <1>13, EndKeeps DEF LookBackClose
<1> QED
  BY <1>4, <1>5, <1>6, <1>7, <1>8, <1>9, <1>10, <1>11, <1>12, <1>13 DEF ParserStep

-----------------------------------------------------------------------------
(* The theorem.                                                            *)

\* every parse that records nodes is one that the parser and its maps take as they are meant
Settled(nodes) == AllPlain(nodes) /\ AllMean(nodes) /\ AllBare(nodes)

SaysInv(nodes) ==
  (/\ Parsing /\ ast.attached /\ ast.callbacks = nodes /\ uiLookaroundAtStart = 0
   /\ \A r \in nodes : ~Hidden(r)) =>
    \E E : Written(nodes, E)

Recorded ==
  /\ ast.callbacks \subseteq AppNodes
  /\ Decided => \A nodes \in SUBSET AppNodes : MeanInv(nodes) /\ SaysInv(nodes)

LEMMA RecordedIdle ==
  ASSUME pc' = "idle", ast'.callbacks \subseteq AppNodes
  PROVE  Recorded'
<1>1. ~Parsing'
  BY DEF Parsing
<1>2. \A nodes : MeanInv(nodes)' /\ SaysInv(nodes)'
  BY <1>1, ThrowMeans DEF SaysInv
<1> QED
  BY <1>2 DEF Recorded

LEMMA ApplicationNodes ==
  ASSUME IInv, ast.callbacks \subseteq AppNodes, Application
  PROVE  /\ ast'.callbacks \subseteq AppNodes
         /\ pc' = "idle" \/ \E c \in Configs : ParserParse(c)
<1>1. ast \in AstSet
  BY DEF IInv, TypeOK
<1>2. ASSUME NEW c \in Configs, ParserParse(c)
      PROVE  ast'.callbacks \subseteq AppNodes
  BY <1>1, <1>2 DEF ParserParse, AST_CLEAR, AstClear, AstSet
<1>3. ASSUME NEW c \in Configs, ParserParseThrows(c)
      PROVE  ast'.callbacks \subseteq AppNodes /\ pc' = "idle"
  BY <1>1, <1>3 DEF ParserParseThrows, Throw, AstSet
<1>4. ASSUME NEW r \in AppRules, SetRuleCallback(r)
      PROVE  ast'.callbacks \subseteq AppNodes /\ pc' = "idle"
  BY <1>4 DEF SetRuleCallback, control
<1>5. ASSUME NEW u \in 1..Len(grammar.udts), SetUdtCallback(u)
      PROVE  ast'.callbacks \subseteq AppNodes /\ pc' = "idle"
  BY <1>5 DEF SetUdtCallback, control
<1>6. ASSUME SetAst(AstCtor(ast)) \/ SetAst(AstDtor(ast))
      PROVE  ast'.callbacks \subseteq AppNodes /\ pc' = "idle"
  BY <1>6 DEF SetAst, AstCtor, AstDtor, NoAst, control
<1>7. ASSUME NEW i \in AppNodes, SetAstCallback(i)
      PROVE  ast'.callbacks \subseteq AppNodes /\ pc' = "idle"
  <2>1. pc' = "idle"
    BY <1>7 DEF SetAstCallback, SetAst, control
  <2>2. ast' = AstSetCallback(ast, i, TRUE) \/ ast' = AstSetCallback(ast, i, FALSE)
    BY <1>7 DEF SetAstCallback, SetAst
  <2>3. \A on \in BOOLEAN : AstSetCallback(ast, i, on).callbacks \subseteq AppNodes
    BY <1>1 DEF AstSetCallback, AstSet
  <2> QED
    BY <2>1, <2>2, <2>3, Zenon
<1> QED
  BY <1>2, <1>3, <1>4, <1>5, <1>6, <1>7 DEF Application

\* A step of the parser keeps what the records of one set of nodes say.
LEMMA SaysNext ==
  ASSUME NEW nodes, Contract, IInv, IInv', LookInv, StackFits', Decided, Settled(nodes),
         MeanInv(nodes), SaysInv(nodes), ParserStep
  PROVE  SaysInv(nodes)'
<1>1. UNCHANGED <<app, parse>>
  BY ParseKeeps
<1>2. \A r : Hidden(r)' <=> Hidden(r)
  BY <1>1 DEF Hidden, app
<1> SUFFICES ASSUME Parsing', ast'.attached, ast'.callbacks = nodes, uiLookaroundAtStart' = 0,
                    \A r \in nodes : ~Hidden(r)
             PROVE  (\E E : Written(nodes, E))'
  BY <1>2 DEF SaysInv
<1>3. Parsing
  BY DEF ParserStep, Predict, AltOpen, AltNext, CatOpen, CatNext, RepOpen, RepNext, RnmOpen, RnmClose,
         MatchTerminal, Udt, LookAheadOpen, LookAheadClose, LookBackOpen, LookBackAgain, LookBackClose,
         Anchor, ParserFinish, Calling, Returning, Parsing
<1>4. ast'.attached = ast.attached /\ ast'.callbacks = ast.callbacks
  BY <1>3, StepShape, HooksAttached
<1>5. Watched(nodes)
  BY <1>1, <1>3, <1>4 DEF Watched, Meant, Settled, parse
<1>6. PICK E : Written(nodes, E)
  BY <1>5 DEF SaysInv, Watched
<1>7. Steps(nodes, E)
  BY <1>5, <1>6 DEF Steps, Written
<1>8. PICK F : /\ Tree(ast', stack', uiInLookaround', F)
               /\ (pc' = "call" \/ uiOpState' = "NOMATCH" \/ uiInLookaround' # 0) =>
                    Len(ast'.records) = Top(F).cb
               /\ Says(nodes, stack', ast'.records, F)
               /\ pc' = "return" => SaysAnswer(nodes, stack', ast'.records, F)
  BY <1>6, <1>7, SaysStep
<1>9. TreeHolds(F)'
  BY <1>1, <1>8, SameTree DEF TreeHolds
<1>10. Says(nodes, stack, ast.records, F)' /\ (pc' = "return" => SaysAnswer(nodes, stack, ast.records, F)')
  BY <1>1, <1>8, SaysCarried
<1>11. Written(nodes, F)'
  BY <1>9, <1>10 DEF Written
<1> QED
  BY <1>11

\* Nothing is said yet when a parse begins.
LEMMA SaysBegin ==
  ASSUME NEW nodes, TreeInv', Decided', NEW c \in Configs, ParserParse(c)
  PROVE  SaysInv(nodes)'
<1> SUFFICES ASSUME Parsing', ast'.attached
             PROVE  (\E E : Written(nodes, E))'
  BY DEF SaysInv
<1>1. pc' = "call" /\ stack' = << >> /\ Len(stack') = 0
  BY EmptySeq DEF ParserParse, Call
<1>2. CallbacksRecorded'
  BY DEF CallbacksRecorded, Decided
<1>3. PICK E : TreeHolds(E)'
  BY <1>2 DEF TreeInv, TreeHolds
<1>4. Says(nodes, stack, ast.records, E)'
  <2>1. 1..Len(stack') = {}
    BY <1>1
  <2> QED
    BY <2>1 DEF Says, Sayings
<1>5. Written(nodes, E)'
  BY <1>1, <1>3, <1>4 DEF Written
<1> QED
  BY <1>5

LEMMA RecordedNext ==
  ASSUME Contract, \A nodes \in SUBSET AppNodes : Settled(nodes),
         IInv, IInv', LookInv, StackFits', TreeInv', Recorded, [Next]_vars
  PROVE  Recorded'
<1>1. CASE ParserStep
  <2>1. UNCHANGED <<app, parse>> /\ Decided' = Decided
    BY <1>1, ParseKeeps DEF Decided, app
  <2>2. ast'.callbacks \subseteq AppNodes
    BY <1>1, CallbacksKept DEF Recorded
  <2>3. ASSUME Decided, NEW nodes \in SUBSET AppNodes
        PROVE  MeanInv(nodes)' /\ SaysInv(nodes)'
    <3>1. MeanInv(nodes) /\ SaysInv(nodes) /\ Settled(nodes)
      BY <2>3 DEF Recorded
    <3>2. Meant(nodes)
      BY <2>3, <3>1 DEF Meant, Settled
    <3> QED
      BY <1>1, <2>3, <3>1, <3>2, StepMeans, SaysNext
  <2> QED
    BY <2>1, <2>2, <2>3 DEF Recorded
<1>2. CASE Application
  <2>1. /\ ast'.callbacks \subseteq AppNodes
        /\ pc' = "idle" \/ \E c \in Configs : ParserParse(c)
    BY <1>2, ApplicationNodes DEF Recorded
  <2>2. CASE pc' = "idle"
    BY <2>1, <2>2, RecordedIdle
  <2>3. ASSUME NEW c \in Configs, ParserParse(c)
        PROVE  Recorded'
    <3>1. \A nodes : MeanInv(nodes)'
      BY <2>3, ParseMeans
    <3>2. Decided' => \A nodes : SaysInv(nodes)'
      BY <2>3, SaysBegin
    <3> QED
      BY <2>1, <3>1, <3>2 DEF Recorded
  <2> QED
    BY <2>1, <2>2, <2>3
<1>3. CASE UNCHANGED vars
  <2>1. UNCHANGED <<grammar, parse, sub, phrase, control, spState, ast, uiInLookaround>>
    BY <1>3 DEF vars, app
  <2>2. UNCHANGED <<app, parse>>
    BY <1>3 DEF vars
  <2>3. \A nodes : MeanInv(nodes)' = MeanInv(nodes)
    BY <2>1 DEF MeanInv, parse, sub, phrase, control, Parsing, ThisParse, StackMeans,
       FrameMeans, AnswerMeans, OpAbove, ChildOp, NodeAbove, NodeBeg, NodeSubEnd, ChildBeg,
       ChildSubEnd, IsLookBack, SubStringBeg, SubStringEnd, Rec, IsLook, Id, Opcode, LookBackLimit,
       uiInputStringLength
  <2>4. \A nodes : SaysInv(nodes) => SaysInv(nodes)'
    <3> TAKE nodes
    <3>1. pc' = pc /\ stack' = stack /\ uiOpState' = uiOpState /\ uiLookaroundAtStart' = uiLookaroundAtStart
          /\ ast' = ast /\ uiInLookaround' = uiInLookaround /\ grammar' = grammar
      BY <2>1 DEF control, phrase, parse
    <3>2. \A E : Written(nodes, E) => Written(nodes, E)'
      <4> TAKE E
      <4>1. TreeHolds(E)' <=> TreeHolds(E)
        BY <2>2, <3>1, SameTree DEF TreeHolds
      <4>2. /\ Says(nodes, stack, ast.records, E)' <=> Says(nodes, stack, ast.records, E)
            /\ SaysAnswer(nodes, stack, ast.records, E)' <=> SaysAnswer(nodes, stack, ast.records, E)
        BY <2>2, <3>1, SaysCarried
      <4> QED
        BY <3>1, <4>1, <4>2 DEF Written
    <3> QED
      BY <3>1, <3>2 DEF SaysInv, Parsing, Hidden
  <2>5. Decided' = Decided
    BY <2>1 DEF Decided
  <2> QED
    BY <2>1, <2>3, <2>4, <2>5 DEF Recorded
<1> QED
  BY <1>1, <1>2, <1>3 DEF Next

\* When a parse has returned, its records are what the start rule says.
LEMMA RecordedEnd ==
  ASSUME Contract, IInv, Recorded
  PROVE  AstIsMeaning
<1> DEFINE nodes == ast.callbacks
           e == Meaning(ThisParse(nodes))
<1> SUFFICES ASSUME Decided, pc = "return", stack = << >>, ast.attached, uiLookaroundAtStart = 0,
                    \A r \in nodes : ~Hidden(r)
             PROVE  Flatten(ast.records) = ParseMeaning(nodes).tree
  BY DEF AstIsMeaning
<1>1. Parsing /\ nodes \in SUBSET AppNodes
  BY DEF Parsing, Recorded
<1>2. SaysInv(nodes)
  BY <1>1 DEF Recorded
<1>3. PICK E : Written(nodes, E)
  BY <1>1, <1>2 DEF SaysInv
<1>4. ast \in AstSet /\ ast.records \in Seq(Record) /\ Len(stack) = 0
  BY AstParts, EmptySeq DEF IInv, TypeOK
<1>5. Top(E).cb = 0
  <2>1. Tree(ast, stack, uiInLookaround, E)
    BY <1>3 DEF Written, TreeHolds
  <2>2. Len(E) = 1
    BY <1>4, <2>1 DEF Tree, Chain
  <2> QED
    BY <2>1, <2>2 DEF Tree, Top
<1>6. Rec(stack, Len(stack)) = TRUE
  BY <1>4 DEF Rec
<1>7. NodeAbove(stack, Len(stack)) = StartNode(config)
  BY <1>4, <1>6 DEF NodeAbove, StartNode, OpAbove, NodeBeg, NodeSubEnd
<1>8. Lines(ast.records, Top(E).cb, Len(ast.records)) = e[NodeAbove(stack, Len(stack))].tree
  BY <1>3, <1>6 DEF Written, SaysAnswer, Told
<1>9. Lines(ast.records, 0, Len(ast.records)) = Flatten(ast.records)
  BY <1>4, LinesWhole
<1> QED
  BY <1>5, <1>7, <1>8, <1>9 DEF ParseMeaning

\* The records a parse leaves are exactly the nodes of the meaning of its start rule, in
\* order: what was recorded in a branch that failed, in a repetition that was one too many
\* or in a look-around is gone, and nothing that belongs to a node that stays went with it.
\* For every grammar that means something, that the parser reads as SABNF.md does and whose
\* maps decide nothing that the callbacks ask for, every input and every set of callbacks.
THEOREM TreeIsMeaning ==
  Contract /\ (\A nodes \in SUBSET AppNodes : AllPlain(nodes) /\ AllMean(nodes) /\ AllBare(nodes)) =>
    (Spec /\ []StackFits => []AstIsMeaning)
<1> SUFFICES ASSUME Contract, \A nodes \in SUBSET AppNodes : Settled(nodes)
             PROVE  Spec /\ []StackFits => []AstIsMeaning
  BY DEF Settled
<1>1. Init => Recorded
  <2> SUFFICES ASSUME Init PROVE Recorded
    OBVIOUS
  <2>1. pc = "idle" /\ ast.callbacks = {}
    BY DEF Init, NoAst
  <2> QED
    BY <2>1 DEF Recorded, MeanInv, SaysInv, Parsing
<1>2. IInv /\ IInv' /\ LookInv /\ StackFits' /\ TreeInv' /\ Recorded /\ [Next]_vars => Recorded'
  BY RecordedNext
<1>3. IInv /\ Recorded => AstIsMeaning
  BY RecordedEnd
<1>4. Spec => []IInv
  BY Invariance
<1>5. Spec /\ []StackFits => []LookInv
  BY LookInvariance
<1>6. Spec /\ []StackFits => []TreeInv
  BY TreeInvariance
<1> QED
  BY <1>1, <1>2, <1>3, <1>4, <1>5, <1>6, PTL DEF Spec

-----------------------------------------------------------------------------
(* The walk over the records of a tree.                                    *)

\* the record the walk goes on with, as vAstTranslate does
NextOf(r, called, skips, ui) == NextRecord(r[ui + 1], r[ui + 1].index \in called /\ ui \in skips)

\* the recursion of AstTranslate
WalkBody(f, r, called, skips, ui) ==
  IF ui = Len(r) THEN << >>
  ELSE (IF r[ui + 1].index \in called THEN <<ui>> ELSE << >>)
         \o (IF NextOf(r, called, skips, ui) < Len(r) THEN f[NextOf(r, called, skips, ui)] ELSE << >>)

Walking(f, r, called, skips) == f = [ui \in 0..Len(r) |-> WalkBody(f, r, called, skips, ui)]

LEMMA WalkIs ==
  ASSUME NEW r, NEW called, NEW skips
  PROVE  AstTranslate(r, called, skips) = (CHOOSE f : Walking(f, r, called, skips))[0]
BY DEF AstTranslate, Walking, WalkBody, NextOf

\* the walk goes on further to the right, at a record
LEMMA NextBeyond ==
  ASSUME NEW r \in Seq(Record), Linked(r), NEW called, NEW skips, NEW ui \in 0..(Len(r) - 1)
  PROVE  /\ NextOf(r, called, skips, ui) \in ui + 1..Len(r)
         /\ \/ NextOf(r, called, skips, ui) = ui + 1
            \/ /\ NextOf(r, called, skips, ui) = r[ui + 1].that
               /\ r[ui + 1].state = "PRE" /\ r[ui + 1].index \in called /\ ui \in skips
<1>1. /\ Len(r) \in Nat /\ ui \in Nat /\ ui + 1 \in 1..Len(r)
      /\ r[ui + 1].that \in Nat /\ r[ui + 1].this \in Nat
  BY RecordNumbers
<1>2. /\ r[ui + 1].this = (ui + 1) - 1
      /\ r[ui + 1].that + 1 \in 1..Len(r)
      /\ r[ui + 1].state = "PRE" <=> r[ui + 1].this < r[ui + 1].that
  BY <1>1 DEF Linked
<1>3. CASE r[ui + 1].state = "PRE" /\ r[ui + 1].index \in called /\ ui \in skips
  <2>1. NextOf(r, called, skips, ui) = r[ui + 1].that
    BY <1>3 DEF NextOf, NextRecord
  <2> QED
    BY <1>1, <1>2, <1>3, <2>1
<1>4. CASE ~(r[ui + 1].state = "PRE" /\ r[ui + 1].index \in called /\ ui \in skips)
  <2>1. NextOf(r, called, skips, ui) = r[ui + 1].this + 1
    BY <1>4 DEF NextOf, NextRecord
  <2> QED
    BY <1>1, <1>2, <2>1
<1> QED
  BY <1>3, <1>4

LEMMA BodyAlike ==
  ASSUME NEW r \in Seq(Record), Linked(r), NEW called, NEW skips, NEW ui \in 0..Len(r), NEW f, NEW g,
         \A j \in 0..Len(r) : j > ui => f[j] = g[j]
  PROVE  WalkBody(f, r, called, skips, ui) = WalkBody(g, r, called, skips, ui)
<1>1. CASE ui = Len(r)
  BY <1>1 DEF WalkBody
<1>2. CASE ui # Len(r)
  <2>1. Len(r) \in Nat
    BY RecordNumbers
  <2>2. ui \in 0..(Len(r) - 1)
    BY <1>2, <2>1
  <2>3. NextOf(r, called, skips, ui) \in ui + 1..Len(r)
    BY <2>2, NextBeyond
  <2>4. f[NextOf(r, called, skips, ui)] = g[NextOf(r, called, skips, ui)]
    BY <2>1, <2>2, <2>3
  <2> QED
    BY <1>2, <2>4 DEF WalkBody
<1> QED
  BY <1>1, <1>2

LEMMA LeastHas ==
  ASSUME NEW D \in SUBSET Nat, D # {}
  PROVE  \E k \in D : \A m \in D : ~(<<m, k>> \in OpToRel(<, Nat))
<1>1. D \subseteq Nat
  OBVIOUS
<1>2. IsWellFoundedOn(OpToRel(<, Nat), Nat)
  BY NatLessThanWellFounded, Zenon
<1> QED
  BY ONLY <1>1, <1>2, D # {}, WFMin, Zenon

\* a set of numbers that has 0 and with each number below n the next
LEMMA UpTo ==
  ASSUME NEW S, NEW n \in Nat, 0 \in S, \A k \in Nat : k < n /\ k \in S => k + 1 \in S
  PROVE  n \in S
<1> DEFINE D == {k \in 0..n : k \notin S}
<1>1. SUFFICES ASSUME n \notin S PROVE FALSE
  OBVIOUS
<1>2. D \in SUBSET Nat /\ D # {}
  BY <1>1
<1>3. PICK k \in D : \A m \in D : ~(<<m, k>> \in OpToRel(<, Nat))
  <2> HIDE DEF D
  <2> QED
    BY ONLY <1>2, LeastHas, Zenon
<1>4. k \in Nat /\ k # 0 /\ k - 1 \in Nat /\ k - 1 < n /\ (k - 1) + 1 = k /\ k \notin S
  OBVIOUS
<1>5. <<k - 1, k>> \in OpToRel(<, Nat)
  BY <1>4 DEF OpToRel
<1>6. k - 1 \in S
  <2>1. SUFFICES ASSUME k - 1 \notin S PROVE FALSE
    OBVIOUS
  <2>2. k - 1 \in D
    BY <1>4, <2>1
  <2> HIDE DEF D
  <2> QED
    BY <1>3, <1>5, <2>2, Zenon
<1> QED
  BY <1>4, <1>6

LEMMA WalkExists ==
  ASSUME NEW r \in Seq(Record), Linked(r), NEW called, NEW skips
  PROVE  \E f : Walking(f, r, called, skips)
<1>1. PICK n \in Nat : n = Len(r)
  BY RecordNumbers
<1> DEFINE Body(f, ui) == WalkBody(f, r, called, skips, ui)
           Right(m, f) == \A ui \in 0..n : ui >= n - m => f[ui] = Body(f, ui)
           S == {m \in Nat : \E f : Right(m, f)}
<1>2. 0 \in S
  <2> DEFINE f == [ui \in 0..n |-> << >>]
  <2>1. ASSUME NEW ui \in 0..n, ui >= n - 0 PROVE f[ui] = Body(f, ui)
    <3>1. ui = n
      BY <2>1
    <3> QED
      BY <1>1, <3>1 DEF WalkBody
  <2> HIDE DEF f, Body
  <2>2. Right(0, f)
    BY <2>1
  <2> QED
    BY <2>2
<1>3. ASSUME NEW m \in Nat, m < n, m \in S PROVE m + 1 \in S
  <2> HIDE DEF Body
  <2>1. PICK f : Right(m, f)
    BY <1>3
  <2>2. PICK i \in 0..n : i = n - (m + 1)
    <3>1. n - (m + 1) \in 0..n
      BY <1>3
    <3> QED
      BY <3>1
  <2>3. PICK g : g = [j \in 0..n |-> IF j = i THEN Body(f, i) ELSE f[j]]
    OBVIOUS
  <2>4. g[i] = Body(f, i) /\ \A j \in 0..n : j > i => g[j] = f[j]
    BY <2>3
  <2>5. ASSUME NEW ui \in 0..n, ui >= n - (m + 1) PROVE g[ui] = Body(g, ui)
    <3>1. ui >= i
      BY <2>2, <2>5
    <3>2. \A j \in 0..n : j > ui => g[j] = f[j]
      BY <2>4, <3>1
    <3>3. Body(g, ui) = Body(f, ui)
      BY <1>1, <3>2, BodyAlike DEF Body
    <3>4. CASE ui = i
      BY <2>4, <3>3, <3>4
    <3>5. CASE ui # i
      <4>1. ui > i /\ ui >= n - m
        BY <2>2, <3>1, <3>5
      <4> QED
        BY <2>1, <2>4, <3>3, <4>1
    <3> QED
      BY <3>4, <3>5
  <2>6. Right(m + 1, g)
    BY <2>5
  <2> QED
    BY <2>6
<1>4. n \in S
  <2> HIDE DEF S
  <2> QED
    BY <1>2, <1>3, UpTo
<1>5. PICK f : Right(n, f)
  BY <1>4
<1>6. PICK h : h = [ui \in 0..n |-> f[ui]]
  OBVIOUS
<1>7. ASSUME NEW ui \in 0..n PROVE h[ui] = Body(h, ui)
  <2>1. f[ui] = Body(f, ui)
    <3> HIDE DEF Body
    <3> QED
      BY <1>5
  <2>2. h[ui] = f[ui]
    BY <1>6
  <2>3. \A j \in 0..Len(r) : j > ui => h[j] = f[j]
    BY <1>1, <1>6
  <2>4. Body(h, ui) = Body(f, ui)
    BY <1>1, <2>3, BodyAlike
  <2> QED
    BY <2>1, <2>2, <2>4
<1> HIDE DEF Body
<1>8. h = [ui \in 0..n |-> Body(h, ui)]
  <2>1. [ui \in 0..n |-> Body(h, ui)] = [ui \in 0..n |-> h[ui]]
    BY <1>7
  <2> QED
    BY <1>6, <2>1
<1> QED
  BY <1>1, <1>8 DEF Walking, Body

-----------------------------------------------------------------------------
(* What the walk calls.                                                    *)

\* after a record that is not skipped, the walk goes on with one that is not, and passes over
\* those that are
LEMMA NextStays ==
  ASSUME NEW r \in Seq(Record), Linked(r), Nested(r), NEW called, NEW skips, NEW ui \in 0..(Len(r) - 1),
         ui + 1 \notin Skipped(r, called, skips), NEW next, next = NextOf(r, called, skips, ui)
  PROVE  /\ next < Len(r) => next + 1 \notin Skipped(r, called, skips)
         /\ \A j \in ui + 1..next - 1 : j + 1 \in Skipped(r, called, skips)
<1>1. /\ Len(r) \in Nat /\ ui \in Nat /\ ui + 1 \in 1..Len(r)
      /\ \A k \in 1..Len(r) : r[k].that \in Nat /\ r[k].this \in Nat
  BY RecordNumbers
<1>2. \A k \in 1..Len(r) : r[k].this = k - 1
  BY DEF Linked
<1>3. next \in ui + 1..Len(r)
  BY NextBeyond
<1>4. \A k : k \in Skipped(r, called, skips) <=>
               /\ k \in 1..Len(r)
               /\ \E p \in Pairs(r) : /\ r[p].index \in called /\ r[p].this \in skips
                                      /\ p < k /\ k < r[p].that + 1
  BY DEF Skipped
<1>5. ASSUME next < Len(r), next + 1 \in Skipped(r, called, skips) PROVE FALSE
  <2>1. PICK p \in Pairs(r) : /\ r[p].index \in called /\ r[p].this \in skips
                              /\ p < next + 1 /\ next + 1 < r[p].that + 1
    BY <1>4, <1>5
  <2>2. p \in 1..Len(r) /\ r[p].this = p - 1 /\ r[p].that \in Nat /\ r[p].state = "PRE"
    BY <1>1, <1>2, <2>1 DEF Pairs
  <2>3. ~(p < ui + 1)
    <3>1. SUFFICES ASSUME p < ui + 1 PROVE FALSE
      OBVIOUS
    <3>2. ui + 1 < r[p].that + 1
      BY <1>1, <1>3, <2>1, <2>2
    <3> QED
      BY <1>1, <1>4, <2>1, <3>1, <3>2
  <2>4. CASE next = ui + 1
    <3>1. p = ui + 1
      BY <1>1, <2>1, <2>2, <2>3, <2>4
    <3>2. ui \in skips /\ r[ui + 1].index \in called /\ r[ui + 1].state = "PRE"
      BY <1>1, <2>1, <2>2, <3>1
    <3>3. next = r[ui + 1].that
      BY <3>2 DEF NextOf, NextRecord
    <3> QED
      BY <1>1, <1>3, <2>1, <2>2, <3>1, <3>3
  <2>5. CASE next # ui + 1
    <3>1. next = r[ui + 1].that /\ r[ui + 1].state = "PRE"
      BY <2>5, NextBeyond
    <3>2. p # ui + 1
      BY <1>1, <2>1, <2>2, <3>1
    <3>3. r[ui + 1].this < r[p].this /\ r[p].this < r[ui + 1].that
      BY <1>1, <1>2, <2>1, <2>2, <2>3, <3>1, <3>2
    <3>4. ui + 1 \in Pairs(r)
      BY <1>1, <3>1 DEF Pairs
    <3>5. r[p].that < r[ui + 1].that
      BY <2>1, <3>3, <3>4 DEF Nested
    <3> QED
      BY <1>1, <2>1, <2>2, <3>1, <3>5
  <2> QED
    BY <2>4, <2>5
<1>6. ASSUME NEW j \in ui + 1..next - 1 PROVE j + 1 \in Skipped(r, called, skips)
  <2>1. next # ui + 1
    BY <1>1, <1>3, <1>6
  <2>2. next = r[ui + 1].that /\ r[ui + 1].state = "PRE" /\ r[ui + 1].index \in called /\ ui \in skips
    BY <2>1, NextBeyond
  <2>3. ui + 1 \in Pairs(r) /\ r[ui + 1].this = ui
    BY <1>1, <1>2, <2>2 DEF Pairs
  <2>4. j + 1 \in 1..Len(r) /\ ui + 1 < j + 1 /\ j + 1 < r[ui + 1].that + 1
    BY <1>1, <1>3, <2>2
  <2> QED
    BY <1>4, <2>2, <2>3, <2>4
<1> QED
  BY <1>5, <1>6

\* a rising sequence of the numbers of a set
Rising(q, S) ==
  /\ q \in Seq(Nat)
  /\ \A i, j \in DOMAIN q : i < j => q[i] < q[j]
  /\ {q[i] : i \in DOMAIN q} = S

LEMMA RisingNone == Rising(<< >>, {})
BY DEF Rising

LEMMA RisingPut ==
  ASSUME NEW q, NEW S, Rising(q, S), NEW a \in Nat, \A j \in S : a < j
  PROVE  Rising(<<a>> \o q, {a} \cup S)
<1>1. PICK t : t = <<a>> \o q
  OBVIOUS
<1>2. PICK n \in Nat : n = Len(q)
  BY DEF Rising
<1>3. /\ t \in Seq(Nat) /\ Len(t) = n + 1 /\ t[1] = a
      /\ \A i \in 1..n : t[i + 1] = q[i]
  BY <1>1, <1>2 DEF Rising
<1>4. DOMAIN q = 1..n /\ DOMAIN t = 1..n + 1
  BY <1>2, <1>3 DEF Rising
<1>5. \A k \in 1..n + 1 : k # 1 => k - 1 \in 1..n /\ t[k] = q[k - 1]
  <2> TAKE k \in 1..n + 1
  <2> HAVE k # 1
  <2>1. k - 1 \in 1..n /\ (k - 1) + 1 = k
    OBVIOUS
  <2> QED
    BY <1>3, <2>1
<1>6. \A i \in 1..n : q[i] \in S /\ q[i] \in Nat
  BY <1>4 DEF Rising
<1>7. ASSUME NEW i \in 1..n + 1, NEW j \in 1..n + 1, i < j PROVE t[i] < t[j]
  <2>1. j # 1 /\ j - 1 \in 1..n /\ t[j] = q[j - 1]
    BY <1>5, <1>7
  <2>2. CASE i = 1
    BY <1>3, <1>6, <2>1, <2>2
  <2>3. CASE i # 1
    <3>1. i - 1 \in 1..n /\ t[i] = q[i - 1] /\ i - 1 < j - 1
      BY <1>5, <1>7, <2>3
    <3> QED
      BY <1>4, <2>1, <3>1 DEF Rising
  <2> QED
    BY <2>2, <2>3
<1>8. {t[i] : i \in 1..n + 1} = {a} \cup S
  <2>1. ASSUME NEW i \in 1..n + 1 PROVE t[i] \in {a} \cup S
    BY <1>3, <1>5, <1>6
  <2>2. ASSUME NEW e \in S PROVE e \in {t[i] : i \in 1..n + 1}
    <3>1. PICK i \in 1..n : e = q[i]
      BY <1>4 DEF Rising
    <3>2. i + 1 \in 1..n + 1 /\ t[i + 1] = e
      BY <1>3, <3>1
    <3> QED
      BY <3>2
  <2>3. a \in {t[i] : i \in 1..n + 1}
    BY <1>3
  <2> QED
    BY <2>1, <2>2, <2>3
<1>9. Rising(t, {a} \cup S)
  BY ONLY <1>3, <1>4, <1>7, <1>8 DEF Rising
<1> QED
  BY <1>1, <1>9

\* the records from ui on whose callbacks are called
Staying(r, called, skips, ui) == {j \in ui..Len(r) - 1 : Stays(r, called, skips, j)}

\* what is called from a record on is what is called from the next on, and its own
LEMMA StayingHere ==
  ASSUME NEW r \in Seq(Record), Linked(r), Nested(r), NEW called, NEW skips, NEW ui \in 0..(Len(r) - 1),
         ui + 1 \notin Skipped(r, called, skips), NEW next, next = NextOf(r, called, skips, ui)
  PROVE  Staying(r, called, skips, ui) =
           (IF r[ui + 1].index \in called THEN {ui} ELSE {}) \cup Staying(r, called, skips, next)
<1>1. Len(r) \in Nat /\ next \in ui + 1..Len(r)
  BY NextBeyond, RecordNumbers
<1>2. \A j \in ui + 1..next - 1 : j + 1 \in Skipped(r, called, skips)
  BY NextStays
<1>3. Stays(r, called, skips, ui) <=> r[ui + 1].index \in called
  BY DEF Stays
<1>4. \A j \in ui + 1..next - 1 : ~Stays(r, called, skips, j)
  BY <1>2 DEF Stays
<1>5. \A j : j \in ui..Len(r) - 1 <=> j = ui \/ j \in ui + 1..next - 1 \/ j \in next..Len(r) - 1
  BY <1>1
<1>6. \A j : j \in Staying(r, called, skips, ui) <=>
                (j = ui /\ r[ui + 1].index \in called) \/ j \in Staying(r, called, skips, next)
  BY <1>3, <1>4, <1>5 DEF Staying
<1> QED
  BY <1>6

LEMMA WalkStep ==
  ASSUME NEW r \in Seq(Record), Linked(r), Nested(r), NEW called, NEW skips, NEW ui \in 0..(Len(r) - 1),
         ui + 1 \notin Skipped(r, called, skips), NEW next, next = NextOf(r, called, skips, ui),
         NEW f, next < Len(r) => Rising(f[next], Staying(r, called, skips, next))
  PROVE  Rising(WalkBody(f, r, called, skips, ui), Staying(r, called, skips, ui))
<1>1. /\ Len(r) \in Nat /\ next \in ui + 1..Len(r) /\ ui \in Nat /\ ui # Len(r)
  BY NextBeyond, RecordNumbers
<1>2. PICK q : q = IF next < Len(r) THEN f[next] ELSE << >>
  OBVIOUS
<1>3. Rising(q, Staying(r, called, skips, next))
  <2>1. CASE next < Len(r)
    BY <1>2, <2>1
  <2>2. CASE ~(next < Len(r))
    <3>1. Staying(r, called, skips, next) = {}
      BY <1>1, <2>2 DEF Staying
    <3> QED
      BY <1>2, <2>2, <3>1, RisingNone
  <2> QED
    BY <2>1, <2>2
<1>4. WalkBody(f, r, called, skips, ui) = (IF r[ui + 1].index \in called THEN <<ui>> ELSE << >>) \o q
  BY <1>1, <1>2 DEF WalkBody
<1>5. CASE r[ui + 1].index \in called
  <2>1. Staying(r, called, skips, ui) = {ui} \cup Staying(r, called, skips, next)
    BY <1>5, StayingHere
  <2>2. \A j \in Staying(r, called, skips, next) : ui < j
    BY <1>1 DEF Staying
  <2>3. Rising(<<ui>> \o q, {ui} \cup Staying(r, called, skips, next))
    BY <1>1, <1>3, <2>2, RisingPut
  <2> QED
    BY <1>4, <1>5, <2>1, <2>3
<1>6. CASE r[ui + 1].index \notin called
  <2>1. Staying(r, called, skips, ui) = Staying(r, called, skips, next)
    <3>1. Staying(r, called, skips, ui) = {} \cup Staying(r, called, skips, next)
      <4>1. (IF r[ui + 1].index \in called THEN {ui} ELSE {}) = {}
        BY <1>6
      <4>2. Staying(r, called, skips, ui) =
              (IF r[ui + 1].index \in called THEN {ui} ELSE {}) \cup Staying(r, called, skips, next)
        BY StayingHere
      <4> QED
        BY ONLY <4>1, <4>2
    <3> QED
      BY ONLY <3>1
  <2>2. << >> \o q = q
    BY <1>3 DEF Rising
  <2> QED
    BY <1>3, <1>4, <1>6, <2>1, <2>2
<1> QED
  BY <1>5, <1>6

LEMMA WalkRises ==
  ASSUME NEW r \in Seq(Record), Linked(r), Nested(r), NEW called, NEW skips,
         NEW f, Walking(f, r, called, skips)
  PROVE  Rising(f[0], Staying(r, called, skips, 0))
<1>1. PICK n \in Nat : n = Len(r)
  BY RecordNumbers
<1>2. \A ui \in 0..n : f[ui] = WalkBody(f, r, called, skips, ui)
  BY <1>1 DEF Walking
<1> DEFINE Does(ui) == ui + 1 \notin Skipped(r, called, skips) => Rising(f[ui], Staying(r, called, skips, ui))
           S == {m \in Nat : \A ui \in 0..n : ui >= n - m => Does(ui)}
<1>3. 0 \in S
  <2>1. f[n] = << >>
    <3>1. f[n] = WalkBody(f, r, called, skips, n)
      BY <1>2
    <3> QED
      BY <1>1, <3>1 DEF WalkBody
  <2>2. Staying(r, called, skips, n) = {}
    BY <1>1 DEF Staying
  <2>3. Does(n)
    BY <2>1, <2>2, RisingNone
  <2> HIDE DEF Does
  <2>4. \A ui \in 0..n : ui >= n - 0 => ui = n
    OBVIOUS
  <2> QED
    BY <2>3, <2>4
<1>4. ASSUME NEW m \in Nat, m < n, m \in S PROVE m + 1 \in S
  <2>1. ASSUME NEW ui \in 0..n, ui >= n - (m + 1) PROVE Does(ui)
    <3>1. CASE ui >= n - m
      BY <1>4, <3>1
    <3>2. CASE ~(ui >= n - m)
      <4>1. ui = n - (m + 1) /\ ui \in 0..(Len(r) - 1)
        BY <1>1, <1>4, <2>1, <3>2
      <4>2. SUFFICES ASSUME ui + 1 \notin Skipped(r, called, skips)
                     PROVE  Rising(f[ui], Staying(r, called, skips, ui))
        OBVIOUS
      <4>3. PICK next : next = NextOf(r, called, skips, ui)
        OBVIOUS
      <4>4. next \in ui + 1..n
        BY <1>1, <4>1, <4>3, NextBeyond
      <4>5. next < Len(r) => next + 1 \notin Skipped(r, called, skips)
        BY <4>1, <4>2, <4>3, NextStays
      <4>6. next < Len(r) => Rising(f[next], Staying(r, called, skips, next))
        <5>1. next \in 0..n /\ next >= n - m
          BY <4>1, <4>4
        <5>2. Does(next)
          BY <1>4, <5>1
        <5> QED
          BY <4>5, <5>2
      <4>7. Rising(WalkBody(f, r, called, skips, ui), Staying(r, called, skips, ui))
        BY <4>1, <4>2, <4>3, <4>6, WalkStep
      <4> QED
        BY <1>2, <4>7
    <3> QED
      BY <3>1, <3>2
  <2> HIDE DEF Does
  <2> QED
    BY <2>1
<1>5. n \in S
  <2> HIDE DEF S
  <2> QED
    BY <1>3, <1>4, UpTo
<1>6. Does(0)
  <2> HIDE DEF Does
  <2> QED
    BY <1>5
<1>7. 0 + 1 \notin Skipped(r, called, skips)
  <2>1. \A p \in Pairs(r) : p \in 1..n
    BY <1>1 DEF Pairs
  <2> QED
    BY <2>1 DEF Skipped
<1> QED
  BY <1>6, <1>7

\* the calls of a translation rise through exactly the records that stay
LEMMA TranslateRises ==
  ASSUME NEW r \in Seq(Record), Linked(r), Nested(r), NEW called, NEW skips
  PROVE  Rising(AstTranslate(r, called, skips), Staying(r, called, skips, 0))
<1>1. PICK f : f = CHOOSE h : Walking(h, r, called, skips)
  OBVIOUS
<1>2. Walking(f, r, called, skips)
  BY <1>1, WalkExists
<1>3. AstTranslate(r, called, skips) = f[0]
  BY <1>1, WalkIs
<1> QED
  BY <1>2, <1>3, WalkRises

\* A translation calls, in order, the callbacks of exactly the records that lie in no node
\* that a callback skipped, whatever parse recorded them and whatever callbacks are set by
\* then. That the walk comes past a skipped node at its end, in none of another, is that the
\* records are linked and nested, as a parse leaves them.
THEOREM TranslationTraverses ==
  Contract => (Spec /\ []StackFits => []TranslationIsTraversal)
<1> SUFFICES ASSUME Contract PROVE Spec /\ []StackFits => []TranslationIsTraversal
  OBVIOUS
<1>1. Spec /\ []StackFits => []AstWellFormed
  BY TreesWellFormed
<1>2. Spec => []IInv
  BY Invariance
<1>3. ASSUME IInv, AstWellFormed PROVE TranslationIsTraversal
  <2> SUFFICES ASSUME pc = "return", stack = << >>, ast.attached, CallbacksRecorded,
                      NEW called \in SUBSET ast.callbacks,
                      NEW skips \in SUBSET {p - 1 : p \in Pairs(ast.records)},
                      NEW calls, calls = AstTranslate(ast.records, called, skips)
               PROVE  /\ \A i, j \in DOMAIN calls : i < j => calls[i] < calls[j]
                      /\ {calls[i] : i \in DOMAIN calls} =
                           {ui \in 0..(Len(ast.records) - 1) : Stays(ast.records, called, skips, ui)}
    BY DEF TranslationIsTraversal
  <2>1. ast.records \in Seq(Record)
    BY <1>3, AstParts DEF IInv, TypeOK
  <2>2. Linked(ast.records) /\ Nested(ast.records)
    BY <1>3 DEF AstWellFormed
  <2>3. Rising(calls, Staying(ast.records, called, skips, 0))
    BY <2>1, <2>2, TranslateRises
  <2> QED
    BY <2>3 DEF Rising, Staying
<1> QED
  BY <1>1, <1>2, <1>3, PTL
=============================================================================
