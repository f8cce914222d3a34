-------------------------- MODULE ParserAst_proofs --------------------------
(***************************************************************************)
(* Proofs about the AST a parse records, for every grammar, input and      *)
(* callback: the look-around counter and the open entries follow the stack *)
(* of operators, and a parse that ends leaves a well-formed tree.          *)
(***************************************************************************)
EXTENDS Parser_proofs, FiniteSetTheorems

-----------------------------------------------------------------------------
(* What a step does to the stack, the counter and the AST.                 *)

LookIds == LookAheadIds \cup LookBackIds

Id(f) == Opcode(f.op).id
IsLook(f) == Id(f) \in LookIds

\* the AST when the operator of f has called its first child
OpenedAst(f, a, la) ==
  CASE Id(f) = "ALT" -> a
    [] Id(f) = "REP" -> AST_OP_OPEN(AST_OP_OPEN(a, la), la)
    [] Id(f) = "RNM" -> AST_RULE_OPEN(a, la, Opcode(f.op).index, f.beg)
    [] OTHER -> AST_OP_OPEN(a, la)

\* an operator has begun and waits for a child (or for its own predicted answer)
NodeOpened ==
  /\ pc = "call"
  /\ \E f \in Frame :
       /\ FrameOK(f)
       /\ f.beg = uiOffset
       /\ stack' = Append(stack, f)
       /\ uiInLookaround' = IF IsLook(f) THEN Increment(uiInLookaround) ELSE uiInLookaround
       /\ ast' = OpenedAst(f, ast, uiInLookaround)

\* an operator has begun and ended in one step
NodePassed ==
  /\ pc = "call" /\ pc' = "return"
  /\ stack' = stack
  /\ uiInLookaround' = uiInLookaround
  /\ \/ ast' = ast
     \/ \E i, offset, length \in Nat :
          ast' = AST_RULE_CLOSE(AST_RULE_OPEN(ast, uiInLookaround, i, offset),
                                uiInLookaround, i, uiOpState', offset, length)

\* the operator on top has been answered and waits for another child
NodeGoesOn ==
  /\ pc = "return" /\ pc' = "call"
  /\ stack # << >>
  /\ uiInLookaround' = uiInLookaround
  /\ \E g \in Frame :
       /\ g.op = Top(stack).op /\ g.beg = Top(stack).beg
       /\ stack' = Append(Pop(stack), g)
       /\ CASE Id(g) = "REP" ->
                 ast' = AST_OP_OPEN(AST_OP_CLOSE(ast, uiInLookaround, uiOpState), uiInLookaround)
            [] Id(g) = "CAT" -> ast' = ast
            [] OTHER -> ast' = ast /\ uiOpState = "NOMATCH" /\ Id(g) # "RNM"

\* a rule callback that answers NOMATCH has refused the rule
MayRefuse(r) == r \in ruleCallback /\ \E answer \in RnmResults : answer.state = "NOMATCH"

\* what the operator of f does to the AST when it ends
ClosedAst(f) ==
  CASE Id(f) = "ALT" -> ast' = ast /\ uiOpState' = uiOpState
    [] Id(f) = "CAT" -> ast' = AST_OP_CLOSE(ast, uiInLookaround, uiOpState')
    [] Id(f) = "REP" ->
         ast' = AST_OP_CLOSE(AST_OP_CLOSE(ast, uiInLookaround, uiOpState), uiInLookaround, uiOpState')
    [] Id(f) = "RNM" ->
         /\ ast' = AST_RULE_CLOSE(ast, uiInLookaround, Opcode(f.op).index, uiOpState', f.beg,
                                  uiPhraseLength')
         /\ uiPhraseLength' \in Nat
         /\ uiOpState' = "NOMATCH" => uiOpState = "NOMATCH" \/ MayRefuse(Opcode(f.op).index)
    [] OTHER -> ast' = AST_OP_CLOSE(ast, uiInLookaround', uiOpState')

\* the operator on top has ended
NodeClosed ==
  /\ pc = "return" /\ pc' = "return"
  /\ stack # << >>
  /\ stack' = Pop(stack)
  /\ uiInLookaround' = IF IsLook(Top(stack)) THEN Decrement(uiInLookaround) ELSE uiInLookaround
  /\ ClosedAst(Top(stack))

Shape == NodeOpened \/ NodePassed \/ NodeGoesOn \/ NodeClosed

LEMMA Kinds ==
  /\ \A id \in LookIds : id \notin ListIds \cup {"REP", "RNM"}
  /\ LookIds \subseteq NextIds
  /\ \A id \in ListIds \cup NextIds \cup {"RNM"} :
       id \in {"ALT", "CAT", "REP", "RNM"} \/ id \in LookIds
  /\ "ALT" \in ListIds /\ "CAT" \in ListIds
  /\ "REP" \in NextIds /\ "REP" \notin ListIds /\ "RNM" \notin ListIds
BY DEF LookIds, ListIds, LookAheadIds, LookBackIds, NextIds

\* An operator that ends with an AST hook and does not throw has returned.
LEMMA Finished ==
  ASSUME NEW frames, NEW a, NEW state, NEW offset, NEW length,
         Finish(frames, a, state, offset, length), Parsing'
  PROVE  /\ pc' = "return" /\ stack' = frames /\ ast' = a
         /\ uiOpState' = state /\ uiOffset' = offset /\ uiPhraseLength' = length
BY DEF Finish, Throw, Return, Parsing

\* A frame that an operator pushes, as far as the AST is concerned.
LEMMA Pushed ==
  ASSUME Contract, IInv, pc = "call", NEW k \in Nat,
         Opcode(callee).id \in ListIds \cup NextIds \cup {"RNM"},
         Opcode(callee).id \in ListIds => k \in 1..Len(Opcode(callee).kids),
         Opcode(callee).id \in LookBackIds => k = 0
  PROVE  /\ NewFrame(k) \in Frame
         /\ FrameOK(NewFrame(k))
         /\ NewFrame(k).op = callee
         /\ NewFrame(k).beg = uiOffset
<1>1. Fits(stack, NewFrame(k))
  BY Opened
<1> QED
  BY <1>1 DEF Fits, FrameOK, NewFrame

LEMMA OpenShape ==
  ASSUME Contract, IInv, AltOpen \/ CatOpen \/ RepOpen \/ LookAheadOpen \/ LookBackOpen
  PROVE  NodeOpened
<1> DEFINE id == Opcode(callee).id
           k == IF id \in ListIds THEN 1 ELSE 0
           f == NewFrame(k)
<1>1. pc = "call"
  BY DEF AltOpen, CatOpen, RepOpen, LookAheadOpen, LookBackOpen, Calling
<1>2. \/ id = "ALT" /\ AltOpen
      \/ id = "CAT" /\ CatOpen
      \/ id = "REP" /\ RepOpen
      \/ id \in LookIds /\ (LookAheadOpen \/ LookBackOpen)
  BY DEF AltOpen, CatOpen, RepOpen, LookAheadOpen, LookBackOpen, Calling, LookIds
<1>3. id \in ListIds \cup NextIds
  BY <1>2, Kinds
<1>4. id \in ListIds => 1 \in 1..Len(Opcode(callee).kids)
  BY <1>1, CallFacts
<1>5. id \in LookBackIds => id \notin ListIds
  BY DEF LookBackIds, ListIds
<1>6. f \in Frame /\ FrameOK(f) /\ f.op = callee /\ f.beg = uiOffset
  BY <1>1, <1>3, <1>4, <1>5, Pushed
<1>7. Id(f) = id
  BY <1>6 DEF Id
<1>8. stack' = Append(stack, f)
  BY <1>2, Kinds DEF AltOpen, CatOpen, RepOpen, LookAheadOpen, LookBackOpen, Call
<1>9. uiInLookaround' = IF IsLook(f) THEN Increment(uiInLookaround) ELSE uiInLookaround
  BY <1>2, <1>7, Kinds DEF AltOpen, CatOpen, RepOpen, LookAheadOpen, LookBackOpen, IsLook
<1>10. ast' = OpenedAst(f, ast, uiInLookaround)
  BY <1>2, <1>7, Kinds DEF AltOpen, CatOpen, RepOpen, LookAheadOpen, LookBackOpen, OpenedAst
<1> QED
  BY <1>1, <1>6, <1>8, <1>9, <1>10 DEF NodeOpened

LEMMA LeafShape ==
  ASSUME Contract, IInv, Predict \/ MatchTerminal \/ Anchor
  PROVE  NodePassed
<1>1. pc = "call"
  BY DEF Predict, MatchTerminal, Anchor, Calling
<1>2. PICK state, length : LeafReturn(state, length)
  BY DEF Predict, MatchTerminal, Anchor
<1> QED
  BY <1>1, <1>2 DEF LeafReturn, Return, NodePassed

LEMMA UdtShape ==
  ASSUME Contract, IInv, Udt, Parsing'
  PROVE  NodePassed
<1> DEFINE u == Opcode(callee).index
           a == AST_RULE_OPEN(ast, uiInLookaround, uiRuleCount + u, uiOffset)
<1>1. pc = "call" /\ Opcode(callee).id = "UDT" /\ uiInLookaround' = uiInLookaround
  BY DEF Udt, Calling
<1>2. Parsing /\ u \in 1..Len(grammar.udts)
  BY <1>1, CallFacts
<1>3. GrammarOK(grammar) /\ Positions
  BY <1>2, RunFacts
<1>4. uiRuleCount + u \in Nat /\ uiOffset \in Nat
  BY <1>2, <1>3, LenProperties DEF GrammarOK, uiRuleCount, Positions
<1>5. PICK given \in UdtResults :
         LET answer == UdtAnswer(given) IN
           Finish(stack, AST_RULE_CLOSE(a, uiInLookaround, uiRuleCount + u, answer.state,
                                        uiOffset, answer.length),
                  answer.state, Plus(uiOffset, answer.length), answer.length)
  BY DEF Udt, Throw, Parsing
<1> DEFINE answer == UdtAnswer(given)
<1>6. answer.length \in Nat
  BY ParserAssumption DEF UdtAnswer, CallbackSet
<1>7. /\ pc' = "return" /\ stack' = stack /\ uiOpState' = answer.state
      /\ ast' = AST_RULE_CLOSE(a, uiInLookaround, uiRuleCount + u, answer.state, uiOffset,
                               answer.length)
  BY <1>5, Finished
<1> QED
  BY <1>1, <1>4, <1>6, <1>7 DEF NodePassed

\* The locals of CAT and REP when they go on.
LEMMA Accumulated ==
  ASSUME NEW f \in Frame, NEW len \in Nat
  PROVE  LET g == [f EXCEPT !.k = @ + 1, !.len = len] IN
         g \in Frame /\ g.op = f.op /\ g.beg = f.beg
<1> DEFINE h == [f EXCEPT !.k = @ + 1]
           g == [h EXCEPT !.len = len]
<1>1. h \in Frame /\ h.op = f.op /\ h.beg = f.beg
  BY DEF Frame
<1>2. g \in Frame /\ g.op = h.op /\ g.beg = h.beg
  BY <1>1 DEF Frame
<1>3. g = [f EXCEPT !.k = @ + 1, !.len = len]
  OBVIOUS
<1> QED
  BY <1>1, <1>2, <1>3

\* vRnm has pushed its frame, whether its child was called or its answer predicted.
LEMMA RnmDownShape ==
  ASSUME Contract, IInv, Calling({"RNM"}), uiInLookaround' = uiInLookaround,
         RnmDown(AST_RULE_OPEN(ast, uiInLookaround, Opcode(callee).index, uiOffset))
  PROVE  NodeOpened
<1> DEFINE f == NewFrame(0)
<1>1. pc = "call" /\ Opcode(callee).id = "RNM"
  BY DEF Calling
<1>2. Opcode(callee).id \notin LookBackIds /\ Opcode(callee).id \notin ListIds
  BY <1>1, Disjoint, Kinds
<1>3. f \in Frame /\ FrameOK(f) /\ f.op = callee /\ f.beg = uiOffset
  BY <1>1, <1>2, Pushed
<1>4. Id(f) = "RNM" /\ ~IsLook(f)
  BY <1>1, <1>3, Kinds DEF Id, IsLook
<1>5. stack' = Append(stack, f)
  BY DEF RnmDown, Call, Return
<1>6. ast' = OpenedAst(f, ast, uiInLookaround)
  BY <1>3, <1>4 DEF RnmDown, OpenedAst
<1> QED
  BY <1>1, <1>3, <1>4, <1>5, <1>6 DEF NodeOpened

LEMMA RnmOpenShape ==
  ASSUME Contract, IInv, RnmOpen, Parsing'
  PROVE  NodeOpened \/ NodePassed
<1> DEFINE r == Opcode(callee).index
           a == AST_RULE_OPEN(ast, uiInLookaround, r, uiOffset)
<1>1. Calling({"RNM"}) /\ pc = "call" /\ Opcode(callee).id = "RNM" /\ uiInLookaround' = uiInLookaround
  BY DEF RnmOpen, Calling
<1>2. Parsing /\ r \in 1..uiRuleCount
  BY <1>1, CallFacts
<1>3. r \in Nat /\ uiOffset \in Nat
  BY <1>2, RunFacts, LenProperties DEF Positions, uiRuleCount, GrammarOK
<1>4. CASE RnmDown(a)
  BY <1>1, <1>4, RnmDownShape
<1>5. ASSUME NEW answer \in RnmResults,
             LET len == AnswerLength(answer) IN
               Finish(stack, AST_RULE_CLOSE(a, uiInLookaround, r, answer.state, uiOffset, len),
                      answer.state, Plus(uiOffset, len), len)
      PROVE  NodePassed
  <2> DEFINE len == AnswerLength(answer)
  <2>1. len \in Nat
    BY ParserAssumption DEF AnswerLength, CallbackSet
  <2>2. /\ pc' = "return" /\ stack' = stack /\ uiOpState' = answer.state
        /\ ast' = AST_RULE_CLOSE(a, uiInLookaround, r, answer.state, uiOffset, len)
    BY <1>5, Finished
  <2> QED
    BY <1>1, <1>3, <2>1, <2>2 DEF NodePassed
<1>6. \/ RnmDown(a)
      \/ \E answer \in RnmResults :
           LET len == AnswerLength(answer) IN
             Finish(stack, AST_RULE_CLOSE(a, uiInLookaround, r, answer.state, uiOffset, len),
                    answer.state, Plus(uiOffset, len), len)
  BY DEF RnmOpen, Throw, Parsing
<1> QED
  BY <1>4, <1>5, <1>6

\* A child has returned, and the operator on top has returned or called another one.
LEMMA ReturnShape ==
  ASSUME Contract, IInv, Parsing',
         AltNext \/ CatNext \/ RepNext \/ LookAheadClose \/ LookBackAgain \/ LookBackClose
  PROVE  NodeGoesOn \/ NodeClosed
<1> DEFINE f == Top(stack)
           id == Id(f)
<1>1. pc = "return" /\ stack # << >>
  BY DEF AltNext, CatNext, RepNext, LookAheadClose, LookBackAgain, LookBackClose, Returning
<1>2. f \in Frame /\ uiOpState \in {"MATCH", "NOMATCH"}
  BY <1>1, ReturnFacts
<1>3. CASE AltNext
  <2>1. id = "ALT" /\ ~IsLook(f) /\ uiInLookaround' = uiInLookaround
    BY <1>3, Kinds DEF AltNext, Returning, Id, IsLook
  <2>2. CASE OpReturn(ast, uiOpState, uiOffset, uiPhraseLength)
    <3>1. /\ pc' = "return" /\ stack' = Pop(stack) /\ ast' = ast /\ uiOpState' = uiOpState
      BY <2>2, Finished DEF OpReturn
    <3> QED
      BY <1>1, <2>1, <3>1 DEF NodeClosed, ClosedAst
  <2>3. CASE /\ uiOpState # "MATCH"
             /\ pc' = "call" /\ stack' = Append(Pop(stack), NextTry(f)) /\ ast' = ast
    <3>1. NextTry(f) \in Frame /\ NextTry(f).op = f.op /\ NextTry(f).beg = f.beg
      BY <1>2 DEF NextTry, Frame
    <3>2. Id(NextTry(f)) = "ALT"
      BY <2>1, <3>1 DEF Id
    <3> QED
      BY <1>1, <1>2, <2>1, <2>3, <3>1, <3>2 DEF NodeGoesOn
  <2> QED
    BY <1>3, <2>2, <2>3 DEF AltNext, Call
<1>4. CASE CatNext
  <2> DEFINE len == Plus(f.len, uiPhraseLength)
             g == [f EXCEPT !.k = @ + 1, !.len = len]
  <2>1. id = "CAT" /\ ~IsLook(f) /\ uiInLookaround' = uiInLookaround
    BY <1>4, Kinds DEF CatNext, Returning, Id, IsLook
  <2>2. ASSUME NEW state, NEW offset, NEW length,
               OpReturn(AST_OP_CLOSE(ast, uiInLookaround, state), state, offset, length)
        PROVE  NodeClosed
    <3>1. /\ pc' = "return" /\ stack' = Pop(stack) /\ uiOpState' = state
          /\ ast' = AST_OP_CLOSE(ast, uiInLookaround, state)
      BY <2>2, Finished DEF OpReturn
    <3> QED
      BY <1>1, <2>1, <3>1 DEF NodeClosed, ClosedAst
  <2>3. CASE pc' = "call" /\ stack' = Append(Pop(stack), g) /\ ast' = ast
    <3>1. len \in Nat
      <4>1. f.len \in Nat /\ Parsing
        BY <1>1, ReturnFacts
      <4>2. uiPhraseLength \in Nat
        BY <4>1, RunFacts DEF Positions
      <4> QED
        BY <4>1, <4>2, UndefinedAssumption DEF Plus
    <3>2. g \in Frame /\ g.op = f.op /\ g.beg = f.beg
      BY <1>2, <3>1, Accumulated
    <3>3. Id(g) = "CAT"
      BY <2>1, <3>2 DEF Id
    <3> QED
      BY <1>1, <2>1, <2>3, <3>2, <3>3 DEF NodeGoesOn
  <2> QED
    BY <1>4, <2>2, <2>3 DEF CatNext, Call
<1>5. CASE RepNext
  <2> DEFINE a == AST_OP_CLOSE(ast, uiInLookaround, uiOpState)
             len == Plus(f.len, uiPhraseLength)
             g == [f EXCEPT !.k = @ + 1, !.len = len]
  <2>1. id = "REP" /\ ~IsLook(f) /\ uiInLookaround' = uiInLookaround
    BY <1>5, Kinds DEF RepNext, Returning, Id, IsLook
  <2>2. ASSUME NEW state, NEW length,
               OpReturn(AST_OP_CLOSE(a, uiInLookaround, state), state, Plus(f.beg, length), length)
        PROVE  NodeClosed
    <3>1. /\ pc' = "return" /\ stack' = Pop(stack) /\ uiOpState' = state
          /\ ast' = AST_OP_CLOSE(a, uiInLookaround, state)
      BY <2>2, Finished DEF OpReturn
    <3> QED
      BY <1>1, <2>1, <3>1 DEF NodeClosed, ClosedAst
  <2>3. CASE Continue(Append(Pop(stack), g), f.op + 1, AST_OP_OPEN(a, uiInLookaround))
    <3>1. pc' = "call" /\ stack' = Append(Pop(stack), g) /\ ast' = AST_OP_OPEN(a, uiInLookaround)
      BY <2>3 DEF Continue, Throw, Call, Parsing
    <3>2. len \in Nat
      <4>1. f.len \in Nat /\ Parsing
        BY <1>1, ReturnFacts
      <4>2. uiPhraseLength \in Nat
        BY <4>1, RunFacts DEF Positions
      <4> QED
        BY <4>1, <4>2, UndefinedAssumption DEF Plus
    <3>3. g \in Frame /\ g.op = f.op /\ g.beg = f.beg
      BY <1>2, <3>2, Accumulated
    <3>4. Id(g) = "REP"
      BY <2>1, <3>3 DEF Id
    <3> QED
      BY <1>1, <2>1, <3>1, <3>3, <3>4 DEF NodeGoesOn
  <2> QED
    BY <1>5, <2>2, <2>3 DEF RepNext
<1>6. ASSUME NEW state, NEW offset, NEW length, IsLook(f),
             uiInLookaround' = Decrement(uiInLookaround),
             Finish(Pop(stack), AST_OP_CLOSE(ast, uiInLookaround', state), state, offset, length)
      PROVE  NodeClosed
  <2>1. /\ pc' = "return" /\ stack' = Pop(stack) /\ uiOpState' = state
        /\ ast' = AST_OP_CLOSE(ast, uiInLookaround', state)
    BY <1>6, Finished
  <2>2. id \notin {"ALT", "CAT", "REP", "RNM"}
    BY <1>6, Kinds DEF IsLook
  <2> QED
    BY <1>1, <1>6, <2>1, <2>2 DEF NodeClosed, ClosedAst
<1>7. CASE LookAheadClose
  BY <1>6, <1>7 DEF LookAheadClose, LeaveLookaround, OpReturn, Returning, IsLook, Id, LookIds
<1>8. CASE LookBackClose
  BY <1>6, <1>8 DEF LookBackClose, LeaveLookaround, Returning, IsLook, Id, LookIds
<1>9. CASE LookBackAgain
  <2>1. IsLook(f) /\ uiInLookaround' = uiInLookaround /\ uiOpState # "MATCH" /\ ast' = ast
        /\ pc' = "call" /\ stack' = Append(Pop(stack), NextTry(f))
    BY <1>9 DEF LookBackAgain, Returning, IsLook, Id, LookIds, Call
  <2>2. NextTry(f) \in Frame /\ NextTry(f).op = f.op /\ NextTry(f).beg = f.beg
    BY <1>2 DEF NextTry, Frame
  <2>3. Id(NextTry(f)) \notin {"ALT", "CAT", "REP", "RNM"}
    BY <2>1, <2>2, Kinds DEF IsLook, Id
  <2> QED
    BY <1>1, <1>2, <2>1, <2>2, <2>3 DEF NodeGoesOn
<1> QED
  BY <1>3, <1>4, <1>5, <1>7, <1>8, <1>9

\* The rule closes as the child, or the callback, has answered; a refused rule had a callback
\* that may refuse.
LEMMA RnmReturnShape ==
  ASSUME Contract, IInv, Parsing', Returning({"RNM"}), uiInLookaround' = uiInLookaround,
         NEW state, NEW offset \in Nat, NEW length \in Nat,
         RnmReturn(Opcode(Top(stack).op).index, state, offset, length),
         offset = Top(stack).beg + length,
         state = "NOMATCH" => uiOpState = "NOMATCH" \/ MayRefuse(Opcode(Top(stack).op).index)
  PROVE  NodeClosed
<1> DEFINE f == Top(stack)
           r == Opcode(f.op).index
<1>1. pc = "return" /\ stack # << >> /\ Id(f) = "RNM" /\ ~IsLook(f)
  BY Kinds DEF Returning, Id, IsLook
<1>2. f.beg \in Nat
  BY <1>1, ReturnFacts
<1>3. /\ pc' = "return" /\ stack' = Pop(stack) /\ uiOpState' = state /\ uiPhraseLength' = length
      /\ ast' = AST_RULE_CLOSE(ast, uiInLookaround, r, state, Minus(offset, length), length)
  BY Finished DEF RnmReturn, OpReturn
<1>4. Minus(offset, length) = f.beg
  BY <1>2 DEF Minus
<1> QED
  BY <1>1, <1>3, <1>4 DEF NodeClosed, ClosedAst

LEMMA RnmCloseShape ==
  ASSUME Contract, IInv, RnmClose, Parsing'
  PROVE  NodeClosed
<1> DEFINE f == Top(stack)
           r == Opcode(f.op).index
<1>1. /\ Returning({"RNM"}) /\ pc = "return" /\ stack # << >> /\ Opcode(f.op).id = "RNM"
      /\ uiInLookaround' = uiInLookaround
  BY DEF RnmClose, Returning
<1>2. Opcode(f.op).id \notin LookBackIds /\ Opcode(f.op).id \notin {"CAT", "REP"}
  BY <1>1, Disjoint
<1>3. f.beg \in Nat /\ Parsing
  BY <1>1, ReturnFacts
<1>4. uiOffset = f.beg + uiPhraseLength /\ uiOffset \in Nat /\ uiPhraseLength \in Nat
  BY <1>1, <1>2, <1>3, Ordinary, RunFacts DEF Positions
<1>5. CASE RnmReturn(r, uiOpState, uiOffset, uiPhraseLength)
  BY <1>1, <1>4, <1>5, RnmReturnShape
<1>6. ASSUME NEW answer \in RnmResults, r \in ruleCallback,
             ~RnmInvalid(r, f.beg, answer),
             answer.state # "ACTIVE",
             RnmReturn(r, answer.state, Plus(f.beg, AnswerLength(answer)), AnswerLength(answer))
      PROVE  NodeClosed
  <2> DEFINE len == AnswerLength(answer)
  <2>1. ConfigOK /\ Positions /\ uiSubStringEnd = f.subEnd /\ f.beg =< f.subEnd
    BY <1>1, <1>2, <1>3, RunFacts, Ordinary
  <2>2. len \in Nat /\ Plus(f.beg, len) = f.beg + len
    BY <1>3, <1>6, <2>1, AnswerFacts
  <2>3. f.beg + len \in Nat
    BY <1>3, <2>2
  <2>4. answer.state = "NOMATCH" => MayRefuse(r)
    BY <1>6 DEF MayRefuse
  <2>5. RnmReturn(r, answer.state, f.beg + len, len)
    BY <1>6, <2>2
  <2> QED
    BY <1>1, <2>2, <2>3, <2>4, <2>5, RnmReturnShape
<1> QED
  BY <1>5, <1>6 DEF RnmClose, Throw, Parsing

\* Every step of a parse that goes on has one of the four shapes.
LEMMA StepShape ==
  ASSUME Contract, IInv, ParserStep, Parsing'
  PROVE  Shape
BY OpenShape, LeafShape, UdtShape, RnmOpenShape, ReturnShape, RnmCloseShape
   DEF ParserStep, ParserFinish, Parsing, Shape

\* A parse does not touch the application's settings.
LEMMA ParseKeeps ==
  ASSUME ParserStep
  PROVE  UNCHANGED <<app, parse>>
<1>1. ASSUME Predict \/ AltOpen \/ AltNext \/ CatOpen \/ CatNext \/ RepOpen \/ RepNext
      PROVE  UNCHANGED <<app, parse>>
  BY <1>1 DEF Predict, LeafReturn, AltOpen, AltNext, CatOpen, CatNext, RepOpen, RepNext
<1>2. ASSUME RnmOpen \/ RnmClose \/ MatchTerminal \/ Udt \/ Anchor \/ ParserFinish
      PROVE  UNCHANGED <<app, parse>>
  BY <1>2 DEF RnmOpen, RnmClose, MatchTerminal, LeafReturn, Udt, Anchor, ParserFinish
<1>3. ASSUME LookAheadOpen \/ LookAheadClose \/ LookBackOpen \/ LookBackAgain \/ LookBackClose
      PROVE  UNCHANGED <<app, parse>>
  BY <1>3 DEF LookAheadOpen, LookAheadClose, LookBackOpen, LookBackAgain, LookBackClose
<1> QED
  BY <1>1, <1>2, <1>3 DEF ParserStep

\* A step that leaves a parse under way began it, went on with it or changed nothing.
LEMMA Transition ==
  ASSUME Contract, IInv, [Next]_vars, Parsing'
  PROVE  \/ \E c \in Configs : ParserParse(c)
         \/ /\ Parsing
            /\ UNCHANGED <<app, parse>>
            /\ Shape \/ UNCHANGED <<uiOpState, pc, stack, uiInLookaround, ast>>
<1>1. CASE ParserStep
  BY <1>1, StepShape, ParseKeeps DEF Shape, NodeOpened, NodePassed, NodeGoesOn, NodeClosed, Parsing
<1>2. CASE Application
  BY <1>2 DEF Application, ParserParseThrows, Throw, SetRuleCallback, SetUdtCallback,
              SetAstCallback, SetAst, control, Parsing
<1>3. CASE UNCHANGED vars
  BY <1>3 DEF vars, control, phrase, Parsing
<1> QED
  BY <1>1, <1>2, <1>3 DEF Next

-----------------------------------------------------------------------------
(* Pushing and popping frames.                                             *)

\* Popping and pushing again gives the stack back.
LEMMA PopPush ==
  ASSUME NEW S, NEW s \in Seq(S), s # << >>
  PROVE  Append(Pop(s), Top(s)) = s
<1>1. /\ Pop(s) \in Seq(S) /\ Len(s) \in Nat \ {0} /\ Len(Pop(s)) = Len(s) - 1
      /\ \A n \in 1..(Len(s) - 1) : Pop(s)[n] = s[n]
      /\ Top(s) \in S /\ Top(s) = s[Len(s)]
  BY PopLemma
<1> DEFINE t == Append(Pop(s), Top(s))
<1>2. /\ t \in Seq(S) /\ Len(t) = Len(s)
      /\ \A n \in 1..(Len(s) - 1) : t[n] = s[n]
      /\ Top(t) = Top(s)
  BY <1>1, AppendLemma
<1>3. t[Len(s)] = s[Len(s)]
  BY <1>1, <1>2 DEF Top
<1>4. \A n \in 1..Len(s) : t[n] = s[n]
  BY <1>1, <1>2, <1>3
<1> QED
  BY <1>2, <1>4, SeqEqual

-----------------------------------------------------------------------------
(* The look-around counter.                                                *)

\* the look-arounds on a stack
Look(s) == {n \in 1..Len(s) : IsLook(s[n])}

LEMMA PushLook ==
  ASSUME NEW s \in Seq(Frame), NEW f \in Frame
  PROVE  /\ IsFiniteSet(Look(s)) /\ Cardinality(Look(s)) \in Nat
         /\ Cardinality(Look(s)) =< Len(s)
         /\ Look(Append(s, f)) = IF IsLook(f) THEN Look(s) \cup {Len(s) + 1} ELSE Look(s)
         /\ Cardinality(Look(Append(s, f))) = Cardinality(Look(s)) + IF IsLook(f) THEN 1 ELSE 0
<1> DEFINE n == Len(s)
           t == Append(s, f)
<1>1. n \in Nat
  BY LenProperties
<1>2. Look(s) \in SUBSET (1..n)
  BY DEF Look
<1>3. IsFiniteSet(1..n) /\ Cardinality(1..n) = n
  BY <1>1, FS_Interval
<1>4. IsFiniteSet(Look(s)) /\ Cardinality(Look(s)) =< n
  BY <1>2, <1>3, FS_Subset
<1>5. Cardinality(Look(s)) \in Nat
  BY <1>4, FS_CardinalityType
<1>6. Len(t) = n + 1 /\ (\A m \in 1..n : t[m] = s[m]) /\ t[n + 1] = f
  BY AppendLemma DEF Top
<1>7. Look(t) = IF IsLook(f) THEN Look(s) \cup {n + 1} ELSE Look(s)
  <2>1. \A m \in 1..n : m \in Look(t) <=> m \in Look(s)
    BY <1>1, <1>6 DEF Look
  <2>2. n + 1 \in Look(t) <=> IsLook(f)
    BY <1>1, <1>6 DEF Look
  <2>3. 1..(n + 1) = (1..n) \cup {n + 1}
    BY <1>1
  <2>4. Look(t) \subseteq 1..(n + 1)
    BY <1>6 DEF Look
  <2>5. \A m : m \in Look(t) <=> m \in Look(s) \/ (m = n + 1 /\ IsLook(f))
    BY <1>2, <2>1, <2>2, <2>3, <2>4
  <2> HIDE DEF t
  <2>6. CASE IsLook(f)
    BY <2>5, <2>6
  <2>7. CASE ~IsLook(f)
    BY <2>5, <2>7
  <2> QED
    BY <2>6, <2>7
<1>8. n + 1 \notin Look(s)
  BY <1>1, <1>2
<1>9. Cardinality(Look(s) \cup {n + 1}) = Cardinality(Look(s)) + 1
  BY <1>4, <1>8, FS_AddElement
<1>10. Cardinality(Look(t)) = Cardinality(Look(s)) + IF IsLook(f) THEN 1 ELSE 0
  BY <1>5, <1>7, <1>9
<1> QED
  BY <1>4, <1>5, <1>7, <1>10

\* The operator of a frame does not change when it goes on.
LEMMA SameLook ==
  ASSUME NEW s \in Seq(Frame), s # << >>, NEW g \in Frame, g.op = Top(s).op
  PROVE  /\ Look(Append(Pop(s), g)) = Look(s)
         /\ Len(Append(Pop(s), g)) = Len(s)
<1>1. Pop(s) \in Seq(Frame) /\ Top(s) \in Frame /\ Len(s) \in Nat /\ Len(Pop(s)) = Len(s) - 1
  BY PopLemma
<1>2. Append(Pop(s), Top(s)) = s
  BY PopPush
<1>3. IsLook(g) <=> IsLook(Top(s))
  BY DEF IsLook, Id
<1> QED
  BY ZenonT(60), <1>1, <1>2, <1>3, PushLook, AppendLemma

LEMMA PopLook ==
  ASSUME NEW s \in Seq(Frame), s # << >>
  PROVE  /\ Pop(s) \in Seq(Frame) /\ Top(s) \in Frame
         /\ Cardinality(Look(Pop(s))) \in Nat
         /\ Look(s) = IF IsLook(Top(s)) THEN Look(Pop(s)) \cup {Len(s)} ELSE Look(Pop(s))
         /\ Cardinality(Look(s)) = Cardinality(Look(Pop(s))) + IF IsLook(Top(s)) THEN 1 ELSE 0
<1>1. Pop(s) \in Seq(Frame) /\ Top(s) \in Frame /\ Len(s) \in Nat /\ Len(Pop(s)) = Len(s) - 1
  BY PopLemma
<1>2. Append(Pop(s), Top(s)) = s
  BY PopPush
<1>3. /\ Cardinality(Look(Pop(s))) \in Nat
      /\ Look(s) = IF IsLook(Top(s)) THEN Look(Pop(s)) \cup {Len(Pop(s)) + 1} ELSE Look(Pop(s))
      /\ Cardinality(Look(s)) = Cardinality(Look(Pop(s))) + IF IsLook(Top(s)) THEN 1 ELSE 0
  BY <1>1, <1>2, PushLook
<1>4. Len(Pop(s)) + 1 = Len(s)
  BY <1>1
<1> QED
  BY <1>1, <1>3, <1>4

\* The C stack holds fewer frames than an aint can count.
StackFits == uiLookaroundAtStart + Len(stack) =< APG_UNDEFINED

LookInv == Parsing => uiInLookaround = uiLookaroundAtStart + Cardinality(Look(stack))

LEMMA LookStep ==
  ASSUME Contract, IInv, IInv', LookInv, Parsing, Parsing', StackFits', Shape,
         UNCHANGED <<app, parse>>
  PROVE  uiInLookaround' = uiLookaroundAtStart + Cardinality(Look(stack'))
<1>1. /\ stack \in Seq(Frame) /\ uiInLookaround \in Nat /\ uiLookaroundAtStart \in Nat
      /\ uiLookaroundAtStart' = uiLookaroundAtStart
  BY DEF IInv, TypeOK, parse
<1>2. uiInLookaround = uiLookaroundAtStart + Cardinality(Look(stack))
  BY DEF LookInv
<1>3. CASE NodeOpened
  <2>1. PICK f \in Frame :
          /\ stack' = Append(stack, f)
          /\ uiInLookaround' = IF IsLook(f) THEN Increment(uiInLookaround) ELSE uiInLookaround
    BY <1>3 DEF NodeOpened
  <2>2. /\ Cardinality(Look(stack)) \in Nat /\ Cardinality(Look(stack)) =< Len(stack)
        /\ Cardinality(Look(stack')) = Cardinality(Look(stack)) + IF IsLook(f) THEN 1 ELSE 0
    BY <1>1, <2>1, PushLook
  <2>3. Len(stack) \in Nat /\ Len(stack') = Len(stack) + 1
    BY <1>1, <2>1, AppendLemma, LenProperties
  <2>4. uiInLookaround < APG_UNDEFINED
    BY <1>1, <1>2, <2>2, <2>3, UndefinedAssumption DEF StackFits
  <2>5. Increment(uiInLookaround) = uiInLookaround + 1
    BY <1>1, <2>4, UndefinedAssumption DEF Increment
  <2> QED
    BY <1>1, <1>2, <2>1, <2>2, <2>5
<1>4. CASE NodePassed
  BY <1>2, <1>4 DEF NodePassed
<1>5. CASE NodeGoesOn
  BY <1>1, <1>2, <1>5, SameLook DEF NodeGoesOn
<1>6. CASE NodeClosed
  <2>1. /\ stack # << >> /\ stack' = Pop(stack)
        /\ uiInLookaround' = IF IsLook(Top(stack)) THEN Decrement(uiInLookaround)
                                                  ELSE uiInLookaround
    BY <1>6 DEF NodeClosed
  <2>2. /\ Cardinality(Look(stack')) \in Nat
        /\ Cardinality(Look(stack)) = Cardinality(Look(stack')) + IF IsLook(Top(stack)) THEN 1 ELSE 0
    BY <1>1, <2>1, PopLook
  <2>3. IsLook(Top(stack)) => Decrement(uiInLookaround) = uiInLookaround - 1
    BY <1>1, <1>2, <2>2 DEF Decrement
  <2> QED
    BY <1>1, <1>2, <2>1, <2>2, <2>3
<1> QED
  BY <1>3, <1>4, <1>5, <1>6 DEF Shape

\* Look depends on the grammar and the start rule, which a parse does not change.
LEMMA SameGrammar ==
  ASSUME UNCHANGED <<app, parse>>
  PROVE  /\ Look(stack)' = Look(stack')
         /\ \A f : Id(f)' = Id(f) /\ (IsLook(f)' <=> IsLook(f))
BY DEF app, parse, Look, IsLook, Id, Opcode

LEMMA LookNext ==
  ASSUME Contract, IInv, IInv', LookInv, StackFits', [Next]_vars
  PROVE  LookInv'
<1> SUFFICES ASSUME Parsing'
             PROVE  uiInLookaround' = uiLookaroundAtStart' + Cardinality(Look(stack)')
  BY DEF LookInv
<1>1. CASE \E c \in Configs : ParserParse(c)
  <2>1. stack' = << >> /\ uiLookaroundAtStart' = uiInLookaround /\ uiInLookaround' = uiInLookaround
    BY <1>1 DEF ParserParse, Call
  <2>2. Look(stack)' = {}
    BY <2>1, EmptySeq DEF Look
  <2>3. uiInLookaround \in Nat
    BY DEF IInv, TypeOK
  <2> QED
    BY <2>1, <2>2, <2>3, FS_EmptySet
<1>2. CASE Parsing /\ UNCHANGED <<app, parse>> /\ Shape
  BY <1>2, LookStep, SameGrammar DEF parse
<1>3. CASE Parsing /\ UNCHANGED <<app, parse>> /\ UNCHANGED <<pc, stack, uiInLookaround>>
  BY <1>3, SameGrammar DEF LookInv, parse
<1> QED
  BY <1>1, <1>2, <1>3, Transition

\* The invariant, the counter and the stack of a parse on a C stack that is not exhausted.
LEMMA LookInvariance ==
  ASSUME Contract
  PROVE  Spec /\ []StackFits => []LookInv
<1>1. Init => LookInv
  BY DEF Init, LookInv, Parsing
<1>2. IInv /\ IInv' /\ LookInv /\ StackFits' /\ [Next]_vars => LookInv'
  BY LookNext
<1>3. Spec => []IInv
  BY Invariance
<1> QED
  BY <1>1, <1>2, <1>3, PTL DEF Spec

\* uiInLookaround counts the look-arounds on the stack, however they end: a parse that
\* finishes leaves it as it found it.
THEOREM LookaroundsCounted ==
  Contract => (Spec /\ []StackFits => []LookaroundBalanced)
<1> SUFFICES ASSUME Contract PROVE Spec /\ []StackFits => []LookaroundBalanced
  OBVIOUS
<1>1. LookaroundFrames = Look(stack)
  BY DEF LookaroundFrames, Look, IsLook, Id, LookIds
<1>2. LookInv => LookaroundBalanced
  BY <1>1 DEF LookInv, LookaroundBalanced
<1> QED
  BY <1>2, LookInvariance, PTL

-----------------------------------------------------------------------------
(* The open entries.                                                       *)

\* the entries of the open stack that the operators on a stack account for
Entries(s) ==
  {e \in (1..Len(s)) \X {1, 2} :
     /\ Id(s[e[1]]) # "ALT"
     /\ e[2] = 2 => Id(s[e[1]]) = "REP"
     /\ \A m \in Look(s) : e[1] =< m}

EntryCount(f) == CASE Id(f) = "ALT" -> 0 [] Id(f) = "REP" -> 2 [] OTHER -> 1

\* An operator that is called outside of every look-around adds its entries, one that is
\* called within a look-around adds none.
LEMMA PushEntries ==
  ASSUME NEW s \in Seq(Frame), NEW f \in Frame
  PROVE  /\ IsFiniteSet(Entries(s)) /\ Cardinality(Entries(s)) \in Nat
         /\ Cardinality(Entries(Append(s, f))) =
              Cardinality(Entries(s)) + IF Look(s) = {} THEN EntryCount(f) ELSE 0
<1> DEFINE n == Len(s)
           t == Append(s, f)
           one == <<n + 1, 1>>
           two == <<n + 1, 2>>
<1>1. n \in Nat
  BY LenProperties
<1>2. Len(t) = n + 1 /\ (\A m \in 1..n : t[m] = s[m]) /\ t[n + 1] = f
  BY AppendLemma DEF Top
<1>3. IsFiniteSet(Entries(s)) /\ Cardinality(Entries(s)) \in Nat
  <2>1. IsFiniteSet(1..n) /\ IsFiniteSet({1, 2})
    <3>1. IsFiniteSet(1..n)
      BY <1>1, FS_Interval
    <3>2. IsFiniteSet({1})
      BY FS_Singleton
    <3>3. IsFiniteSet({1} \cup {2})
      BY <3>2, FS_AddElement
    <3>4. {1} \cup {2} = {1, 2}
      OBVIOUS
    <3> QED
      BY <3>1, <3>3, <3>4
  <2>2. IsFiniteSet((1..n) \X {1, 2})
    BY <2>1, FS_Product
  <2>3. Entries(s) \in SUBSET ((1..n) \X {1, 2})
    BY DEF Entries
  <2> QED
    BY <2>2, <2>3, FS_Subset, FS_CardinalityType
<1>4. Look(t) = IF IsLook(f) THEN Look(s) \cup {n + 1} ELSE Look(s)
  BY PushLook
<1>5. Look(s) \subseteq 1..n
  BY DEF Look
<1>6. \A m \in 1..n : \A j \in {1, 2} : <<m, j>> \in Entries(t) <=> <<m, j>> \in Entries(s)
  <2> TAKE m \in 1..n
  <2> TAKE j \in {1, 2}
  <2>1. (\A p \in Look(t) : m =< p) <=> (\A p \in Look(s) : m =< p)
    BY <1>1, <1>4
  <2>2. m \in 1..Len(t) /\ t[m] = s[m]
    BY <1>1, <1>2
  <2>3. <<m, j>>[1] = m /\ <<m, j>>[2] = j
    OBVIOUS
  <2> QED
    BY <2>1, <2>2, <2>3 DEF Entries
<1>7. \A j \in {1, 2} : <<n + 1, j>> \in Entries(t) <=>
        Look(s) = {} /\ Id(f) # "ALT" /\ (j = 2 => Id(f) = "REP")
  <2> TAKE j \in {1, 2}
  <2>1. (\A p \in Look(t) : n + 1 =< p) <=> Look(s) = {}
    BY <1>1, <1>4, <1>5
  <2>2. n + 1 \in 1..Len(t) /\ t[n + 1] = f
    BY <1>1, <1>2
  <2>3. <<n + 1, j>>[1] = n + 1 /\ <<n + 1, j>>[2] = j
    OBVIOUS
  <2> QED
    BY <2>1, <2>2, <2>3 DEF Entries
<1>8. \A e \in Entries(t) : e \in Entries(s) \/ \E j \in {1, 2} : e = <<n + 1, j>>
  <2> TAKE e \in Entries(t)
  <2>1. PICK m \in 1..(n + 1), j \in {1, 2} : e = <<m, j>>
    BY <1>2 DEF Entries
  <2>2. m \in 1..n \/ m = n + 1
    BY <1>1
  <2> QED
    BY <1>6, <2>1, <2>2
<1>9. \A e \in Entries(s) : \E m \in 1..n : \E j \in {1, 2} : e = <<m, j>>
  BY DEF Entries
<1>10. \A e \in Entries(s) : e \in Entries(t)
  <2> TAKE e \in Entries(s)
  <2>1. PICK m \in 1..n, j \in {1, 2} : e = <<m, j>>
    BY <1>9
  <2> QED
    BY <1>6, <2>1
<1>11. one \notin Entries(s) /\ two \notin Entries(s) /\ one # two
  BY <1>1, <1>9
<1> HIDE DEF t
<1>12. CASE Look(s) # {} \/ Id(f) = "ALT"
  <2>1. Entries(t) = Entries(s)
    <3>1. \A e \in Entries(t) : e \in Entries(s)
      BY <1>7, <1>8, <1>12
    <3>2. \A e \in Entries(s) : e \in Entries(t)
      BY <1>10
    <3> QED
      BY <3>1, <3>2
  <2> QED
    BY <1>3, <1>12, <2>1 DEF EntryCount, t
<1>13. CASE Look(s) = {} /\ Id(f) # "ALT" /\ Id(f) # "REP"
  <2>1. Entries(t) = Entries(s) \cup {one}
    <3>1. \A e \in Entries(t) : e \in Entries(s) \/ e = one
      BY <1>7, <1>8, <1>13
    <3>2. \A e \in Entries(s) : e \in Entries(t)
      BY <1>10
    <3>3. one \in Entries(t)
      BY <1>7, <1>13
    <3> QED
      BY <3>1, <3>2, <3>3
  <2>2. Cardinality(Entries(t)) = Cardinality(Entries(s)) + 1
    <3>1. one \notin Entries(s)
      BY <1>11
    <3> HIDE DEF one
    <3> QED
      BY <1>3, <2>1, <3>1, FS_AddElement
  <2> QED
    BY <1>3, <1>13, <2>2 DEF EntryCount, t
<1>14. CASE Look(s) = {} /\ Id(f) = "REP"
  <2> DEFINE u == Entries(s) \cup {one}
  <2>1. Entries(t) = u \cup {two}
    <3>1. \A e \in Entries(t) : e \in Entries(s) \/ e = one \/ e = two
      BY <1>8
    <3>2. \A e \in Entries(s) : e \in Entries(t)
      BY <1>10
    <3>3. one \in Entries(t) /\ two \in Entries(t)
      BY <1>7, <1>14
    <3> QED
      BY <3>1, <3>2, <3>3
  <2>2. IsFiniteSet(u) /\ Cardinality(u) = Cardinality(Entries(s)) + 1
    <3>1. one \notin Entries(s)
      BY <1>11
    <3> HIDE DEF one
    <3> QED
      BY <1>3, <3>1, FS_AddElement
  <2>3. two \notin u
    BY <1>11
  <2>4. Cardinality(Entries(t)) = Cardinality(u) + 1
    <3> HIDE DEF u, two
    <3> QED
      BY <2>1, <2>2, <2>3, FS_AddElement
  <2>5. EntryCount(f) = 2
    BY <1>14 DEF EntryCount
  <2> QED
    BY <1>3, <1>14, <2>2, <2>4, <2>5 DEF t
<1> QED
  BY <1>12, <1>13, <1>14

LEMMA SameEntries ==
  ASSUME NEW s \in Seq(Frame), s # << >>, NEW g \in Frame, g.op = Top(s).op
  PROVE  Cardinality(Entries(Append(Pop(s), g))) = Cardinality(Entries(s))
<1>1. Pop(s) \in Seq(Frame) /\ Top(s) \in Frame /\ Append(Pop(s), Top(s)) = s
  BY PopLemma, PopPush
<1>2. EntryCount(g) = EntryCount(Top(s))
  BY DEF EntryCount, Id
<1> QED
  BY <1>1, <1>2, PushEntries

LEMMA PopEntries ==
  ASSUME NEW s \in Seq(Frame), s # << >>
  PROVE  /\ Cardinality(Entries(Pop(s))) \in Nat
         /\ Cardinality(Entries(s)) =
              Cardinality(Entries(Pop(s))) + IF Look(Pop(s)) = {} THEN EntryCount(Top(s)) ELSE 0
<1>1. Pop(s) \in Seq(Frame) /\ Top(s) \in Frame /\ Append(Pop(s), Top(s)) = s
  BY PopLemma, PopPush
<1> QED
  BY <1>1, PushEntries

-----------------------------------------------------------------------------
(* What the hooks do to the open stack.                                    *)

\* Without an AST, or within a look-around, the hooks do nothing.
LEMMA HooksOff ==
  ASSUME NEW a, NEW la, ~Recording(a, la)
  PROVE  /\ AST_OP_OPEN(a, la) = a
         /\ \A state : AST_OP_CLOSE(a, la, state) = a
         /\ \A i, offset : AST_RULE_OPEN(a, la, i, offset) = a
         /\ \A i, state, offset, length : AST_RULE_CLOSE(a, la, i, state, offset, length) = a
BY DEF AST_OP_OPEN, AST_OP_CLOSE, AST_RULE_OPEN, AST_RULE_CLOSE

\* The hooks that open a node add an entry: the record count.
LEMMA OpenAdds ==
  ASSUME NEW a \in AstSet, NEW la, Recording(a, la)
  PROVE  /\ AST_OP_OPEN(a, la) \in AstSet
         /\ Recording(AST_OP_OPEN(a, la), la)
         /\ AST_OP_OPEN(a, la) = [a EXCEPT !.open = Append(@, Len(a.records))]
         /\ Len(AST_OP_OPEN(a, la).open) = Len(a.open) + 1
<1>1. Len(a.records) \in Nat /\ a.open \in Seq(Nat) /\ Len(a.open) \in Nat
  BY LenProperties DEF AstSet
<1>2. Len(Append(a.open, Len(a.records))) = Len(a.open) + 1
  BY <1>1, AppendLemma
<1>3. AST_OP_OPEN(a, la) = [a EXCEPT !.open = Append(@, Len(a.records))]
  BY DEF AST_OP_OPEN, AstOpOpen
<1> QED
  BY <1>2, <1>3, OpenHook DEF AstSet, Recording

LEMMA RuleOpenAdds ==
  ASSUME NEW a \in AstSet, NEW la, NEW i \in Nat, NEW offset \in Nat, Recording(a, la)
  PROVE  /\ AST_RULE_OPEN(a, la, i, offset) \in AstSet
         /\ Recording(AST_RULE_OPEN(a, la, i, offset), la)
         /\ Len(AST_RULE_OPEN(a, la, i, offset).open) = Len(a.open) + 1
<1>1. AstOpOpen(a) \in AstSet /\ Len(a.open) \in Nat
  BY AstOpOpenType, LenProperties DEF AstSet
<1>2. /\ AstRuleOpen(a, i, offset).open = AstOpOpen(a).open
      /\ AstRuleOpen(a, i, offset).attached = AstOpOpen(a).attached
  BY <1>1 DEF AstRuleOpen, AstSet
<1>3. /\ AST_OP_OPEN(a, la) = AstOpOpen(a)
      /\ AST_RULE_OPEN(a, la, i, offset) = AstRuleOpen(a, i, offset)
  BY DEF AST_RULE_OPEN, AST_OP_OPEN
<1>4. Len(AstRuleOpen(a, i, offset).open) = Len(a.open) + 1
  BY <1>2, <1>3, OpenAdds
<1>5. Recording(AstRuleOpen(a, i, offset), la)
  BY <1>2, <1>3, OpenAdds DEF Recording
<1>6. AST_RULE_OPEN(a, la, i, offset) \in AstSet
  BY RuleOpenHook
<1> QED
  BY <1>3, <1>4, <1>5, <1>6

\* Those that close it take one away, if there is one.
LEMMA CloseTakes ==
  ASSUME NEW a \in AstSet, NEW la, NEW state, Recording(a, la), a.open # << >>
  PROVE  /\ AST_OP_CLOSE(a, la, state) \in AstSet
         /\ Recording(AST_OP_CLOSE(a, la, state), la)
         /\ Len(AST_OP_CLOSE(a, la, state).open) = Len(a.open) - 1
<1>1. Len(a.open) \in Nat /\ Len(Pop(a.open)) = Len(a.open) - 1
  BY PopLemma DEF AstSet
<1>2. AST_OP_CLOSE(a, la, state) = AstOpClose(a, state)
  BY DEF AST_OP_CLOSE
<1>3. AstOpClose(a, state).open = Pop(a.open) /\ AstOpClose(a, state).attached = a.attached
  BY DEF AstOpClose, AstSet
<1> QED
  BY <1>1, <1>2, <1>3, CloseHook DEF Recording

LEMMA RuleCloseTakes ==
  ASSUME NEW a \in AstSet, NEW la, NEW i \in Nat, NEW state, NEW offset \in Nat, NEW length \in Nat,
         Recording(a, la), a.open # << >>
  PROVE  /\ AST_RULE_CLOSE(a, la, i, state, offset, length) \in AstSet
         /\ Recording(AST_RULE_CLOSE(a, la, i, state, offset, length), la)
         /\ Len(AST_RULE_CLOSE(a, la, i, state, offset, length).open) = Len(a.open) - 1
<1> DEFINE b == [a EXCEPT !.open = Pop(@)]
<1>1. Len(a.open) \in Nat /\ Len(Pop(a.open)) = Len(a.open) - 1 /\ Pop(a.open) \in Seq(Nat)
  BY PopLemma DEF AstSet
<1>2. b \in AstSet /\ b.open = Pop(a.open) /\ b.attached = a.attached
  BY <1>1 DEF AstSet
<1>3. /\ AstRuleMatch(b, i, offset, length).open = b.open
      /\ AstRuleMatch(b, i, offset, length).attached = b.attached
  BY <1>2 DEF AstRuleMatch, XThrow, AstSet
<1>4. \A count : /\ AstRuleNomatch(b, count).open = b.open
                 /\ AstRuleNomatch(b, count).attached = b.attached
  BY <1>2 DEF AstRuleNomatch, XThrow, AstSet
<1>5. AST_RULE_CLOSE(a, la, i, state, offset, length) =
        IF state = "MATCH" THEN AstRuleMatch(b, i, offset, length) ELSE AstRuleNomatch(b, Top(a.open))
  BY DEF AST_RULE_CLOSE, AstRuleClose
<1>6. /\ AST_RULE_CLOSE(a, la, i, state, offset, length).open = b.open
      /\ AST_RULE_CLOSE(a, la, i, state, offset, length).attached = a.attached
  BY <1>2, <1>3, <1>4, <1>5
<1> QED
  BY <1>1, <1>2, <1>6, RuleCloseHook DEF Recording

OpenInv ==
  (Parsing /\ ast.attached /\ uiLookaroundAtStart = 0) => Len(ast.open) = Cardinality(Entries(stack))

\* The rule a frame of vRnm stands for.
LEMMA RuleOfFrame ==
  ASSUME Contract, IInv, Parsing, NEW f \in Frame, FrameOK(f)
  PROVE  Opcode(f.op).index \in Nat /\ f.beg \in Nat
<1>1. f.op \in 0..Len(grammar.ops)
  BY DEF FrameOK
<1>2. Opcode(f.op) \in OpcodeSet
  BY <1>1, RunFacts, OpcodeFacts
<1> QED
  BY <1>2 DEF OpcodeSet, Frame

LEMMA OpenedAdds ==
  ASSUME Contract, IInv, Parsing, NEW f \in Frame, FrameOK(f)
  PROVE  /\ ~Recording(ast, uiInLookaround) => OpenedAst(f, ast, uiInLookaround) = ast
         /\ Recording(ast, uiInLookaround) =>
              Len(OpenedAst(f, ast, uiInLookaround).open) = Len(ast.open) + EntryCount(f)
<1> DEFINE la == uiInLookaround
           a == AST_OP_OPEN(ast, la)
<1>1. ast \in AstSet /\ Len(ast.open) \in Nat
  BY RunFacts, LenProperties DEF AstSet
<1>2. CASE ~Recording(ast, la)
  BY <1>2, HooksOff DEF OpenedAst
<1>3. CASE Recording(ast, la)
  <2>1. a \in AstSet /\ Recording(a, la) /\ Len(a.open) = Len(ast.open) + 1
    BY <1>1, <1>3, OpenAdds
  <2>2. CASE Id(f) = "ALT"
    BY <1>1, <1>3, <2>2 DEF OpenedAst, EntryCount
  <2>3. CASE Id(f) = "REP"
    <3>1. Len(AST_OP_OPEN(a, la).open) = Len(a.open) + 1
      BY <2>1, OpenAdds
    <3>2. OpenedAst(f, ast, la) = AST_OP_OPEN(a, la) /\ EntryCount(f) = 2
      BY <2>3 DEF OpenedAst, EntryCount
    <3> QED
      BY <1>1, <1>3, <2>1, <3>1, <3>2
  <2>4. CASE Id(f) = "RNM"
    <3>1. EntryCount(f) = 1
          /\ OpenedAst(f, ast, la) = AST_RULE_OPEN(ast, la, Opcode(f.op).index, f.beg)
      BY <2>4 DEF OpenedAst, EntryCount
    <3>2. Opcode(f.op).index \in Nat /\ f.beg \in Nat
      BY RuleOfFrame
    <3>3. Len(AST_RULE_OPEN(ast, la, Opcode(f.op).index, f.beg).open) = Len(ast.open) + 1
      BY <1>1, <1>3, <3>2, RuleOpenAdds
    <3> QED
      BY <1>3, <3>1, <3>3
  <2>5. CASE Id(f) \notin {"ALT", "REP", "RNM"}
    BY <1>3, <2>1, <2>5 DEF OpenedAst, EntryCount
  <2> QED
    BY <2>2, <2>3, <2>4, <2>5
<1> QED
  BY <1>2, <1>3

LEMMA ClosedTakes ==
  ASSUME Contract, IInv, NodeClosed
  PROVE  /\ ~Recording(ast, uiInLookaround') => ast' = ast
         /\ (Recording(ast, uiInLookaround') /\ Len(ast.open) >= EntryCount(Top(stack))) =>
              Len(ast'.open) = Len(ast.open) - EntryCount(Top(stack))
<1> DEFINE f == Top(stack)
           la == uiInLookaround
           lb == uiInLookaround'
           a == AST_OP_CLOSE(ast, la, uiOpState)
<1>1. pc = "return" /\ stack # << >> /\ Parsing /\ f \in Frame /\ FrameOK(f)
  BY ReturnFacts DEF NodeClosed, Parsing, Fits
<1>2. ast \in AstSet /\ Len(ast.open) \in Nat /\ ast.open \in Seq(Nat)
  BY <1>1, RunFacts, LenProperties DEF AstSet
<1>3. ClosedAst(f) /\ (~IsLook(f) => lb = la)
  BY DEF NodeClosed
<1>4. Id(f) \in {"ALT", "CAT", "REP", "RNM"} => lb = la
  BY <1>3, Kinds DEF IsLook
<1>5. CASE ~Recording(ast, lb)
  BY <1>3, <1>4, <1>5, HooksOff DEF ClosedAst
<1>6. CASE Recording(ast, lb) /\ Len(ast.open) >= EntryCount(f)
  <2>1. Len(ast.open) >= 1 => ast.open # << >>
    BY <1>2, EmptySeq
  <2>2. CASE Id(f) = "ALT"
    BY <1>2, <1>3, <1>6, <2>2 DEF ClosedAst, EntryCount
  <2>3. CASE Id(f) = "REP"
    <3>1. lb = la /\ EntryCount(f) = 2 /\ ast' = AST_OP_CLOSE(a, la, uiOpState')
      BY <1>3, <1>4, <2>3 DEF ClosedAst, EntryCount
    <3>2. a \in AstSet /\ Recording(a, la) /\ Len(a.open) = Len(ast.open) - 1
      BY <1>2, <1>6, <2>1, <3>1, CloseTakes
    <3>3. a.open # << >>
      BY <1>2, <1>6, <3>1, <3>2, EmptySeq
    <3>4. Len(AST_OP_CLOSE(a, la, uiOpState').open) = Len(a.open) - 1
      BY <3>2, <3>3, CloseTakes
    <3> QED
      BY <1>2, <1>6, <3>1, <3>2, <3>4
  <2>4. CASE Id(f) = "RNM"
    <3> DEFINE r == Opcode(f.op).index
    <3>1. lb = la /\ EntryCount(f) = 1 /\ uiPhraseLength' \in Nat
          /\ ast' = AST_RULE_CLOSE(ast, la, r, uiOpState', f.beg, uiPhraseLength')
      BY <1>3, <1>4, <2>4 DEF ClosedAst, EntryCount
    <3>2. r \in Nat /\ f.beg \in Nat
      BY <1>1, RuleOfFrame
    <3>3. ast.open # << >>
      BY <1>6, <2>1, <3>1
    <3>4. Len(ast'.open) = Len(ast.open) - 1
      BY <1>2, <1>6, <3>1, <3>2, <3>3, RuleCloseTakes
    <3> QED
      BY <1>6, <3>1, <3>4
  <2>5. CASE Id(f) \notin {"ALT", "REP", "RNM"}
    <3>1. EntryCount(f) = 1
      BY <2>5 DEF EntryCount
    <3>2. PICK state : ast' = AST_OP_CLOSE(ast, lb, state)
      BY <1>3, <1>4, <2>5 DEF ClosedAst
    <3>3. ast.open # << >>
      BY <1>6, <2>1, <3>1
    <3>4. Len(ast'.open) = Len(ast.open) - 1
      BY <1>2, <1>6, <3>2, <3>3, CloseTakes
    <3> QED
      BY <1>6, <3>1, <3>4
  <2> QED
    BY <2>2, <2>3, <2>4, <2>5
<1> QED
  BY <1>5, <1>6

\* With no look-around left open by an earlier parse, the hooks record exactly when there is
\* no look-around on the stack.
LEMMA LookFree ==
  ASSUME NEW s \in Seq(Frame)
  PROVE  0 + Cardinality(Look(s)) = 0 <=> Look(s) = {}
<1>1. IsFiniteSet(1..Len(s))
  BY FS_Interval, LenProperties
<1>2. Look(s) \in SUBSET (1..Len(s))
  BY DEF Look
<1>3. IsFiniteSet(Look(s)) /\ Cardinality(Look(s)) \in Nat
  BY <1>1, <1>2, FS_Subset, FS_CardinalityType
<1> QED
  BY <1>3, FS_EmptySet

LEMMA OpenStep ==
  ASSUME Contract, IInv, IInv', LookInv, LookInv', OpenInv, Parsing, Parsing', Shape,
         UNCHANGED <<app, parse>>, ast.attached, uiLookaroundAtStart = 0
  PROVE  Len(ast'.open) = Cardinality(Entries(stack'))
<1> DEFINE la == uiInLookaround
           lb == uiInLookaround'
<1>1. stack \in Seq(Frame) /\ ast \in AstSet /\ Len(ast.open) \in Nat /\ ast.open \in Seq(Nat)
  BY LenProperties DEF IInv, TypeOK, AstSet
<1>2. Recording(ast, la) <=> Look(stack) = {}
  BY <1>1, LookFree DEF LookInv, Recording
<1>3. Recording(ast, lb) <=> Look(stack') = {}
  <2>1. stack' \in Seq(Frame) /\ uiLookaroundAtStart' = 0 /\ Look(stack)' = Look(stack')
    BY SameGrammar DEF parse, IInv, TypeOK
  <2>2. lb = 0 + Cardinality(Look(stack'))
    BY <2>1 DEF LookInv
  <2> QED
    BY <2>1, <2>2, LookFree DEF Recording
<1>4. Len(ast.open) = Cardinality(Entries(stack))
  BY DEF OpenInv
<1>5. CASE NodeOpened
  <2>1. PICK f \in Frame :
          /\ FrameOK(f) /\ stack' = Append(stack, f)
          /\ ast' = OpenedAst(f, ast, la)
    BY <1>5 DEF NodeOpened
  <2>2. /\ ~Recording(ast, la) => ast' = ast
        /\ Recording(ast, la) => Len(ast'.open) = Len(ast.open) + EntryCount(f)
    BY <2>1, OpenedAdds
  <2>3. Cardinality(Entries(stack')) =
          Cardinality(Entries(stack)) + IF Look(stack) = {} THEN EntryCount(f) ELSE 0
    BY <1>1, <2>1, PushEntries
  <2> QED
    BY <1>1, <1>2, <1>4, <2>2, <2>3
<1>6. CASE NodePassed
  <2>1. stack' = stack
    BY <1>6 DEF NodePassed
  <2>2. CASE ast' = ast
    BY <1>4, <2>1, <2>2
  <2>3. ASSUME NEW i \in Nat, NEW offset \in Nat, NEW length \in Nat,
               ast' = AST_RULE_CLOSE(AST_RULE_OPEN(ast, la, i, offset), la, i, uiOpState',
                                     offset, length)
        PROVE  Len(ast'.open) = Len(ast.open)
    <3> DEFINE a == AST_RULE_OPEN(ast, la, i, offset)
    <3>1. CASE Recording(ast, la)
      <4>1. a \in AstSet /\ Recording(a, la) /\ Len(a.open) = Len(ast.open) + 1
        BY <1>1, <3>1, RuleOpenAdds
      <4>2. a.open # << >>
        BY <1>1, <4>1, EmptySeq
      <4> HIDE DEF a
      <4>3. Len(ast'.open) = Len(a.open) - 1
        BY <2>3, <4>1, <4>2, RuleCloseTakes DEF a
      <4> QED
        BY <1>1, <4>1, <4>3
    <3>2. CASE ~Recording(ast, la)
      BY <2>3, <3>2, HooksOff
    <3> QED
      BY <3>1, <3>2
  <2> QED
    BY <1>4, <1>6, <2>1, <2>2, <2>3 DEF NodePassed
<1>7. CASE NodeGoesOn
  <2>1. PICK g \in Frame :
          /\ g.op = Top(stack).op /\ stack # << >>
          /\ stack' = Append(Pop(stack), g)
          /\ \/ ast' = ast
             \/ /\ Id(g) = "REP"
                /\ ast' = AST_OP_OPEN(AST_OP_CLOSE(ast, la, uiOpState), la)
    BY <1>7 DEF NodeGoesOn
  <2>2. Cardinality(Entries(stack')) = Cardinality(Entries(stack))
    BY <1>1, <2>1, SameEntries
  <2>3. CASE ast' = ast \/ ~Recording(ast, la)
    <3>1. ast' = ast
      BY <2>1, <2>3, HooksOff
    <3> QED
      BY <1>4, <2>2, <3>1
  <2>4. CASE /\ Recording(ast, la) /\ Id(g) = "REP"
             /\ ast' = AST_OP_OPEN(AST_OP_CLOSE(ast, la, uiOpState), la)
    <3> DEFINE a == AST_OP_CLOSE(ast, la, uiOpState)
    <3>1. EntryCount(Top(stack)) = 2
      BY <2>1, <2>4 DEF EntryCount, Id
    <3>2. Look(Pop(stack)) = {}
      BY <1>1, <1>2, <2>1, <2>4, PopLook
    <3>3. Cardinality(Entries(stack)) >= 2
      BY <1>1, <2>1, <3>1, <3>2, PopEntries
    <3>4. ast.open # << >>
      BY <1>1, <1>4, <3>3, EmptySeq
    <3>5. a \in AstSet /\ Recording(a, la) /\ Len(a.open) = Len(ast.open) - 1
      BY <1>1, <2>4, <3>4, CloseTakes
    <3>6. Len(ast'.open) = Len(a.open) + 1
      BY <2>4, <3>5, OpenAdds
    <3> HIDE DEF a
    <3> QED
      BY <1>1, <1>4, <2>2, <3>5, <3>6
  <2> QED
    BY <2>1, <2>3, <2>4
<1>8. CASE NodeClosed
  <2> DEFINE f == Top(stack)
  <2>1. stack # << >> /\ stack' = Pop(stack)
    BY <1>8 DEF NodeClosed
  <2>2. /\ Cardinality(Entries(stack')) \in Nat
        /\ Cardinality(Entries(stack)) =
             Cardinality(Entries(stack')) + IF Look(stack') = {} THEN EntryCount(f) ELSE 0
    BY <1>1, <2>1, PopEntries
  <2>3. EntryCount(f) \in {0, 1, 2}
    BY DEF EntryCount
  <2>4. /\ ~Recording(ast, lb) => ast' = ast
        /\ (Recording(ast, lb) /\ Len(ast.open) >= EntryCount(f)) =>
              Len(ast'.open) = Len(ast.open) - EntryCount(f)
    BY <1>8, ClosedTakes
  <2>5. CASE Look(stack') = {}
    <3>1. Len(ast.open) = Cardinality(Entries(stack')) + EntryCount(f)
      BY <1>4, <2>2, <2>5
    <3>2. Len(ast.open) >= EntryCount(f)
      BY <2>2, <2>3, <3>1
    <3>3. Len(ast'.open) = Len(ast.open) - EntryCount(f)
      BY <1>3, <2>4, <2>5, <3>2
    <3> QED
      BY <2>2, <2>3, <3>1, <3>3
  <2>6. CASE Look(stack') # {}
    BY <1>3, <1>4, <2>2, <2>4, <2>6
  <2> QED
    BY <2>5, <2>6
<1> QED
  BY <1>5, <1>6, <1>7, <1>8 DEF Shape

\* No hook attaches or detaches the ast object or sets its callbacks.
LEMMA OpHookKeeps ==
  ASSUME NEW a \in AstSet, NEW la, NEW state
  PROVE  /\ AST_OP_OPEN(a, la) \in AstSet /\ AST_OP_CLOSE(a, la, state) \in AstSet
         /\ AST_OP_OPEN(a, la).attached = a.attached
         /\ AST_OP_OPEN(a, la).callbacks = a.callbacks
         /\ AST_OP_CLOSE(a, la, state).attached = a.attached
         /\ AST_OP_CLOSE(a, la, state).callbacks = a.callbacks
BY OpenHook, CloseHook DEF AST_OP_OPEN, AstOpOpen, AST_OP_CLOSE, AstOpClose, XThrow, AstSet

LEMMA RuleOpenKeeps ==
  ASSUME NEW a \in AstSet, NEW la, NEW i \in Nat, NEW offset \in Nat
  PROVE  /\ AST_RULE_OPEN(a, la, i, offset) \in AstSet
         /\ AST_RULE_OPEN(a, la, i, offset).attached = a.attached
         /\ AST_RULE_OPEN(a, la, i, offset).callbacks = a.callbacks
<1>1. AST_RULE_OPEN(a, la, i, offset) \in AstSet
  BY RuleOpenHook
<1>2. /\ AST_RULE_OPEN(a, la, i, offset).attached = a.attached
      /\ AST_RULE_OPEN(a, la, i, offset).callbacks = a.callbacks
  BY DEF AST_RULE_OPEN, AstRuleOpen, AstOpOpen, AstSet
<1> QED
  BY <1>1, <1>2

LEMMA RuleCloseKeeps ==
  ASSUME NEW a \in AstSet, NEW la, NEW i, NEW state, NEW offset, NEW length
  PROVE  /\ AST_RULE_CLOSE(a, la, i, state, offset, length).attached = a.attached
         /\ AST_RULE_CLOSE(a, la, i, state, offset, length).callbacks = a.callbacks
         /\ [AST_RULE_CLOSE(a, la, i, state, offset, length) EXCEPT !.error = FALSE].callbacks = a.callbacks
<1>1. ASSUME NEW b \in AstSet, b.attached = a.attached, b.callbacks = a.callbacks, NEW count
      PROVE  /\ AstRuleMatch(b, i, offset, length).attached = a.attached
             /\ AstRuleMatch(b, i, offset, length).callbacks = a.callbacks
             /\ AstRuleNomatch(b, count).attached = a.attached
             /\ AstRuleNomatch(b, count).callbacks = a.callbacks
             /\ [AstRuleMatch(b, i, offset, length) EXCEPT !.error = FALSE].callbacks = a.callbacks
             /\ [AstRuleNomatch(b, count) EXCEPT !.error = FALSE].callbacks = a.callbacks
  BY <1>1 DEF AstRuleMatch, AstRuleNomatch, XThrow, AstSet
<1>2. CASE Recording(a, la) /\ a.open # << >>
  <2> DEFINE b == [a EXCEPT !.open = Pop(@)]
  <2>1. Pop(a.open) \in Seq(Nat)
    BY <1>2, PopLemma DEF AstSet
  <2>2. b \in AstSet /\ b.attached = a.attached /\ b.callbacks = a.callbacks
    BY <2>1 DEF AstSet
  <2>3. AST_RULE_CLOSE(a, la, i, state, offset, length) =
          IF state = "MATCH" THEN AstRuleMatch(b, i, offset, length)
                             ELSE AstRuleNomatch(b, Top(a.open))
    BY <1>2 DEF AST_RULE_CLOSE, AstRuleClose
  <2> HIDE DEF b
  <2> QED
    BY <1>1, <2>2, <2>3
<1>3. CASE ~(Recording(a, la) /\ a.open # << >>)
  BY <1>3 DEF AST_RULE_CLOSE, AstRuleClose, XThrow, AstSet
<1> QED
  BY <1>2, <1>3

LEMMA HooksAttached ==
  ASSUME Contract, IInv, Parsing, Shape
  PROVE  ast'.attached = ast.attached /\ ast'.callbacks = ast.callbacks
<1>1. ASSUME NEW a \in AstSet, NEW la, NEW state
      PROVE  /\ AST_OP_OPEN(a, la) \in AstSet /\ AST_OP_CLOSE(a, la, state) \in AstSet
             /\ AST_OP_OPEN(a, la).attached = a.attached
             /\ AST_OP_OPEN(a, la).callbacks = a.callbacks
             /\ AST_OP_CLOSE(a, la, state).attached = a.attached
             /\ AST_OP_CLOSE(a, la, state).callbacks = a.callbacks
  BY <1>1, OpHookKeeps
<1>2. ASSUME NEW a \in AstSet, NEW la, NEW state, NEW i \in Nat, NEW offset \in Nat, NEW length \in Nat
      PROVE  /\ AST_RULE_OPEN(a, la, i, offset) \in AstSet
             /\ AST_RULE_OPEN(a, la, i, offset).attached = a.attached
             /\ AST_RULE_OPEN(a, la, i, offset).callbacks = a.callbacks
             /\ AST_RULE_CLOSE(a, la, i, state, offset, length).attached = a.attached
             /\ AST_RULE_CLOSE(a, la, i, state, offset, length).callbacks = a.callbacks
  BY <1>2, RuleOpenKeeps, RuleCloseKeeps
<1>3. ast \in AstSet
  BY RunFacts
<1>4. CASE NodeOpened
  <2>1. PICK f \in Frame : FrameOK(f) /\ ast' = OpenedAst(f, ast, uiInLookaround)
    BY <1>4 DEF NodeOpened
  <2>2. Opcode(f.op).index \in Nat /\ f.beg \in Nat
    BY <2>1, RuleOfFrame
  <2>3. CASE Id(f) = "REP"
    <3> DEFINE a == AST_OP_OPEN(ast, uiInLookaround)
    <3>1. a \in AstSet /\ a.attached = ast.attached /\ a.callbacks = ast.callbacks
      BY <1>1, <1>3
    <3>2. ast' = AST_OP_OPEN(a, uiInLookaround)
      BY <2>1, <2>3 DEF OpenedAst
    <3> HIDE DEF a
    <3> QED
      BY <1>1, <3>1, <3>2
  <2>4. CASE Id(f) = "RNM"
    BY <1>2, <1>3, <2>1, <2>2, <2>4 DEF OpenedAst
  <2>5. CASE Id(f) \notin {"REP", "RNM"}
    BY <1>1, <1>3, <2>1, <2>5 DEF OpenedAst
  <2> QED
    BY <2>3, <2>4, <2>5
<1>5. CASE NodePassed
  <2>1. CASE ast' = ast
    BY <2>1
  <2>2. ASSUME NEW i \in Nat, NEW offset \in Nat, NEW length \in Nat,
               ast' = AST_RULE_CLOSE(AST_RULE_OPEN(ast, uiInLookaround, i, offset),
                                     uiInLookaround, i, uiOpState', offset, length)
        PROVE  ast'.attached = ast.attached /\ ast'.callbacks = ast.callbacks
    <3> DEFINE a == AST_RULE_OPEN(ast, uiInLookaround, i, offset)
    <3>1. a \in AstSet /\ a.attached = ast.attached /\ a.callbacks = ast.callbacks
      BY ZenonT(60), <1>3, RuleOpenHook DEF AST_RULE_OPEN, AstRuleOpen, AstOpOpen, AstSet
    <3>2. ast' = AST_RULE_CLOSE(a, uiInLookaround, i, uiOpState', offset, length)
      BY <2>2
    <3> HIDE DEF a
    <3> QED
      BY <1>2, <3>1, <3>2
  <2> QED
    BY <1>5, <2>1, <2>2 DEF NodePassed
<1>6. CASE NodeGoesOn
  BY <1>1, <1>3, <1>6 DEF NodeGoesOn
<1>7. CASE NodeClosed
  <2>1. pc = "return" /\ stack # << >> /\ ClosedAst(Top(stack))
    BY <1>7 DEF NodeClosed
  <2>2. Top(stack) \in Frame /\ FrameOK(Top(stack))
    BY <2>1, ReturnFacts DEF Fits
  <2>3. Opcode(Top(stack).op).index \in Nat /\ Top(stack).beg \in Nat
    BY <2>2, RuleOfFrame
  <2> QED
    BY <1>1, <1>2, <1>3, <2>1, <2>3 DEF ClosedAst
<1> QED
  BY <1>4, <1>5, <1>6, <1>7 DEF Shape

LEMMA OpenNext ==
  ASSUME Contract, IInv, IInv', LookInv, LookInv', OpenInv, [Next]_vars
  PROVE  OpenInv'
<1> SUFFICES ASSUME Parsing', ast'.attached, uiLookaroundAtStart' = 0
             PROVE  Len(ast'.open) = Cardinality(Entries(stack)')
  BY DEF OpenInv
<1>1. CASE \E c \in Configs : ParserParse(c)
  <2>1. stack' = << >> /\ ast' = AST_CLEAR(ast)
    BY <1>1 DEF ParserParse, Call
  <2>2. ast \in AstSet
    BY DEF IInv, TypeOK
  <2>3. ast'.open = << >> /\ Len(ast'.open) = 0
    <3>1. ast'.attached = ast.attached
      BY <2>1, <2>2 DEF AST_CLEAR, AstClear, AstSet
    <3> QED
      BY <2>1, <2>2, <3>1, EmptySeq DEF AST_CLEAR, AstClear, AstSet
  <2>4. Entries(stack)' = {}
    BY <2>1, EmptySeq DEF Entries
  <2> QED
    BY <2>3, <2>4, FS_EmptySet
<1>2. ASSUME UNCHANGED <<app, parse>>
      PROVE  Entries(stack)' = Entries(stack') /\ uiLookaroundAtStart = 0
  BY <1>2 DEF app, parse, Entries, Look, IsLook, Id, Opcode
<1>3. CASE Parsing /\ UNCHANGED <<app, parse>> /\ Shape
  BY <1>2, <1>3, OpenStep, HooksAttached
<1>4. CASE Parsing /\ UNCHANGED <<app, parse>> /\ UNCHANGED <<stack, ast>>
  BY <1>2, <1>4 DEF OpenInv
<1> QED
  BY <1>1, <1>3, <1>4, Transition

\* The AST hooks come in pairs: each operator on the stack that is outside of every
\* look-around has as many open entries as it will take away.
THEOREM HooksPaired ==
  Contract => (Spec /\ []StackFits => []AstOpenBalanced)
<1> SUFFICES ASSUME Contract PROVE Spec /\ []StackFits => []AstOpenBalanced
  OBVIOUS
<1>1. Init => OpenInv
  BY DEF Init, OpenInv, Parsing
<1>2. IInv /\ IInv' /\ LookInv /\ LookInv' /\ OpenInv /\ [Next]_vars => OpenInv'
  BY OpenNext
<1>3. Spec => []IInv
  BY Invariance
<1>4. Spec /\ []StackFits => []LookInv
  BY LookInvariance
<1>5. OpenEntries = Entries(stack)
  BY DEF OpenEntries, Entries, LookaroundFrames, Look, IsLook, Id, LookIds
<1>6. OpenInv => AstOpenBalanced
  BY <1>5 DEF OpenInv, AstOpenBalanced
<1> QED
  BY <1>1, <1>2, <1>3, <1>4, <1>6, PTL DEF Spec

-----------------------------------------------------------------------------
(***************************************************************************)
(* A parse that ends leaves a well-formed AST, whatever was recorded and   *)
(* withdrawn on the way: while a parse runs, the records are a tree in     *)
(* which some nodes still wait for their end, and every node on the stack  *)
(* knows where its part of the records begins.                             *)
(***************************************************************************)

-----------------------------------------------------------------------------
(* Trees under construction. r are the records, P the PRE records that     *)
(* wait for their POST, C the places the tree may be cut at: no node that  *)
(* is complete has one record before a cut and the other after it.         *)

\* record k and the one it is linked with
Paired(r, P, C, k) ==
  LET m == r[k].that + 1 IN
  /\ m \in 1..Len(r) /\ m - 1 \notin P
  /\ r[m].that = k - 1
  /\ r[m].state # r[k].state
  /\ r[m].index = r[k].index /\ r[m].offset = r[k].offset /\ r[m].length = r[k].length
  /\ r[k].state = "PRE" <=> k < m
  /\ \A c \in C : k =< c <=> m =< c

\* the PRE records of complete nodes
Complete(r, P, k) == k \in 1..Len(r) /\ k - 1 \notin P /\ r[k].state = "PRE"

Sound(r, P, C) ==
  /\ \A k \in 1..Len(r) : r[k].this = k - 1
  /\ \A k \in 1..Len(r) : k - 1 \in P => r[k].state = "PRE"
  /\ \A k \in 1..Len(r) : k - 1 \notin P => Paired(r, P, C, k)
  /\ \A j, k \in 1..Len(r) :
       Complete(r, P, j) /\ Complete(r, P, k) /\ j < k /\ k =< r[j].that => r[k].that < r[j].that

LEMMA RecordParts ==
  ASSUME NEW x \in Record
  PROVE  /\ x.index \in Nat /\ x.state \in {"PRE", "POST"} /\ x.offset \in Nat
         /\ x.length \in Nat /\ x.this \in Nat /\ x.that \in Nat
BY DEF Record

\* The records are numbers to each other.
LEMMA RecordNumbers ==
  ASSUME NEW r \in Seq(Record)
  PROVE  /\ Len(r) \in Nat
         /\ \A k \in 1..Len(r) : r[k] \in Record /\ r[k].that \in Nat /\ r[k].this \in Nat
<1>1. Len(r) \in Nat /\ \A k \in 1..Len(r) : r[k] \in Record
  BY LenProperties, ElementOfSeq
<1> QED
  BY <1>1, RecordParts

\* Fewer cuts ask for less.
LEMMA SoundFewer ==
  ASSUME NEW r, NEW P, NEW C, NEW D, D \subseteq C, Sound(r, P, C)
  PROVE  Sound(r, P, D)
<1>1. ASSUME NEW k, Paired(r, P, C, k) PROVE Paired(r, P, D, k)
  BY <1>1 DEF Paired
<1> QED
  BY <1>1 DEF Sound

\* The tree may be cut behind its last record.
LEMMA SoundCut ==
  ASSUME NEW r \in Seq(Record), NEW P, NEW C, Sound(r, P, C)
  PROVE  Sound(r, P, C \cup {Len(r)})
<1>1. ASSUME NEW k \in 1..Len(r), Paired(r, P, C, k)
      PROVE  Paired(r, P, C \cup {Len(r)}, k)
  <2>1. r[k].that + 1 \in 1..Len(r) /\ Len(r) \in Nat
    BY <1>1, RecordNumbers DEF Paired
  <2> QED
    BY <1>1, <2>1 DEF Paired
<1> QED
  BY <1>1 DEF Sound

\* A node that opens waits, and the tree may be cut on either side of its record.
LEMMA SoundPush ==
  ASSUME NEW r \in Seq(Record), NEW P, NEW C \in SUBSET (0..Len(r)), Sound(r, P, C),
         NEW x \in Record, x.state = "PRE", x.this = Len(r)
  PROVE  Sound(Append(r, x), P \cup {Len(r)}, C \cup {Len(r), Len(r) + 1})
<1> DEFINE n == Len(r)
           s == Append(r, x)
           Q == P \cup {n}
           D == C \cup {n, n + 1}
<1>1. n \in Nat /\ \A k \in 1..n : r[k] \in Record /\ r[k].that \in Nat
  BY RecordNumbers
<1>2. Len(s) = n + 1 /\ (\A k \in 1..n : s[k] = r[k]) /\ s[n + 1] = x
  BY AppendLemma DEF Top
<1> HIDE DEF s
<1>3. \A k \in 1..(n + 1) : k \in 1..n \/ k = n + 1
  BY <1>1
<1>4. ASSUME NEW k \in 1..n, k - 1 \notin Q
      PROVE  k - 1 \notin P /\ Paired(s, Q, D, k)
  <2>1. Paired(r, P, C, k)
    BY <1>4 DEF Sound
  <2> DEFINE m == r[k].that + 1
  <2>2. m \in 1..n /\ m - 1 \notin P
    BY <2>1 DEF Paired
  <2>3. m - 1 \notin Q /\ m \in 1..(n + 1) /\ s[k] = r[k] /\ s[m] = r[m]
    BY <1>1, <1>2, <2>2
  <2>4. \A c \in D : k =< c <=> m =< c
    BY <1>1, <2>1, <2>2 DEF Paired
  <2> QED
    BY <1>2, <1>4, <2>1, <2>3, <2>4 DEF Paired
<1>5. n \in Q
  OBVIOUS
<1>6. \A k \in 1..(n + 1) : s[k].this = k - 1
  BY <1>1, <1>2, <1>3 DEF Sound
<1>7. \A k \in 1..(n + 1) : k - 1 \in Q => s[k].state = "PRE"
  <2> TAKE k \in 1..(n + 1)
  <2>1. CASE k = n + 1
    BY <1>2, <2>1
  <2>2. CASE k \in 1..n
    <3>1. k - 1 # n
      BY <1>1, <2>2
    <3> QED
      BY <1>2, <2>2, <3>1 DEF Sound
  <2> QED
    BY <1>3, <2>1, <2>2
<1>8. \A k \in 1..(n + 1) : k - 1 \notin Q => k \in 1..n
  BY <1>1, <1>3
<1>9. \A k \in 1..(n + 1) : Complete(s, Q, k) => k \in 1..n /\ Complete(r, P, k) /\ s[k] = r[k]
  BY <1>2, <1>4, <1>8 DEF Complete
<1>10. \A k \in 1..(n + 1) : k - 1 \notin Q => Paired(s, Q, D, k)
  BY <1>4, <1>8
<1>11. \A j, k \in 1..(n + 1) :
         Complete(s, Q, j) /\ Complete(s, Q, k) /\ j < k /\ k =< s[j].that => s[k].that < s[j].that
  BY <1>9 DEF Sound
<1> HIDE DEF Q, D
<1>12. Sound(s, Q, D)
  BY <1>2, <1>6, <1>7, <1>10, <1>11 DEF Sound
<1> QED
  BY <1>12 DEF Q, D, s

\* Dropping what was recorded after a cut leaves a sound tree of the nodes before it.
LEMMA SoundTruncate ==
  ASSUME NEW r \in Seq(Record), NEW P, NEW C, Sound(r, P, C),
         NEW c \in C, c \in 0..Len(r), NEW Q, \A x \in 0..(c - 1) : x \in Q <=> x \in P
  PROVE  Sound(Popi(r, c), Q, C)
<1> DEFINE s == Popi(r, c)
<1>1. c \in Nat /\ Len(r) \in Nat /\ c =< Len(r)
  BY RecordNumbers
<1>2. Len(s) = c /\ \A k \in 1..c : s[k] = r[k]
  BY PopiLemma
<1> HIDE DEF s
<1>3. \A k \in 1..c : k \in 1..Len(r) /\ (k - 1 \in Q <=> k - 1 \in P)
  BY <1>1
<1>4. ASSUME NEW k \in 1..c, k - 1 \notin Q
      PROVE  Paired(s, Q, C, k)
  <2>1. Paired(r, P, C, k)
    BY <1>3, <1>4 DEF Sound
  <2> DEFINE m == r[k].that + 1
  <2>2. m \in 1..Len(r) /\ m - 1 \notin P /\ m =< c
    BY <1>1, <2>1 DEF Paired
  <2>3. m \in 1..c /\ m - 1 \notin Q
    BY <1>1, <1>3, <2>2
  <2>4. s[k] = r[k] /\ s[m] = r[m]
    BY <1>2, <2>3
  <2> QED
    BY <1>2, <2>1, <2>3, <2>4 DEF Paired
<1>5. \A k \in 1..c : s[k].this = k - 1
  BY <1>2, <1>3 DEF Sound
<1>6. \A k \in 1..c : k - 1 \in Q => s[k].state = "PRE"
  BY <1>2, <1>3 DEF Sound
<1>7. \A k \in 1..c : Complete(s, Q, k) => k \in 1..Len(r) /\ Complete(r, P, k) /\ s[k] = r[k]
  BY <1>2, <1>3 DEF Complete
<1>8. \A j, k \in 1..c :
        Complete(s, Q, j) /\ Complete(s, Q, k) /\ j < k /\ k =< s[j].that => s[k].that < s[j].that
  BY <1>7 DEF Sound
<1>9. Sound(s, Q, C)
  BY <1>2, <1>4, <1>5, <1>6, <1>8 DEF Sound
<1> QED
  BY <1>9 DEF s

\* the records when the node whose PRE record is p (from 0) ends
Ended(r, p, length) ==
  Append([r EXCEPT ![p + 1].length = length, ![p + 1].that = Len(r)],
         [index |-> r[p + 1].index, state |-> "POST", offset |-> r[p + 1].offset,
          length |-> length, this |-> Len(r), that |-> r[p + 1].this])

LEMMA EndedParts ==
  ASSUME NEW r \in Seq(Record), NEW p \in Nat, p < Len(r), NEW length \in Nat
  PROVE  /\ Ended(r, p, length) \in Seq(Record)
         /\ Len(Ended(r, p, length)) = Len(r) + 1
         /\ \A k \in 1..Len(r) : k # p + 1 => Ended(r, p, length)[k] = r[k]
         /\ Ended(r, p, length)[p + 1].index = r[p + 1].index
         /\ Ended(r, p, length)[p + 1].state = r[p + 1].state
         /\ Ended(r, p, length)[p + 1].offset = r[p + 1].offset
         /\ Ended(r, p, length)[p + 1].length = length
         /\ Ended(r, p, length)[p + 1].this = r[p + 1].this
         /\ Ended(r, p, length)[p + 1].that = Len(r)
         /\ Ended(r, p, length)[Len(r) + 1].index = r[p + 1].index
         /\ Ended(r, p, length)[Len(r) + 1].state = "POST"
         /\ Ended(r, p, length)[Len(r) + 1].offset = r[p + 1].offset
         /\ Ended(r, p, length)[Len(r) + 1].length = length
         /\ Ended(r, p, length)[Len(r) + 1].this = Len(r)
         /\ Ended(r, p, length)[Len(r) + 1].that = r[p + 1].this
<1> DEFINE n == Len(r)
           x == [r[p + 1] EXCEPT !.length = length]
           half == [r EXCEPT ![p + 1] = x]
           y == [half[p + 1] EXCEPT !.that = n]
           linked == [half EXCEPT ![p + 1] = y]
           last == [index |-> r[p + 1].index, state |-> "POST", offset |-> r[p + 1].offset,
                    length |-> length, this |-> n, that |-> r[p + 1].this]
<1>1. n \in Nat /\ p + 1 \in 1..n /\ r[p + 1] \in Record
  BY RecordNumbers
<1>2. x \in Record
  BY <1>1 DEF Record
<1>3. /\ half \in Seq(Record) /\ Len(half) = n /\ half[p + 1] = x
      /\ \A k \in 1..n : k # p + 1 => half[k] = r[k]
  BY <1>1, <1>2, ExceptSeq
<1>4. y \in Record
  BY <1>1, <1>2, <1>3 DEF Record
<1>5. /\ linked \in Seq(Record) /\ Len(linked) = n /\ linked[p + 1] = y
      /\ \A k \in 1..n : k # p + 1 => linked[k] = half[k]
  BY <1>1, <1>3, <1>4, ExceptSeq
<1>6. last \in Record
  BY <1>1 DEF Record
<1>7. /\ Append(linked, last) \in Seq(Record) /\ Len(Append(linked, last)) = n + 1
      /\ \A k \in 1..n : Append(linked, last)[k] = linked[k]
      /\ Append(linked, last)[n + 1] = last
  BY <1>5, <1>6, AppendLemma DEF Top
<1>8. Ended(r, p, length) = Append(linked, last)
  BY DEF Ended
<1>9. /\ y.index = r[p + 1].index /\ y.state = r[p + 1].state /\ y.offset = r[p + 1].offset
      /\ y.length = length /\ y.this = r[p + 1].this /\ y.that = n
  BY <1>1, <1>2, <1>3 DEF Record
<1>10. /\ last.index = r[p + 1].index /\ last.state = "POST" /\ last.offset = r[p + 1].offset
       /\ last.length = length /\ last.this = n /\ last.that = r[p + 1].this
  OBVIOUS
<1> HIDE DEF linked, last, half, x, y
<1> QED
  BY <1>1, <1>3, <1>5, <1>7, <1>8, <1>9, <1>10

\* The node that opened last ends: its records enclose the complete nodes since then.
LEMMA SoundMatch ==
  ASSUME NEW r \in Seq(Record), NEW P \in SUBSET Nat, NEW C \in SUBSET Nat, Sound(r, P, C),
         NEW p \in Nat, p \in P, p \in C, p < Len(r), \A x \in P : x =< p, NEW length \in Nat
  PROVE  Sound(Ended(r, p, length), P \ {p}, {c \in C : c =< p})
<1> DEFINE n == Len(r)
           s == Ended(r, p, length)
           Q == P \ {p}
           D == {c \in C : c =< p}
<1>1. n \in Nat /\ p \in Nat /\ \A k \in 1..n : r[k] \in Record /\ r[k].that \in Nat
  BY RecordNumbers
<1>2. /\ Len(s) = n + 1
      /\ \A k \in 1..n : k # p + 1 => s[k] = r[k]
      /\ s[p + 1].index = r[p + 1].index /\ s[p + 1].state = r[p + 1].state
      /\ s[p + 1].offset = r[p + 1].offset /\ s[p + 1].length = length
      /\ s[p + 1].this = r[p + 1].this /\ s[p + 1].that = n
  BY <1>1, EndedParts
<1>3. /\ s[n + 1].index = r[p + 1].index /\ s[n + 1].state = "POST"
      /\ s[n + 1].offset = r[p + 1].offset
      /\ s[n + 1].length = length /\ s[n + 1].this = n /\ s[n + 1].that = r[p + 1].this
  BY <1>1, EndedParts
<1>4. p + 1 \in 1..n /\ r[p + 1].state = "PRE" /\ r[p + 1].this = p
  BY <1>1 DEF Sound
<1>5. \A k \in 1..(n + 1) : (k \in 1..n /\ k # p + 1) \/ k = p + 1 \/ k = n + 1
  BY <1>1
<1> HIDE DEF s
<1>6. n \notin P /\ p \notin Q /\ n \notin Q
  BY <1>1
<1>7. ASSUME NEW k \in 1..n, k # p + 1, k - 1 \notin Q
      PROVE  k - 1 \notin P /\ Paired(r, P, C, k) /\ Paired(s, Q, D, k) /\ r[k].that # p
             /\ s[k] = r[k]
  <2>1. k - 1 \notin P
    BY <1>1, <1>7
  <2>2. Paired(r, P, C, k)
    BY <2>1 DEF Sound
  <2> DEFINE m == r[k].that + 1
  <2>3. m \in 1..n /\ m - 1 \notin P
    BY <2>2 DEF Paired
  <2>4. m # p + 1
    BY <1>1, <2>3
  <2>5. s[k] = r[k] /\ s[m] = r[m] /\ m \in 1..(n + 1) /\ m - 1 \notin Q /\ r[k].that # p
    <3>1. s[k] = r[k] /\ s[m] = r[m]
      BY <1>2, <1>7, <2>3, <2>4
    <3>2. m \in 1..(n + 1) /\ m - 1 # n /\ m - 1 = r[k].that
      BY <1>1, <1>7, <2>3
    <3> QED
      BY <1>1, <2>3, <2>4, <3>1, <3>2
  <2> QED
    BY <1>2, <2>1, <2>2, <2>5 DEF Paired
<1>8. Paired(s, Q, D, p + 1) /\ Paired(s, Q, D, n + 1)
  <2>1. \A c \in D : ~(p + 1 =< c) /\ ~(n + 1 =< c)
    <3> TAKE c \in D
    <3>1. c \in Nat /\ c =< p
      OBVIOUS
    <3> QED
      BY <1>1, <3>1
  <2>2. p + 1 < n + 1 /\ n + 1 \in 1..(n + 1) /\ p + 1 \in 1..(n + 1)
    BY <1>1
  <2>3. (n + 1) - 1 = n /\ (p + 1) - 1 = p
    BY <1>1
  <2> HIDE DEF Q, D
  <2>4. Paired(s, Q, D, p + 1)
    BY <1>1, <1>2, <1>3, <1>4, <1>6, <2>1, <2>2, <2>3 DEF Paired
  <2>5. Paired(s, Q, D, n + 1)
    BY <1>1, <1>2, <1>3, <1>4, <1>6, <2>1, <2>2, <2>3 DEF Paired
  <2> QED
    BY <2>4, <2>5
<1>9. \A k \in 1..(n + 1) : k - 1 \notin Q => Paired(s, Q, D, k)
  BY <1>5, <1>7, <1>8
<1>10. \A k \in 1..(n + 1) : s[k].this = k - 1
  <2> TAKE k \in 1..(n + 1)
  <2>1. CASE k \in 1..n /\ k # p + 1
    BY <1>2, <2>1 DEF Sound
  <2>2. CASE k = p + 1
    BY <1>1, <1>2, <1>4, <2>2
  <2>3. CASE k = n + 1
    BY <1>1, <1>3, <2>3
  <2> QED
    BY <1>5, <2>1, <2>2, <2>3
<1>11. \A k \in 1..(n + 1) : k - 1 \in Q => s[k].state = "PRE"
  <2> TAKE k \in 1..(n + 1)
  <2>1. CASE k \in 1..n /\ k # p + 1
    BY <1>2, <2>1 DEF Sound
  <2>2. CASE k = p + 1
    BY <1>2, <1>4, <2>2
  <2>3. CASE k = n + 1
    BY <1>1, <1>6, <2>3
  <2> QED
    BY <1>5, <2>1, <2>2, <2>3
<1>12. \A k \in 1..(n + 1) : Complete(s, Q, k) =>
         \/ k = p + 1
         \/ k # p + 1 /\ Complete(r, P, k) /\ s[k] = r[k] /\ Paired(r, P, C, k)
  <2> TAKE k \in 1..(n + 1)
  <2> HAVE Complete(s, Q, k)
  <2>1. CASE k \in 1..n /\ k # p + 1
    BY <1>7, <2>1 DEF Complete
  <2>2. k # n + 1
    BY <1>3 DEF Complete
  <2> QED
    BY <1>5, <2>1, <2>2
<1>13. ASSUME NEW j \in 1..(n + 1), NEW k \in 1..(n + 1), Complete(s, Q, j), Complete(s, Q, k),
              j < k, k =< s[j].that
       PROVE  s[k].that < s[j].that
  <2>1. CASE j = p + 1
    <3>1. k # p + 1
      BY <1>1, <1>13, <2>1
    <3>2. s[k] = r[k] /\ r[k].that + 1 \in 1..n
      BY <1>12, <1>13, <3>1 DEF Paired
    <3>3. s[j].that = n
      BY <1>2, <2>1
    <3>4. Complete(r, P, k)
      BY <1>12, <1>13, <3>1
    <3>5. k \in 1..n /\ r[k].that \in Nat
      BY <1>1, <3>4 DEF Complete
    <3> QED
      BY <1>1, <3>2, <3>3, <3>5
  <2>2. CASE j # p + 1 /\ k = p + 1
    <3>1. Complete(r, P, j) /\ s[j] = r[j] /\ Paired(r, P, C, j)
      BY <1>12, <1>13, <2>2
    <3>2. j \in 1..n /\ r[j].that \in Nat
      BY <1>1, <3>1 DEF Complete
    <3>3. j =< p <=> r[j].that + 1 =< p
      BY <3>1 DEF Paired
    <3> QED
      BY <1>1, <1>13, <2>2, <3>1, <3>2, <3>3
  <2>3. CASE j # p + 1 /\ k # p + 1
    <3>1. Complete(r, P, j) /\ s[j] = r[j] /\ Complete(r, P, k) /\ s[k] = r[k]
      BY <1>12, <1>13, <2>3
    <3>2. j \in 1..n /\ k \in 1..n
      BY <3>1 DEF Complete
    <3> QED
      BY <1>13, <3>1, <3>2 DEF Sound
  <2> QED
    BY <2>1, <2>2, <2>3
<1> HIDE DEF Q, D
<1>14. Sound(s, Q, D)
  BY <1>2, <1>9, <1>10, <1>11, <1>13 DEF Sound
<1> QED
  BY <1>14 DEF Q, D, s

\* A node that begins and ends in one step.
LEMMA SoundLeaf ==
  ASSUME NEW r \in Seq(Record), NEW P \in SUBSET (0..(Len(r) - 1)), NEW C \in SUBSET (0..Len(r)),
         Sound(r, P, C), NEW x \in Record, x.state = "PRE", x.this = Len(r), NEW length \in Nat
  PROVE  Sound(Ended(Append(r, x), Len(r), length), P, C)
<1> DEFINE n == Len(r)
           s == Append(r, x)
           Q == P \cup {n}
           D == C \cup {n, n + 1}
<1>1. n \in Nat /\ s \in Seq(Record) /\ Len(s) = n + 1 /\ s[n + 1] = x
  BY RecordNumbers, AppendLemma DEF Top
<1>2. Sound(s, Q, D)
  BY SoundPush
<1>3. Q \in SUBSET Nat /\ D \in SUBSET Nat /\ n \in Q /\ n \in D /\ n < Len(s) /\ \A y \in Q : y =< n
  <2>1. \A y \in P : y \in Nat /\ y =< n
    BY <1>1
  <2>2. \A y \in C : y \in Nat
    BY <1>1
  <2>3. n < Len(s)
    BY <1>1
  <2>4. n + 1 \in Nat /\ n \in Nat /\ n =< n
    BY <1>1
  <2> HIDE DEF s
  <2> QED
    BY <2>1, <2>2, <2>3, <2>4
<1>5. Q \ {n} = P
  BY <1>1
<1>6. C \subseteq {c \in D : c =< n}
  BY <1>1
<1>7. Sound(Ended(s, n, length), Q \ {n}, {c \in D : c =< n})
  <2> HIDE DEF Q, D, s, n
  <2> QED
    BY <1>1, <1>2, <1>3, SoundMatch
<1> HIDE DEF s, Q, D
<1>8. Sound(Ended(s, n, length), P, {c \in D : c =< n})
  BY <1>5, <1>7
<1>9. Sound(Ended(s, n, length), P, C)
  BY <1>6, <1>8, SoundFewer
<1> QED
  BY <1>9 DEF s

\* A sound tree in which no node waits is a well-formed one.
LEMMA SoundWhole ==
  ASSUME NEW r \in Seq(Record), NEW C, Sound(r, {}, C)
  PROVE  Linked(r) /\ Nested(r)
<1>1. /\ Len(r) \in Nat
      /\ \A k \in 1..Len(r) : r[k].that \in Nat /\ r[k].this = k - 1 /\ Paired(r, {}, C, k)
  BY RecordNumbers DEF Sound
<1>2. Linked(r)
  BY <1>1 DEF Linked, Paired
<1>3. Nested(r)
  BY SMTT(40), <1>1 DEF Nested, Pairs, Sound, Complete
<1> QED
  BY <1>2, <1>3

-----------------------------------------------------------------------------
(* What the nodes on the stack know of the recorder. For every node, the   *)
(* start rule and those the frames wait for, an environment holds the      *)
(* look-around counter it runs under, and how many records, open entries   *)
(* and waiting records there were when it was called last.                 *)

Env == [la: Nat, cb: Nat, pos: Nat, th: Nat]

LEMMA EnvParts ==
  ASSUME NEW e \in Env
  PROVE  e.la \in Nat /\ e.cb \in Nat /\ e.pos \in Nat /\ e.th \in Nat
BY DEF Env

Below(e, g) == e.cb =< g.cb /\ e.pos =< g.pos /\ e.th =< g.th

\* a records the rule of f when it begins
Records(a, f) == Id(f) = "RNM" /\ Opcode(f.op).index \in a.callbacks

\* the operator of f runs in e and has called a child that runs in g
Link(a, f, e, g) ==
  /\ g.la = IF IsLook(f) THEN e.la + 1 ELSE e.la
  /\ (e.la # 0 \/ Id(f) = "ALT") => g.pos = e.pos /\ g.th = e.th /\ g.cb = e.cb
  /\ (e.la = 0 /\ Id(f) # "ALT") =>
       /\ g.pos = e.pos + IF Id(f) = "REP" THEN 2 ELSE 1
       /\ a.open[e.pos + 1] = e.cb
       /\ Id(f) = "REP" => a.open[e.pos + 2] = g.cb
       /\ Id(f) \notin {"CAT", "REP"} /\ ~Records(a, f) => g.cb = e.cb
       /\ ~Records(a, f) => g.th = e.th
       /\ Records(a, f) =>
            /\ g.th = e.th + 1 /\ g.cb = e.cb + 1
            /\ a.that[e.th + 1] = e.cb
            /\ a.records[e.cb + 1].index = Opcode(f.op).index
            /\ a.records[e.cb + 1].offset = f.beg

Chain(a, s, E) ==
  /\ Len(E) = Len(s) + 1
  /\ \A m, n \in 1..Len(E) : m =< n => Below(E[m], E[n])
  /\ \A n \in 1..Len(E) : \A j \in 1..E[n].th : a.that[j] < E[n].cb
  /\ \A n \in 1..Len(s) : Link(a, s[n], E[n], E[n + 1])

\* b holds all that a held when the node of e was called
Agree(a, b, e) ==
  /\ b.callbacks = a.callbacks
  /\ \A k \in 1..e.pos : b.open[k] = a.open[k]
  /\ \A k \in 1..e.th : b.that[k] = a.that[k]
  /\ \A k \in 1..e.cb : b.records[k] = a.records[k]

LEMMA LinkAgree ==
  ASSUME NEW a, NEW b, NEW f, NEW e \in Env, NEW g \in Env,
         Link(a, f, e, g), Agree(a, b, g)
  PROVE  Link(b, f, e, g)
<1>1. /\ e.la \in Nat /\ e.cb \in Nat /\ e.pos \in Nat /\ e.th \in Nat
      /\ g.la \in Nat /\ g.cb \in Nat /\ g.pos \in Nat /\ g.th \in Nat
  BY EnvParts
<1>2. Records(b, f) <=> Records(a, f)
  BY DEF Agree, Records
<1>3. CASE e.la # 0 \/ Id(f) = "ALT"
  BY <1>3 DEF Link
<1>4. CASE e.la = 0 /\ Id(f) # "ALT"
  <2>1. e.pos + 1 \in 1..g.pos /\ (Id(f) = "REP" => e.pos + 2 \in 1..g.pos)
    BY <1>1, <1>4 DEF Link
  <2>2. b.open[e.pos + 1] = e.cb /\ (Id(f) = "REP" => b.open[e.pos + 2] = g.cb)
    BY <1>4, <2>1 DEF Link, Agree
  <2>3. Records(a, f) => e.th + 1 \in 1..g.th /\ e.cb + 1 \in 1..g.cb
    BY <1>1, <1>4 DEF Link
  <2>4. Records(a, f) => /\ b.that[e.th + 1] = e.cb
                         /\ b.records[e.cb + 1].index = Opcode(f.op).index
                         /\ b.records[e.cb + 1].offset = f.beg
    BY <1>4, <2>3 DEF Link, Agree
  <2> QED
    BY <1>2, <1>4, <2>2, <2>4 DEF Link
<1> QED
  BY <1>3, <1>4

LEMMA ChainParts ==
  ASSUME NEW a, NEW s \in Seq(Frame), NEW E \in Seq(Env), Chain(a, s, E)
  PROVE  /\ Len(s) \in Nat /\ Len(E) \in Nat /\ Len(E) = Len(s) + 1 /\ E # << >>
         /\ Top(E) \in Env /\ Top(E) = E[Len(E)]
         /\ \A n \in 1..Len(E) : /\ E[n] \in Env /\ Below(E[n], Top(E))
                                 /\ E[n].cb \in Nat /\ E[n].th \in Nat /\ E[n].pos \in Nat
         /\ Top(E).la \in Nat /\ Top(E).cb \in Nat /\ Top(E).pos \in Nat /\ Top(E).th \in Nat
         /\ \A j \in 1..Top(E).th : a.that[j] < Top(E).cb
<1>1. Len(s) \in Nat /\ Len(E) = Len(s) + 1
  BY LenProperties DEF Chain
<1>2. \A n \in 1..Len(E) : E[n] \in Env
  BY ElementOfSeq
<1>3. Len(E) \in 1..Len(E) /\ E # << >>
  BY <1>1, EmptySeq
<1>4. Top(E) = E[Len(E)] /\ Top(E) \in Env
  BY <1>2, <1>3 DEF Top
<1>5. \A n \in 1..Len(E) : Below(E[n], Top(E))
  BY <1>1, <1>3, <1>4 DEF Chain
<1>6. \A j \in 1..Top(E).th : a.that[j] < Top(E).cb
  BY <1>3, <1>4 DEF Chain
<1> QED
  BY <1>1, <1>2, <1>3, <1>4, <1>5, <1>6, EnvParts

LEMMA ChainAgree ==
  ASSUME NEW a, NEW b, NEW s \in Seq(Frame), NEW E \in Seq(Env), Chain(a, s, E),
         Agree(a, b, Top(E))
  PROVE  Chain(b, s, E)
<1>1. /\ Len(s) \in Nat /\ Len(E) = Len(s) + 1
      /\ \A n \in 1..Len(E) : /\ E[n] \in Env /\ Below(E[n], Top(E))
                              /\ E[n].cb \in Nat /\ E[n].th \in Nat /\ E[n].pos \in Nat
      /\ Top(E).cb \in Nat /\ Top(E).pos \in Nat /\ Top(E).th \in Nat
  BY ChainParts
<1>2. \A n \in 1..Len(E) : Agree(a, b, E[n])
  <2> TAKE n \in 1..Len(E)
  <2> DEFINE e == E[n]
             t == Top(E)
  <2>1. /\ e.cb \in Nat /\ e.th \in Nat /\ e.pos \in Nat
        /\ t.cb \in Nat /\ t.th \in Nat /\ t.pos \in Nat
        /\ Below(e, t) /\ Agree(a, b, t)
    BY <1>1
  <2> HIDE DEF e, t
  <2>2. Agree(a, b, e)
    BY SMTT(40), <2>1 DEF Below, Agree
  <2> QED
    BY <2>2 DEF e
<1>3. \A n \in 1..Len(s) : Link(b, s[n], E[n], E[n + 1])
  <2> TAKE n \in 1..Len(s)
  <2>1. n \in 1..Len(E) /\ n + 1 \in 1..Len(E)
    BY <1>1
  <2>2. Link(a, s[n], E[n], E[n + 1]) /\ E[n] \in Env /\ E[n + 1] \in Env
    BY <1>1, <2>1 DEF Chain
  <2>3. Agree(a, b, E[n + 1])
    BY <1>2, <2>1
  <2> QED
    BY <2>2, <2>3, LinkAgree
<1>4. \A n \in 1..Len(E) : \A j \in 1..E[n].th : b.that[j] < E[n].cb
  BY <1>2 DEF Agree, Chain
<1> QED
  BY <1>1, <1>3, <1>4 DEF Chain

LEMMA ChainPush ==
  ASSUME NEW a, NEW s \in Seq(Frame), NEW E \in Seq(Env), Chain(a, s, E),
         NEW f \in Frame, NEW g \in Env, Below(Top(E), g), Link(a, f, Top(E), g),
         \A j \in 1..g.th : a.that[j] < g.cb
  PROVE  Chain(a, Append(s, f), Append(E, g)) /\ Append(E, g) \in Seq(Env)
<1> DEFINE t == Append(s, f)
           F == Append(E, g)
           n == Len(s)
<1>1. /\ n \in Nat /\ Len(E) = n + 1 /\ Top(E) = E[n + 1]
      /\ \A m \in 1..(n + 1) : /\ Below(E[m], Top(E))
                               /\ E[m].cb \in Nat /\ E[m].th \in Nat /\ E[m].pos \in Nat
  BY ChainParts
<1>2. Len(t) = n + 1 /\ (\A m \in 1..n : t[m] = s[m]) /\ t[n + 1] = f
  BY AppendLemma DEF Top
<1>3. /\ F \in Seq(Env) /\ Len(F) = n + 2
      /\ (\A m \in 1..(n + 1) : F[m] = E[m]) /\ F[n + 2] = g
  BY <1>1, AppendLemma DEF Top
<1> HIDE DEF t, F
<1>4. \A m \in 1..(n + 2) : m \in 1..(n + 1) \/ m = n + 2
  BY <1>1
<1>5. g.cb \in Nat /\ g.th \in Nat /\ g.pos \in Nat
  BY EnvParts
<1>6. \A m \in 1..(n + 1) : Below(E[m], g)
  BY SMTT(40), <1>1, <1>5 DEF Below
<1>7. \A l, m \in 1..Len(F) : l =< m => Below(F[l], F[m])
  <2> TAKE l, m \in 1..Len(F)
  <2> HAVE l =< m
  <2>1. CASE m = n + 2 /\ l = n + 2
    BY <1>3, <1>5, <2>1 DEF Below
  <2>2. CASE m = n + 2 /\ l \in 1..(n + 1)
    BY <1>3, <1>6, <2>2
  <2>3. CASE m \in 1..(n + 1)
    <3>1. l \in 1..(n + 1)
      BY <1>3, <2>3
    <3> QED
      BY <1>1, <1>3, <2>3, <3>1 DEF Chain
  <2> QED
    BY <1>3, <1>4, <2>1, <2>2, <2>3
<1>8. \A m \in 1..Len(F) : \A j \in 1..F[m].th : a.that[j] < F[m].cb
  BY <1>1, <1>3, <1>4 DEF Chain
<1>9. \A m \in 1..Len(t) : Link(a, t[m], F[m], F[m + 1])
  <2> TAKE m \in 1..Len(t)
  <2>1. CASE m = n + 1
    <3>1. t[m] = f /\ F[m] = Top(E) /\ F[m + 1] = g
      BY <1>1, <1>2, <1>3, <2>1
    <3> QED
      BY <3>1
  <2>2. CASE m \in 1..n
    <3>1. t[m] = s[m] /\ F[m] = E[m] /\ F[m + 1] = E[m + 1]
      BY <1>1, <1>2, <1>3, <2>2
    <3> QED
      BY <2>2, <3>1 DEF Chain
  <2> QED
    BY <1>1, <1>2, <2>1, <2>2
<1>10. Chain(a, t, F)
  BY <1>2, <1>3, <1>7, <1>8, <1>9 DEF Chain
<1> QED
  BY <1>3, <1>10 DEF t, F

LEMMA ChainPop ==
  ASSUME NEW a, NEW s \in Seq(Frame), NEW E \in Seq(Env), Chain(a, s, E), s # << >>
  PROVE  /\ Pop(s) \in Seq(Frame) /\ Pop(E) \in Seq(Env) /\ Chain(a, Pop(s), Pop(E))
         /\ Top(s) \in Frame
         /\ Link(a, Top(s), Top(Pop(E)), Top(E)) /\ Below(Top(Pop(E)), Top(E))
<1> DEFINE n == Len(s)
           t == Pop(s)
           F == Pop(E)
<1>1. /\ n \in Nat /\ Len(E) = n + 1 /\ Top(E) = E[n + 1] /\ E # << >>
  BY ChainParts
<1>2. /\ n # 0 /\ t \in Seq(Frame) /\ Len(t) = n - 1 /\ Top(s) = s[n] /\ Top(s) \in Frame
      /\ \A m \in 1..(n - 1) : t[m] = s[m]
  BY PopLemma
<1>3. F \in Seq(Env) /\ Len(F) = n /\ \A m \in 1..n : F[m] = E[m]
  BY <1>1, PopLemma
<1> HIDE DEF t, F
<1>4. Top(F) = E[n]
  BY <1>1, <1>2, <1>3 DEF Top
<1>5. Link(a, Top(s), Top(F), Top(E)) /\ Below(Top(F), Top(E))
  <2>1. n \in 1..Len(s) /\ n \in 1..Len(E) /\ n + 1 \in 1..Len(E) /\ n =< n + 1
    BY <1>1, <1>2
  <2> QED
    BY <1>1, <1>2, <1>4, <2>1 DEF Chain
<1>6. \A l, m \in 1..Len(F) : l =< m => Below(F[l], F[m])
  <2> TAKE l, m \in 1..Len(F)
  <2>1. l \in 1..Len(E) /\ m \in 1..Len(E) /\ F[l] = E[l] /\ F[m] = E[m]
    BY <1>1, <1>3
  <2> QED
    BY <2>1 DEF Chain
<1>7. \A m \in 1..Len(F) : \A j \in 1..F[m].th : a.that[j] < F[m].cb
  BY <1>1, <1>3 DEF Chain
<1>8. \A m \in 1..Len(t) : Link(a, t[m], F[m], F[m + 1])
  <2> TAKE m \in 1..Len(t)
  <2>1. m \in 1..n /\ m + 1 \in 1..n /\ m \in 1..(n - 1)
    BY <1>1, <1>2
  <2> QED
    BY <1>2, <1>3, <2>1 DEF Chain
<1>9. Chain(a, t, F)
  BY <1>1, <1>2, <1>3, <1>6, <1>7, <1>8 DEF Chain
<1> QED
  BY <1>2, <1>3, <1>5, <1>9 DEF t, F

Cuts(E) == {E[n].cb : n \in 1..Len(E)}
Pending(t) == {t[n] : n \in 1..Len(t)}

\* the recorder as the node on top finds it or leaves it
Held(a, E) ==
  /\ Len(a.open) = Top(E).pos
  /\ Len(a.that) = Top(E).th
  /\ Top(E).cb =< Len(a.records)
  /\ Sound(a.records, Pending(a.that), Cuts(E))

LEMMA CutsPush ==
  ASSUME NEW E \in Seq(Env), NEW g \in Env
  PROVE  Cuts(Append(E, g)) = Cuts(E) \cup {g.cb}
<1> DEFINE F == Append(E, g)
<1>1. /\ Len(E) \in Nat /\ Len(F) = Len(E) + 1
      /\ (\A n \in 1..Len(E) : F[n] = E[n]) /\ F[Len(E) + 1] = g
  BY LenProperties, AppendLemma DEF Top
<1> HIDE DEF F
<1>2. \A n \in 1..Len(F) : n \in 1..Len(E) \/ n = Len(E) + 1
  BY <1>1
<1>3. Len(E) + 1 \in 1..Len(F) /\ \A n \in 1..Len(E) : n \in 1..Len(F)
  BY <1>1
<1>4. Cuts(F) \subseteq Cuts(E) \cup {g.cb}
  BY <1>1, <1>2 DEF Cuts
<1>5. Cuts(E) \cup {g.cb} \subseteq Cuts(F)
  BY <1>1, <1>3 DEF Cuts
<1> QED
  BY <1>4, <1>5 DEF F

LEMMA CutsParts ==
  ASSUME NEW a, NEW s \in Seq(Frame), NEW E \in Seq(Env), Chain(a, s, E)
  PROVE  /\ Cuts(E) \in SUBSET (0..Top(E).cb) /\ Top(E).cb \in Cuts(E)
         /\ s # << >> => Cuts(Pop(E)) \subseteq Cuts(E)
<1>1. /\ Len(E) \in Nat /\ Len(E) \in 1..Len(E) /\ Top(E) = E[Len(E)] /\ Top(E).cb \in Nat
      /\ \A n \in 1..Len(E) : E[n].cb \in Nat /\ Below(E[n], Top(E))
  <2>1. Len(s) \in Nat /\ Len(E) = Len(s) + 1
    BY ChainParts
  <2>2. Len(E) \in Nat /\ Len(E) \in 1..Len(E)
    BY <2>1
  <2>3. Top(E) = E[Len(E)] /\ Top(E).cb \in Nat
    BY ChainParts
  <2>4. \A n \in 1..Len(E) : E[n].cb \in Nat /\ Below(E[n], Top(E))
    BY ChainParts
  <2> QED
    BY <2>2, <2>3, <2>4
<1>2. Cuts(E) \in SUBSET (0..Top(E).cb)
  BY <1>1 DEF Cuts, Below
<1>3. Top(E).cb \in Cuts(E)
  BY <1>1 DEF Cuts
<1>4. ASSUME s # << >> PROVE Cuts(Pop(E)) \subseteq Cuts(E)
  <2>1. E # << >>
    BY ChainParts
  <2>2. Len(Pop(E)) = Len(E) - 1 /\ \A n \in 1..(Len(E) - 1) : Pop(E)[n] = E[n]
    BY <2>1, PopLemma
  <2> QED
    BY <1>1, <2>2 DEF Cuts
<1> QED
  BY <1>2, <1>3, <1>4

LEMMA PendingPush ==
  ASSUME NEW t \in Seq(Nat), NEW x \in Nat
  PROVE  Pending(Append(t, x)) = Pending(t) \cup {x}
<1> DEFINE u == Append(t, x)
<1>1. /\ Len(t) \in Nat /\ Len(u) = Len(t) + 1
      /\ (\A n \in 1..Len(t) : u[n] = t[n]) /\ u[Len(t) + 1] = x
  BY LenProperties, AppendLemma DEF Top
<1> HIDE DEF u
<1>2. \A n \in 1..Len(u) : n \in 1..Len(t) \/ n = Len(t) + 1
  BY <1>1
<1>3. Len(t) + 1 \in 1..Len(u) /\ \A n \in 1..Len(t) : n \in 1..Len(u)
  BY <1>1
<1>4. Pending(u) \subseteq Pending(t) \cup {x}
  BY <1>1, <1>2 DEF Pending
<1>5. Pending(t) \cup {x} \subseteq Pending(u)
  BY <1>1, <1>3 DEF Pending
<1> QED
  BY <1>4, <1>5 DEF u

\* An operator has begun: its frame is on the stack and its child will run in g.
LEMMA HeldPush ==
  ASSUME NEW a, NEW s \in Seq(Frame), NEW E \in Seq(Env), Chain(a, s, E),
         NEW b, Agree(a, b, Top(E)),
         NEW f \in Frame, NEW g \in Env, Below(Top(E), g), Link(b, f, Top(E), g),
         Len(b.open) = g.pos, Len(b.that) = g.th, Len(b.records) = g.cb,
         \A j \in 1..g.th : b.that[j] < g.cb,
         Sound(b.records, Pending(b.that), Cuts(E) \cup {g.cb})
  PROVE  /\ Append(E, g) \in Seq(Env) /\ Top(Append(E, g)) = g
         /\ Chain(b, Append(s, f), Append(E, g))
         /\ Held(b, Append(E, g))
<1>1. Chain(b, s, E)
  BY ChainAgree
<1>2. Append(E, g) \in Seq(Env) /\ Chain(b, Append(s, f), Append(E, g))
  BY <1>1, ChainPush
<1>3. Top(Append(E, g)) = g
  BY AppendLemma
<1>4. Cuts(Append(E, g)) = Cuts(E) \cup {g.cb}
  BY CutsPush
<1>5. g.cb \in Nat
  BY EnvParts
<1> QED
  BY <1>2, <1>3, <1>4, <1>5 DEF Held

-----------------------------------------------------------------------------
(* An operator begins.                                                     *)

LEMMA AstParts ==
  ASSUME NEW a \in AstSet
  PROVE  /\ a.open \in Seq(Nat) /\ a.that \in Seq(Nat) /\ a.records \in Seq(Record)
         /\ Len(a.open) \in Nat /\ Len(a.that) \in Nat /\ Len(a.records) \in Nat
BY LenProperties DEF AstSet

LEMMA Appended ==
  ASSUME NEW S, NEW t \in Seq(S), NEW x \in S
  PROVE  /\ Append(t, x) \in Seq(S) /\ Len(t) \in Nat /\ Len(Append(t, x)) = Len(t) + 1
         /\ \A n \in 1..Len(t) : Append(t, x)[n] = t[n]
         /\ Append(t, x)[Len(t) + 1] = x
BY LenProperties, AppendLemma DEF Top

LEMMA OpOpenFields ==
  ASSUME NEW a \in AstSet, NEW b, b = AstOpOpen(a)
  PROVE  /\ b \in AstSet /\ b.attached = a.attached /\ b.callbacks = a.callbacks
         /\ b.records = a.records /\ b.that = a.that
         /\ b.open = Append(a.open, Len(a.records))
         /\ Len(b.open) = Len(a.open) + 1
         /\ \A k \in 1..Len(a.open) : b.open[k] = a.open[k]
         /\ b.open[Len(a.open) + 1] = Len(a.records)
<1>1. b \in AstSet /\ b.open = Append(a.open, Len(a.records))
  BY AstOpOpenType DEF AstOpOpen, AstSet
<1>2. /\ b.attached = a.attached /\ b.callbacks = a.callbacks
      /\ b.records = a.records /\ b.that = a.that
  BY DEF AstOpOpen, AstSet
<1>3. Len(a.open) \in Nat /\ a.open \in Seq(Nat) /\ Len(a.records) \in Nat
  BY AstParts
<1>4. /\ Len(b.open) = Len(a.open) + 1
      /\ \A k \in 1..Len(a.open) : b.open[k] = a.open[k]
      /\ b.open[Len(a.open) + 1] = Len(a.records)
  BY <1>1, <1>3, AppendLemma DEF Top
<1> QED
  BY <1>1, <1>2, <1>4

\* the PRE record of rule i, recorded behind n others
PreRecord(i, offset, n) ==
  [index |-> i, state |-> "PRE", offset |-> offset, length |-> APG_UNDEFINED,
   this |-> n, that |-> APG_UNDEFINED]

LEMMA PreRecordParts ==
  ASSUME NEW i \in Nat, NEW offset \in Nat, NEW n \in Nat, NEW x, x = PreRecord(i, offset, n)
  PROVE  /\ x \in Record /\ x.index = i /\ x.state = "PRE" /\ x.offset = offset /\ x.this = n
BY UndefinedAssumption DEF PreRecord, Record

LEMMA RuleOpenFields ==
  ASSUME NEW a \in AstSet, NEW i \in Nat, i \in a.callbacks, NEW offset \in Nat
  PROVE  /\ AstRuleOpen(a, i, offset) \in AstSet
         /\ AstRuleOpen(a, i, offset).attached = a.attached
         /\ AstRuleOpen(a, i, offset).callbacks = a.callbacks
         /\ AstRuleOpen(a, i, offset).open = Append(a.open, Len(a.records))
         /\ AstRuleOpen(a, i, offset).that = Append(a.that, Len(a.records))
         /\ AstRuleOpen(a, i, offset).records
              = Append(a.records, PreRecord(i, offset, Len(a.records)))
<1> DEFINE x == PreRecord(i, offset, Len(a.records))
           c == AstOpOpen(a)
           b == AstRuleOpen(a, i, offset)
<1>1. b \in AstSet
  BY AstRuleOpenType
<1>2. /\ c \in AstSet /\ c.attached = a.attached /\ c.callbacks = a.callbacks
      /\ c.records = a.records /\ c.that = a.that /\ c.open = Append(a.open, Len(a.records))
  BY OpOpenFields
<1>3. b = [c EXCEPT !.that = Append(@, Len(a.records)), !.records = Append(@, x)]
  BY DEF AstRuleOpen, PreRecord
<1> HIDE DEF c, x
<1>4. /\ b.attached = c.attached /\ b.callbacks = c.callbacks /\ b.open = c.open
      /\ b.that = Append(c.that, Len(a.records)) /\ b.records = Append(c.records, x)
  BY <1>2, <1>3 DEF AstSet
<1> QED
  BY <1>1, <1>2, <1>4 DEF x

\* An operator that opens no node, or begins within a look-around, leaves the recorder alone.
LEMMA QuietOpen ==
  ASSUME NEW a \in AstSet, NEW s \in Seq(Frame), NEW E \in Seq(Env), Chain(a, s, E), Held(a, E),
         Len(a.records) = Top(E).cb, NEW f \in Frame, Top(E).la # 0 \/ Id(f) = "ALT",
         NEW g \in Env, g.la = IF IsLook(f) THEN Top(E).la + 1 ELSE Top(E).la,
         g.cb = Len(a.records), g.pos = Len(a.open), g.th = Len(a.that)
  PROVE  /\ Append(E, g) \in Seq(Env) /\ Top(Append(E, g)) = g
         /\ Chain(a, Append(s, f), Append(E, g))
         /\ Held(a, Append(E, g))
<1>1. /\ Top(E).cb \in Nat /\ Top(E).pos \in Nat /\ Top(E).th \in Nat
      /\ \A j \in 1..Top(E).th : a.that[j] < Top(E).cb
  BY ChainParts
<1>2. g.cb = Top(E).cb /\ g.pos = Top(E).pos /\ g.th = Top(E).th
  BY DEF Held
<1>3. Below(Top(E), g)
  BY <1>1, <1>2 DEF Below
<1>4. Link(a, f, Top(E), g)
  BY <1>2 DEF Link
<1>5. Agree(a, a, Top(E))
  BY DEF Agree
<1>6. Sound(a.records, Pending(a.that), Cuts(E) \cup {g.cb})
  BY SoundCut, AstParts DEF Held
<1>7. \A j \in 1..g.th : a.that[j] < g.cb
  BY <1>1, <1>2
<1> QED
  BY <1>3, <1>4, <1>5, <1>6, <1>7, HeldPush

\* One that opens a node remembers where its records begin.
LEMMA PlainOpen ==
  ASSUME NEW a \in AstSet, NEW s \in Seq(Frame), NEW E \in Seq(Env), Chain(a, s, E), Held(a, E),
         Len(a.records) = Top(E).cb, NEW f \in Frame, Top(E).la = 0, Id(f) \notin {"ALT", "REP"},
         ~Records(a, f), NEW b, b = AstOpOpen(a),
         NEW g \in Env, g.la = IF IsLook(f) THEN Top(E).la + 1 ELSE Top(E).la,
         g.cb = Len(b.records), g.pos = Len(b.open), g.th = Len(b.that)
  PROVE  /\ Append(E, g) \in Seq(Env) /\ Top(Append(E, g)) = g
         /\ Chain(b, Append(s, f), Append(E, g))
         /\ Held(b, Append(E, g))
<1>1. /\ Top(E).cb \in Nat /\ Top(E).pos \in Nat /\ Top(E).th \in Nat
      /\ \A j \in 1..Top(E).th : a.that[j] < Top(E).cb
  BY ChainParts
<1>2. /\ b.callbacks = a.callbacks /\ b.records = a.records /\ b.that = a.that
      /\ Len(b.open) = Len(a.open) + 1
      /\ \A k \in 1..Len(a.open) : b.open[k] = a.open[k]
      /\ b.open[Len(a.open) + 1] = Len(a.records)
  BY OpOpenFields
<1>3. Len(a.open) = Top(E).pos /\ Len(a.that) = Top(E).th
  BY DEF Held
<1>4. /\ g.cb = Top(E).cb /\ g.pos = Top(E).pos + 1 /\ g.th = Top(E).th
      /\ b.open[Top(E).pos + 1] = Top(E).cb
  BY <1>2, <1>3
<1>5. Below(Top(E), g)
  BY <1>1, <1>4 DEF Below
<1>6. Link(b, f, Top(E), g)
  BY <1>2, <1>4 DEF Link, Records
<1>7. Agree(a, b, Top(E))
  BY <1>2, <1>3 DEF Agree
<1>8. Sound(b.records, Pending(b.that), Cuts(E) \cup {g.cb})
  BY <1>2, SoundCut, AstParts DEF Held
<1>9. \A j \in 1..g.th : b.that[j] < g.cb
  BY <1>1, <1>2, <1>4
<1> QED
  BY ZenonT(60), <1>5, <1>6, <1>7, <1>8, <1>9, HeldPush

LEMMA RepeatOpen ==
  ASSUME NEW a \in AstSet, NEW s \in Seq(Frame), NEW E \in Seq(Env), Chain(a, s, E), Held(a, E),
         Len(a.records) = Top(E).cb, NEW f \in Frame, Top(E).la = 0, Id(f) = "REP",
         NEW c, c = AstOpOpen(a), NEW b, b = AstOpOpen(c),
         NEW g \in Env, g.la = Top(E).la,
         g.cb = Len(b.records), g.pos = Len(b.open), g.th = Len(b.that)
  PROVE  /\ Append(E, g) \in Seq(Env) /\ Top(Append(E, g)) = g
         /\ Chain(b, Append(s, f), Append(E, g))
         /\ Held(b, Append(E, g))
<1>1. /\ Top(E).cb \in Nat /\ Top(E).pos \in Nat /\ Top(E).th \in Nat
      /\ \A j \in 1..Top(E).th : a.that[j] < Top(E).cb
  BY ChainParts
<1>2. /\ c \in AstSet /\ c.callbacks = a.callbacks /\ c.records = a.records /\ c.that = a.that
      /\ Len(c.open) = Len(a.open) + 1
      /\ \A k \in 1..Len(a.open) : c.open[k] = a.open[k]
      /\ c.open[Len(a.open) + 1] = Len(a.records)
  BY OpOpenFields
<1>3. /\ b.callbacks = c.callbacks /\ b.records = c.records /\ b.that = c.that
      /\ Len(b.open) = Len(c.open) + 1
      /\ \A k \in 1..Len(c.open) : b.open[k] = c.open[k]
      /\ b.open[Len(c.open) + 1] = Len(c.records)
  <2>1. c \in AstSet
    BY <1>2
  <2> QED
    BY ONLY <2>1, b = AstOpOpen(c), OpOpenFields
<1>4. Len(a.open) = Top(E).pos /\ Len(a.that) = Top(E).th
  BY DEF Held
<1>5. /\ g.cb = Top(E).cb /\ g.pos = Top(E).pos + 2 /\ g.th = Top(E).th
      /\ b.open[Top(E).pos + 1] = Top(E).cb /\ b.open[Top(E).pos + 2] = g.cb
      /\ \A k \in 1..Top(E).pos : b.open[k] = a.open[k]
  <2> DEFINE p == Top(E).pos
  <2>1. p \in Nat /\ Len(a.open) = p /\ Len(c.open) = p + 1 /\ Len(b.open) = p + 2
    BY <1>1, <1>2, <1>3, <1>4
  <2>2. b.open[p + 1] = c.open[p + 1] /\ \A k \in 1..p : b.open[k] = c.open[k]
    <3>1. p + 1 \in 1..Len(c.open) /\ \A k \in 1..p : k \in 1..Len(c.open)
      BY SMTT(40), <2>1
    <3> QED
      BY <1>3, <3>1
  <2>3. b.open[p + 2] = Len(c.records)
    <3>1. Len(c.open) + 1 = p + 2
      BY <2>1
    <3> QED
      BY <1>3, <3>1
  <2>4. \A k \in 1..p : c.open[k] = a.open[k]
    BY <1>2, <2>1
  <2>5. c.open[p + 1] = Len(a.records)
    BY <1>2, <2>1
  <2>6. g.cb = Top(E).cb /\ g.th = Top(E).th
    BY <1>2, <1>3, <1>4
  <2> HIDE DEF p
  <2>7. /\ b.open[p + 1] = Top(E).cb /\ b.open[p + 2] = g.cb /\ g.pos = p + 2
        /\ \A k \in 1..p : b.open[k] = a.open[k]
    BY <1>2, <1>3, <2>1, <2>2, <2>3, <2>4, <2>5
  <2> QED
    BY <2>6, <2>7 DEF p
<1>6. Below(Top(E), g)
  BY <1>1, <1>5 DEF Below
<1>7. ~IsLook(f) /\ ~Records(b, f)
  BY Kinds DEF IsLook, Records
<1>8. Link(b, f, Top(E), g)
  BY <1>5, <1>7 DEF Link
<1>9. Agree(a, b, Top(E))
  BY <1>2, <1>3, <1>5 DEF Agree
<1>10. Sound(b.records, Pending(b.that), Cuts(E) \cup {g.cb})
  BY ZenonT(60), <1>2, <1>3, SoundCut, AstParts DEF Held
<1>11. \A j \in 1..g.th : b.that[j] < g.cb
  BY <1>1, <1>2, <1>3, <1>5
<1> QED
  BY ZenonT(60), <1>6, <1>8, <1>9, <1>10, <1>11, HeldPush

LEMMA RuleOpenHeld ==
  ASSUME NEW a \in AstSet, NEW s \in Seq(Frame), NEW E \in Seq(Env), Chain(a, s, E), Held(a, E),
         Len(a.records) = Top(E).cb, NEW f \in Frame, Top(E).la = 0, Records(a, f),
         Opcode(f.op).index \in Nat, f.beg \in Nat,
         NEW b, b = AstRuleOpen(a, Opcode(f.op).index, f.beg),
         NEW g \in Env, g.la = Top(E).la,
         g.cb = Len(b.records), g.pos = Len(b.open), g.th = Len(b.that)
  PROVE  /\ Append(E, g) \in Seq(Env) /\ Top(Append(E, g)) = g
         /\ Chain(b, Append(s, f), Append(E, g))
         /\ Held(b, Append(E, g))
<1> DEFINE n == Len(a.records)
<1>1. /\ Top(E).cb \in Nat /\ Top(E).pos \in Nat /\ Top(E).th \in Nat
      /\ \A j \in 1..Top(E).th : a.that[j] < Top(E).cb
  BY ChainParts
<1>2. /\ a.open \in Seq(Nat) /\ a.that \in Seq(Nat) /\ a.records \in Seq(Record) /\ n \in Nat
  BY AstParts
<1> DEFINE i == Opcode(f.op).index
           o == f.beg
           x == PreRecord(i, o, n)
<1>0. i \in Nat /\ o \in Nat /\ i \in a.callbacks /\ b = AstRuleOpen(a, i, o)
  BY DEF Records
<1> HIDE DEF i, o, x
<1>3. /\ b.callbacks = a.callbacks
      /\ b.open = Append(a.open, n) /\ b.that = Append(a.that, n)
      /\ b.records = Append(a.records, x)
  <2>1. /\ b.callbacks = a.callbacks
        /\ b.open = Append(a.open, Len(a.records)) /\ b.that = Append(a.that, Len(a.records))
        /\ b.records = Append(a.records, PreRecord(i, o, Len(a.records)))
    <3>1. a \in AstSet /\ i \in Nat /\ o \in Nat /\ i \in a.callbacks
      BY <1>0
    <3>2. b = AstRuleOpen(a, i, o)
      BY <1>0
    <3>3. \A p \in Nat : \A q \in Nat : p \in a.callbacks =>
            /\ AstRuleOpen(a, p, q).callbacks = a.callbacks
            /\ AstRuleOpen(a, p, q).open = Append(a.open, Len(a.records))
            /\ AstRuleOpen(a, p, q).that = Append(a.that, Len(a.records))
            /\ AstRuleOpen(a, p, q).records = Append(a.records, PreRecord(p, q, Len(a.records)))
      BY RuleOpenFields
    <3>4. /\ AstRuleOpen(a, i, o).callbacks = a.callbacks
          /\ AstRuleOpen(a, i, o).open = Append(a.open, Len(a.records))
          /\ AstRuleOpen(a, i, o).that = Append(a.that, Len(a.records))
          /\ AstRuleOpen(a, i, o).records = Append(a.records, PreRecord(i, o, Len(a.records)))
      BY ONLY <3>1, <3>3, Zenon
    <3> QED
      BY <3>2, <3>4
  <2> QED
    BY <2>1 DEF x
<1>30. x \in Record /\ x.index = i /\ x.state = "PRE" /\ x.offset = o /\ x.this = n
  <2>1. n \in Nat
    BY <1>2
  <2> HIDE DEF n
  <2>2. x = PreRecord(i, o, n)
    BY DEF x
  <2> QED
    BY ONLY <1>0, <2>1, <2>2, PreRecordParts
<1>4. Len(a.open) = Top(E).pos /\ Len(a.that) = Top(E).th /\ n = Top(E).cb
  BY DEF Held
<1>5. /\ g.pos = Top(E).pos + 1 /\ b.open[Top(E).pos + 1] = Top(E).cb
      /\ \A k \in 1..Top(E).pos : b.open[k] = a.open[k]
  BY SMTT(40), <1>2, <1>3, <1>4, Appended
<1>6. /\ g.th = Top(E).th + 1 /\ b.that[Top(E).th + 1] = Top(E).cb
      /\ \A k \in 1..Top(E).th : b.that[k] = a.that[k]
  BY <1>2, <1>3, <1>4, Appended
<1>7. /\ g.cb = Top(E).cb + 1 /\ b.records[Top(E).cb + 1] = x
      /\ \A k \in 1..Top(E).cb : b.records[k] = a.records[k]
  BY SMTT(40), <1>2, <1>3, <1>30, <1>4, Appended
<1>8. Below(Top(E), g)
  BY <1>1, <1>5, <1>6, <1>7 DEF Below
<1>9. Id(f) = "RNM" /\ ~IsLook(f) /\ Records(b, f)
  BY <1>3, Kinds DEF IsLook, Records
<1>10. Link(b, f, Top(E), g)
  BY <1>30, <1>5, <1>6, <1>7, <1>9 DEF Link, i, o
<1>11. Agree(a, b, Top(E))
  BY <1>3, <1>5, <1>6, <1>7 DEF Agree
<1>12. Sound(b.records, Pending(b.that), Cuts(E) \cup {g.cb})
  <2>1. Cuts(E) \in SUBSET (0..n) /\ Sound(a.records, Pending(a.that), Cuts(E))
    BY <1>4, CutsParts DEF Held
  <2>2. Sound(Append(a.records, x), Pending(a.that) \cup {n}, Cuts(E) \cup {n, n + 1})
    BY <1>2, <1>30, <2>1, SoundPush
  <2>3. Pending(b.that) = Pending(a.that) \cup {n}
    BY <1>2, <1>3, PendingPush
  <2>4. Cuts(E) \cup {g.cb} \subseteq Cuts(E) \cup {n, n + 1}
    BY <1>4, <1>7
  <2> QED
    BY <1>3, <2>2, <2>3, <2>4, SoundFewer
<1>13. \A j \in 1..g.th : b.that[j] < g.cb
  <2> TAKE j \in 1..g.th
  <2>1. j \in 1..Top(E).th \/ j = Top(E).th + 1
    <3>1. Top(E).th \in Nat /\ g.th = Top(E).th + 1
      BY <1>1, <1>6
    <3> QED
      BY <3>1
  <2>2. CASE j = Top(E).th + 1
    BY <1>1, <1>6, <1>7, <2>2
  <2>3. CASE j \in 1..Top(E).th
    <3>1. a.that[j] \in Nat /\ a.that[j] < Top(E).cb
      BY <1>1, <1>2, <1>4, <2>3, ElementOfSeq
    <3> QED
      BY SMTT(40), <1>1, <1>6, <1>7, <2>3, <3>1
  <2> QED
    BY <2>1, <2>2, <2>3
<1> QED
  BY ZenonT(60), <1>8, <1>10, <1>11, <1>12, <1>13, HeldPush

\* the environments fit the recorder and the stack, and those of the start rule are empty
Tree(a, s, la, E) ==
  /\ E \in Seq(Env)
  /\ Chain(a, s, E)
  /\ Held(a, E)
  /\ Top(E).la = la
  /\ E[1].cb = 0 /\ E[1].pos = 0 /\ E[1].th = 0

LEMMA TreePush ==
  ASSUME NEW a, NEW b, NEW s \in Seq(Frame), NEW f \in Frame, NEW la, NEW E, Tree(a, s, la, E),
         NEW g \in Env,
         /\ Append(E, g) \in Seq(Env) /\ Top(Append(E, g)) = g
         /\ Chain(b, Append(s, f), Append(E, g))
         /\ Held(b, Append(E, g))
  PROVE  Tree(b, Append(s, f), g.la, Append(E, g))
<1>1. E \in Seq(Env) /\ 1 \in 1..Len(E)
  <2>1. E \in Seq(Env) /\ Chain(a, s, E)
    BY DEF Tree
  <2>2. Len(s) \in Nat /\ Len(E) = Len(s) + 1
    BY <2>1, ChainParts
  <2> QED
    BY <2>1, <2>2
<1>2. Append(E, g)[1] = E[1]
  BY <1>1, AppendLemma
<1> QED
  BY <1>2 DEF Tree

\* An operator that begins hands its child a recorder that fits.
LEMMA TreeOpened ==
  ASSUME NEW a \in AstSet, a.attached, NEW s \in Seq(Frame), NEW la \in Nat, NEW E,
         Tree(a, s, la, E), Len(a.records) = Top(E).cb,
         NEW f \in Frame, Opcode(f.op).index \in Nat, f.beg \in Nat,
         NEW b, b = OpenedAst(f, a, la), NEW below, below = IF IsLook(f) THEN la + 1 ELSE la
  PROVE  \E h \in Env : /\ Tree(b, Append(s, f), below, Append(E, h))
                        /\ h.la = below /\ h.cb = Len(b.records)
<1>1. E \in Seq(Env) /\ Chain(a, s, E) /\ Held(a, E) /\ Top(E).la = la
  BY DEF Tree
<1>2. Recording(a, la) <=> la = 0
  BY DEF Recording
<1>4. ASSUME b \in AstSet
      PROVE  [la |-> below, cb |-> Len(b.records), pos |-> Len(b.open), th |-> Len(b.that)] \in Env
  BY <1>4, AstParts DEF Env
<1> DEFINE g == [la |-> below, cb |-> Len(b.records), pos |-> Len(b.open), th |-> Len(b.that)]
           Done == /\ Append(E, g) \in Seq(Env) /\ Top(Append(E, g)) = g
                   /\ Chain(b, Append(s, f), Append(E, g))
                   /\ Held(b, Append(E, g))
<1>5. g.la = below /\ g.cb = Len(b.records) /\ g.pos = Len(b.open) /\ g.th = Len(b.that)
  OBVIOUS
<1>6. ASSUME b \in AstSet, Done
      PROVE  \E h \in Env : /\ Tree(b, Append(s, f), below, Append(E, h))
                             /\ h.la = below /\ h.cb = Len(b.records)
  <2>1. g \in Env
    BY <1>4, <1>6
  <2> HIDE DEF g
  <2>2. Tree(b, Append(s, f), g.la, Append(E, g))
    BY <1>6, <2>1, TreePush
  <2> QED
    BY <1>5, <1>6, <2>1, <2>2
<1> HIDE DEF g
<1>7. CASE la # 0 \/ Id(f) = "ALT"
  <2>1. b = a
    <3>1. CASE Id(f) = "ALT"
      BY <3>1 DEF OpenedAst
    <3>2. CASE la # 0
      <4>1. ~Recording(a, la)
        BY <1>2, <3>2
      <4> QED
        BY <4>1, HooksOff DEF OpenedAst
    <3> QED
      BY <1>7, <3>1, <3>2
  <2>2. g \in Env
    BY <1>4, <2>1 DEF g
  <2>3. Done
    BY ZenonT(60), <1>1, <1>5, <1>7, <2>1, <2>2, QuietOpen
  <2> QED
    BY <1>6, <2>1, <2>3
<1>8. CASE la = 0 /\ Id(f) # "ALT" /\ Id(f) # "REP" /\ ~Records(a, f)
  <2>1. b = AstOpOpen(a)
    <3>1. CASE Id(f) = "RNM"
      BY <1>2, <1>8, <3>1 DEF OpenedAst, Records, AST_RULE_OPEN, AstRuleOpen
    <3>2. CASE Id(f) # "RNM"
      BY <1>2, <1>8, <3>2 DEF OpenedAst, AST_OP_OPEN
    <3> QED
      BY <3>1, <3>2
  <2>2. b \in AstSet
    BY <2>1, OpOpenFields
  <2>3. g \in Env
    BY <1>4, <2>2 DEF g
  <2>4. Done
    BY <1>1, <1>5, <1>8, <2>1, <2>3, PlainOpen
  <2> QED
    BY <1>6, <2>2, <2>4
<1>9. CASE la = 0 /\ Id(f) = "REP"
  <2> DEFINE c == AstOpOpen(a)
  <2>1. c \in AstSet /\ c.attached = a.attached
    BY OpOpenFields
  <2>2. b = AstOpOpen(c)
    <3>1. Recording(a, la) /\ Recording(c, la)
      BY <1>2, <1>9, <2>1 DEF Recording
    <3> QED
      BY <1>9, <3>1 DEF OpenedAst, AST_OP_OPEN
  <2> HIDE DEF c
  <2>3. b \in AstSet
    BY <2>1, <2>2, OpOpenFields
  <2>4. g \in Env
    BY <1>4, <2>3 DEF g
  <2>5. g.la = Top(E).la
    BY <1>1, <1>5, <1>9, Kinds DEF IsLook
  <2>6. Done
    BY <1>1, <1>5, <1>9, <2>2, <2>4, <2>5, RepeatOpen DEF c
  <2> QED
    BY <1>6, <2>3, <2>6
<1>10. CASE la = 0 /\ Records(a, f)
  <2>1. Id(f) = "RNM" /\ Opcode(f.op).index \in a.callbacks
    BY <1>10 DEF Records
  <2>2. b = AstRuleOpen(a, Opcode(f.op).index, f.beg)
    BY <1>2, <1>10, <2>1 DEF OpenedAst, AST_RULE_OPEN
  <2>3. b \in AstSet
    BY <2>2, AstRuleOpenType
  <2>4. g \in Env
    BY <1>4, <2>3 DEF g
  <2>5. g.la = Top(E).la
    BY <1>1, <1>5, <1>10, <2>1, Kinds DEF IsLook
  <2>6. Done
    BY <1>1, <1>5, <1>10, <2>2, <2>4, <2>5, RuleOpenHeld
  <2> QED
    BY <1>6, <2>3, <2>6
<1>11. Records(a, f) => Id(f) = "RNM"
  BY DEF Records
<1> QED
  BY <1>7, <1>8, <1>9, <1>10, <1>11

-----------------------------------------------------------------------------
(* An operator ends.                                                       *)

LEMMA OpCloseFields ==
  ASSUME NEW a \in AstSet, a.open # << >>, NEW state, NEW b, b = AstOpClose(a, state)
  PROVE  /\ b \in AstSet /\ b.attached = a.attached /\ b.callbacks = a.callbacks
         /\ b.that = a.that /\ b.open = Pop(a.open)
         /\ b.records = IF state = "NOMATCH" /\ Top(a.open) < Len(a.records)
                          THEN Popi(a.records, Top(a.open)) ELSE a.records
<1>1. b \in AstSet
  BY AstOpCloseType
<1> DEFINE kept == IF state = "NOMATCH" /\ Top(a.open) < Len(a.records)
                     THEN Popi(a.records, Top(a.open)) ELSE a.records
<1>2. b = [a EXCEPT !.open = Pop(@), !.records = kept]
  BY DEF AstOpClose
<1> HIDE DEF kept
<1>3. /\ b.attached = a.attached /\ b.callbacks = a.callbacks
      /\ b.that = a.that /\ b.open = Pop(a.open) /\ b.records = kept
  BY <1>2 DEF AstSet
<1> QED
  BY <1>1, <1>3 DEF kept

\* The operator on top has ended: its frame is gone and the recorder is as its caller
\* may find it.
LEMMA HeldPop ==
  ASSUME NEW a, NEW s \in Seq(Frame), s # << >>, NEW la, NEW E, Tree(a, s, la, E),
         NEW b, NEW F, F = Pop(E), Agree(a, b, Top(F)),
         Len(b.open) = Top(F).pos, Len(b.that) = Top(F).th, Top(F).cb =< Len(b.records),
         Sound(b.records, Pending(b.that), Cuts(F))
  PROVE  Tree(b, Pop(s), Top(F).la, F)
<1>1. E \in Seq(Env) /\ Chain(a, s, E)
  BY DEF Tree
<1>2. Pop(s) \in Seq(Frame) /\ F \in Seq(Env) /\ Chain(a, Pop(s), F)
  BY <1>1, ChainPop
<1>3. Chain(b, Pop(s), F)
  BY <1>2, ChainAgree
<1>4. F[1] = E[1]
  <2>1. Len(Pop(s)) \in Nat /\ Len(F) = Len(Pop(s)) + 1
    BY <1>2, ChainParts
  <2>2. E # << >>
    BY <1>1, ChainParts
  <2>3. Len(F) = Len(E) - 1 /\ \A n \in 1..(Len(E) - 1) : F[n] = E[n]
    BY <1>1, <2>2, PopLemma
  <2>4. 1 \in 1..(Len(E) - 1)
    BY <2>1, <2>3
  <2> QED
    BY <2>3, <2>4
<1> QED
  BY <1>2, <1>3, <1>4 DEF Tree, Held

\* What the operator on top and its caller know of each other.
LEMMA TopLink ==
  ASSUME NEW a \in AstSet, NEW s \in Seq(Frame), s # << >>, NEW la, NEW E, Tree(a, s, la, E),
         NEW F, F = Pop(E), NEW f, f = Top(s)
  PROVE  /\ E \in Seq(Env) /\ F \in Seq(Env) /\ f \in Frame /\ Pop(s) \in Seq(Frame)
         /\ Top(E) \in Env /\ Top(F) \in Env /\ Top(E).la = la
         /\ Link(a, f, Top(F), Top(E))
         /\ Top(F).cb =< Top(E).cb /\ Top(F).pos =< Top(E).pos /\ Top(F).th =< Top(E).th
         /\ Top(F).la \in Nat /\ Top(F).cb \in Nat /\ Top(F).pos \in Nat /\ Top(F).th \in Nat
         /\ Top(E).la \in Nat /\ Top(E).cb \in Nat /\ Top(E).pos \in Nat /\ Top(E).th \in Nat
         /\ \A j \in 1..Top(F).th : a.that[j] < Top(F).cb
         /\ Len(a.open) = Top(E).pos /\ Len(a.that) = Top(E).th /\ Top(E).cb =< Len(a.records)
         /\ Sound(a.records, Pending(a.that), Cuts(E))
         /\ Cuts(F) \subseteq Cuts(E) /\ Top(F).cb \in Cuts(F)
<1>1. E \in Seq(Env) /\ Chain(a, s, E) /\ Held(a, E) /\ Top(E).la = la
  BY DEF Tree
<1>2. /\ F \in Seq(Env) /\ Chain(a, Pop(s), F) /\ Pop(s) \in Seq(Frame) /\ f \in Frame
      /\ Link(a, f, Top(F), Top(E)) /\ Below(Top(F), Top(E))
  BY <1>1, ChainPop
<1>3. /\ Top(E) \in Env
      /\ Top(E).la \in Nat /\ Top(E).cb \in Nat /\ Top(E).pos \in Nat /\ Top(E).th \in Nat
  BY <1>1, ChainParts
<1>4. /\ Top(F) \in Env
      /\ Top(F).la \in Nat /\ Top(F).cb \in Nat /\ Top(F).pos \in Nat /\ Top(F).th \in Nat
      /\ \A j \in 1..Top(F).th : a.that[j] < Top(F).cb
  BY <1>2, ChainParts
<1>5. Cuts(F) \subseteq Cuts(E) /\ Top(F).cb \in Cuts(F)
  BY <1>1, <1>2, CutsParts
<1> QED
  BY <1>1, <1>2, <1>3, <1>4, <1>5 DEF Held, Below

LEMMA QuietClose ==
  ASSUME NEW a \in AstSet, NEW s \in Seq(Frame), s # << >>, NEW la, NEW E, Tree(a, s, la, E),
         NEW F, F = Pop(E), Top(F).la # 0 \/ Id(Top(s)) = "ALT"
  PROVE  Tree(a, Pop(s), Top(F).la, F) /\ Top(F).cb = Top(E).cb
<1>1. Link(a, Top(s), Top(F), Top(E)) /\ Cuts(F) \subseteq Cuts(E)
  BY TopLink
<1>2. Top(E).pos = Top(F).pos /\ Top(E).th = Top(F).th /\ Top(E).cb = Top(F).cb
  BY <1>1 DEF Link
<1>3. /\ Len(a.open) = Top(E).pos /\ Len(a.that) = Top(E).th /\ Top(E).cb =< Len(a.records)
      /\ Sound(a.records, Pending(a.that), Cuts(E))
  BY TopLink
<1>4. Sound(a.records, Pending(a.that), Cuts(F))
  BY <1>1, <1>3, SoundFewer
<1>5. Agree(a, a, Top(F))
  BY DEF Agree
<1> QED
  BY <1>2, <1>3, <1>4, <1>5, HeldPop

\* The node of an operator is closed: what it recorded is dropped if it failed.
LEMMA LastClose ==
  ASSUME NEW a \in AstSet, NEW s \in Seq(Frame), s # << >>, NEW la, NEW E, Tree(a, s, la, E),
         NEW F, F = Pop(E), Top(F).la = 0, Id(Top(s)) # "ALT", ~Records(a, Top(s)),
         NEW d \in AstSet, d.records = a.records, d.that = a.that, d.callbacks = a.callbacks,
         Len(d.open) = Top(F).pos + 1,
         \A k \in 1..(Top(F).pos + 1) : d.open[k] = a.open[k],
         NEW state, NEW b, b = AstOpClose(d, state)
  PROVE  Tree(b, Pop(s), 0, F) /\ (state = "NOMATCH" => Len(b.records) = Top(F).cb)
<1> DEFINE p == Top(F).pos
           c == Top(F).cb
<1>1. /\ Link(a, Top(s), Top(F), Top(E)) /\ Cuts(F) \subseteq Cuts(E)
      /\ p \in Nat /\ c \in Nat /\ Top(F).th \in Nat /\ c =< Top(E).cb /\ Top(E).cb \in Nat
  BY TopLink
<1>2. Top(E).th = Top(F).th /\ d.open[p + 1] = c
  <2>1. a.open[p + 1] = c /\ Top(E).th = Top(F).th
    BY <1>1 DEF Link
  <2>2. p + 1 \in 1..(p + 1)
    BY <1>1
  <2> QED
    BY <2>1, <2>2
<1>3. /\ Len(a.open) = Top(E).pos /\ Len(a.that) = Top(E).th /\ Top(E).cb =< Len(a.records)
      /\ Sound(a.records, Pending(a.that), Cuts(E)) /\ c \in Cuts(E)
  BY TopLink
<1>4. d.open \in Seq(Nat) /\ a.records \in Seq(Record) /\ Len(a.records) \in Nat
  BY AstParts
<1>5. d.open # << >> /\ Top(d.open) = c /\ Len(Pop(d.open)) = p
      /\ \A k \in 1..p : Pop(d.open)[k] = a.open[k]
  <2>1. Len(d.open) = p + 1
    OBVIOUS
  <2>2. d.open # << >>
    BY <1>1, <1>4, <2>1, EmptySeq
  <2>3. Top(d.open) = d.open[p + 1]
    BY <2>1 DEF Top
  <2>4. Len(Pop(d.open)) = Len(d.open) - 1 /\ \A k \in 1..(Len(d.open) - 1) : Pop(d.open)[k] = d.open[k]
    <3>1. d.open \in Seq(Nat)
      BY <1>4
    <3> QED
      BY ONLY <3>1, <2>2, PopLemma
  <2>5. \A k \in 1..p : d.open[k] = a.open[k]
    BY <1>1
  <2> HIDE DEF p, c
  <2> QED
    BY <1>1, <1>2, <2>1, <2>2, <2>3, <2>4, <2>5
<1>6. /\ b.callbacks = a.callbacks /\ b.that = a.that /\ b.open = Pop(d.open)
      /\ b.records = IF state = "NOMATCH" /\ Top(d.open) < Len(a.records)
                       THEN Popi(a.records, Top(d.open)) ELSE a.records
  BY <1>5, OpCloseFields
<1> HIDE DEF p, c
<1>7. /\ c =< Len(b.records)
      /\ \A k \in 1..c : b.records[k] = a.records[k]
      /\ Sound(b.records, Pending(b.that), Cuts(E))
      /\ state = "NOMATCH" => Len(b.records) = c
  <2>1. CASE state = "NOMATCH" /\ c < Len(a.records)
    <3>1. b.records = Popi(a.records, c)
      BY <1>5, <1>6, <2>1
    <3>2. c \in 0..Len(a.records)
      BY <1>1, <1>4, <2>1
    <3>3. Len(b.records) = c /\ \A k \in 1..c : b.records[k] = a.records[k]
      <4>1. a.records \in Seq(Record)
        BY <1>4
      <4>2. Len(Popi(a.records, c)) = c /\ \A k \in 1..c : Popi(a.records, c)[k] = a.records[k]
        BY ONLY <3>2, <4>1, PopiLemma
      <4> QED
        BY <3>1, <4>2
    <3>4. Sound(Popi(a.records, c), Pending(a.that), Cuts(E))
      BY <1>3, <1>4, <3>2, SoundTruncate
    <3> QED
      BY <1>1, <1>6, <3>1, <3>3, <3>4
  <2>2. CASE ~(state = "NOMATCH" /\ c < Len(a.records))
    <3>1. b.records = a.records
      BY <1>5, <1>6, <2>2
    <3>2. c =< Len(a.records)
      BY <1>1, <1>3, <1>4
    <3> QED
      BY <1>1, <1>3, <1>4, <1>6, <2>2, <3>1, <3>2
  <2> QED
    BY <2>1, <2>2
<1>8. Agree(a, b, Top(F))
  BY <1>5, <1>6, <1>7 DEF Agree, p, c
<1>9. Sound(b.records, Pending(b.that), Cuts(F))
  BY <1>1, <1>7, SoundFewer
<1>10. Tree(b, Pop(s), Top(F).la, F)
  BY <1>2, <1>3, <1>5, <1>6, <1>7, <1>8, <1>9, HeldPop DEF p, c
<1> QED
  BY <1>7, <1>10 DEF c

LEMMA PlainClose ==
  ASSUME NEW a \in AstSet, NEW s \in Seq(Frame), s # << >>, NEW la, NEW E, Tree(a, s, la, E),
         NEW F, F = Pop(E), Top(F).la = 0, Id(Top(s)) \notin {"ALT", "REP"},
         ~Records(a, Top(s)), NEW state, NEW b, b = AstOpClose(a, state)
  PROVE  Tree(b, Pop(s), 0, F) /\ (state = "NOMATCH" => Len(b.records) = Top(F).cb)
<1>1. Link(a, Top(s), Top(F), Top(E)) /\ Len(a.open) = Top(E).pos
  BY TopLink
<1>2. Len(a.open) = Top(F).pos + 1
  BY <1>1 DEF Link
<1> QED
  BY <1>2, LastClose

\* what the rule of f leaves when it ends
ClosedRule(a, f, state, length) == AstRuleClose(a, Opcode(f.op).index, state, f.beg, length)

\* A rule that is not recorded drops nothing: if it fails, so has its child.
LEMMA UnrecordedClose ==
  ASSUME NEW a \in AstSet, NEW s \in Seq(Frame), s # << >>, NEW la, NEW E, Tree(a, s, la, E),
         NEW F, F = Pop(E), Top(F).la = 0, Id(Top(s)) = "RNM",
         ~Records(a, Top(s)), NEW state, state # "MATCH" => Len(a.records) = Top(E).cb,
         NEW length, NEW b, b = ClosedRule(a, Top(s), state, length)
  PROVE  Tree(b, Pop(s), 0, F) /\ (state # "MATCH" => Len(b.records) = Top(F).cb)
<1> DEFINE i == Opcode(Top(s).op).index
           offset == Top(s).beg
<1>0. i \notin a.callbacks /\ b = AstRuleClose(a, i, state, offset, length)
  BY DEF Records, ClosedRule
<1> HIDE DEF i, offset
<1>1. /\ Link(a, Top(s), Top(F), Top(E)) /\ Len(a.open) = Top(E).pos
      /\ Top(F).pos \in Nat /\ Top(F).cb \in Nat
  BY TopLink
<1>3. Len(a.open) = Top(F).pos + 1 /\ a.open[Top(F).pos + 1] = Top(F).cb /\ Top(E).cb = Top(F).cb
  BY <1>1 DEF Link
<1>4. a.open # << >>
  BY <1>1, <1>3, EmptySeq
<1>5. Top(a.open) = Top(F).cb
  <2>1. Top(a.open) = a.open[Len(a.open)]
    BY DEF Top
  <2> QED
    BY <1>3, <2>1
<1> DEFINE d == AstOpClose(a, "MATCH")
<1>6. d = [a EXCEPT !.open = Pop(@)] /\ d.records = a.records
  <2>1. d = [a EXCEPT !.open = Pop(@), !.records = a.records]
    BY <1>4 DEF AstOpClose
  <2> QED
    BY <2>1 DEF AstSet
<1>7. b = IF state = "MATCH" THEN AstRuleMatch(d, i, offset, length)
                             ELSE AstRuleNomatch(d, Top(a.open))
  BY <1>0, <1>4, <1>6 DEF AstRuleClose
<1>8. AstRuleMatch(d, i, offset, length) = d
  <2>1. d.callbacks = a.callbacks
    BY <1>4, OpCloseFields
  <2> QED
    BY <1>0, <2>1 DEF AstRuleMatch
<1>9. state # "MATCH" => AstRuleNomatch(d, Top(a.open)) = d
  BY <1>1, <1>3, <1>5, <1>6 DEF AstRuleNomatch
<1>10. b = d
  BY <1>7, <1>8, <1>9
<1>11. Tree(d, Pop(s), 0, F)
  BY PlainClose
<1> QED
  BY <1>3, <1>6, <1>10, <1>11

\* REP closes the node of its last repetition and its own.
LEMMA RepeatClose ==
  ASSUME NEW a \in AstSet, NEW s \in Seq(Frame), s # << >>, NEW la, NEW E, Tree(a, s, la, E),
         NEW F, F = Pop(E), Top(F).la = 0, Id(Top(s)) = "REP",
         NEW answer, answer = "NOMATCH" => Len(a.records) = Top(E).cb,
         NEW d, d = AstOpClose(a, answer), NEW state, NEW b, b = AstOpClose(d, state)
  PROVE  Tree(b, Pop(s), 0, F) /\ (state = "NOMATCH" => Len(b.records) = Top(F).cb)
<1> DEFINE p == Top(F).pos
<1>1. /\ Link(a, Top(s), Top(F), Top(E)) /\ Len(a.open) = Top(E).pos /\ p \in Nat
      /\ Top(E).cb \in Nat
  BY TopLink
<1>2. ~Records(a, Top(s))
  BY DEF Records
<1>3. Len(a.open) = p + 2 /\ a.open[p + 2] = Top(E).cb
  BY <1>1 DEF Link
<1>4. a.open # << >> /\ a.open \in Seq(Nat)
  BY <1>1, <1>3, EmptySeq, AstParts
<1>5. Top(a.open) = Top(E).cb
  <2>1. Top(a.open) = a.open[Len(a.open)]
    BY DEF Top
  <2> QED
    BY <1>3, <2>1
<1>6. /\ d \in AstSet /\ d.callbacks = a.callbacks /\ d.that = a.that /\ d.open = Pop(a.open)
      /\ d.records = a.records
  BY <1>1, <1>4, <1>5, OpCloseFields
<1>7. Len(d.open) = p + 1 /\ \A k \in 1..(p + 1) : d.open[k] = a.open[k]
  <2>1. Len(Pop(a.open)) = Len(a.open) - 1 /\ \A k \in 1..(Len(a.open) - 1) : Pop(a.open)[k] = a.open[k]
    BY ONLY <1>4, PopLemma
  <2>2. Len(a.open) - 1 = p + 1
    BY <1>1, <1>3
  <2> HIDE DEF p
  <2> QED
    BY <1>6, <2>1, <2>2
<1> QED
  BY SMTT(40), <1>2, <1>6, <1>7, LastClose

\* the PRE record of the rule of f follows the first c
Waits(r, c, f) ==
  /\ c < Len(r)
  /\ r[c + 1].state = "PRE"
  /\ r[c + 1].index = Opcode(f.op).index
  /\ r[c + 1].offset = f.beg

\* A rule that is recorded waits no longer: on a match its POST record is pushed and linked
\* with the PRE record, otherwise everything since the PRE record goes.
LEMMA RecordedClose ==
  ASSUME NEW a \in AstSet, NEW s \in Seq(Frame), s # << >>, NEW la, NEW E, Tree(a, s, la, E),
         NEW F, F = Pop(E), Top(F).la = 0, Records(a, Top(s)),
         NEW state, NEW length \in Nat,
         NEW b, b = ClosedRule(a, Top(s), state, length)
  PROVE  /\ Tree(b, Pop(s), 0, F)
         /\ state = "MATCH" => /\ b.records = Ended(a.records, Top(F).cb, length)
                               /\ Waits(a.records, Top(F).cb, Top(s))
         /\ state # "MATCH" => Len(b.records) = Top(F).cb
<1> DEFINE f == Top(s)
           i == Opcode(f.op).index
           p == Top(F).pos
           c == Top(F).cb
           h == Top(F).th
           t == a.that
           r == a.records
<1>1. /\ Link(a, f, Top(F), Top(E)) /\ Len(a.open) = Top(E).pos /\ Len(t) = Top(E).th
      /\ p \in Nat /\ c \in Nat /\ h \in Nat /\ Top(E).cb =< Len(r)
      /\ \A j \in 1..h : t[j] < c
  BY TopLink
<1>2. Id(f) = "RNM" /\ i \in a.callbacks
  BY DEF Records
<1>3. /\ Len(a.open) = p + 1 /\ a.open[p + 1] = c
      /\ Len(t) = h + 1 /\ t[h + 1] = c /\ Top(E).cb = c + 1
      /\ r[c + 1].index = i /\ r[c + 1].offset = f.beg
  BY <1>1, <1>2 DEF Link
<1>4. /\ a.open \in Seq(Nat) /\ t \in Seq(Nat) /\ r \in Seq(Record) /\ Len(r) \in Nat
  BY AstParts
<1>5. c < Len(r)
  BY <1>1, <1>3, <1>4
<1>6. /\ a.open # << >> /\ Top(a.open) = c /\ Len(Pop(a.open)) = p
      /\ \A k \in 1..p : Pop(a.open)[k] = a.open[k]
  <2>1. a.open # << >>
    BY <1>1, <1>3, EmptySeq
  <2>2. Top(a.open) = a.open[Len(a.open)]
    BY DEF Top
  <2>3. Len(Pop(a.open)) = Len(a.open) - 1 /\ \A k \in 1..(Len(a.open) - 1) : Pop(a.open)[k] = a.open[k]
    <3>1. a.open \in Seq(Nat)
      BY <1>4
    <3> QED
      BY ONLY <3>1, <2>1, PopLemma
  <2> HIDE DEF p, c
  <2> QED
    BY <1>1, <1>3, <2>1, <2>2, <2>3
<1>7. /\ t # << >> /\ Top(t) = c /\ Len(Pop(t)) = h
      /\ \A k \in 1..h : Pop(t)[k] = t[k]
  <2>1. t # << >>
    BY <1>1, <1>3, EmptySeq
  <2>2. Top(t) = t[Len(t)]
    BY DEF Top
  <2>3. Len(Pop(t)) = Len(t) - 1 /\ \A k \in 1..(Len(t) - 1) : Pop(t)[k] = t[k]
    <3>1. t \in Seq(Nat)
      BY <1>4
    <3> HIDE DEF t
    <3> QED
      BY ONLY <3>1, <2>1, PopLemma
  <2> HIDE DEF h, c, t
  <2> QED
    BY <1>1, <1>3, <2>1, <2>2, <2>3
<1> DEFINE P == Pending(t)
           Q == Pending(Pop(t))
<1>8. /\ P \in SUBSET Nat /\ c \in P /\ \A x \in P : x =< c
      /\ Q = P \ {c}
  <2>1. \A j \in 1..(h + 1) : t[j] \in Nat /\ (j \in 1..h \/ j = h + 1)
    <3> TAKE j \in 1..(h + 1)
    <3>1. t[j] \in Nat
      BY <1>3, <1>4, ElementOfSeq
    <3>2. j \in 1..h \/ j = h + 1
      <4> HIDE DEF h
      <4> QED
        BY <1>1
    <3> QED
      BY <3>1, <3>2
  <2>2. P = {t[j] : j \in 1..(h + 1)} /\ Q = {Pop(t)[j] : j \in 1..h}
    BY <1>3, <1>7 DEF Pending
  <2> HIDE DEF P, Q, h, c, t
  <2>3. \A j \in 1..(h + 1) : t[j] =< c
    BY SMTT(40), <1>1, <1>3, <2>1
  <2>4. P \in SUBSET Nat /\ \A x \in P : x =< c
    BY <2>1, <2>2, <2>3
  <2>5. h + 1 \in 1..(h + 1) /\ \A j \in 1..h : j \in 1..(h + 1) /\ t[j] # c
    <3> SUFFICES ASSUME NEW j \in 1..h PROVE j \in 1..(h + 1) /\ t[j] # c
      BY <1>1
    <3>1. j \in 1..(h + 1) /\ t[j] < c /\ t[j] \in Nat
      BY <1>1, <2>1
    <3> QED
      BY <1>1, <3>1
  <2>6. c \in P
    BY <1>3, <2>2, <2>5
  <2>7. Q \subseteq P \ {c}
    BY <1>7, <2>2, <2>5
  <2>8. P \ {c} \subseteq Q
    <3> SUFFICES ASSUME NEW x \in P, x # c PROVE x \in Q
      OBVIOUS
    <3>1. PICK j \in 1..(h + 1) : x = t[j]
      BY <2>2
    <3>2. j \in 1..h
      BY <1>3, <2>1, <3>1
    <3> QED
      BY <1>7, <2>2, <3>1, <3>2
  <2> QED
    BY <2>4, <2>6, <2>7, <2>8
<1>9. /\ Sound(r, P, Cuts(E)) /\ Cuts(F) \subseteq Cuts(E) /\ c \in Cuts(E)
      /\ Cuts(F) \in SUBSET (0..c) /\ Cuts(E) \in SUBSET Nat
  <2>1. E \in Seq(Env) /\ Chain(a, s, E)
    BY DEF Tree
  <2>2. Chain(a, Pop(s), F) /\ Pop(s) \in Seq(Frame) /\ F \in Seq(Env)
    BY <2>1, ChainPop
  <2>3. Cuts(F) \in SUBSET (0..c)
    BY <2>2, CutsParts
  <2>4. Cuts(E) \in SUBSET (0..Top(E).cb)
    BY <2>1, CutsParts
  <2>5. Sound(r, P, Cuts(E)) /\ Cuts(F) \subseteq Cuts(E) /\ c \in Cuts(F)
    BY TopLink
  <2>6. Top(E).cb \in Nat
    BY TopLink
  <2> QED
    BY <2>3, <2>4, <2>5, <2>6
<1> DEFINE d == [a EXCEPT !.open = Pop(@)]
<1>10. /\ d.callbacks = a.callbacks /\ d.records = r /\ d.that = t /\ d.open = Pop(a.open)
       /\ d \in AstSet
  <2>1. Pop(a.open) \in Seq(Nat)
    BY <1>4, <1>6, PopLemma
  <2> QED
    BY <2>1 DEF AstSet
<1>11. b = IF state = "MATCH" THEN AstRuleMatch(d, i, f.beg, length) ELSE AstRuleNomatch(d, c)
  BY <1>6 DEF AstRuleClose, ClosedRule
<1> HIDE DEF d
<1>12. ASSUME b.open = Pop(a.open), b.that = Pop(t), b.callbacks = a.callbacks,
              c =< Len(b.records), \A k \in 1..c : b.records[k] = r[k],
              Sound(b.records, Q, Cuts(F))
       PROVE  Tree(b, Pop(s), 0, F)
  <2>1. Agree(a, b, Top(F))
    BY <1>6, <1>7, <1>12 DEF Agree
  <2> QED
    BY <1>6, <1>7, <1>12, <2>1, HeldPop
<1>13. CASE state = "MATCH"
  <2> DEFINE n == Len(r)
             e == Ended(r, c, length)
  <2>1. d.that # << >> /\ Top(d.that) = c /\ ~(c >= Len(d.records))
    BY <1>1, <1>4, <1>5, <1>7, <1>10
  <2>2. r[c + 1].this = c
    <3>1. c + 1 \in 1..Len(r)
      BY <1>1, <1>4, <1>5
    <3> QED
      BY <1>1, <1>9, <3>1 DEF Sound
  <2>3. b = [[d EXCEPT !.that = Pop(@)] EXCEPT !.records = e]
    <3>1. [d EXCEPT !.that = Pop(@)].records = r
      BY <1>10 DEF AstSet
    <3> QED
      BY <1>2, <1>3, <1>10, <1>11, <1>13, <2>1, <3>1 DEF AstRuleMatch, Ended
  <2> HIDE DEF e
  <2>4. b.open = Pop(a.open) /\ b.that = Pop(t) /\ b.callbacks = a.callbacks /\ b.records = e
    BY <1>10, <2>3 DEF AstSet
  <2>5. Len(e) = n + 1 /\ \A k \in 1..c : e[k] = r[k]
    <3>1. c < n /\ c \in Nat /\ n \in Nat
      BY <1>1, <1>4, <1>5
    <3>2. Len(e) = n + 1 /\ \A k \in 1..n : k # c + 1 => e[k] = r[k]
      <4>1. r \in Seq(Record) /\ c \in Nat /\ c < Len(r) /\ length \in Nat
        BY <1>1, <1>4, <1>5
      <4>2. n = Len(r)
        OBVIOUS
      <4> HIDE DEF n, c, r
      <4>3. /\ Len(Ended(r, c, length)) = Len(r) + 1
            /\ \A k \in 1..Len(r) : k # c + 1 => Ended(r, c, length)[k] = r[k]
        BY ONLY <4>1, EndedParts
      <4> QED
        BY <4>2, <4>3 DEF e
    <3> HIDE DEF n, c
    <3> QED
      BY <3>1, <3>2
  <2>6. Sound(e, P \ {c}, {x \in Cuts(E) : x =< c})
    <3> HIDE DEF c, r, P
    <3> QED
      BY SMTT(40), <1>1, <1>4, <1>5, <1>8, <1>9, SoundMatch DEF e
  <2>7. Cuts(F) \subseteq {x \in Cuts(E) : x =< c}
    <3> HIDE DEF c
    <3> QED
      BY <1>1, <1>9
  <2>8. Sound(e, Q, Cuts(F))
    BY <1>8, <2>6, <2>7, SoundFewer
  <2>9. Tree(b, Pop(s), 0, F)
    BY <1>1, <1>4, <1>5, <1>12, <1>13, <2>4, <2>5, <2>8
  <2>10. b.records = Ended(a.records, Top(F).cb, length)
    BY <2>4 DEF e
  <2>11. Waits(a.records, Top(F).cb, Top(s))
    <3>1. c + 1 \in 1..Len(r) /\ (c + 1) - 1 = c
      BY <1>1, <1>4, <1>5
    <3>2. r[c + 1].state = "PRE"
      <4> HIDE DEF c, r, P
      <4> QED
        BY <1>8, <1>9, <3>1 DEF Sound
    <3> QED
      BY <1>3, <1>5, <3>2 DEF Waits
  <2> QED
    BY <1>13, <2>9, <2>10, <2>11
<1>14. CASE state # "MATCH"
  <2> DEFINE e == Popi(r, c)
  <2>1. ~(c >= Len(d.records)) /\ d.that # << >>
    BY <1>1, <1>4, <1>5, <1>7, <1>10
  <2>2. b = [[d EXCEPT !.records = e] EXCEPT !.that = Pop(@)]
    <3>1. [d EXCEPT !.records = e].that = t
      BY <1>10 DEF AstSet
    <3> QED
      BY <1>7, <1>10, <1>11, <1>14, <2>1, <3>1 DEF AstRuleNomatch
  <2>3. c \in 0..Len(r)
    BY <1>1, <1>4, <1>5
  <2>4. Len(e) = c /\ \A k \in 1..c : e[k] = r[k]
    <3>1. r \in Seq(Record)
      BY <1>4
    <3> HIDE DEF c, r
    <3> QED
      BY ONLY <2>3, <3>1, PopiLemma
  <2>5. Sound(e, Q, Cuts(E))
    <3>1. \A x \in 0..(c - 1) : x \in Q <=> x \in P
      <4>1. \A x \in 0..(c - 1) : x # c
        BY <1>1
      <4> QED
        BY <1>8, <4>1
    <3> HIDE DEF c, r, P, Q
    <3> QED
      BY <1>4, <1>9, <2>3, <3>1, SoundTruncate
  <2> HIDE DEF e
  <2>6. b.open = Pop(a.open) /\ b.that = Pop(t) /\ b.callbacks = a.callbacks /\ b.records = e
    BY <1>10, <2>2 DEF AstSet
  <2>7. Sound(e, Q, Cuts(F))
    BY <1>9, <2>5, SoundFewer
  <2>8. c =< Len(b.records) /\ Len(b.records) = c
    BY <1>1, <2>4, <2>6
  <2> QED
    BY <1>12, <1>14, <2>4, <2>6, <2>7, <2>8
<1> QED
  BY <1>13, <1>14

\* a child that has failed, or runs within a look-around, leaves no record of its own
Bare(a, E, state, la) == (state = "NOMATCH" \/ la # 0) => Len(a.records) = Top(E).cb

\* b is what the operator of f makes of a when it ends, its child having answered answer
Closes(a, f, answer, state, length, above, b) ==
  /\ state \in {"MATCH", "NOMATCH"} /\ length \in Nat
  /\ Id(f) = "ALT" => b = a /\ state = answer
  /\ Id(f) \notin {"ALT", "REP", "RNM"} => b = AST_OP_CLOSE(a, above, state)
  /\ Id(f) = "REP" => b = AST_OP_CLOSE(AST_OP_CLOSE(a, above, answer), above, state)
  /\ Id(f) = "RNM" =>
       /\ b = AST_RULE_CLOSE(a, above, Opcode(f.op).index, state, f.beg, length)
       /\ state = "NOMATCH" => answer = "NOMATCH" \/ Opcode(f.op).index \in a.callbacks

\* The operator on top has closed its node, or has none to close.
LEMMA TreeClosed ==
  ASSUME NEW a \in AstSet, a.attached, NEW s \in Seq(Frame), s # << >>, NEW la, NEW E,
         Tree(a, s, la, E), NEW F, F = Pop(E),
         NEW answer, Bare(a, E, answer, la),
         NEW f, f = Top(s), NEW above, above = Top(F).la,
         NEW state, NEW length, NEW b,
         Closes(a, f, answer, state, length, above, b)
  PROVE  Tree(b, Pop(s), above, F) /\ Bare(b, F, state, above)
<1>. SUFFICES /\ Tree(b, Pop(s), above, F)
              /\ state = "NOMATCH" \/ above # 0 => Len(b.records) = Top(F).cb
  BY DEF Bare
<1>00. /\ state \in {"MATCH", "NOMATCH"} /\ length \in Nat
       /\ answer = "NOMATCH" \/ la # 0 => Len(a.records) = Top(E).cb
  BY DEF Closes, Bare
<1>0. /\ Id(f) = "ALT" => b = a /\ state = answer
      /\ Id(f) \notin {"ALT", "REP", "RNM"} => b = AST_OP_CLOSE(a, above, state)
      /\ Id(f) = "REP" => b = AST_OP_CLOSE(AST_OP_CLOSE(a, above, answer), above, state)
      /\ Id(f) = "RNM" =>
           /\ b = AST_RULE_CLOSE(a, above, Opcode(f.op).index, state, f.beg, length)
           /\ state = "NOMATCH" => answer = "NOMATCH" \/ Opcode(f.op).index \in a.callbacks
  BY DEF Closes
<1>1. /\ Link(a, f, Top(F), Top(E)) /\ Top(E).la = la
      /\ Top(F).la \in Nat /\ Top(E).la \in Nat
  BY TopLink
<1>2. Top(F).la = above /\ (above # 0 => la # 0)
  <2>1. Top(E).la = IF IsLook(f) THEN Top(F).la + 1 ELSE Top(F).la
    BY <1>1 DEF Link
  <2> QED
    BY <1>1, <2>1
<1>3. CASE above # 0 \/ Id(f) = "ALT"
  <2>1. Tree(a, Pop(s), above, F) /\ Top(F).cb = Top(E).cb
    <3>1. a \in AstSet /\ s \in Seq(Frame) /\ s # << >> /\ Tree(a, s, la, E) /\ F = Pop(E)
      OBVIOUS
    <3>2. Top(F).la # 0 \/ Id(Top(s)) = "ALT"
      BY <1>2, <1>3
    <3>3. Tree(a, Pop(s), Top(F).la, F) /\ Top(F).cb = Top(E).cb
      BY ONLY <3>1, <3>2, QuietClose
    <3> QED
      BY <1>2, <3>3
  <2>2. b = a
    <3>1. CASE Id(f) = "ALT"
      BY <1>0, <3>1
    <3>2. CASE above # 0 /\ Id(f) # "ALT"
      <4>1. ~Recording(a, above)
        BY <3>2 DEF Recording
      <4> QED
        BY <1>0, <3>2, <4>1, HooksOff
    <3> QED
      BY <1>3, <3>1, <3>2
  <2>3. above = 0 => Id(f) = "ALT" /\ state = answer
    BY <1>0, <1>3
  <2> QED
    BY <1>00, <1>2, <2>1, <2>2, <2>3
<1>4. CASE above = 0 /\ Id(f) \notin {"ALT", "REP", "RNM"}
  <2>1. b = AstOpClose(a, state)
    BY <1>0, <1>4 DEF AST_OP_CLOSE, Recording
  <2>2. ~Records(a, f)
    BY <1>4 DEF Records
  <2> QED
    BY <1>2, <1>4, <2>1, <2>2, PlainClose
<1>5. CASE above = 0 /\ Id(f) = "REP"
  <2> DEFINE d == AstOpClose(a, answer)
  <2>1. la = 0 /\ Top(F).la = 0
    <3>1. ~IsLook(f)
      BY <1>5, Kinds DEF IsLook
    <3> QED
      BY <1>1, <1>2, <1>5, <3>1 DEF Link
  <2>2. AST_OP_CLOSE(a, above, answer) = d
    BY <1>5 DEF AST_OP_CLOSE, Recording
  <2>3. a.open # << >>
    <3>1. Top(F).pos \in Nat /\ Len(a.open) = Top(E).pos
      BY TopLink
    <3>2. Top(E).pos = Top(F).pos + 2
      BY <1>1, <1>5, <2>1 DEF Link
    <3> QED
      BY <3>1, <3>2, EmptySeq
  <2>4. d.attached
    BY <2>3, OpCloseFields
  <2>5. b = AstOpClose(d, state)
    BY <1>0, <1>5, <2>2, <2>4 DEF AST_OP_CLOSE, Recording
  <2>6. answer = "NOMATCH" => Len(a.records) = Top(E).cb
    BY <1>00
  <2> QED
    BY <1>5, <2>1, <2>5, <2>6, RepeatClose
<1>6. CASE above = 0 /\ Id(f) = "RNM"
  <2> DEFINE i == Opcode(f.op).index
  <2>1. Top(F).la = 0
    BY <1>2, <1>6
  <2>2. b = ClosedRule(a, f, state, length)
    BY <1>0, <1>6 DEF AST_RULE_CLOSE, Recording, ClosedRule
  <2>3. state # "MATCH" <=> state = "NOMATCH"
    BY <1>00
  <2>4. CASE i \in a.callbacks
    <3>1. Records(a, f)
      BY <1>6, <2>4 DEF Records
    <3>2. Tree(b, Pop(s), 0, F) /\ (state # "MATCH" => Len(b.records) = Top(F).cb)
      <4>1. a \in AstSet /\ s \in Seq(Frame) /\ s # << >> /\ Tree(a, s, la, E) /\ F = Pop(E)
        OBVIOUS
      <4>2. /\ Top(F).la = 0 /\ Records(a, Top(s)) /\ length \in Nat
            /\ b = ClosedRule(a, Top(s), state, length)
        BY <1>00, <2>1, <2>2, <3>1
      <4> QED
        BY ONLY <4>1, <4>2, RecordedClose
    <3> QED
      BY <1>6, <2>3, <3>2
  <2>5. CASE i \notin a.callbacks
    <3>1. state # "MATCH" => Len(a.records) = Top(E).cb
      BY <1>0, <1>00, <1>6, <2>3, <2>5
    <3>2. Tree(b, Pop(s), 0, F) /\ (state # "MATCH" => Len(b.records) = Top(F).cb)
      <4>1. a \in AstSet /\ s \in Seq(Frame) /\ s # << >> /\ Tree(a, s, la, E) /\ F = Pop(E)
        OBVIOUS
      <4>2. /\ Top(F).la = 0 /\ Id(Top(s)) = "RNM" /\ ~Records(a, Top(s))
            /\ b = ClosedRule(a, Top(s), state, length)
        BY <1>6, <2>1, <2>2, <2>5 DEF Records
      <4> QED
        BY ONLY <3>1, <4>1, <4>2, UnrecordedClose
    <3> QED
      BY <1>6, <2>3, <3>2
  <2> QED
    BY <2>4, <2>5
<1> QED
  BY <1>3, <1>4, <1>5, <1>6

-----------------------------------------------------------------------------
(* What closing a node does to the records.                                *)

\* r is how q begins
Heads(r, q) == Len(r) =< Len(q) /\ \A k \in 1..Len(r) : r[k] = q[k]

LEMMA HeadsSelf ==
  ASSUME NEW q \in Seq(Record)
  PROVE  Heads(q, q)
BY LenProperties DEF Heads

LEMMA HeadsTwice ==
  ASSUME NEW p \in Seq(Record), NEW r \in Seq(Record), NEW q \in Seq(Record), Heads(p, r), Heads(r, q)
  PROVE  Heads(p, q)
<1>1. Len(p) \in Nat /\ Len(r) \in Nat /\ Len(q) \in Nat
  BY LenProperties
<1>2. \A k \in 1..Len(p) : k \in 1..Len(r)
  BY <1>1 DEF Heads
<1> QED
  BY <1>1, <1>2 DEF Heads

LEMMA PopiHeads ==
  ASSUME NEW q \in Seq(Record), NEW i \in Nat, i < Len(q)
  PROVE  Heads(Popi(q, i), q) /\ Len(Popi(q, i)) \in Nat
<1>1. i \in 0..Len(q) /\ i =< Len(q)
  BY LenProperties
<1>2. Len(Popi(q, i)) = i /\ \A n \in 1..i : Popi(q, i)[n] = q[n]
  BY <1>1, PopiLemma
<1> QED
  BY <1>1, <1>2 DEF Heads

LEMMA OpCloseHeads ==
  ASSUME NEW a \in AstSet, NEW la, NEW state, NEW b, b = AST_OP_CLOSE(a, la, state)
  PROVE  /\ b \in AstSet /\ Heads(b.records, a.records)
         /\ state # "NOMATCH" => b.records = a.records
<1>1. a.open \in Seq(Nat) /\ a.records \in Seq(Record) /\ Heads(a.records, a.records)
  BY AstParts, HeadsSelf
<1>2. CASE ~Recording(a, la)
  BY <1>1, <1>2, HooksOff
<1>3. CASE Recording(a, la) /\ a.open = << >>
  <2>1. b = XThrow(a)
    BY <1>3 DEF AST_OP_CLOSE, AstOpClose
  <2>2. b \in AstSet /\ b.records = a.records
    BY <2>1, XThrowType DEF XThrow, AstSet
  <2> QED
    BY <1>1, <2>2
<1>4. CASE Recording(a, la) /\ a.open # << >>
  <2>1. b = AstOpClose(a, state)
    BY <1>4 DEF AST_OP_CLOSE
  <2>2. /\ b \in AstSet
        /\ b.records = IF state = "NOMATCH" /\ Top(a.open) < Len(a.records)
                         THEN Popi(a.records, Top(a.open)) ELSE a.records
    BY <1>4, <2>1, OpCloseFields
  <2>3. Top(a.open) \in Nat
    BY <1>1, <1>4, PopLemma
  <2>4. CASE state = "NOMATCH" /\ Top(a.open) < Len(a.records)
    BY <1>1, <2>2, <2>3, <2>4, PopiHeads
  <2>5. CASE ~(state = "NOMATCH" /\ Top(a.open) < Len(a.records))
    BY <1>1, <2>2, <2>5
  <2> QED
    BY <2>4, <2>5
<1> QED
  BY <1>2, <1>3, <1>4

LEMMA AstFields ==
  ASSUME NEW d \in AstSet
  PROVE  d = [attached |-> d.attached, callbacks |-> d.callbacks, records |-> d.records,
              that |-> d.that, open |-> d.open, error |-> d.error]
BY DEF AstSet

\* A rule that is not recorded, or fails, adds nothing.
LEMMA RuleCloseHeads ==
  ASSUME NEW a \in AstSet, NEW la, NEW i, NEW state, NEW offset, NEW length,
         state # "MATCH" \/ i \notin a.callbacks,
         NEW b, b = AST_RULE_CLOSE(a, la, i, state, offset, length)
  PROVE  /\ Heads(b.records, a.records) /\ Len(b.records) \in Nat
         /\ state = "MATCH" => b.records = a.records
<1>1. a.open \in Seq(Nat) /\ a.records \in Seq(Record) /\ Heads(a.records, a.records)
  BY AstParts, HeadsSelf
<1>2. CASE ~Recording(a, la)
  BY <1>1, <1>2, HooksOff
<1>3. CASE Recording(a, la) /\ a.open = << >>
  <2>1. b = XThrow(a)
    BY <1>3 DEF AST_RULE_CLOSE, AstRuleClose
  <2>2. b.records = a.records
    BY <2>1 DEF XThrow, AstSet
  <2> QED
    BY <1>1, <2>2
<1>4. CASE Recording(a, la) /\ a.open # << >>
  <2> DEFINE d == [a EXCEPT !.open = Pop(@)]
             count == Top(a.open)
  <2>1. b = IF state = "MATCH" THEN AstRuleMatch(d, i, offset, length) ELSE AstRuleNomatch(d, count)
    BY <1>4 DEF AST_RULE_CLOSE, AstRuleClose
  <2>2. count \in Nat /\ Pop(a.open) \in Seq(Nat)
    BY <1>1, <1>4, PopLemma
  <2>3. d \in AstSet /\ d.records = a.records /\ d.callbacks = a.callbacks
    BY <2>2 DEF AstSet
  <2>7. d = [attached |-> d.attached, callbacks |-> d.callbacks, records |-> d.records,
             that |-> d.that, open |-> d.open, error |-> d.error]
    BY <2>3, AstFields
  <2> HIDE DEF d, count
  <2>4. CASE state = "MATCH"
    <3>1. b = d
      BY <2>1, <2>3, <2>4 DEF AstRuleMatch
    <3> QED
      BY <1>1, <2>3, <3>1
  <2>5. CASE state # "MATCH" /\ count >= Len(d.records)
    <3>1. b = d
      BY <2>1, <2>5 DEF AstRuleNomatch
    <3> QED
      BY <1>1, <2>3, <2>5, <3>1
  <2>6. CASE state # "MATCH" /\ ~(count >= Len(d.records))
    <3> DEFINE c == [d EXCEPT !.records = Popi(@, count)]
    <3>1. b = IF d.that = << >> THEN XThrow(c) ELSE [c EXCEPT !.that = Pop(@)]
      BY <2>1, <2>6 DEF AstRuleNomatch
    <3>2. c.records = Popi(d.records, count)
      BY ONLY <2>7
    <3>3. c = [attached |-> d.attached, callbacks |-> d.callbacks, records |-> Popi(d.records, count),
               that |-> d.that, open |-> d.open, error |-> d.error]
      BY ONLY <2>7
    <3>4. b.records = c.records
      <4> HIDE DEF c
      <4>1. XThrow(c).records = c.records /\ [c EXCEPT !.that = Pop(@)].records = c.records
        BY <3>3 DEF XThrow
      <4> QED
        BY <3>1, <4>1
    <3>5. count < Len(a.records)
      BY <1>1, <2>2, <2>3, <2>6, LenProperties
    <3>6. Heads(Popi(a.records, count), a.records)
      BY <1>1, <2>2, <3>5, PopiHeads
    <3> QED
      BY <2>3, <2>6, <3>2, <3>4, <3>6
  <2> QED
    BY <2>4, <2>5, <2>6
<1> QED
  BY <1>2, <1>3, <1>4

\* REP drops nothing when it closes the node of a repetition: if that has failed, it has
\* left no record.
LEMMA RepeatKeeps ==
  ASSUME NEW a \in AstSet, NEW s \in Seq(Frame), s # << >>, NEW la, NEW E, Tree(a, s, la, E),
         NEW F, F = Pop(E), Top(F).la = 0, Id(Top(s)) = "REP",
         NEW answer, answer = "NOMATCH" => Len(a.records) = Top(E).cb
  PROVE  AST_OP_CLOSE(a, 0, answer).records = a.records
<1> DEFINE p == Top(F).pos
<1>1. /\ Link(a, Top(s), Top(F), Top(E)) /\ Len(a.open) = Top(E).pos /\ p \in Nat
      /\ Top(E).cb \in Nat
  BY TopLink
<1>2. Len(a.open) = p + 2 /\ a.open[p + 2] = Top(E).cb
  BY <1>1 DEF Link
<1>3. a.open # << >> /\ a.open \in Seq(Nat)
  BY <1>1, <1>2, EmptySeq, AstParts
<1>4. Top(a.open) = Top(E).cb
  <2>1. Top(a.open) = a.open[Len(a.open)]
    BY DEF Top
  <2> QED
    BY <1>2, <2>1
<1>5. AstOpClose(a, answer).records = a.records
  BY <1>1, <1>3, <1>4, OpCloseFields
<1> QED
  BY <1>5 DEF AST_OP_CLOSE

\* An operator that ends leaves the records of its caller alone; on a match it keeps those
\* of its children, and a rule that is recorded ends its node.
ClosedRecords(a, b, f, cb, state, length, above) ==
  /\ \A k \in 1..cb : b.records[k] = a.records[k]
  /\ above = 0 /\ state = "MATCH" =>
       IF Records(a, f) THEN b.records = Ended(a.records, cb, length) /\ Waits(a.records, cb, f)
                        ELSE b.records = a.records

LEMMA RecordsClosed ==
  ASSUME NEW a \in AstSet, a.attached, NEW s \in Seq(Frame), s # << >>, NEW la, NEW E,
         Tree(a, s, la, E), NEW F, F = Pop(E),
         NEW answer, Bare(a, E, answer, la),
         NEW f, f = Top(s), NEW above, above = Top(F).la,
         NEW state, NEW length, NEW b,
         Closes(a, f, answer, state, length, above, b)
  PROVE  ClosedRecords(a, b, f, Top(F).cb, state, length, above)
<1> DEFINE cb == Top(F).cb
<1>1. Tree(b, Pop(s), above, F)
  BY TreeClosed
<1>2. cb =< Len(b.records) /\ cb \in Nat /\ a.records \in Seq(Record)
  <2>1. cb =< Len(b.records)
    BY <1>1 DEF Tree, Held
  <2>2. cb \in Nat
    BY TopLink
  <2> QED
    BY <2>1, <2>2, AstParts
<1>3. /\ state \in {"MATCH", "NOMATCH"} /\ length \in Nat
      /\ answer = "NOMATCH" => Len(a.records) = Top(E).cb
      /\ Id(f) = "ALT" => b = a /\ state = answer
      /\ Id(f) \notin {"ALT", "REP", "RNM"} => b = AST_OP_CLOSE(a, above, state)
      /\ Id(f) = "REP" => b = AST_OP_CLOSE(AST_OP_CLOSE(a, above, answer), above, state)
      /\ Id(f) = "RNM" => b = AST_RULE_CLOSE(a, above, Opcode(f.op).index, state, f.beg, length)
  BY DEF Closes, Bare
<1>4. ASSUME Heads(b.records, a.records), Len(b.records) \in Nat
      PROVE  \A k \in 1..cb : b.records[k] = a.records[k]
  <2> TAKE k \in 1..cb
  <2>1. k \in 1..Len(b.records)
    BY <1>2, <1>4
  <2> QED
    BY <1>4, <2>1 DEF Heads
<1> SUFFICES ClosedRecords(a, b, f, cb, state, length, above)
  OBVIOUS
<1> HIDE DEF cb
<1>5. ASSUME Heads(b.records, a.records), Len(b.records) \in Nat, ~Records(a, f), above = 0 /\ state = "MATCH" => b.records = a.records
      PROVE  ClosedRecords(a, b, f, cb, state, length, above)
  BY <1>4, <1>5 DEF ClosedRecords
<1>6. CASE Id(f) = "ALT"
  <2>1. b = a /\ ~Records(a, f)
    BY <1>3, <1>6 DEF Records
  <2>2. Heads(b.records, a.records) /\ Len(b.records) \in Nat
    BY <1>2, <2>1, HeadsSelf, LenProperties
  <2> QED
    BY ONLY <1>5, <2>1, <2>2
<1>7. CASE Id(f) \notin {"ALT", "REP", "RNM"}
  <2>1. /\ b \in AstSet /\ Heads(b.records, a.records)
        /\ state # "NOMATCH" => b.records = a.records
    BY <1>3, <1>7, OpCloseHeads
  <2>2. ~Records(a, f) /\ Len(b.records) \in Nat
    BY <1>7, <2>1, AstParts DEF Records
  <2> QED
    BY ONLY <1>5, <2>1, <2>2
<1>8. CASE Id(f) = "REP"
  <2> DEFINE d == AST_OP_CLOSE(a, above, answer)
  <2>1. d \in AstSet /\ Heads(d.records, a.records)
    BY OpCloseHeads
  <2>2. b = AST_OP_CLOSE(d, above, state)
    BY <1>3, <1>8
  <2> HIDE DEF d
  <2>3. b \in AstSet /\ Heads(b.records, d.records) /\ (state # "NOMATCH" => b.records = d.records)
    BY <2>1, <2>2, OpCloseHeads
  <2>4. Heads(b.records, a.records)
    BY <1>2, <2>1, <2>3, AstParts, HeadsTwice
  <2>5. above = 0 => d.records = a.records
    <3> SUFFICES ASSUME above = 0 PROVE d.records = a.records
      OBVIOUS
    <3>1. Top(F).la = 0 /\ Id(Top(s)) = "REP"
      BY <1>8
    <3>2. AST_OP_CLOSE(a, 0, answer).records = a.records
      BY <1>3, <3>1, RepeatKeeps
    <3> QED
      BY <3>2 DEF d
  <2>6. ~Records(a, f) /\ Len(b.records) \in Nat
    BY <1>8, <2>3, AstParts DEF Records
  <2>7. above = 0 /\ state = "MATCH" => b.records = a.records
    BY <2>3, <2>5
  <2> QED
    BY ONLY <1>5, <2>4, <2>6, <2>7
<1>9. CASE Id(f) = "RNM" /\ (state # "MATCH" \/ ~Records(a, f))
  <2>1. state # "MATCH" \/ Opcode(f.op).index \notin a.callbacks
    BY <1>9 DEF Records
  <2>2. b = AST_RULE_CLOSE(a, above, Opcode(f.op).index, state, f.beg, length)
    BY <1>3, <1>9
  <2>3. /\ Heads(b.records, a.records) /\ Len(b.records) \in Nat
        /\ state = "MATCH" => b.records = a.records
    BY <2>1, <2>2, RuleCloseHeads
  <2>4. \A k \in 1..cb : b.records[k] = a.records[k]
    BY ONLY <1>4, <2>3
  <2> QED
    BY ONLY <1>9, <2>3, <2>4 DEF ClosedRecords
<1>10. CASE Records(a, f) /\ state = "MATCH"
  <2>1. Id(f) = "RNM" /\ b = AST_RULE_CLOSE(a, above, Opcode(f.op).index, state, f.beg, length)
    BY <1>3, <1>10 DEF Records
  <2>2. CASE above # 0
    <3>1. ~Recording(a, above)
      BY <2>2 DEF Recording
    <3>2. b = a
      BY <2>1, <3>1, HooksOff
    <3> QED
      BY ONLY <2>2, <3>2 DEF ClosedRecords
  <2>3. CASE above = 0
    <3>1. b = ClosedRule(a, f, state, length)
      BY <2>1, <2>3 DEF AST_RULE_CLOSE, Recording, ClosedRule
    <3>2. b.records = Ended(a.records, cb, length) /\ Waits(a.records, cb, f)
      <4>1. a \in AstSet /\ s \in Seq(Frame) /\ s # << >> /\ Tree(a, s, la, E) /\ F = Pop(E)
        OBVIOUS
      <4>2. /\ Top(F).la = 0 /\ Records(a, Top(s)) /\ length \in Nat /\ state = "MATCH"
            /\ b = ClosedRule(a, Top(s), state, length)
        BY <1>3, <1>10, <2>3, <3>1
      <4>3. /\ b.records = Ended(a.records, Top(F).cb, length) /\ Waits(a.records, Top(F).cb, Top(s))
        BY ONLY <4>1, <4>2, RecordedClose
      <4> QED
        BY <4>3 DEF cb
    <3>3. \A k \in 1..cb : b.records[k] = a.records[k]
      <4>1. cb < Len(a.records)
        BY <3>2 DEF Waits
      <4>2. \A k \in 1..Len(a.records) : k # cb + 1 => b.records[k] = a.records[k]
        BY <1>2, <1>3, <3>2, <4>1, EndedParts
      <4>3. \A k \in 1..cb : k \in 1..Len(a.records) /\ k # cb + 1
        BY <1>2, <4>1, LenProperties
      <4> QED
        BY <4>2, <4>3
    <3> QED
      BY ONLY <1>10, <2>3, <3>2, <3>3 DEF ClosedRecords
  <2> QED
    BY <2>2, <2>3
<1> QED
  BY <1>6, <1>7, <1>8, <1>9, <1>10

\* The operator on top calls another child: a new frame, a new cut.
LEMMA TreeReplace ==
  ASSUME NEW a \in AstSet, NEW s \in Seq(Frame), s # << >>, NEW la, NEW E, Tree(a, s, la, E),
         NEW F, F = Pop(E), NEW g \in Frame, NEW b, Agree(a, b, Top(F)),
         NEW h \in Env, Below(Top(F), h), Link(b, g, Top(F), h),
         Len(b.open) = h.pos, Len(b.that) = h.th, Len(b.records) = h.cb,
         \A j \in 1..h.th : b.that[j] < h.cb,
         Sound(b.records, Pending(b.that), Cuts(F) \cup {h.cb})
  PROVE  Tree(b, Append(Pop(s), g), h.la, Append(F, h)) /\ Top(Append(F, h)) = h
<1>1. E \in Seq(Env) /\ Chain(a, s, E)
  BY DEF Tree
<1>2. Pop(s) \in Seq(Frame) /\ F \in Seq(Env) /\ Chain(a, Pop(s), F)
  BY <1>1, ChainPop
<1>3. /\ Append(F, h) \in Seq(Env) /\ Top(Append(F, h)) = h
      /\ Chain(b, Append(Pop(s), g), Append(F, h))
      /\ Held(b, Append(F, h))
  <2>1. /\ Pop(s) \in Seq(Frame) /\ F \in Seq(Env) /\ Chain(a, Pop(s), F) /\ Agree(a, b, Top(F))
        /\ g \in Frame /\ h \in Env /\ Below(Top(F), h) /\ Link(b, g, Top(F), h)
    BY <1>2
  <2>2. /\ Len(b.open) = h.pos /\ Len(b.that) = h.th /\ Len(b.records) = h.cb
        /\ \A j \in 1..h.th : b.that[j] < h.cb
        /\ Sound(b.records, Pending(b.that), Cuts(F) \cup {h.cb})
    OBVIOUS
  <2> QED
    BY ONLY <2>1, <2>2, HeldPush
<1>4. F[1] = E[1] /\ 1 \in 1..Len(F)
  <2>1. Len(Pop(s)) \in Nat /\ Len(F) = Len(Pop(s)) + 1
    BY <1>2, ChainParts
  <2>2. E # << >>
    BY <1>1, ChainParts
  <2>3. Len(F) = Len(E) - 1 /\ \A n \in 1..(Len(E) - 1) : F[n] = E[n]
    BY <1>1, <2>2, PopLemma
  <2>4. 1 \in 1..(Len(E) - 1) /\ 1 \in 1..Len(F)
    BY <2>1, <2>3
  <2> QED
    BY <2>3, <2>4
<1>5. Append(F, h)[1] = F[1]
  BY <1>2, <1>4, AppendLemma
<1> QED
  BY <1>3, <1>4, <1>5 DEF Tree

-----------------------------------------------------------------------------
(* An operator goes on, or begins and ends in one step.                    *)

\* the frame of an operator that has been answered, and its frame when it goes on
SameOperator(g, f) == g.op = f.op /\ g.beg = f.beg

LEMMA SameOperatorIs ==
  ASSUME NEW f, NEW g, SameOperator(g, f)
  PROVE  /\ Id(g) = Id(f) /\ (IsLook(g) <=> IsLook(f))
         /\ \A a : Records(a, g) <=> Records(a, f)
BY DEF SameOperator, Id, IsLook, Records

\* An environment whose numbers are those of e links like e.
LEMMA LinkSame ==
  ASSUME NEW a, NEW f \in Frame, NEW g \in Frame, SameOperator(g, f),
         NEW d, NEW e, NEW h, Link(a, f, d, e),
         h.la = e.la, h.cb = e.cb, h.pos = e.pos, h.th = e.th
  PROVE  Link(a, g, d, h)
<1>1. /\ Id(g) = Id(f) /\ (IsLook(g) <=> IsLook(f)) /\ (Records(a, g) <=> Records(a, f))
  BY SameOperatorIs
<1>2. Opcode(g.op) = Opcode(f.op) /\ g.beg = f.beg
  BY DEF SameOperator
<1> QED
  BY <1>1, <1>2 DEF Link

\* The operator on top calls another child, and nothing was recorded since it called the last.
LEMMA TreeSame ==
  ASSUME NEW a \in AstSet, NEW s \in Seq(Frame), s # << >>, NEW la, NEW E, Tree(a, s, la, E),
         Len(a.records) = Top(E).cb,
         NEW g \in Frame, SameOperator(g, Top(s))
  PROVE  \E h \in Env : /\ Tree(a, Append(Pop(s), g), la, Append(Pop(E), h))
                        /\ h.la = la /\ h.cb = Len(a.records)
<1> DEFINE F == Pop(E)
           f == Top(s)
           e == Top(E)
           n == Len(a.records)
           h == [la |-> la, cb |-> n, pos |-> Len(a.open), th |-> Len(a.that)]
<1>1. /\ F \in Seq(Env) /\ f \in Frame /\ Top(F) \in Env /\ e.la = la /\ e.la \in Nat
      /\ Link(a, f, Top(F), e)
      /\ Top(F).cb =< e.cb /\ Top(F).pos =< e.pos /\ Top(F).th =< e.th
  BY TopLink
<1>2. /\ Len(a.open) = e.pos /\ Len(a.that) = e.th
      /\ Sound(a.records, Pending(a.that), Cuts(E)) /\ Cuts(F) \subseteq Cuts(E)
  BY TopLink
<1>3. n \in Nat /\ Len(a.open) \in Nat /\ Len(a.that) \in Nat
  BY AstParts
<1>4. h \in Env /\ h.la = la /\ h.cb = n /\ h.pos = Len(a.open) /\ h.th = Len(a.that)
  BY <1>1, <1>3 DEF Env
<1> HIDE DEF F, h
<1>5. e.cb \in Cuts(E) /\ \A j \in 1..e.th : a.that[j] < e.cb
  <2>1. E \in Seq(Env) /\ Chain(a, s, E)
    BY DEF Tree
  <2> QED
    BY <2>1, ChainParts, CutsParts
<1>6. h.la = e.la /\ h.cb = e.cb /\ h.pos = e.pos /\ h.th = e.th
  BY <1>1, <1>2, <1>4
<1> HIDE DEF e
<1>7. Link(a, g, Top(F), h)
  BY <1>1, <1>6, LinkSame
<1>8. Below(Top(F), h)
  BY <1>1, <1>6 DEF Below
<1>9. Sound(a.records, Pending(a.that), Cuts(F) \cup {h.cb})
  <2>1. Cuts(F) \cup {h.cb} \subseteq Cuts(E)
    BY <1>2, <1>5, <1>6
  <2> QED
    BY <1>2, <2>1, SoundFewer
<1>10. \A j \in 1..h.th : a.that[j] < h.cb
  BY <1>5, <1>6
<1>11. F = Pop(E) /\ Agree(a, a, Top(F))
  BY DEF F, Agree
<1>12. /\ Len(a.open) = h.pos /\ Len(a.that) = h.th /\ Len(a.records) = h.cb
  BY <1>4
<1>13. Tree(a, Append(Pop(s), g), h.la, Append(F, h)) /\ Top(Append(F, h)) = h
  <2>1. /\ a \in AstSet /\ s \in Seq(Frame) /\ s # << >> /\ Tree(a, s, la, E) /\ F = Pop(E)
        /\ g \in Frame /\ h \in Env
    BY <1>4, <1>11
  <2> QED
    BY ONLY <2>1, <1>7, <1>8, <1>9, <1>10, <1>11, <1>12, TreeReplace
<1> QED
  BY <1>4, <1>11, <1>13

\* CAT keeps what its children have recorded, for as long as they match.
LEMMA CatGoesOn ==
  ASSUME NEW a \in AstSet, NEW s \in Seq(Frame), s # << >>, NEW la, NEW E, Tree(a, s, la, E),
         la = 0, NEW g \in Frame, SameOperator(g, Top(s)), Id(g) = "CAT"
  PROVE  \E h \in Env : /\ Tree(a, Append(Pop(s), g), la, Append(Pop(E), h))
                        /\ h.la = la /\ h.cb = Len(a.records)
<1> DEFINE F == Pop(E)
           f == Top(s)
           e == Top(E)
           n == Len(a.records)
           h == [la |-> la, cb |-> n, pos |-> Len(a.open), th |-> Len(a.that)]
<1>1. /\ F \in Seq(Env) /\ f \in Frame /\ Top(F) \in Env /\ e.la = la
      /\ Link(a, f, Top(F), e)
      /\ Top(F).cb =< e.cb /\ Top(F).pos =< e.pos /\ Top(F).th =< e.th
      /\ Top(F).cb \in Nat /\ e.cb \in Nat /\ Top(F).la \in Nat
      /\ \A j \in 1..Top(F).th : a.that[j] < Top(F).cb
  BY TopLink
<1>2. /\ Len(a.open) = e.pos /\ Len(a.that) = e.th /\ e.cb =< n
      /\ Sound(a.records, Pending(a.that), Cuts(E)) /\ Cuts(F) \subseteq Cuts(E)
  BY TopLink
<1>3. /\ a.records \in Seq(Record) /\ n \in Nat /\ Len(a.open) \in Nat /\ Len(a.that) \in Nat
      /\ a.that \in Seq(Nat)
  BY AstParts
<1>4. h \in Env /\ h.la = la /\ h.cb = n /\ h.pos = Len(a.open) /\ h.th = Len(a.that)
  BY <1>3 DEF Env
<1> HIDE DEF F, e, h
<1>5. /\ Id(f) = "CAT" /\ Id(g) = "CAT" /\ ~IsLook(f) /\ ~IsLook(g)
      /\ ~Records(a, f) /\ ~Records(a, g)
  BY Kinds, SameOperatorIs DEF IsLook, Records
<1>6. /\ Top(F).la = 0 /\ e.pos = Top(F).pos + 1 /\ a.open[Top(F).pos + 1] = Top(F).cb
      /\ e.th = Top(F).th
  BY <1>1, <1>5 DEF Link
<1>7. Link(a, g, Top(F), h)
  BY <1>2, <1>4, <1>5, <1>6 DEF Link
<1>8. Below(Top(F), h)
  BY <1>1, <1>2, <1>3, <1>4 DEF Below
<1>9. Sound(a.records, Pending(a.that), Cuts(F) \cup {h.cb})
  <2>1. Sound(a.records, Pending(a.that), Cuts(F))
    BY <1>2, SoundFewer
  <2> QED
    BY <1>3, <1>4, <2>1, SoundCut
<1>10. \A j \in 1..h.th : a.that[j] < h.cb
  <2> TAKE j \in 1..h.th
  <2>1. j \in 1..Top(F).th /\ h.th = Len(a.that)
    BY <1>2, <1>4, <1>6
  <2>2. a.that[j] \in Nat /\ a.that[j] < Top(F).cb
    BY <1>1, <1>3, <2>1, ElementOfSeq
  <2> QED
    BY SMTT(40), <1>1, <1>2, <1>3, <1>4, <2>2
<1>11. F = Pop(E) /\ Agree(a, a, Top(F))
  BY DEF F, Agree
<1>12. /\ Len(a.open) = h.pos /\ Len(a.that) = h.th /\ Len(a.records) = h.cb
  BY <1>4
<1>13. Tree(a, Append(Pop(s), g), h.la, Append(F, h)) /\ Top(Append(F, h)) = h
  <2>1. /\ a \in AstSet /\ s \in Seq(Frame) /\ s # << >> /\ Tree(a, s, la, E) /\ F = Pop(E)
        /\ g \in Frame /\ h \in Env
    BY <1>4, <1>11
  <2> QED
    BY ONLY <2>1, <1>7, <1>8, <1>9, <1>10, <1>11, <1>12, TreeReplace
<1> QED
  BY <1>4, <1>11, <1>13

\* a repetition that has failed leaves no record of its own
Kept(a, E, answer) == answer = "NOMATCH" => Len(a.records) = Top(E).cb

\* REP closes the node of a repetition and opens one for the next.
LEMMA RepGoesOn ==
  ASSUME NEW a \in AstSet, NEW s \in Seq(Frame), s # << >>, NEW la, NEW E, Tree(a, s, la, E),
         la = 0, NEW answer, Kept(a, E, answer),
         NEW g \in Frame, SameOperator(g, Top(s)), Id(g) = "REP"
  PROVE  LET b == AstOpOpen(AstOpClose(a, answer)) IN
         /\ a.open # << >>
         /\ b.records = a.records
         /\ \E h \in Env : /\ Tree(b, Append(Pop(s), g), la, Append(Pop(E), h))
                          /\ h.la = la /\ h.cb = Len(b.records)
<1> DEFINE d == AstOpClose(a, answer)
           b == AstOpOpen(d)
<1> SUFFICES /\ a.open # << >>
             /\ b.records = a.records
             /\ \E h \in Env : /\ Tree(b, Append(Pop(s), g), la, Append(Pop(E), h))
                              /\ h.la = la /\ h.cb = Len(b.records)
  OBVIOUS
<1>0. d = AstOpClose(a, answer) /\ b = AstOpOpen(d)
  OBVIOUS
<1> HIDE DEF d, b
<1> DEFINE F == Pop(E)
           f == Top(s)
           e == Top(E)
           n == Len(a.records)
           p == Top(F).pos
<1>1. /\ F \in Seq(Env) /\ f \in Frame /\ Top(F) \in Env /\ e.la = la
      /\ Link(a, f, Top(F), e)
      /\ Top(F).cb =< e.cb /\ p =< e.pos /\ Top(F).th =< e.th
      /\ Top(F).cb \in Nat /\ e.cb \in Nat /\ Top(F).la \in Nat /\ p \in Nat
      /\ \A j \in 1..Top(F).th : a.that[j] < Top(F).cb
  BY TopLink
<1>2. /\ Len(a.open) = e.pos /\ Len(a.that) = e.th /\ e.cb =< n
      /\ Sound(a.records, Pending(a.that), Cuts(E)) /\ Cuts(F) \subseteq Cuts(E)
  BY TopLink
<1>3. /\ a.records \in Seq(Record) /\ n \in Nat /\ a.open \in Seq(Nat) /\ a.that \in Seq(Nat)
  BY AstParts
<1>4. /\ Id(f) = "REP" /\ ~IsLook(f) /\ ~IsLook(g) /\ ~Records(a, f)
  BY Kinds, SameOperatorIs DEF IsLook, Records
<1>5. /\ Top(F).la = 0 /\ e.pos = p + 2 /\ a.open[p + 1] = Top(F).cb
      /\ a.open[p + 2] = e.cb /\ e.th = Top(F).th
  BY <1>1, <1>4 DEF Link
<1>6. a.open # << >> /\ Top(a.open) = e.cb
  <2>1. Len(a.open) = p + 2 /\ Top(a.open) = a.open[Len(a.open)]
    BY <1>2, <1>5 DEF Top
  <2>2. a.open # << >>
    BY <1>1, <1>2, <1>5, EmptySeq
  <2> QED
    BY <1>5, <2>1, <2>2
<1>7. /\ Len(Pop(a.open)) = p + 1
      /\ \A k \in 1..(p + 1) : Pop(a.open)[k] = a.open[k]
  <2>1. Len(Pop(a.open)) = Len(a.open) - 1 /\ \A k \in 1..(Len(a.open) - 1) : Pop(a.open)[k] = a.open[k]
    BY ONLY <1>3, <1>6, PopLemma
  <2>2. Len(a.open) - 1 = p + 1
    BY <1>1, <1>2, <1>5
  <2> HIDE DEF p
  <2> QED
    BY <2>1, <2>2
<1>8. /\ d \in AstSet /\ d.callbacks = a.callbacks /\ d.that = a.that /\ d.open = Pop(a.open)
      /\ d.records = a.records
  <2>1. a \in AstSet /\ a.open # << >>
    BY <1>6
  <2>2. /\ d \in AstSet /\ d.callbacks = a.callbacks /\ d.that = a.that /\ d.open = Pop(a.open)
        /\ d.records = IF answer = "NOMATCH" /\ Top(a.open) < Len(a.records)
                       THEN Popi(a.records, Top(a.open)) ELSE a.records
    BY ONLY <1>0, <2>1, OpCloseFields
  <2>3. answer = "NOMATCH" => ~(Top(a.open) < Len(a.records))
    BY <1>1, <1>3, <1>6 DEF Kept
  <2> QED
    BY <2>2, <2>3
<1>9. /\ b \in AstSet /\ b.callbacks = a.callbacks /\ b.records = a.records /\ b.that = a.that
      /\ Len(b.open) = p + 2 /\ b.open[p + 2] = n
      /\ \A k \in 1..(p + 1) : b.open[k] = a.open[k]
  <2>1. /\ b \in AstSet /\ b.callbacks = d.callbacks /\ b.records = d.records /\ b.that = d.that
        /\ Len(b.open) = Len(d.open) + 1
        /\ \A k \in 1..Len(d.open) : b.open[k] = d.open[k]
        /\ b.open[Len(d.open) + 1] = Len(d.records)
    <3>1. d \in AstSet
      BY <1>8
    <3> QED
      BY ONLY SMTT(40), <1>0, <3>1, OpOpenFields
  <2>2. Len(d.open) = p + 1 /\ \A k \in 1..(p + 1) : d.open[k] = a.open[k]
    BY <1>7, <1>8
  <2>3. Len(d.open) + 1 = p + 2
    BY <1>1, <2>2
  <2> HIDE DEF p
  <2> QED
    BY <1>8, <2>1, <2>2, <2>3
<1> DEFINE h == [la |-> la, cb |-> n, pos |-> p + 2, th |-> e.th]
<1>10. h \in Env /\ h.la = la /\ h.cb = n /\ h.pos = p + 2 /\ h.th = e.th
  <2>1. e.th \in Nat /\ p + 2 \in Nat /\ la \in Nat
    BY <1>1, TopLink
  <2> HIDE DEF p
  <2> QED
    BY <1>3, <2>1 DEF Env
<1>11. ~Records(b, g) /\ Id(g) # "CAT"
  BY DEF Records
<1> HIDE DEF F, e, h
<1>12. b.open[p + 1] = Top(F).cb /\ p + 1 \in 1..(p + 1)
  <2>1. p + 1 \in 1..(p + 1)
    BY <1>1
  <2> QED
    BY <1>5, <1>9, <2>1
<1>13. Link(b, g, Top(F), h)
  BY <1>4, <1>5, <1>9, <1>10, <1>11, <1>12 DEF Link
<1>14. Below(Top(F), h)
  <2>1. Top(F).th \in Nat /\ Top(F).pos = p
    BY TopLink DEF F
  <2>2. Top(F).cb =< h.cb
    BY <1>1, <1>2, <1>3, <1>10
  <2>3. p =< h.pos /\ Top(F).th =< h.th
    BY <1>1, <1>5, <1>10, <2>1
  <2> HIDE DEF p
  <2> QED
    BY <2>1, <2>2, <2>3 DEF Below
<1>15. Sound(b.records, Pending(b.that), Cuts(F) \cup {h.cb})
  <2>1. Sound(a.records, Pending(a.that), Cuts(F))
    BY <1>2, SoundFewer
  <2> QED
    BY <1>3, <1>9, <1>10, <2>1, SoundCut
<1>16. \A j \in 1..h.th : b.that[j] < h.cb
  <2> TAKE j \in 1..h.th
  <2>1. j \in 1..Top(F).th /\ h.th = Len(a.that)
    BY <1>2, <1>5, <1>10
  <2>2. a.that[j] \in Nat /\ a.that[j] < Top(F).cb
    BY <1>1, <1>3, <2>1, ElementOfSeq
  <2>3. b.that[j] = a.that[j] /\ h.cb = n
    BY <1>9, <1>10
  <2> HIDE DEF n
  <2> QED
    BY SMTT(40), <1>1, <1>2, <1>3, <2>2, <2>3
<1>17. F = Pop(E) /\ Agree(a, b, Top(F))
  <2>1. \A k \in 1..p : k \in 1..(p + 1)
    BY <1>1
  <2> QED
    BY <1>9, <2>1 DEF F, Agree
<1>18. /\ Len(b.open) = h.pos /\ Len(b.that) = h.th /\ Len(b.records) = h.cb
  BY <1>2, <1>9, <1>10
<1>19. Tree(b, Append(Pop(s), g), h.la, Append(F, h)) /\ Top(Append(F, h)) = h
  <2>1. /\ a \in AstSet /\ s \in Seq(Frame) /\ s # << >> /\ Tree(a, s, la, E) /\ F = Pop(E)
        /\ g \in Frame /\ h \in Env
    BY <1>10, <1>17
  <2> HIDE DEF p, n, f, d, b
  <2> QED
    BY ONLY SMTT(40), <2>1, <1>13, <1>14, <1>15, <1>16, <1>17, <1>18, TreeReplace
<1> QED
  BY <1>6, <1>9, <1>10, <1>17, <1>18, <1>19

\* the next child of the operator on top begins where the records end
Continued(a, b, t, la, E) ==
  /\ b.records = a.records
  /\ \E h \in Env : Tree(b, t, la, Append(Pop(E), h)) /\ h.la = la /\ h.cb = Len(b.records)

\* The operator on top goes on.
LEMMA TreeGoesOn ==
  ASSUME NEW a \in AstSet, a.attached, NEW s \in Seq(Frame), s # << >>, NEW la, NEW E,
         Tree(a, s, la, E),
         NEW answer, answer = "NOMATCH" \/ la # 0 => Len(a.records) = Top(E).cb,
         NEW g \in Frame, SameOperator(g, Top(s)), NEW b,
         Id(g) = "REP" => b = AST_OP_OPEN(AST_OP_CLOSE(a, la, answer), la),
         Id(g) # "REP" => b = a,
         Id(g) \notin {"REP", "CAT"} => answer = "NOMATCH"
  PROVE  Continued(a, b, Append(Pop(s), g), la, E)
<1> SUFFICES /\ b.records = a.records
             /\ \E h \in Env : /\ Tree(b, Append(Pop(s), g), la, Append(Pop(E), h))
                              /\ h.la = la /\ h.cb = Len(b.records)
  BY DEF Continued
<1>1. CASE la # 0
  <2>1. ~Recording(a, la)
    BY <1>1 DEF Recording
  <2>2. b = a
    <3>1. \A state : AST_OP_CLOSE(a, la, state) = a
      BY <2>1, HooksOff
    <3>2. AST_OP_OPEN(a, la) = a
      BY <2>1, HooksOff
    <3> QED
      BY <3>1, <3>2
  <2> QED
    BY <1>1, <2>2, TreeSame
<1>2. CASE la = 0 /\ Id(g) = "REP"
  <2> DEFINE d == AstOpClose(a, answer)
  <2>1. Kept(a, E, answer)
    BY DEF Kept
  <2>2. /\ a.open # << >>
        /\ AstOpOpen(d).records = a.records
        /\ \E h \in Env : /\ Tree(AstOpOpen(d), Append(Pop(s), g), la, Append(Pop(E), h))
                         /\ h.la = la /\ h.cb = Len(AstOpOpen(d).records)
    <3>1. /\ a \in AstSet /\ s \in Seq(Frame) /\ s # << >> /\ Tree(a, s, la, E) /\ la = 0
          /\ g \in Frame /\ SameOperator(g, Top(s)) /\ Id(g) = "REP"
      BY <1>2
    <3> QED
      BY ONLY <2>1, <3>1, RepGoesOn
  <2>3. d.attached
    BY <2>2, OpCloseFields
  <2>4. b = AstOpOpen(d)
    BY <1>2, <2>3 DEF AST_OP_CLOSE, AST_OP_OPEN, Recording
  <2> QED
    BY <2>2, <2>4
<1>3. CASE la = 0 /\ Id(g) = "CAT"
  BY <1>3, CatGoesOn
<1>4. CASE la = 0 /\ Id(g) \notin {"REP", "CAT"}
  BY <1>4, TreeSame
<1> QED
  BY <1>1, <1>2, <1>3, <1>4

\* What was pushed is popped.
LEMMA PopAppended ==
  ASSUME NEW S, NEW t \in Seq(S), NEW x \in S
  PROVE  Pop(Append(t, x)) = t /\ Top(Append(t, x)) = x /\ Append(t, x) # << >>
<1> DEFINE u == Append(t, x)
<1>1. /\ u \in Seq(S) /\ Len(t) \in Nat /\ Len(u) = Len(t) + 1
      /\ (\A n \in 1..Len(t) : u[n] = t[n]) /\ Top(u) = x /\ u # << >>
  BY Appended, AppendLemma
<1>2. Pop(u) \in Seq(S) /\ Len(Pop(u)) = Len(t) /\ \A n \in 1..Len(t) : Pop(u)[n] = u[n]
  <2>1. Pop(u) \in Seq(S) /\ Len(Pop(u)) = Len(u) - 1 /\ \A n \in 1..(Len(u) - 1) : Pop(u)[n] = u[n]
    BY ONLY <1>1, PopLemma
  <2> HIDE DEF u
  <2> QED
    BY <1>1, <2>1
<1>3. Pop(u) = t
  BY <1>1, <1>2, SeqEqual
<1> QED
  BY <1>1, <1>3

\* A node that begins and ends in one step leaves one more leaf, or nothing.
LEMMA TreePassed ==
  ASSUME NEW a \in AstSet, a.attached, NEW s \in Seq(Frame), NEW la, NEW E, Tree(a, s, la, E),
         Len(a.records) = Top(E).cb,
         NEW i \in Nat, NEW offset \in Nat, NEW length \in Nat, NEW state,
         NEW b, b = AST_RULE_CLOSE(AST_RULE_OPEN(a, la, i, offset), la, i, state, offset, length)
  PROVE  Tree(b, s, la, E) /\ (state # "MATCH" \/ la # 0 => Len(b.records) = Top(E).cb)
<1> DEFINE n == Len(a.records)
           r == a.records
<1>1. E \in Seq(Env) /\ Chain(a, s, E) /\ Held(a, E)
  BY DEF Tree
<1>2. /\ a.open \in Seq(Nat) /\ a.that \in Seq(Nat) /\ r \in Seq(Record) /\ n \in Nat
  BY AstParts
<1>3. CASE la # 0
  <2>1. ~Recording(a, la)
    BY <1>3 DEF Recording
  <2>2. b = a
    BY <2>1, HooksOff
  <2> QED
    BY <2>2
<1>4. ASSUME b = a
      PROVE  Tree(b, s, la, E) /\ Len(b.records) = Top(E).cb
  BY <1>4
<1>7. /\ Pop(Append(a.open, n)) = a.open /\ Top(Append(a.open, n)) = n /\ Append(a.open, n) # << >>
      /\ Pop(Append(a.that, n)) = a.that /\ Top(Append(a.that, n)) = n /\ Append(a.that, n) # << >>
  <2>1. a.open \in Seq(Nat) /\ a.that \in Seq(Nat) /\ n \in Nat
    BY <1>2
  <2> HIDE DEF n
  <2>2. \A t \in Seq(Nat) : \A x \in Nat :
          Pop(Append(t, x)) = t /\ Top(Append(t, x)) = x /\ Append(t, x) # << >>
    BY ONLY PopAppended, Zenon
  <2> QED
    BY ONLY <2>1, <2>2, Zenon
<1>5. CASE la = 0 /\ i \notin a.callbacks
  <2> DEFINE c == AstOpOpen(a)
             d == [c EXCEPT !.open = Pop(@)]
  <2>1. /\ c \in AstSet /\ c.attached /\ c.callbacks = a.callbacks /\ c.records = r
        /\ c.that = a.that /\ c.open = Append(a.open, n)
    BY OpOpenFields
  <2>2. AST_RULE_OPEN(a, la, i, offset) = c
    BY <1>5 DEF AST_RULE_OPEN, AstRuleOpen, Recording
  <2>3. Pop(c.open) = a.open /\ Top(c.open) = n /\ c.open # << >>
    BY <1>7, <2>1
  <2>4. d = a
    <3>1. c = [a EXCEPT !.open = Append(@, n)]
      BY DEF AstOpOpen
    <3> QED
      BY <2>1, <2>3, <3>1 DEF AstSet
  <2>5. b = AstRuleClose(c, i, state, offset, length)
    BY <1>5, <2>1, <2>2 DEF AST_RULE_CLOSE, Recording
  <2>6. b = IF state = "MATCH" THEN AstRuleMatch(a, i, offset, length) ELSE AstRuleNomatch(a, n)
    BY <2>3, <2>4, <2>5 DEF AstRuleClose
  <2>7. AstRuleMatch(a, i, offset, length) = a /\ AstRuleNomatch(a, n) = a
    BY <1>2, <1>5 DEF AstRuleMatch, AstRuleNomatch
  <2> QED
    BY <1>4, <2>6, <2>7
<1>6. CASE la = 0 /\ i \in a.callbacks
  <2> DEFINE x == PreRecord(i, offset, n)
             c == AstRuleOpen(a, i, offset)
             d == [c EXCEPT !.open = Pop(@)]
             q == Append(r, x)
  <2>1. /\ c \in AstSet /\ c.attached = a.attached /\ c.callbacks = a.callbacks
        /\ c.open = Append(a.open, n) /\ c.that = Append(a.that, n) /\ c.records = q
    <3>1. \A j \in Nat : \A o \in Nat : j \in a.callbacks =>
            /\ AstRuleOpen(a, j, o).callbacks = a.callbacks
            /\ AstRuleOpen(a, j, o).open = Append(a.open, Len(a.records))
            /\ AstRuleOpen(a, j, o).that = Append(a.that, Len(a.records))
            /\ AstRuleOpen(a, j, o).records = Append(a.records, PreRecord(j, o, Len(a.records)))
      <4>1. a \in AstSet
        OBVIOUS
      <4> QED
        BY ONLY <4>1, RuleOpenFields, Zenon
    <3>2. i \in Nat /\ offset \in Nat /\ i \in a.callbacks
      BY <1>6
    <3>3. c \in AstSet
      BY AstRuleOpenType
    <3>4. c.attached = a.attached
      <4>1. AstOpOpen(a).attached = a.attached /\ AstOpOpen(a) \in AstSet
        BY OpOpenFields
      <4> QED
        BY <1>6, <4>1 DEF AstRuleOpen, AstSet
    <3>5. /\ c.callbacks = a.callbacks
          /\ c.open = Append(a.open, n) /\ c.that = Append(a.that, n) /\ c.records = q
      BY ONLY <3>1, <3>2, Zenon
    <3> QED
      BY <3>3, <3>4, <3>5
  <2>2. /\ x \in Record /\ x.index = i /\ x.state = "PRE" /\ x.offset = offset /\ x.this = n
    <3>1. n \in Nat /\ i \in Nat /\ offset \in Nat
      BY <1>2
    <3> HIDE DEF n
    <3>2. x = PreRecord(i, offset, n)
      OBVIOUS
    <3> HIDE DEF x
    <3> QED
      BY ONLY <3>1, <3>2, PreRecordParts
  <2>3. /\ Pop(c.open) = a.open /\ Top(c.open) = n /\ c.open # << >>
        /\ Pop(c.that) = a.that /\ Top(c.that) = n /\ c.that # << >>
    BY <1>7, <2>1
  <2> HIDE DEF x, c
  <2>4. q \in Seq(Record) /\ Len(q) = n + 1 /\ q[n + 1] = x /\ \A k \in 1..n : q[k] = r[k]
    BY <1>2, <2>2, Appended
  <2>5. AST_RULE_OPEN(a, la, i, offset) = c
    BY <1>6 DEF AST_RULE_OPEN, Recording, c
  <2>6. b = AstRuleClose(c, i, state, offset, length)
    BY <1>6, <2>1, <2>5 DEF AST_RULE_CLOSE, Recording
  <2>7. /\ d.callbacks = a.callbacks /\ d.open = a.open /\ d.that = c.that /\ d.records = q
        /\ d \in AstSet
    BY <1>2, <2>1, <2>3 DEF AstSet
  <2>8. b = IF state = "MATCH" THEN AstRuleMatch(d, i, offset, length) ELSE AstRuleNomatch(d, n)
    BY <2>3, <2>6 DEF AstRuleClose
  <2> HIDE DEF d, q
  <2>9. CASE state = "MATCH"
    <3> DEFINE e == Ended(q, n, length)
    <3>1. ~(n >= Len(d.records)) /\ Top(d.that) = n /\ d.that # << >> /\ Len(q) = n + 1
      BY <1>2, <2>3, <2>4, <2>7
    <3>2. [d EXCEPT !.that = Pop(@)].records = q
      BY <2>7 DEF AstSet
    <3>3. b = [[d EXCEPT !.that = Pop(@)] EXCEPT !.records =
                  Append([@ EXCEPT ![n + 1].length = length, ![n + 1].that = Len(q)],
                         [index |-> i, state |-> "POST", offset |-> offset, length |-> length,
                          this |-> Len(q), that |-> @[n + 1].this])]
      BY <1>6, <2>7, <2>8, <2>9, <3>1 DEF AstRuleMatch
    <3>4. b = [[d EXCEPT !.that = Pop(@)] EXCEPT !.records = e]
      <4>1. q[n + 1].index = i /\ q[n + 1].offset = offset
        BY <2>2, <2>4
      <4> HIDE DEF n
      <4> QED
        BY <3>2, <3>3, <4>1 DEF Ended
    <3> HIDE DEF e
    <3>5. b.open = a.open /\ b.that = a.that /\ b.callbacks = a.callbacks /\ b.records = e
      BY <2>3, <2>7, <3>4 DEF AstSet
    <3>6. Sound(e, Pending(a.that), Cuts(E))
      <4>1. Cuts(E) \in SUBSET (0..n)
        BY <1>1, CutsParts
      <4>2. Pending(a.that) \in SUBSET (0..(n - 1))
        <5>1. \A j \in 1..Len(a.that) : a.that[j] \in Nat
          BY <1>2, ElementOfSeq
        <5>2. \A j \in 1..Top(E).th : a.that[j] < n
          BY <1>1, ChainParts
        <5>3. Len(a.that) = Top(E).th
          BY <1>1 DEF Held
        <5> HIDE DEF n
        <5>4. \A j \in 1..Len(a.that) : a.that[j] \in 0..(n - 1)
          BY SMTT(40), <1>2, <5>1, <5>2, <5>3
        <5> QED
          BY <5>4 DEF Pending
      <4>3. Sound(r, Pending(a.that), Cuts(E))
        BY <1>1 DEF Held
      <4>4. n = Len(r)
        OBVIOUS
      <4> HIDE DEF n, r
      <4>5. Sound(Ended(Append(r, x), Len(r), length), Pending(a.that), Cuts(E))
        <5>1. /\ r \in Seq(Record) /\ Pending(a.that) \in SUBSET (0..(Len(r) - 1))
              /\ Cuts(E) \in SUBSET (0..Len(r)) /\ Sound(r, Pending(a.that), Cuts(E))
              /\ x \in Record /\ x.state = "PRE" /\ x.this = Len(r) /\ length \in Nat
          BY <1>2, <2>2, <4>1, <4>2, <4>3, <4>4
        <5> QED
          BY ONLY <5>1, SoundLeaf
      <4> QED
        BY <4>4, <4>5 DEF e, q
    <3>7. Len(e) = n + 2 /\ \A k \in 1..n : e[k] = r[k]
      <4>1. q \in Seq(Record) /\ n \in Nat /\ n < Len(q) /\ length \in Nat
        BY <1>2, <2>4
      <4> HIDE DEF n
      <4>2. Len(e) = Len(q) + 1 /\ \A k \in 1..Len(q) : k # n + 1 => e[k] = q[k]
        BY ONLY <4>1, EndedParts DEF e
      <4>3. \A k \in 1..n : k \in 1..Len(q) /\ k # n + 1
        BY <2>4, <4>1
      <4> QED
        BY SMTT(40), <2>4, <4>1, <4>2, <4>3
    <3>8. Agree(a, b, Top(E))
      <4>1. Len(a.open) = Top(E).pos /\ Len(a.that) = Top(E).th
        BY <1>1 DEF Held
      <4> QED
        BY <3>5, <3>7, <4>1 DEF Agree
    <3>9. Chain(b, s, E)
      BY <1>1, <3>8, ChainAgree
    <3>10. Held(b, E)
      <4>1. Top(E).cb =< Len(b.records)
        BY <1>2, <3>5, <3>7
      <4> QED
        BY <1>1, <3>5, <3>6, <4>1 DEF Held
    <3> QED
      BY <1>6, <2>9, <3>9, <3>10 DEF Tree
  <2>10. CASE state # "MATCH"
    <3>1. ~(n >= Len(d.records)) /\ d.that # << >>
      BY <1>2, <2>3, <2>4, <2>7
    <3>2. b = [[d EXCEPT !.records = Popi(@, n)] EXCEPT !.that = Pop(@)]
      BY <2>7, <2>8, <2>10, <3>1 DEF AstRuleNomatch, AstSet
    <3>3. Popi(q, n) = r
      <4>1. n \in 0..Len(q) /\ q \in Seq(Record)
        BY <1>2, <2>4
      <4> HIDE DEF n
      <4>2. Popi(q, n) \in Seq(Record) /\ Len(Popi(q, n)) = n /\ \A k \in 1..n : Popi(q, n)[k] = q[k]
        BY ONLY <4>1, PopiLemma
      <4>3. Len(r) = n
        BY DEF n
      <4> QED
        BY <1>2, <2>4, <4>2, <4>3, SeqEqual
    <3>4. b = a
      <4>1. b = [d EXCEPT !.records = r, !.that = a.that]
        BY <2>3, <2>7, <3>2, <3>3 DEF AstSet
      <4>2. d = [c EXCEPT !.open = a.open]
        BY <2>3 DEF d
      <4>3. c.error = a.error
        BY <1>6 DEF c, AstRuleOpen, AstOpOpen, AstSet
      <4>4. /\ d.attached = a.attached /\ d.callbacks = a.callbacks /\ d.open = a.open
            /\ d.error = a.error /\ d \in AstSet
        BY <2>1, <2>7, <4>2, <4>3 DEF AstSet
      <4>5. /\ b.attached = a.attached /\ b.callbacks = a.callbacks /\ b.open = a.open
            /\ b.error = a.error /\ b.records = a.records /\ b.that = a.that /\ b \in AstSet
        BY <1>2, <4>1, <4>4 DEF AstSet
      <4>6. \A v \in AstSet : v = [attached |-> v.attached, callbacks |-> v.callbacks,
                                  records |-> v.records, that |-> v.that, open |-> v.open,
                                  error |-> v.error]
        BY DEF AstSet
      <4>7. a \in AstSet /\ b \in AstSet
        BY <4>5
      <4>8. a = [attached |-> a.attached, callbacks |-> a.callbacks, records |-> a.records,
                 that |-> a.that, open |-> a.open, error |-> a.error]
        BY ONLY <4>6, <4>7
      <4>9. b = [attached |-> b.attached, callbacks |-> b.callbacks, records |-> b.records,
                 that |-> b.that, open |-> b.open, error |-> b.error]
        BY ONLY <4>6, <4>7
      <4> HIDE DEF r
      <4> QED
        BY ONLY <4>5, <4>8, <4>9, Zenon
    <3> QED
      BY <1>4, <3>4
  <2> QED
    BY <2>9, <2>10
<1> QED
  BY <1>3, <1>4, <1>5, <1>6

-----------------------------------------------------------------------------
(* The invariant: while a parse runs, its recorder is a tree that the stack *)
(* accounts for, and a node that is called or has failed, or one within a  *)
(* look-around, has recorded nothing.                                      *)

TreeInv ==
  (Parsing /\ ast.attached /\ CallbacksRecorded) =>
    \E E : /\ Tree(ast, stack, uiInLookaround, E)
           /\ (pc = "call" \/ uiOpState = "NOMATCH" \/ uiInLookaround # 0) =>
                Len(ast.records) = Top(E).cb

\* What a tree is depends on the grammar, which a parse does not change.
LEMMA SameTree ==
  ASSUME UNCHANGED <<app, parse>>, NEW E
  PROVE  Tree(ast, stack, uiInLookaround, E)' <=> Tree(ast', stack', uiInLookaround', E)
<1>1. \A f : Opcode(f.op)' = Opcode(f.op) /\ (Id(f)' = Id(f)) /\ (IsLook(f)' <=> IsLook(f))
  BY DEF app, parse, Id, IsLook, Opcode
<1>2. \A f, e, g : Link(ast, f, e, g)' <=> Link(ast', f, e, g)
  BY <1>1 DEF Link, Records
<1>3. Chain(ast, stack, E)' <=> Chain(ast', stack', E)
  BY <1>2 DEF Chain
<1> QED
  BY <1>3 DEF Tree, Held

\* The look-around counter when an operator begins or ends.
LEMMA LookAbove ==
  ASSUME Contract, IInv, LookInv, StackFits', Parsing, Parsing', UNCHANGED <<app, parse>>
  PROVE  /\ \A f \in Frame : stack' = Append(stack, f) =>
               Increment(uiInLookaround) = uiInLookaround + 1
         /\ stack # << >> /\ IsLook(Top(stack)) => Decrement(uiInLookaround) = uiInLookaround - 1
<1>1. /\ stack \in Seq(Frame) /\ uiInLookaround \in Nat /\ uiLookaroundAtStart \in Nat
      /\ uiLookaroundAtStart' = uiLookaroundAtStart
  BY DEF IInv, TypeOK, parse
<1>2. uiInLookaround = uiLookaroundAtStart + Cardinality(Look(stack))
  BY DEF LookInv
<1>3. ASSUME NEW f \in Frame, stack' = Append(stack, f)
      PROVE  Increment(uiInLookaround) = uiInLookaround + 1
  <2>1. Cardinality(Look(stack)) \in Nat /\ Cardinality(Look(stack)) =< Len(stack)
    BY <1>1, PushLook
  <2>2. Len(stack) \in Nat /\ Len(stack') = Len(stack) + 1
    BY <1>1, <1>3, AppendLemma, LenProperties
  <2>3. uiInLookaround < APG_UNDEFINED
    BY <1>1, <1>2, <2>1, <2>2, UndefinedAssumption DEF StackFits
  <2> QED
    BY <1>1, <2>3, UndefinedAssumption DEF Increment
<1>4. ASSUME stack # << >>, IsLook(Top(stack))
      PROVE  Decrement(uiInLookaround) = uiInLookaround - 1
  <2>1. /\ Cardinality(Look(Pop(stack))) \in Nat
        /\ Cardinality(Look(stack)) = Cardinality(Look(Pop(stack))) + 1
    BY <1>1, <1>4, PopLook
  <2> QED
    BY <1>1, <1>2, <2>1 DEF Decrement
<1> QED
  BY <1>3, <1>4

\* the recorder fits what runs: a node that has yet to run, has failed, or runs within a
\* look-around has left no record
TreeHolds(E) ==
  /\ Tree(ast, stack, uiInLookaround, E)
  /\ (pc = "call" \/ uiOpState = "NOMATCH" \/ uiInLookaround # 0) => Len(ast.records) = Top(E).cb

\* The child that is called begins where the records end.
CallsFrom(s, t, E, F) ==
  \E f \in Frame, h \in Env : /\ t = Append(s, f) /\ F = Append(E, h)
                             /\ h.cb = Len(ast'.records) /\ h.la = uiInLookaround'

\* how a step moves the cuts
TreeMoves(E, F) ==
  \/ NodeOpened /\ CallsFrom(stack, stack', E, F)
  \/ NodePassed /\ F = E
  \/ NodeGoesOn /\ CallsFrom(Pop(stack), stack', Pop(E), F) /\ ast'.records = ast.records
  \/ NodeClosed /\ F = Pop(E)

\* What a step that ends the operator on top does to the recorder.
LEMMA ClosedStep ==
  ASSUME Contract, IInv, IInv', LookInv, StackFits', Parsing, Parsing', NodeClosed,
         UNCHANGED <<app, parse>>, ast.attached, CallbacksRecorded, NEW E, TreeHolds(E)
  PROVE  /\ Closes(ast, Top(stack), uiOpState, uiOpState', uiPhraseLength', uiInLookaround', ast')
         /\ Bare(ast, E, uiOpState, uiInLookaround)
         /\ uiInLookaround' = Top(Pop(E)).la
<1> DEFINE la == uiInLookaround
           lb == uiInLookaround'
           f == Top(stack)
           i == Opcode(f.op).index
           F == Pop(E)
<1>1. /\ Tree(ast, stack, la, E)
      /\ (pc = "call" \/ uiOpState = "NOMATCH" \/ la # 0) => Len(ast.records) = Top(E).cb
  BY DEF TreeHolds
<1>2. /\ ast \in AstSet /\ stack \in Seq(Frame) /\ la \in Nat /\ uiPhraseLength' \in Nat
  BY DEF IInv, TypeOK
<1>3. /\ pc = "return" /\ pc' = "return" /\ stack # << >> /\ stack' = Pop(stack)
      /\ lb = IF IsLook(f) THEN Decrement(la) ELSE la
      /\ ClosedAst(f)
  BY DEF NodeClosed
<1>4. lb = IF IsLook(f) THEN la - 1 ELSE la
  BY <1>3, LookAbove
<1>5. uiOpState' \in {"MATCH", "NOMATCH"}
  BY <1>3 DEF IInv, RunOK, Returned
<1>6. Id(f) \in {"ALT", "CAT", "REP", "RNM"} => lb = la
  BY <1>3, Kinds DEF IsLook
<1>7. /\ Id(f) = "ALT" => ast' = ast /\ uiOpState' = uiOpState
      /\ Id(f) \notin {"ALT", "REP", "RNM"} => ast' = AST_OP_CLOSE(ast, lb, uiOpState')
      /\ Id(f) = "REP" => ast' = AST_OP_CLOSE(AST_OP_CLOSE(ast, lb, uiOpState), lb, uiOpState')
  BY <1>3, <1>6 DEF ClosedAst
<1>8. Id(f) = "RNM" =>
        /\ ast' = AST_RULE_CLOSE(ast, lb, i, uiOpState', f.beg, uiPhraseLength')
        /\ uiOpState' = "NOMATCH" => uiOpState = "NOMATCH" \/ i \in ast.callbacks
  BY <1>3, <1>6 DEF ClosedAst, MayRefuse, CallbacksRecorded
<1>9. Bare(ast, E, uiOpState, la)
  BY <1>1 DEF Bare
<1>10. lb = Top(F).la
  <2>1. /\ Link(ast, f, Top(F), Top(E)) /\ Top(E).la = la /\ Top(F).la \in Nat
    BY <1>1, <1>2, <1>3, TopLink
  <2> QED
    BY <1>2, <1>4, <2>1 DEF Link
<1> QED
  BY <1>2, <1>5, <1>7, <1>8, <1>9, <1>10 DEF Closes

LEMMA TreeStep ==
  ASSUME Contract, IInv, IInv', LookInv, StackFits', Parsing, Parsing', Shape,
         UNCHANGED <<app, parse>>, ast'.attached, CallbacksRecorded', NEW E, TreeHolds(E)
  PROVE  \E F : /\ Tree(ast', stack', uiInLookaround', F)
                /\ (pc' = "call" \/ uiOpState' = "NOMATCH" \/ uiInLookaround' # 0) =>
                     Len(ast'.records) = Top(F).cb
                /\ TreeMoves(E, F)
<1> DEFINE la == uiInLookaround
           lb == uiInLookaround'
<1>1. ast.attached /\ CallbacksRecorded
  BY HooksAttached DEF CallbacksRecorded, app
<1>2. /\ Tree(ast, stack, la, E)
      /\ (pc = "call" \/ uiOpState = "NOMATCH" \/ la # 0) => Len(ast.records) = Top(E).cb
  BY DEF TreeHolds
<1>3. /\ ast \in AstSet /\ stack \in Seq(Frame) /\ la \in Nat /\ uiPhraseLength' \in Nat
  BY DEF IInv, TypeOK
<1>4. CASE NodeOpened
  <2>1. PICK f \in Frame :
          /\ FrameOK(f) /\ stack' = Append(stack, f)
          /\ lb = IF IsLook(f) THEN Increment(la) ELSE la
          /\ ast' = OpenedAst(f, ast, la)
    BY <1>4 DEF NodeOpened
  <2>2. Opcode(f.op).index \in Nat /\ f.beg \in Nat
    BY <2>1, RuleOfFrame
  <2>3. lb = IF IsLook(f) THEN la + 1 ELSE la
    BY <2>1, LookAbove
  <2>4. Len(ast.records) = Top(E).cb
    BY <1>2, <1>4 DEF NodeOpened
  <2>5. PICK h \in Env : /\ Tree(ast', stack', lb, Append(E, h))
                         /\ h.la = lb /\ h.cb = Len(ast'.records)
    <3> DEFINE below == IF IsLook(f) THEN la + 1 ELSE la
               b == OpenedAst(f, ast, la)
    <3>1. \E h \in Env : /\ Tree(b, Append(stack, f), below, Append(E, h))
                         /\ h.la = below /\ h.cb = Len(b.records)
      BY <1>1, <1>2, <1>3, <2>2, <2>4, TreeOpened
    <3> QED
      BY <2>1, <2>3, <3>1
  <2>6. Top(Append(E, h)) = h
    BY <1>2, AppendLemma DEF Tree
  <2>7. TreeMoves(E, Append(E, h))
    BY <1>4, <2>1, <2>5 DEF TreeMoves, CallsFrom
  <2> QED
    BY <2>5, <2>6, <2>7
<1>5. CASE NodePassed
  <2>1. stack' = stack /\ lb = la /\ Len(ast.records) = Top(E).cb /\ pc' = "return"
    BY <1>2, <1>5 DEF NodePassed
  <2>0. TreeMoves(E, E)
    BY <1>5 DEF TreeMoves
  <2>2. CASE ast' = ast
    BY <1>2, <2>0, <2>1, <2>2
  <2>3. ASSUME NEW i \in Nat, NEW offset \in Nat, NEW length \in Nat,
               ast' = AST_RULE_CLOSE(AST_RULE_OPEN(ast, la, i, offset), la, i, uiOpState',
                                     offset, length)
        PROVE  Tree(ast', stack, la, E)
               /\ (uiOpState' # "MATCH" \/ la # 0 => Len(ast'.records) = Top(E).cb)
    BY <1>1, <1>2, <1>3, <2>1, <2>3, TreePassed
  <2> QED
    BY <1>5, <2>0, <2>1, <2>2, <2>3 DEF NodePassed
<1>6. CASE NodeGoesOn
  <2>1. PICK g \in Frame :
          /\ g.op = Top(stack).op /\ g.beg = Top(stack).beg /\ stack # << >>
          /\ stack' = Append(Pop(stack), g) /\ lb = la
          /\ CASE Id(g) = "REP" -> ast' = AST_OP_OPEN(AST_OP_CLOSE(ast, la, uiOpState), la)
               [] Id(g) = "CAT" -> ast' = ast
               [] OTHER -> ast' = ast /\ uiOpState = "NOMATCH" /\ Id(g) # "RNM"
    BY <1>6 DEF NodeGoesOn
  <2>2. SameOperator(g, Top(stack))
    BY <2>1 DEF SameOperator
  <2>3. /\ Id(g) = "REP" => ast' = AST_OP_OPEN(AST_OP_CLOSE(ast, la, uiOpState), la)
        /\ Id(g) # "REP" => ast' = ast
        /\ Id(g) \notin {"REP", "CAT"} => uiOpState = "NOMATCH"
    BY <2>1
  <2>4. uiOpState = "NOMATCH" \/ la # 0 => Len(ast.records) = Top(E).cb
    BY <1>2
  <2>5. PICK h \in Env : /\ Tree(ast', Append(Pop(stack), g), la, Append(Pop(E), h))
                         /\ h.la = la /\ h.cb = Len(ast'.records)
                         /\ ast'.records = ast.records
    <3> DEFINE a == ast
               s == stack
               b == ast'
               answer == uiOpState
    <3>1. /\ a \in AstSet /\ a.attached /\ s \in Seq(Frame) /\ s # << >> /\ Tree(a, s, la, E)
          /\ answer = "NOMATCH" \/ la # 0 => Len(a.records) = Top(E).cb
          /\ SameOperator(g, Top(s))
      BY <1>1, <1>2, <1>3, <2>1, <2>2, <2>4
    <3>2. /\ Id(g) = "REP" => b = AST_OP_OPEN(AST_OP_CLOSE(a, la, answer), la)
          /\ Id(g) # "REP" => b = a
          /\ Id(g) \notin {"REP", "CAT"} => answer = "NOMATCH"
      BY <2>3
    <3> HIDE DEF a, s, la, b, answer
    <3>3. /\ b.records = a.records
          /\ \E h \in Env : /\ Tree(b, Append(Pop(s), g), la, Append(Pop(E), h))
                           /\ h.la = la /\ h.cb = Len(b.records)
      <4>1. Continued(a, b, Append(Pop(s), g), la, E)
        BY ONLY <3>1, <3>2, g \in Frame, TreeGoesOn
      <4> QED
        BY <4>1 DEF Continued
    <3> QED
      BY <3>3 DEF a, s, la, b
  <2>6. Top(Append(Pop(E), h)) = h
    <3>1. E \in Seq(Env) /\ E # << >>
      BY <1>2, <1>3, ChainParts DEF Tree
    <3>2. Pop(E) \in Seq(Env)
      BY <3>1, PopLemma
    <3> QED
      BY <3>2, AppendLemma
  <2>7. TreeMoves(E, Append(Pop(E), h))
    BY <1>6, <2>1, <2>5 DEF TreeMoves, CallsFrom
  <2> QED
    BY <2>1, <2>5, <2>6, <2>7
<1>7. CASE NodeClosed
  <2> DEFINE F == Pop(E)
  <2>1. stack # << >> /\ stack' = Pop(stack) /\ pc' = "return"
    BY <1>7 DEF NodeClosed
  <2>2. /\ Closes(ast, Top(stack), uiOpState, uiOpState', uiPhraseLength', lb, ast')
        /\ Bare(ast, E, uiOpState, la)
        /\ lb = Top(F).la
    BY <1>1, <1>7, ClosedStep
  <2>3. /\ Tree(ast', Pop(stack), lb, F)
        /\ uiOpState' = "NOMATCH" \/ lb # 0 => Len(ast'.records) = Top(F).cb
    <3> DEFINE a == ast
               s == stack
               b == ast'
               answer == uiOpState
               state == uiOpState'
               length == uiPhraseLength'
    <3>1. /\ a \in AstSet /\ a.attached /\ s \in Seq(Frame) /\ s # << >> /\ Tree(a, s, la, E)
          /\ Bare(a, E, answer, la) /\ lb = Top(F).la
          /\ Closes(a, Top(s), answer, state, length, lb, b)
      BY <1>1, <1>2, <1>3, <2>1, <2>2
    <3> HIDE DEF a, s, la, lb, b, answer, state, length, F
    <3>2. F = Pop(E)
      BY DEF F
    <3>3. Tree(b, Pop(s), lb, F) /\ Bare(b, F, state, lb)
      <4>1. \A up, st, l, v, g : g = Top(s) /\ up = Top(F).la /\ Closes(a, g, answer, st, l, up, v) =>
               Tree(v, Pop(s), up, F) /\ Bare(v, F, st, up)
        BY ONLY <3>1, <3>2, TreeClosed
      <4> QED
        BY ONLY <3>1, <4>1, Zenon
    <3> QED
      BY <3>3 DEF Bare, a, s, lb, b, state
  <2>4. TreeMoves(E, F)
    BY <1>7 DEF TreeMoves
  <2> QED
    BY <2>1, <2>3, <2>4
<1> QED
  BY <1>4, <1>5, <1>6, <1>7 DEF Shape

LEMMA TreeNext ==
  ASSUME Contract, IInv, IInv', LookInv, StackFits', TreeInv, [Next]_vars
  PROVE  TreeInv'
<1> DEFINE StillTree ==
      \E E : /\ Tree(ast', stack', uiInLookaround', E)
             /\ (pc' = "call" \/ uiOpState' = "NOMATCH" \/ uiInLookaround' # 0) =>
                  Len(ast'.records) = Top(E).cb
<1> SUFFICES ASSUME Parsing', ast'.attached, CallbacksRecorded' PROVE TreeInv'
  BY DEF TreeInv
<1>1. CASE \E c \in Configs : ParserParse(c)
  <2>1. stack' = << >> /\ ast' = AST_CLEAR(ast) /\ uiInLookaround' = uiInLookaround
    BY <1>1 DEF ParserParse, Call
  <2>2. ast \in AstSet /\ uiInLookaround \in Nat
    BY DEF IInv, TypeOK
  <2>3. ast'.records = << >> /\ ast'.that = << >> /\ ast'.open = << >>
    <3>1. ast'.attached = ast.attached
      BY <2>1, <2>2 DEF AST_CLEAR, AstClear, AstSet
    <3> QED
      BY <2>1, <2>2, <3>1 DEF AST_CLEAR, AstClear, AstSet
  <2>4. PICK e : e \in Env /\ e.la = uiInLookaround /\ e.cb = 0 /\ e.pos = 0 /\ e.th = 0
    <3> DEFINE d == [la |-> uiInLookaround, cb |-> 0, pos |-> 0, th |-> 0]
    <3>1. d \in Env /\ d.la = uiInLookaround /\ d.cb = 0 /\ d.pos = 0 /\ d.th = 0
      BY <2>2 DEF Env
    <3> HIDE DEF d
    <3> QED
      BY <3>1
  <2>5. PICK E : E \in Seq(Env) /\ Len(E) = 1 /\ E[1] = e /\ Top(E) = e
    <3>1. /\ <<e>> \in Seq(Env) /\ Len(<<e>>) = 1 /\ <<e>>[1] = e /\ Top(<<e>>) = e
      BY <2>4 DEF Top
    <3> QED
      BY <3>1
  <2>6. Len(stack') = 0 /\ Len(ast'.records) = 0 /\ Len(ast'.that) = 0 /\ Len(ast'.open) = 0
    BY <2>1, <2>3, EmptySeq
  <2>7. Below(e, e)
    BY <2>4 DEF Below
  <2>8. /\ \A m, n \in 1..Len(E) : m =< n => Below(E[m], E[n])
        /\ \A n \in 1..Len(E) : \A j \in 1..E[n].th : ast'.that[j] < E[n].cb
    <3>1. \A n \in 1..Len(E) : E[n] = e
      BY <2>5
    <3>2. 1..e.th = {}
      BY <2>4
    <3> QED
      BY <2>7, <3>1, <3>2
  <2>9. Sound(ast'.records, Pending(ast'.that), Cuts(E))
    <3>1. 1..Len(ast'.records) = {}
      BY <2>6
    <3> QED
      BY <3>1 DEF Sound
  <2>10. Tree(ast, stack, uiInLookaround, E)'
    <3>1. Chain(ast, stack, E)'
      <4>1. 1..Len(stack') = {}
        BY <2>6
      <4> QED
        BY <2>5, <2>6, <2>8, <4>1 DEF Chain
    <3>2. Held(ast, E)'
      BY <2>4, <2>5, <2>6, <2>9 DEF Held
    <3> QED
      BY <2>1, <2>4, <2>5, <3>1, <3>2 DEF Tree
  <2>11. Len(ast'.records) = Top(E).cb
    BY <2>4, <2>5, <2>6
  <2> QED
    BY <2>10, <2>11 DEF TreeInv
<1>2. ASSUME UNCHANGED <<app, parse>>, StillTree
      PROVE  TreeInv'
  <2>1. PICK E : /\ Tree(ast', stack', uiInLookaround', E)
                 /\ (pc' = "call" \/ uiOpState' = "NOMATCH" \/ uiInLookaround' # 0) =>
                      Len(ast'.records) = Top(E).cb
    BY <1>2
  <2>2. Tree(ast, stack, uiInLookaround, E)'
    BY <1>2, <2>1, SameTree
  <2> QED
    BY <2>1, <2>2 DEF TreeInv
<1>3. CASE Parsing /\ UNCHANGED <<app, parse>> /\ Shape
  <2>1. ast.attached /\ CallbacksRecorded
    BY <1>3, HooksAttached DEF CallbacksRecorded, app
  <2>2. PICK E : TreeHolds(E)
    BY <1>3, <2>1 DEF TreeInv, TreeHolds
  <2> QED
    BY <1>2, <1>3, <2>2, TreeStep
<1>4. CASE Parsing /\ UNCHANGED <<app, parse>>
           /\ UNCHANGED <<uiOpState, pc, stack, uiInLookaround, ast>>
  <2>1. ast.attached /\ CallbacksRecorded
    BY <1>4 DEF CallbacksRecorded, app
  <2>2. StillTree
    BY <1>4, <2>1 DEF TreeInv
  <2> QED
    BY <1>2, <1>4, <2>2
<1> QED
  BY <1>1, <1>3, <1>4, Transition

LEMMA TreeInvariance ==
  ASSUME Contract
  PROVE  Spec /\ []StackFits => []TreeInv
<1>1. Init => TreeInv
  BY DEF Init, TreeInv, Parsing
<1>2. IInv /\ IInv' /\ LookInv /\ StackFits' /\ TreeInv /\ [Next]_vars => TreeInv'
  BY TreeNext
<1>3. Spec => []IInv
  BY Invariance
<1>4. Spec /\ []StackFits => []LookInv
  BY LookInvariance
<1> QED
  BY <1>1, <1>2, <1>3, <1>4, PTL DEF Spec

\* A parse that ends leaves a well-formed tree, whatever was recorded and withdrawn on the
\* way: nothing is open or waits for its end, PRE and POST records are linked, nodes are
\* nested or disjoint, and a parse that fails leaves no record.
THEOREM TreesWellFormed ==
  Contract => (Spec /\ []StackFits => []AstWellFormed)
<1> SUFFICES ASSUME Contract PROVE Spec /\ []StackFits => []AstWellFormed
  OBVIOUS
<1>1. Spec => []IInv
  BY Invariance
<1>2. Spec /\ []StackFits => []TreeInv
  BY TreeInvariance
<1>3. ASSUME IInv, TreeInv PROVE AstWellFormed
  <2> SUFFICES ASSUME pc = "return", stack = << >>, ast.attached, CallbacksRecorded
               PROVE  /\ ast.open = << >> /\ ast.that = << >>
                      /\ Linked(ast.records) /\ Nested(ast.records)
                      /\ uiOpState = "NOMATCH" => ast.records = << >>
    BY DEF AstWellFormed
  <2>1. PICK E : /\ Tree(ast, stack, uiInLookaround, E)
                 /\ uiOpState = "NOMATCH" => Len(ast.records) = Top(E).cb
    BY <1>3 DEF TreeInv, Parsing
  <2>2. ast \in AstSet /\ stack \in Seq(Frame)
    BY <1>3 DEF IInv, TypeOK
  <2>3. E \in Seq(Env) /\ Chain(ast, stack, E) /\ Held(ast, E)
    BY <2>1 DEF Tree
  <2>4. Top(E) = E[1]
    <3>1. Len(E) = 1
      BY <2>3, EmptySeq DEF Chain
    <3> QED
      BY <3>1 DEF Top
  <2>5. Len(ast.open) = 0 /\ Len(ast.that) = 0 /\ Top(E).cb = 0
        /\ Sound(ast.records, Pending(ast.that), Cuts(E))
    BY <2>1, <2>3, <2>4 DEF Tree, Held
  <2>6. ast.open = << >> /\ ast.that = << >>
    BY <2>2, <2>5, EmptySeq, AstParts
  <2>7. Pending(ast.that) = {}
    BY <2>5 DEF Pending
  <2>8. ast.records \in Seq(Record)
    BY <2>2, AstParts
  <2>9. Linked(ast.records) /\ Nested(ast.records)
    BY <2>5, <2>7, <2>8, SoundWhole
  <2>10. uiOpState = "NOMATCH" => ast.records = << >>
    BY <2>1, <2>5, <2>8, EmptySeq
  <2> QED
    BY <2>6, <2>9, <2>10
<1> QED
  BY <1>1, <1>2, <1>3, PTL
=============================================================================
