------------------------------- MODULE Parser -------------------------------
(***************************************************************************)
(* The SABNF parser: vParserParse (library/parser.c) and the operator      *)
(* functions of library/operators-abnf.c and operators-sabnf.c, with the   *)
(* AST recorder they drive.                                                *)
(*                                                                         *)
(* The operators call each other through pfnOpFunc, so the C stack is part *)
(* of the state: stack holds one frame per operator that waits for a       *)
(* child. A step of the model runs the parser from one such call or return *)
(* to the next:                                                            *)
(*   pc = "idle"    the application holds control                          *)
(*   pc = "call"    the opcode callee has been called and has not begun    *)
(*   pc = "return"  an opcode has returned to the frame on top of stack    *)
(* A callback, which may answer anything in RnmResults or UdtResults or    *)
(* throw, belongs to the step that calls it. XTHROW is a longjmp to the    *)
(* application: the stack is lost, the context is left as it was.          *)
(*                                                                         *)
(* The build modelled has the AST and prediction maps, and no back         *)
(* references, trace or statistics.                                        *)
(***************************************************************************)
EXTENDS Grammar, Ast, FiniteSets

CONSTANTS
  Grammars,     \* the grammars a parser may be constructed for
  Configs,      \* the parser_config values the application passes
  RnmResults,   \* what a rule callback may answer
  UdtResults,   \* what a UDT callback may answer
  AppRules,     \* the rules the application sets parser callbacks for
  AppNodes,     \* the rules and UDTs the application sets AST callbacks for
  MaxLeak       \* bound: no parse is begun with uiInLookaround above it

CallbackStates == {"ACTIVE", "MATCH", "NOMATCH", "EMPTY", "THROW"}
CallbackSet == [state: CallbackStates, length: Nat]
ConfigSet == [input: Seq(Nat), start: Nat, sub: BOOLEAN, beg: Nat, len: Nat, lookBehind: Nat]

ASSUME ParserAssumption ==
  /\ \A g \in Grammars : GrammarOK(g)
  /\ Configs \subseteq ConfigSet
  /\ \A c \in Configs : c.start > 0 /\ Len(c.input) < APG_UNDEFINED
                        /\ c.beg =< APG_UNDEFINED /\ c.len =< APG_UNDEFINED
  /\ RnmResults \subseteq CallbackSet
  /\ UdtResults \subseteq CallbackSet
  /\ \A answer \in RnmResults \cup UdtResults : answer.length =< APG_UNDEFINED
  /\ AppRules \subseteq Nat \ {0}
  /\ AppNodes \subseteq Nat \ {0}
  /\ MaxLeak \in Nat

VARIABLES
  grammar,              \* the tables set by vpParserCtor
  ruleCallback,         \* rules with a non-NULL pfnCallback
  udtCallback,          \* UDTs with a non-NULL pfnCallback
  config,               \* the configuration whose input was last taken
  uiSubStringBeg, uiSubStringEnd,
  uiLookBehindLength,
  uiInLookaround,
  uiOffset, uiPhraseLength, uiOpState,
  uiTreeDepth, uiMaxTreeDepth,
  sCBData,              \* what the last callback was shown
  ast,
  spState,              \* the caller's parser_state, and how the parse ended
  pc, callee, stack,    \* control, see above
  uiLookaroundAtStart   \* history: uiInLookaround when the parse began

app     == <<grammar, ruleCallback, udtCallback>>
parse   == <<config, uiLookBehindLength, uiLookaroundAtStart>>
sub     == <<uiSubStringBeg, uiSubStringEnd>>
phrase  == <<uiOffset, uiPhraseLength, uiOpState>>
depth   == <<uiTreeDepth, uiMaxTreeDepth>>
control == <<pc, callee, stack>>
vars    == <<app, parse, sub, phrase, depth, control, uiInLookaround, sCBData, ast, spState>>

-----------------------------------------------------------------------------
(* Unsigned arithmetic and the parts of the context.                       *)

Increment(n) == IF n = APG_UNDEFINED THEN 0 ELSE n + 1
DecrementSigned(n) == n - 1                                       \* mutant
Decrement(n) == IF n = 0 THEN APG_UNDEFINED ELSE n - 1
Plus(m, n)   == IF m + n > APG_UNDEFINED THEN (m + n) - (APG_UNDEFINED + 1) ELSE m + n
Minus(m, n)  == IF m >= n THEN m - n ELSE (APG_UNDEFINED + 1 + m) - n

acpInputString == config.input
uiInputStringLength == Len(config.input)
uiRuleCount == Len(grammar.rules)

Opcode(i) == IF i = 0 THEN StartOp(config.start) ELSE grammar.ops[i]

Frame == [op: Nat, beg: Nat, len: Nat, k: Nat, subBeg: Nat, subEnd: Nat]

(***************************************************************************)
(* The locals of an operator function: uiOffset (beg), uiPhraseLength      *)
(* (len), the child number, match count or look-behind distance (k), and   *)
(* the sub-string bounds on entry.                                         *)
(***************************************************************************)
NewFrameWhole(k) == [op |-> callee, beg |-> uiOffset, len |-> 0, k |-> k,    \* mutant
                     subBeg |-> uiSubStringBeg, subEnd |-> uiInputStringLength]
NewFrame(k) == [op |-> callee, beg |-> uiOffset, len |-> 0, k |-> k,
                subBeg |-> uiSubStringBeg, subEnd |-> uiSubStringEnd]

\* the next alternative, or the next distance of a look-behind
NextTrySame(f) == f                                               \* mutant
NextTry(f) == [f EXCEPT !.k = @ + 1]

StateSet == [outcome: {"none", "parsed", "argument", "callback", "ast", "bkr"},
             state: {"none", "MATCH", "NOMATCH"}, success: BOOLEAN,
             length: Nat, stringLength: Nat, depth: Nat]

NoState == [outcome |-> "none", state |-> "none", success |-> FALSE,
            length |-> 0, stringLength |-> 0, depth |-> 0]

NoConfig == [input |-> << >>, start |-> 1, sub |-> FALSE, beg |-> 0, len |-> 0,
             lookBehind |-> 0]

NoCallback == [offset |-> 0, state |-> "ACTIVE", length |-> 0, stringLength |-> 0]

Calling(ids)   == pc = "call" /\ Opcode(callee).id \in ids
Returning(ids) == pc = "return" /\ stack # << >> /\ Opcode(Top(stack).op).id \in ids

-----------------------------------------------------------------------------
(* How a step ends.                                                        *)

\* spCtx->pfnOpFunc[...](spCtx, child)
Call(frames, child) ==
  /\ pc' = "call"
  /\ callee' = child
  /\ stack' = frames

Return(frames, state, offset, length) ==
  /\ pc' = "return"
  /\ callee' = 0
  /\ stack' = frames
  /\ uiOpState' = state
  /\ uiOffset' = offset
  /\ uiPhraseLength' = length

Throw(outcome, a) ==
  /\ pc' = "idle"
  /\ callee' = 0
  /\ stack' = << >>
  /\ spState' = [NoState EXCEPT !.outcome = outcome]
  /\ ast' = [a EXCEPT !.error = FALSE]

\* the entry of every operator function, and entry followed by exit
EnterNode ==
  /\ uiTreeDepth' = Increment(uiTreeDepth)
  /\ uiMaxTreeDepth' = IF uiTreeDepth' > uiMaxTreeDepth THEN uiTreeDepth' ELSE uiMaxTreeDepth

LeafNode ==
  /\ uiTreeDepth' = Decrement(Increment(uiTreeDepth))
  /\ uiMaxTreeDepth' = IF Increment(uiTreeDepth) > uiMaxTreeDepth
                         THEN Increment(uiTreeDepth) ELSE uiMaxTreeDepth

ExitNode ==
  /\ uiTreeDepth' = Decrement(uiTreeDepth)
  /\ UNCHANGED uiMaxTreeDepth

\* an operator's last act that matters is its AST hook, which may throw
Finish(frames, a, state, offset, length) ==
  IF a.error
    THEN Throw("ast", a) /\ UNCHANGED phrase
    ELSE /\ Return(frames, state, offset, length)
         /\ ast' = a
         /\ UNCHANGED spState

\* likewise when an operator goes on with another child
Continue(frames, child, a) ==
  IF a.error
    THEN Throw("ast", a)
    ELSE /\ Call(frames, child)
         /\ ast' = a
         /\ UNCHANGED spState

OpReturnAhead(a, state, offset, length) ==                        \* mutant
  /\ ExitNode
  /\ Finish(Pop(stack), a, state, uiOffset, length)

OpReturn(a, state, offset, length) ==
  /\ ExitNode
  /\ Finish(Pop(stack), a, state, offset, length)

LeafReturn(state, length) ==
  /\ LeafNode
  /\ Return(stack, state, uiOffset + length, length)
  /\ UNCHANGED <<app, parse, sub, uiInLookaround, sCBData, ast, spState>>

-----------------------------------------------------------------------------
(* Partially-predictive parsing: uiPpptState and bPpptEval.                *)

PpptState(i) == PpptAt(grammar, Opcode(i), i, acpInputString, uiOffset, uiSubStringEnd)

PpptResult(value) == IF value = "NOMATCH" THEN "NOMATCH" ELSE "MATCH"
PpptLength(value) == IF value = "MATCH" THEN 1 ELSE 0

Undecided == PpptState(callee) = "ACTIVE"

(***************************************************************************)
(* A deterministic prediction replaces the operator's work (goto done).    *)
(* Between the opening and the closing AST hook nothing is recorded, so    *)
(* the two cancel. RNM, whose callbacks still run, has its own actions.    *)
(***************************************************************************)
Predict ==
  /\ Calling(ListIds \cup {"REP"} \cup LookAheadIds \cup TerminalIds)
  /\ ~Undecided
  /\ LET value == PpptState(callee) IN LeafReturn(PpptResult(value), PpptLength(value))

-----------------------------------------------------------------------------
(* vAlt, vCat, vRep.                                                       *)

AltOpen ==
  /\ Calling({"ALT"})
  /\ Undecided
  /\ EnterNode
  /\ uiOpState' = "ACTIVE"
  /\ Call(Append(stack, NewFrame(1)), Opcode(callee).kids[1])
  /\ UNCHANGED <<app, parse, sub, uiOffset, uiPhraseLength, uiInLookaround, sCBData, ast, spState>>

AltNext ==
  /\ Returning({"ALT"})
  /\ LET f == Top(stack)
         kids == Opcode(f.op).kids
     IN \/ /\ uiOpState = "MATCH" \/ f.k = Len(kids)
           /\ OpReturn(ast, uiOpState, uiOffset, uiPhraseLength)
        \/ /\ uiOpState # "MATCH" /\ f.k < Len(kids)
           /\ uiOpState' = "ACTIVE"
           /\ Call(Append(Pop(stack), NextTry(f)), kids[f.k + 1])
           /\ UNCHANGED <<depth, uiOffset, uiPhraseLength, ast, spState>>
  /\ UNCHANGED <<app, parse, sub, uiInLookaround, sCBData>>

CatOpen ==
  /\ Calling({"CAT"})
  /\ Undecided
  /\ EnterNode
  /\ uiOpState' = "ACTIVE"
  /\ ast' = AST_OP_OPEN(ast, uiInLookaround)
  /\ Call(Append(stack, NewFrame(1)), Opcode(callee).kids[1])
  /\ UNCHANGED <<app, parse, sub, uiOffset, uiPhraseLength, uiInLookaround, sCBData, spState>>

CatNext ==
  /\ Returning({"CAT"})
  /\ LET f == Top(stack)
         kids == Opcode(f.op).kids
         len == Plus(f.len, uiPhraseLength)
     IN \/ /\ uiOpState = "NOMATCH"
           /\ OpReturn(AST_OP_CLOSE(ast, uiInLookaround, "NOMATCH"),
                       "NOMATCH", f.beg, uiPhraseLength)
        \/ /\ uiOpState # "NOMATCH" /\ f.k = Len(kids)
           /\ OpReturn(AST_OP_CLOSE(ast, uiInLookaround, uiOpState), uiOpState, uiOffset, len)
        \/ /\ uiOpState # "NOMATCH" /\ f.k < Len(kids)
           /\ uiOpState' = "ACTIVE"
           /\ Call(Append(Pop(stack), [f EXCEPT !.k = @ + 1, !.len = len]), kids[f.k + 1])
           /\ UNCHANGED <<depth, uiOffset, uiPhraseLength, ast, spState>>
  /\ UNCHANGED <<app, parse, sub, uiInLookaround, sCBData>>

(***************************************************************************)
(* REP opens the AST twice: once for itself, once for each repetition.     *)
(***************************************************************************)
RepOpen ==
  /\ Calling({"REP"})
  /\ Undecided
  /\ EnterNode
  /\ uiOpState' = "ACTIVE"
  /\ ast' = AST_OP_OPEN(AST_OP_OPEN(ast, uiInLookaround), uiInLookaround)
  /\ Call(Append(stack, NewFrame(0)), callee + 1)
  /\ UNCHANGED <<app, parse, sub, uiOffset, uiPhraseLength, uiInLookaround, sCBData, spState>>

RepNext ==
  /\ Returning({"REP"})
  /\ LET f == Top(stack)
         o == Opcode(f.op)
         a == AST_OP_CLOSE(ast, uiInLookaround, uiOpState)
         len == Plus(f.len, uiPhraseLength)
         Done(state, length) ==
           OpReturn(AST_OP_CLOSE(a, uiInLookaround, state), state, Plus(f.beg, length), length)
     IN \/ /\ uiOpState = "MATCH" /\ uiPhraseLength = 0      \* empty: succeed, whatever the count
           /\ Done("MATCH", f.len)
        \/ /\ uiOpState = "NOMATCH"
           /\ IF f.k >= o.min /\ f.k =< o.max THEN Done("MATCH", f.len) ELSE Done("NOMATCH", 0)
        \/ /\ uiOpState = "MATCH" /\ uiPhraseLength > 0
           /\ IF f.k + 1 >= o.max
                THEN Done("MATCH", len)
                ELSE /\ Continue(Append(Pop(stack), [f EXCEPT !.k = @ + 1, !.len = len]), f.op + 1,
                              AST_OP_OPEN(a, uiInLookaround))
                     /\ UNCHANGED <<depth, phrase>>
  /\ UNCHANGED <<app, parse, sub, uiInLookaround, sCBData>>

-----------------------------------------------------------------------------
(* vTrg, vTls, vTbs.                                                       *)

StringAtInside(str, fold) ==                                      \* mutant
  /\ uiOffset + Len(str) < uiSubStringEnd
  /\ \A j \in 1..Len(str) :
       LET c == acpInputString[uiOffset + j] IN str[j] = IF fold THEN Lower(c) ELSE c

StringAt(str, fold) ==
  /\ uiOffset + Len(str) =< uiSubStringEnd
  /\ \A j \in 1..Len(str) :
       LET c == acpInputString[uiOffset + j] IN str[j] = IF fold THEN Lower(c) ELSE c

Terminal(o) ==
  IF o.id = "TRG"
    THEN uiOffset < uiSubStringEnd /\ acpInputString[uiOffset + 1] \in o.min..o.max
    ELSE StringAt(o.str, o.id = "TLS")

TerminalLength(o) == IF o.id = "TRG" THEN 1 ELSE Len(o.str)

MatchTerminal ==
  /\ Calling(TerminalIds)
  /\ Undecided
  /\ LET o == Opcode(callee) IN
     \/ Terminal(o) /\ LeafReturn("MATCH", TerminalLength(o))
     \/ ~Terminal(o) /\ LeafReturn("NOMATCH", 0)

-----------------------------------------------------------------------------
(* vRnm and vRnmValidateCallback.                                          *)

ShowCallback(beg, state, length) ==
  sCBData' = [sCBData EXCEPT !.offset = Minus(beg, uiSubStringBeg),
                             !.state = state, !.length = length]

RnmInvalid(r, beg, answer) ==
  \/ answer.state \notin {"ACTIVE", "MATCH", "NOMATCH"}
  \/ /\ answer.state # "ACTIVE"
     /\ Plus(beg, answer.length) > uiSubStringEnd
  \/ answer = [state |-> "MATCH", length |-> 0] /\ ~grammar.rules[r].empty

\* the length is forced to 0 when the callback answers NOMATCH
AnswerLength(answer) == IF answer.state = "NOMATCH" THEN 0 ELSE answer.length

RnmDown(a) ==
  LET value == PpptState(callee) IN
  /\ EnterNode
  /\ ast' = a
  /\ IF value = "ACTIVE"
       THEN /\ Call(Append(stack, NewFrame(0)), grammar.rules[Opcode(callee).index].op)
            /\ uiOpState' = "ACTIVE"
            /\ UNCHANGED <<uiOffset, uiPhraseLength>>
       ELSE Return(Append(stack, NewFrame(0)), PpptResult(value),
                   uiOffset + PpptLength(value), PpptLength(value))
  /\ UNCHANGED spState

RnmOpen ==
  /\ Calling({"RNM"})
  /\ LET r == Opcode(callee).index
         a == AST_RULE_OPEN(ast, uiInLookaround, r, uiOffset)
     IN \/ /\ r \notin ruleCallback
           /\ RnmDown(a)
           /\ UNCHANGED sCBData
        \/ /\ r \in ruleCallback
           /\ ShowCallback(uiOffset, "ACTIVE", 0)
           /\ \E answer \in RnmResults :
                \/ /\ RnmInvalid(r, uiOffset, answer)
                   /\ EnterNode
                   /\ Throw("callback", a)
                   /\ UNCHANGED phrase
                \/ /\ ~RnmInvalid(r, uiOffset, answer)
                   /\ answer.state = "ACTIVE"
                   /\ RnmDown(a)
                \/ /\ ~RnmInvalid(r, uiOffset, answer)
                   /\ answer.state # "ACTIVE"
                   /\ LeafNode
                   /\ LET len == AnswerLength(answer) IN
                      Finish(stack, AST_RULE_CLOSE(a, uiInLookaround, r, answer.state, uiOffset, len),
                             answer.state, Plus(uiOffset, len), len)
  /\ UNCHANGED <<app, parse, sub, uiInLookaround>>

RnmReturn(r, state, offset, length) ==
  OpReturn(AST_RULE_CLOSE(ast, uiInLookaround, r, state, Minus(offset, length), length),
           state, offset, length)

RnmClose ==
  /\ Returning({"RNM"})
  /\ LET f == Top(stack)
         r == Opcode(f.op).index
     IN \/ /\ r \notin ruleCallback
           /\ RnmReturn(r, uiOpState, uiOffset, uiPhraseLength)
           /\ UNCHANGED sCBData
        \/ /\ r \in ruleCallback
           /\ ShowCallback(f.beg, uiOpState, uiPhraseLength)
           /\ \E answer \in RnmResults :
                \/ /\ RnmInvalid(r, f.beg, answer)
                   /\ Throw("callback", ast)
                   /\ UNCHANGED <<depth, phrase>>
                \/ /\ ~RnmInvalid(r, f.beg, answer)
                   /\ answer.state = "ACTIVE"
                   /\ RnmReturn(r, uiOpState, uiOffset, uiPhraseLength)
                \/ /\ ~RnmInvalid(r, f.beg, answer)
                   /\ answer.state # "ACTIVE"
                   /\ RnmReturn(r, answer.state, Plus(f.beg, AnswerLength(answer)), AnswerLength(answer))
  /\ UNCHANGED <<app, parse, sub, uiInLookaround>>

-----------------------------------------------------------------------------
(* vUdt: EMPTY is taken as a match of length 0; ACTIVE is an error. The    *)
(* phrase length is accepted whatever the state.                           *)

UdtAnswer(answer) ==
  IF answer.state = "EMPTY" THEN [state |-> "MATCH", length |-> 0] ELSE answer

UdtInvalid(u, answer) ==
  \/ answer.state \in {"ACTIVE", "THROW"}
  \/ Plus(uiOffset, answer.length) > uiSubStringEnd
  \/ answer = [state |-> "MATCH", length |-> 0] /\ ~grammar.udts[u].empty

Udt ==
  /\ Calling({"UDT"})
  /\ LET u == Opcode(callee).index
         a == AST_RULE_OPEN(ast, uiInLookaround, uiRuleCount + u, uiOffset)
     IN /\ ShowCallback(uiOffset, "ACTIVE", 0)
        /\ \E given \in UdtResults :
             LET answer == UdtAnswer(given) IN
             \/ /\ UdtInvalid(u, answer)
                /\ EnterNode
                /\ Throw("callback", a)
                /\ UNCHANGED phrase
             \/ /\ ~UdtInvalid(u, answer)
                /\ LeafNode
                /\ Finish(stack, AST_RULE_CLOSE(a, uiInLookaround, uiRuleCount + u, answer.state,
                                                uiOffset, answer.length),
                          answer.state, Plus(uiOffset, answer.length), answer.length)
  /\ UNCHANGED <<app, parse, sub, uiInLookaround>>

-----------------------------------------------------------------------------
(* vAnd, vNot, vBka, vBkn, vLookBack, vAbg, vAen.                          *)

Negate(state) == IF state = "MATCH" THEN "NOMATCH" ELSE "MATCH"

LeaveLookaroundOnMatch ==                                         \* mutant
  uiInLookaround' = IF uiOpState = "MATCH" THEN Decrement(uiInLookaround) ELSE uiInLookaround

LeaveLookaround == uiInLookaround' = Decrement(uiInLookaround)

LookAheadOpen ==
  /\ Calling(LookAheadIds)
  /\ Undecided
  /\ EnterNode
  /\ ast' = AST_OP_OPEN(ast, uiInLookaround)
  /\ uiInLookaround' = Increment(uiInLookaround)
  /\ Call(Append(stack, NewFrame(0)), callee + 1)
  /\ UNCHANGED <<app, parse, sub, phrase, sCBData, spState>>

LookAheadClose ==
  /\ Returning(LookAheadIds)
  /\ LET f == Top(stack)
         state == IF Opcode(f.op).id = "NOT" THEN Negate(uiOpState) ELSE uiOpState
     IN /\ LeaveLookaround
        /\ OpReturn(AST_OP_CLOSE(ast, uiInLookaround', state), state, f.beg, 0)
  /\ UNCHANGED <<app, parse, sub, sCBData>>

(***************************************************************************)
(* Look-behind tries its child k characters back, k = 0, 1, .., until the  *)
(* child matches. Meanwhile the sub-string is the empty one at beg, which  *)
(* stops the child from reading past it.                                   *)
(***************************************************************************)
LookBackOpen ==
  /\ Calling(LookBackIds)
  /\ EnterNode
  /\ ast' = AST_OP_OPEN(ast, uiInLookaround)
  /\ uiInLookaround' = Increment(uiInLookaround)
  /\ uiSubStringBeg' = uiOffset
  /\ uiSubStringEnd' = uiOffset
  /\ Call(Append(stack, NewFrame(0)), callee + 1)
  /\ UNCHANGED <<app, parse, phrase, sCBData, spState>>

LookBackLimit(f) == IF f.beg < uiLookBehindLength THEN f.beg ELSE uiLookBehindLength

LookBackAgain ==
  /\ Returning(LookBackIds)
  /\ uiOpState # "MATCH"
  /\ LET f == Top(stack) IN
     /\ f.k < LookBackLimit(f)
     /\ uiOffset' = f.beg - (f.k + 1)
     /\ Call(Append(Pop(stack), NextTry(f)), f.op + 1)
  /\ UNCHANGED <<app, parse, sub, depth, uiPhraseLength, uiOpState, uiInLookaround,
                 sCBData, ast, spState>>

RestoreEnd(f) == uiSubStringEnd' = f.subEnd /\ UNCHANGED uiSubStringBeg     \* mutant
RestoreSubString(f) == uiSubStringBeg' = f.subBeg /\ uiSubStringEnd' = f.subEnd

\* vLookBack has counted uiTreeDepth down once already
LookBackDepth ==
  /\ uiTreeDepth' = Decrement(Decrement(uiTreeDepth))
  /\ UNCHANGED uiMaxTreeDepth

LookBackClose ==
  /\ Returning(LookBackIds)
  /\ LET f == Top(stack)
         found == uiOpState = "MATCH" /\ uiPhraseLength = f.k
         behind == IF found THEN "MATCH" ELSE "NOMATCH"
         state == IF Opcode(f.op).id = "BKN" THEN Negate(behind) ELSE behind
     IN /\ uiOpState = "MATCH" \/ f.k = LookBackLimit(f)
        /\ LeaveLookaround
        /\ RestoreSubString(f)
        /\ LookBackDepth
        /\ Finish(Pop(stack), AST_OP_CLOSE(ast, uiInLookaround', state), state, f.beg, 0)
  /\ UNCHANGED <<app, parse, sCBData>>

Anchor ==
  /\ Calling({"ABG", "AEN"})
  /\ LET here == IF Opcode(callee).id = "ABG" THEN 0 ELSE uiInputStringLength IN
     LeafReturn(IF uiOffset = here THEN "MATCH" ELSE "NOMATCH", 0)

-----------------------------------------------------------------------------
(* vParserParse, and the application's other calls.                        *)

SubStringEnd(c) ==
  LET n == Len(c.input)
      end == Plus(c.beg, c.len)
  IN IF ~c.sub \/ c.len = 0 \/ end > n THEN n ELSE end

SubStringBeg(c) == IF c.sub THEN c.beg ELSE 0

SubStringLength(c) == Minus(SubStringEnd(c), SubStringBeg(c))

(***************************************************************************)
(* Anything but 0 and APG_INFINITE compares with the length that the       *)
(* context already holds, not with the one in the configuration.           *)
(***************************************************************************)
LookBehind(c) ==
  IF c.lookBehind \in {0, APG_UNDEFINED} \/ Len(c.input) < uiLookBehindLength
    THEN Len(c.input) ELSE uiLookBehindLength

BadArgumentUnset(c) == c.start > uiRuleCount \/ c.input = << >>   \* mutant
BadArgument(c) ==
  \/ c.start > uiRuleCount
  \/ \E u \in 1..Len(grammar.udts) : u \notin udtCallback
  \/ c.input = << >>

BadSubString(c) == c.sub /\ c.beg >= Len(c.input)

ParserParse(c) ==
  /\ pc = "idle"
  /\ uiInLookaround =< MaxLeak
  /\ ~BadArgument(c)
  /\ ~BadSubString(c)
  /\ config' = c
  /\ uiSubStringBeg' = SubStringBeg(c)
  /\ uiSubStringEnd' = SubStringEnd(c)
  /\ uiOffset' = SubStringBeg(c)
  /\ uiLookBehindLength' = LookBehind(c)
  /\ sCBData' = [NoCallback EXCEPT !.stringLength = SubStringLength(c)]
  /\ ast' = AST_CLEAR(ast)
  /\ spState' = NoState
  /\ uiTreeDepth' = 0
  /\ uiMaxTreeDepth' = 0
  /\ uiLookaroundAtStart' = uiInLookaround
  /\ Call(<< >>, 0)
  /\ UNCHANGED <<app, uiPhraseLength, uiOpState, uiInLookaround>>

\* the input is taken before the sub-string is looked at
ParserParseThrows(c) ==
  /\ pc = "idle"
  /\ BadArgument(c) \/ BadSubString(c)
  /\ config' = IF BadArgument(c) THEN config ELSE c
  /\ Throw("argument", ast)
  /\ UNCHANGED <<app, uiLookBehindLength, uiLookaroundAtStart, sub, phrase, depth,
                 uiInLookaround, sCBData>>

ParserFinish ==
  /\ pc = "return"
  /\ stack = << >>
  /\ pc' = "idle"
  /\ LET len == IF uiOffset > uiSubStringBeg THEN uiOffset - uiSubStringBeg ELSE 0
         strLen == SubStringLength(config)
     IN spState' = [outcome |-> "parsed", state |-> uiOpState,
                    success |-> uiOpState # "NOMATCH" /\ len = strLen,
                    length |-> len, stringLength |-> strLen, depth |-> uiMaxTreeDepth]
  /\ UNCHANGED <<app, parse, sub, phrase, depth, callee, stack, uiInLookaround, sCBData, ast>>

SetRuleCallback(r) ==
  /\ pc = "idle"
  /\ r =< uiRuleCount
  /\ \/ ruleCallback' = ruleCallback \cup {r}
     \/ ruleCallback' = ruleCallback \ {r}
  /\ UNCHANGED <<grammar, udtCallback, parse, sub, phrase, depth, control, uiInLookaround,
                 sCBData, ast, spState>>

SetUdtCallback(u) ==
  /\ pc = "idle"
  /\ \/ udtCallback' = udtCallback \cup {u}
     \/ udtCallback' = udtCallback \ {u}
  /\ UNCHANGED <<grammar, ruleCallback, parse, sub, phrase, depth, control, uiInLookaround,
                 sCBData, ast, spState>>

SetAst(a) ==
  /\ pc = "idle"
  /\ ast' = a
  /\ UNCHANGED <<app, parse, sub, phrase, depth, control, uiInLookaround, sCBData, spState>>

SetAstCallback(i) ==
  /\ ast.attached
  /\ i =< uiRuleCount + Len(grammar.udts)
  /\ \/ SetAst(AstSetCallback(ast, i, TRUE))
     \/ SetAst(AstSetCallback(ast, i, FALSE))

-----------------------------------------------------------------------------
Init ==
  /\ grammar \in Grammars
  /\ ruleCallback = {}
  /\ udtCallback = {}
  /\ config = NoConfig
  /\ uiSubStringBeg = 0 /\ uiSubStringEnd = 0
  /\ uiLookBehindLength = 0
  /\ uiInLookaround = 0
  /\ uiOffset = 0 /\ uiPhraseLength = 0 /\ uiOpState = "ACTIVE"
  /\ uiTreeDepth = 0 /\ uiMaxTreeDepth = 0
  /\ sCBData = NoCallback
  /\ ast = NoAst
  /\ spState = NoState
  /\ pc = "idle" /\ callee = 0 /\ stack = << >>
  /\ uiLookaroundAtStart = 0

ParserStep ==
  \/ Predict
  \/ AltOpen \/ AltNext
  \/ CatOpen \/ CatNext
  \/ RepOpen \/ RepNext
  \/ RnmOpen \/ RnmClose
  \/ MatchTerminal
  \/ Udt
  \/ LookAheadOpen \/ LookAheadClose
  \/ LookBackOpen \/ LookBackAgain \/ LookBackClose
  \/ Anchor
  \/ ParserFinish

Application ==
  \/ \E c \in Configs : ParserParse(c) \/ ParserParseThrows(c)
  \/ \E r \in AppRules : SetRuleCallback(r)
  \/ \E u \in 1..Len(grammar.udts) : SetUdtCallback(u)
  \/ SetAst(AstCtor(ast))
  \/ ast.attached /\ SetAst(AstDtor(ast))
  \/ \E i \in AppNodes : SetAstCallback(i)

Next == ParserStep \/ Application

Spec == Init /\ [][Next]_vars

\* a parse runs on the caller's thread until it returns or throws
FairSpec == Spec /\ WF_vars(ParserStep)
-----------------------------------------------------------------------------
(* Correctness.                                                            *)

TypeOK ==
  /\ grammar \in Grammars
  /\ ruleCallback \subseteq 1..uiRuleCount
  /\ udtCallback \subseteq 1..Len(grammar.udts)
  /\ config \in ConfigSet
  /\ uiSubStringBeg \in Nat /\ uiSubStringEnd \in Nat
  /\ uiLookBehindLength \in Nat
  /\ uiInLookaround \in Nat /\ uiLookaroundAtStart \in Nat
  /\ uiOffset \in Nat /\ uiPhraseLength \in Nat
  /\ uiOpState \in {"ACTIVE", "MATCH", "NOMATCH"}
  /\ uiTreeDepth \in 0..APG_UNDEFINED /\ uiMaxTreeDepth \in 0..APG_UNDEFINED
  /\ sCBData \in [offset: Nat, state: {"ACTIVE", "MATCH", "NOMATCH"}, length: Nat, stringLength: Nat]
  /\ ast \in AstSet /\ ~ast.error
  /\ spState \in StateSet
  /\ pc \in {"idle", "call", "return"}
  /\ callee \in 0..Len(grammar.ops)
  /\ stack \in Seq(Frame)

(***************************************************************************)
(* Where the child a frame waits for began, and the sub-string it sees.    *)
(***************************************************************************)
IsLookBack(f) == Opcode(f.op).id \in LookBackIds

ChildBeg(f) ==
  IF IsLookBack(f) THEN f.beg - f.k
  ELSE IF Opcode(f.op).id \in {"CAT", "REP"} THEN f.beg + f.len ELSE f.beg

ChildSubBeg(f) == IF IsLookBack(f) THEN f.beg ELSE f.subBeg
ChildSubEnd(f) == IF IsLookBack(f) THEN f.beg ELSE f.subEnd

\* the same for the node that runs above frame n of s; the start rule runs above frame 0
NodeBeg(s, n)    == IF n = 0 THEN SubStringBeg(config) ELSE ChildBeg(s[n])
NodeSubBeg(s, n) == IF n = 0 THEN SubStringBeg(config) ELSE ChildSubBeg(s[n])
NodeSubEnd(s, n) == IF n = 0 THEN SubStringEnd(config) ELSE ChildSubEnd(s[n])

LinkedAt(s, n) ==
  LET f == s[n] IN
  /\ f.beg = NodeBeg(s, n - 1)
  /\ f.subBeg = NodeSubBeg(s, n - 1)
  /\ f.subEnd = NodeSubEnd(s, n - 1)
  /\ f.beg =< f.subEnd
  /\ f.subEnd =< uiInputStringLength
  /\ IF IsLookBack(f) THEN f.k =< f.beg ELSE f.beg + f.len =< f.subEnd

Parsing == pc \in {"call", "return"}

(***************************************************************************)
(* The three properties below hold of an application that keeps to what    *)
(* the parser takes for granted: a UDT callback that answers NOMATCH gives *)
(* length 0 (vUdt moves the offset by it all the same), and no length it   *)
(* passes wraps around when it is added to an offset.                      *)
(***************************************************************************)
Contract ==
  /\ \A answer \in UdtResults : answer.state = "NOMATCH" => answer.length = 0
  /\ \A answer \in RnmResults \cup UdtResults : \A c \in Configs :
       Len(c.input) + answer.length =< APG_UNDEFINED
  /\ \A c \in Configs : c.sub => c.beg + c.len =< APG_UNDEFINED

\* Every frame began where its caller's phrase stood and inside the sub-string its caller
\* gave it, however many look-behinds have moved both since.
FramesLinked == \A n \in 1..Len(stack) : LinkedAt(stack, n)

\* The sub-string that look-behind replaces is the right one again whenever a node
\* begins or has ended, so no operator reads past the end of what it may match.
SubStringInForce ==
  Parsing => /\ uiSubStringBeg = NodeSubBeg(stack, Len(stack))
             /\ uiSubStringEnd = NodeSubEnd(stack, Len(stack))
             /\ uiSubStringEnd =< uiInputStringLength
             /\ uiOffset =< uiSubStringEnd

\* The contract between operators: a node is called at the offset its caller has
\* reached; on a match it has advanced by exactly the phrase length it reports, on a
\* failure it has put the offset back and reports length 0. ALT counts on the latter.
PhraseContract ==
  /\ pc = "call" => uiOffset = NodeBeg(stack, Len(stack))
  /\ pc = "return" =>
       /\ uiOpState # "ACTIVE"
       /\ uiOffset = NodeBeg(stack, Len(stack)) + uiPhraseLength
       /\ uiOpState = "NOMATCH" => uiPhraseLength = 0

LookaroundFrames == {n \in 1..Len(stack) : Opcode(stack[n].op).id \in LookAheadIds \cup LookBackIds}

\* uiInLookaround counts the look-arounds on the stack above what it was when
\* vParserParse was called, so that a finished parse leaves it as it found it.
LookaroundBalanced ==
  Parsing => uiInLookaround = uiLookaroundAtStart + Cardinality(LookaroundFrames)

\* The AST hooks come in pairs: one open entry for each operator on the stack that
\* has opened the AST and not yet closed it (ALT never does, REP does so twice), and
\* none from within a look-around.
OpenEntries ==
  {e \in (1..Len(stack)) \X {1, 2} :
     /\ Opcode(stack[e[1]].op).id # "ALT"
     /\ e[2] = 2 => Opcode(stack[e[1]].op).id = "REP"
     /\ \A m \in LookaroundFrames : e[1] =< m}

AstOpenBalanced ==
  (Parsing /\ ast.attached /\ uiLookaroundAtStart = 0) => Len(ast.open) = Cardinality(OpenEntries)

\* vAstRuleClose withdraws the wrong "that" entry when a parser callback refuses a rule
\* that has no AST callback (and may then throw); otherwise
CallbacksRecorded ==
  ruleCallback \subseteq ast.callbacks \/ \A answer \in RnmResults : answer.state # "NOMATCH"

\* a parse that ends leaves a well-formed tree, whatever was recorded and withdrawn on the
\* way: the records pair up and nest, and a failed parse leaves none.
AstWellFormed ==
  (pc = "return" /\ stack = << >> /\ ast.attached /\ CallbacksRecorded) =>
    /\ ast.open = << >>
    /\ ast.that = << >>
    /\ Linked(ast.records)
    /\ Nested(ast.records)
    /\ uiOpState = "NOMATCH" => ast.records = << >>

(***************************************************************************)
(* The parser implements ParserApi.                                        *)
(***************************************************************************)
ApiAsked == IF Parsing THEN SubStringLength(config) ELSE 0

ApiResult == [outcome |-> spState.outcome, state |-> spState.state, success |-> spState.success,
              length |-> spState.length, stringLength |-> spState.stringLength]

Api == INSTANCE ParserApi WITH missing <- (1..Len(grammar.udts)) \ udtCallback,
                               busy <- Parsing, asked <- ApiAsked, result <- ApiResult

\* Whatever callbacks answer or throw, and whatever was left behind by an earlier parse
\* that threw, a caller of vParserParse sees the parser that ParserApi describes.
ApiSpec == Api!ApiSpec

\* the last report says what m does: whether the start rule matches, and how much
ReportIs(m) ==
  /\ spState.state = IF m.ok THEN "MATCH" ELSE "NOMATCH"
  /\ spState.length = m.len
  /\ spState.success = (m.ok /\ SubStringBeg(config) + m.len = SubStringEnd(config))

\* A parse ends: the grammars have no left recursion, and REP stops at an empty match.
ParseEnds == Parsing ~> pc = "idle"
=============================================================================
