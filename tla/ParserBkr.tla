------------------------------ MODULE ParserBkr ------------------------------
(***************************************************************************)
(* The parser with back references: every operator of Parser with the      *)
(* hooks it calls in the two back reference objects, and the operator vBkr *)
(* (library/operators-bkr.c). The build modelled has APG_BKR and no AST.   *)
(*                                                                         *)
(* An object is made with the parser and keeps its stacks from one parse   *)
(* to the next, so what an exception or a checkpoint that was never popped *)
(* leaves there is part of the next parse.                                 *)
(***************************************************************************)
EXTENDS Parser, BackRef

CONSTANTS
  HasBackRef(_, _),   \* vSESTWalk: the rules with one of a set of names below them
  MaxInherited        \* bound: no parse is begun with more checkpoints than this on a stack

ASSUME BkrAssumption ==
  /\ MaxInherited \in Nat
  /\ \A g \in Grammars : \A mode \in {ID_BKR_MODE_U, ID_BKR_MODE_P} :
       HasBackRef(g, Referenced(g, mode)) \subseteq 1..Len(g.rules)

VARIABLES
  bkru, bkrp,           \* vpBkru, vpBkrp
  found,                \* history: the <<name, phrase>> matched by this parse
  bkruAtStart, bkrpAtStart,     \* history: the objects when the parse began
  callbackAtStart       \* history: the rules with callbacks then

objects == <<bkru, bkrp>>
atStart == <<bkruAtStart, bkrpAtStart, callbackAtStart>>
bkrVars == <<vars, objects, found, atStart>>

-----------------------------------------------------------------------------
(* The hooks of one step, given as what becomes of an object.              *)

OpOpen ==
  /\ bkru' = BKR_OP_OPEN(bkru)
  /\ bkrp' = BKR_OP_OPEN(bkrp)

OpClose(state) ==
  /\ bkru' = BKR_OP_CLOSE(bkru, state)
  /\ bkrp' = BKR_OP_CLOSE(bkrp, state)

Find(n, state, phr) ==
  found' = IF state = "MATCH" THEN found \cup {<<n, phr>>} ELSE found

RuleOpen(r) ==
  /\ bkru' = BKR_RULE_OPEN(bkru, r)
  /\ bkrp' = BKR_RULE_OPEN(bkrp, r)
  /\ UNCHANGED found

RuleClose(u, p, r, state, phr) ==
  /\ bkru' = BKR_RULE_CLOSE(u, r, state, phr)
  /\ bkrp' = BKR_RULE_CLOSE(p, r, state, phr)
  /\ Find(r, state, phr)

UdtClose(n, state, phr) ==
  /\ bkru' = BKR_UDT_CLOSE(bkru, n, state, phr)
  /\ bkrp' = BKR_UDT_CLOSE(bkrp, n, state, phr)
  /\ Find(n, state, phr)

\* the phrase an operator has just returned
Returned == <<Minus(uiOffset', uiPhraseLength'), uiPhraseLength'>>

-----------------------------------------------------------------------------
BkrCatOpen == CatOpen /\ OpOpen /\ UNCHANGED <<found, atStart>>

BkrCatNext ==
  /\ CatNext
  /\ IF pc' = "return" THEN OpClose(uiOpState') ELSE UNCHANGED objects
  /\ UNCHANGED <<found, atStart>>

BkrRepOpenOnce ==                                                 \* mutant
  /\ RepOpen
  /\ OpOpen
  /\ UNCHANGED <<found, atStart>>

BkrRepOpen ==
  /\ RepOpen
  /\ bkru' = BKR_OP_OPEN(BKR_OP_OPEN(bkru))
  /\ bkrp' = BKR_OP_OPEN(BKR_OP_OPEN(bkrp))
  /\ UNCHANGED <<found, atStart>>

\* the repetition closes, then the whole of REP, or the next repetition opens
RepHooks(b) ==
  LET c == BKR_OP_CLOSE(b, uiOpState) IN
  IF pc' = "return" THEN BKR_OP_CLOSE(c, uiOpState') ELSE BKR_OP_OPEN(c)

BkrRepNext ==
  /\ RepNext
  /\ bkru' = RepHooks(bkru)
  /\ bkrp' = RepHooks(bkrp)
  /\ UNCHANGED <<found, atStart>>

\* a callback that answers on the way down closes the rule at once
BkrRnmOpen ==
  /\ RnmOpen
  /\ LET r == Opcode(callee).index IN
     IF pc' = "return" /\ stack' = stack
       THEN RuleClose(BKR_RULE_OPEN(bkru, r), BKR_RULE_OPEN(bkrp, r), r, uiOpState', Returned)
       ELSE RuleOpen(r)
  /\ UNCHANGED atStart

BkrRnmClose ==
  /\ RnmClose
  /\ IF pc' = "return"
       THEN RuleClose(bkru, bkrp, Opcode(Top(stack).op).index, uiOpState', Returned)
       ELSE UNCHANGED <<objects, found>>
  /\ UNCHANGED atStart

BkrUdt ==
  /\ Udt
  /\ IF pc' = "return"
       THEN UdtClose(uiRuleCount + Opcode(callee).index, uiOpState', Returned)
       ELSE UNCHANGED <<objects, found>>
  /\ UNCHANGED atStart

-----------------------------------------------------------------------------
(* vBkr, uiSMatch and uiIMatch. The phrase may be one of an earlier input  *)
(* that was longer: what it reads past the end of this one is anything.    *)
(* For an empty parent-mode entry the loop over the phrase ends where it   *)
(* begins, and the length, (aint)-1, takes the offset one back.            *)

SameChar(o, c, d) == IF o.max = ID_BKR_CASE_I THEN Lower(c) = Lower(d) ELSE c = d

PhraseMatches(o, phr) ==
  LET read == IF phr = EmptyPhrase THEN {} ELSE 1..phr[2]
      known == {j \in read : phr[1] + j =< uiInputStringLength}
  IN IF \/ Plus(uiOffset, phr[2]) > uiSubStringEnd
        \/ \E j \in known : ~SameChar(o, acpInputString[uiOffset + j], acpInputString[phr[1] + j])
       THEN {FALSE}
     ELSE IF known = read THEN {TRUE} ELSE BOOLEAN

Bkr ==
  /\ Calling({"BKR"})
  /\ LET o == Opcode(callee)
         b == IF o.min = ID_BKR_MODE_U THEN bkru ELSE bkrp
     IN \/ /\ ~HasPhrase(b, o.index)
           /\ EnterNode
           /\ Throw("bkr", ast)
           /\ UNCHANGED phrase
        \/ /\ HasPhrase(b, o.index)
           /\ LeafNode
           /\ \E match \in PhraseMatches(o, Fetch(b, o.index)) :
                LET len == IF match THEN Fetch(b, o.index)[2] ELSE 0 IN
                Return(stack, IF match THEN "MATCH" ELSE "NOMATCH", Plus(uiOffset, len), len)
           /\ UNCHANGED <<ast, spState>>
  /\ UNCHANGED <<app, parse, sub, uiInLookaround, sCBData, objects, found, atStart>>

-----------------------------------------------------------------------------
BkrParserParse(c) ==
  /\ ParserParse(c)
  /\ Len(bkru.checkPoints) =< MaxInherited /\ Len(bkrp.checkPoints) =< MaxInherited
  /\ found' = {}
  /\ bkruAtStart' = bkru /\ bkrpAtStart' = bkrp /\ callbackAtStart' = ruleCallback
  /\ UNCHANGED objects

\* the operators without hooks, and the calls that do not parse
Unhooked ==
  /\ \/ AltOpen \/ AltNext
     \/ MatchTerminal
     \/ LookAheadOpen \/ LookAheadClose
     \/ LookBackOpen \/ LookBackAgain \/ LookBackClose
     \/ Anchor
     \/ ParserFinish
     \/ \E c \in Configs : ParserParseThrows(c)
     \/ \E r \in AppRules : SetRuleCallback(r)
     \/ \E u \in 1..Len(grammar.udts) : SetUdtCallback(u)
  /\ UNCHANGED <<objects, found, atStart>>

BkrInit ==
  /\ Init
  /\ bkru = BkrCtor(grammar, ID_BKR_MODE_U, HasBackRef(grammar, Referenced(grammar, ID_BKR_MODE_U)))
  /\ bkrp = BkrCtor(grammar, ID_BKR_MODE_P, HasBackRef(grammar, Referenced(grammar, ID_BKR_MODE_P)))
  /\ found = {}
  /\ bkruAtStart = bkru /\ bkrpAtStart = bkrp /\ callbackAtStart = {}

BkrNext ==
  \/ BkrCatOpen \/ BkrCatNext
  \/ BkrRepOpen \/ BkrRepNext
  \/ BkrRnmOpen \/ BkrRnmClose
  \/ BkrUdt
  \/ Bkr
  \/ \E c \in Configs : BkrParserParse(c)
  \/ Unhooked

BkrSpec == BkrInit /\ [][BkrNext]_bkrVars

-----------------------------------------------------------------------------
(* Correctness.                                                            *)

\* The exceptions that backrefu.c and backrefp.c throw on an empty stack ("vector is
\* empty") are never reached, whatever callbacks refuse or throw.
StacksNeverEmpty == ~bkru.error /\ ~bkrp.error

RnmFrames == {n \in 1..Len(stack) : Opcode(stack[n].op).id = "RNM"}
RuleOf(n) == Opcode(stack[n].op).index

\* the rule in whose opcodes frame n is
Within(n) == CHOOSE m \in RnmFrames : m < n /\ \A k \in RnmFrames : k < n => k =< m

\* how many checkpoints the operator of frame n keeps in b
OpenPoints(b, n) ==
  CASE n \in RnmFrames -> IF Concerned(b, RuleOf(n)) THEN 1 ELSE 0
    [] Opcode(stack[n].op).id \in {"CAT", "REP"} /\ RuleOf(Within(n)) \in b.has ->
         IF Opcode(stack[n].op).id = "REP" THEN 2 ELSE 1
    [] OTHER -> 0

\* REP's two are counted by one set each
Points(b) == Cardinality({n \in 1..Len(stack) : OpenPoints(b, n) >= 1})
               + Cardinality({n \in 1..Len(stack) : OpenPoints(b, n) = 2})

\* The rules open in an object are those on the parser's stack. In parent mode so are the
\* checkpoints, and every name has one entry for each open rule that holds a frame: backtracking,
\* callbacks and recursion leave none behind.
FramesBalanced ==
  Parsing =>
    /\ \A b \in {<<bkru, bkruAtStart>>, <<bkrp, bkrpAtStart>>} : b[1].on =>
         Len(b[1].openRules) = Len(b[2].openRules) + Cardinality(RnmFrames)
    /\ bkrp.on =>
         /\ Len(bkrp.checkPoints) = Len(bkrpAtStart.checkPoints) + Points(bkrp)
         /\ \A n \in bkrp.is :
              Len(bkrp.phrases[n]) = Len(bkrpAtStart.phrases[n])
                                       + Cardinality({m \in RnmFrames : RuleOf(m) \in bkrp.has})

\* Universal mode keeps a checkpoint for every open operator, if not only those.
PointsSuffice ==
  (Parsing /\ bkru.on) => Len(bkru.checkPoints) >= Len(bkruAtStart.checkPoints) + Points(bkru)

\* No phrase is ever referred to that its name did not match in this parse, other than those
\* an earlier parse left at the bottom of the stack; and those stay.
PhrasesFound ==
  Parsing =>
    /\ \A n \in bkru.is : \A k \in 1..Len(bkru.phrases[n]) :
         IF k =< Len(bkruAtStart.phrases[n])
           THEN bkru.phrases[n][k] = bkruAtStart.phrases[n][k]
           ELSE <<n, bkru.phrases[n][k]>> \in found
    /\ \A n \in bkru.is : Len(bkru.phrases[n]) >= Len(bkruAtStart.phrases[n])
    /\ \A n \in bkrp.is : \A k \in (Len(bkrpAtStart.phrases[n]) + 1)..Len(bkrp.phrases[n]) :
         bkrp.phrases[n][k] = EmptyPhrase \/ <<n, bkrp.phrases[n][k]>> \in found
=============================================================================
