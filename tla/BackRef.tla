------------------------------- MODULE BackRef -------------------------------
(***************************************************************************)
(* The back reference objects of library/backrefu.c (universal mode) and   *)
(* library/backrefp.c (parent mode), as operators on one record:           *)
(*   on          the object exists: some BKR opcode refers in this mode    *)
(*   mode        ID_BKR_MODE_U or ID_BKR_MODE_P                            *)
(*   is          the names (rules, then UDTs) with uiIsBackRef             *)
(*   has         the rules with uiHasBackRef                               *)
(*   phrases     vppPhraseStacks: for each name a stack of <<offset, length>> *)
(*   checkPoints the lengths of the phrase stacks, saved by open operators *)
(*   openRules   the uiHasBackRef of each open rule                        *)
(*   error       an XTHROW(s_cpEmpty) was reached                          *)
(* The object is made with the parser and lives as long: no operation      *)
(* clears it between parses.                                               *)
(***************************************************************************)
EXTENDS Grammar, Ast

Referenced(g, mode) == {g.ops[i].index : i \in {i \in DOMAIN g.ops : g.ops[i].id = "BKR" /\ g.ops[i].min = mode}}

BkrCtor(g, mode, has) ==
  LET is == Referenced(g, mode) IN
  [on |-> is # {}, mode |-> mode, is |-> is, has |-> has,
   phrases |-> [n \in is |-> << >>], checkPoints |-> << >>, openRules |-> << >>, error |-> FALSE]

BkrError(b) == [b EXCEPT !.error = TRUE]

\* vSetCheckPoints, vRestoreCheckPoints
CheckPoint(b) == [n \in b.is |-> Len(b.phrases[n])]
PushCheckPoint(b) == [b EXCEPT !.checkPoints = Append(@, CheckPoint(b))]

Restore(b, point) ==
  [b EXCEPT !.phrases = [n \in b.is |-> IF point[n] < Len(@[n]) THEN Popi(@[n], point[n]) ELSE @[n]]]

PopCheckPoint(b, restore) ==
  IF b.checkPoints = << >> THEN BkrError(b)
  ELSE LET c == [b EXCEPT !.checkPoints = Pop(@)] IN
       IF restore THEN Restore(c, Top(b.checkPoints)) ELSE c

Universal(b) == b.mode = ID_BKR_MODE_U

(***************************************************************************)
(* vSetPhrase: universal mode pushes the phrase; parent mode writes it     *)
(* into every entry of the name that is still empty, in any open frame.    *)
(***************************************************************************)
EmptyPhrase == <<APG_UNDEFINED, APG_UNDEFINED>>

SetPhrase(b, n, phrase) ==
  IF Universal(b)
    THEN [b EXCEPT !.phrases[n] = Append(@, phrase)]
    ELSE [b EXCEPT !.phrases[n] = [k \in DOMAIN @ |-> IF @[k][1] = APG_UNDEFINED THEN phrase ELSE @[k]]]

PushEmptyPhrase(b) == [b EXCEPT !.phrases = [n \in b.is |-> Append(@[n], EmptyPhrase)]]

Concerned(b, r) == r \in b.has \cup b.is

BkrRuleOpenHas(b, r) ==                                           \* mutant
  LET c == IF r \in b.has THEN PushCheckPoint(b) ELSE b
      d == IF r \in b.has /\ ~Universal(b) THEN PushEmptyPhrase(c) ELSE c
  IN [d EXCEPT !.openRules = Append(@, r \in b.has)]
BkrRuleOpen(b, r) ==
  LET c == IF Concerned(b, r) THEN PushCheckPoint(b) ELSE b
      d == IF r \in b.has /\ ~Universal(b) THEN PushEmptyPhrase(c) ELSE c
  IN [d EXCEPT !.openRules = Append(@, r \in b.has)]

PhraseFoundAlways(b, n, state, phrase) ==                         \* mutant
  IF n \in b.is THEN SetPhrase(b, n, phrase) ELSE b

\* the phrase of a matched name, once its own check point is dealt with
PhraseFound(b, n, state, phrase) ==
  IF n \in b.is /\ state = "MATCH" THEN SetPhrase(b, n, phrase) ELSE b

(***************************************************************************)
(* Parent mode restores the check point of the rule whatever its result;   *)
(* universal mode takes it off the stack only when the rule fails.         *)
(***************************************************************************)
RuleCheckPointKept(b, r, state) ==                                \* mutant
  IF Concerned(b, r) /\ state # "MATCH" THEN PopCheckPoint(b, TRUE) ELSE b
RuleCheckPoint(b, r, state) ==
  IF Concerned(b, r) /\ (~Universal(b) \/ state # "MATCH") THEN PopCheckPoint(b, TRUE) ELSE b

BkrRuleClose(b, r, state, phrase) ==
  LET c == PhraseFound(RuleCheckPoint(b, r, state), r, state, phrase) IN
  IF c.error THEN c
  ELSE IF c.openRules = << >> THEN BkrError(c) ELSE [c EXCEPT !.openRules = Pop(@)]

BkrOpOpen(b) ==
  IF b.openRules = << >> THEN BkrError(b)
  ELSE IF Top(b.openRules) THEN PushCheckPoint(b) ELSE b

BkrOpCloseAlways(b, state) ==                                     \* mutant
  IF b.openRules = << >> THEN BkrError(b)
  ELSE IF Top(b.openRules) THEN PopCheckPoint(b, TRUE) ELSE b
BkrOpClose(b, state) ==
  IF b.openRules = << >> THEN BkrError(b)
  ELSE IF Top(b.openRules) THEN PopCheckPoint(b, state = "NOMATCH") ELSE b

(***************************************************************************)
(* The macros the operators use.                                           *)
(***************************************************************************)
BKR_RULE_OPEN(b, r) == IF b.on THEN BkrRuleOpen(b, r) ELSE b
BKR_RULE_CLOSE(b, r, state, phrase) == IF b.on THEN BkrRuleClose(b, r, state, phrase) ELSE b
BKR_UDT_CLOSE(b, n, state, phrase) == IF b.on THEN PhraseFound(b, n, state, phrase) ELSE b
BKR_OP_OPEN(b) == IF b.on THEN BkrOpOpen(b) ELSE b
BKR_OP_CLOSE(b, state) == IF b.on THEN BkrOpClose(b, state) ELSE b

\* sBkruFetch, sBkrpFetch: no phrase is an exception
HasPhrase(b, n) == b.phrases[n] # << >>
Fetch(b, n) == Top(b.phrases[n])
=============================================================================
