----------------------------- MODULE BkrMeaning -----------------------------
(***************************************************************************)
(* The parser with back references against the meaning of its grammar      *)
(* (Peg).                                                                  *)
(***************************************************************************)
EXTENDS ParserBkr, Peg

Env ==
  [g |-> grammar, input |-> acpInputString, end |-> SubStringEnd(config),
   behind |-> uiLookBehindLength, nodes |-> {},
   frames |-> HavingBelow(grammar, BkrNames(grammar, ID_BKR_MODE_P), {}), refs |-> NoRefs(grammar)]

ParseMeaning == Meaning(Env, config.start, SubStringBeg(config))

\* no callback had a say in the last parse
Undisturbed == callbackAtStart = {} /\ grammar.udts = << >>

\* A parse in which every reference has exactly one phrase it can stand for (the last its
\* name matched, and for parent mode the only one below the parent; none in a branch that
\* was given up) reports what the grammar means with that phrase in the reference's place,
\* and a parse throws for want of a phrase only where there is none.
ReferenceIsMeaning ==
  Undisturbed =>
    /\ spState.outcome = "parsed" => (ParseMeaning.refs.plain => ReportIs(ParseMeaning))
    /\ spState.outcome = "bkr" => ~ParseMeaning.refs.plain
=============================================================================
