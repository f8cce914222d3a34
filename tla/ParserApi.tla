------------------------------ MODULE ParserApi ------------------------------
(***************************************************************************)
(* What vParserParse promises its caller, with no grammar, operator or     *)
(* callback in sight: one parse at a time, which ends with a verdict on    *)
(* the string it was asked about or with an exception. Parser implements   *)
(* it (ApiSpec there).                                                     *)
(***************************************************************************)
EXTENDS Naturals

VARIABLES
  missing,    \* the UDTs that have no callback yet
  busy,       \* a parse is under way
  asked,      \* the length of the string being parsed, 0 when none is
  result      \* what the last call reported

apiVars == <<missing, busy, asked, result>>

Nothing == [outcome |-> "none", state |-> "none", success |-> FALSE, length |-> 0, stringLength |-> 0]

Thrown(outcome) == [Nothing EXCEPT !.outcome = outcome]

\* A phrase is never longer than the string; a failure has none; success is a match of all.
Verdict(r, n) ==
  /\ r.outcome = "parsed"
  /\ r.state \in {"MATCH", "NOMATCH"}
  /\ r.length \in 0..n
  /\ r.stringLength = n
  /\ r.state = "NOMATCH" => r.length = 0
  /\ r.success <=> (r.state = "MATCH" /\ r.length = n)

ApiInit ==
  /\ ~busy
  /\ asked = 0
  /\ result = Nothing

\* callbacks are the application's to change, between parses
Prepare ==
  /\ ~busy
  /\ UNCHANGED <<busy, asked, result>>

\* no parse begins while a UDT has no callback, nor on an empty string
Ask ==
  /\ ~busy
  /\ missing = {}
  /\ busy'
  /\ asked' > 0
  /\ result' = Nothing
  /\ UNCHANGED missing

Refuse ==
  /\ ~busy
  /\ result' = Thrown("argument")
  /\ UNCHANGED <<missing, busy, asked>>

Answered ==
  /\ busy
  /\ ~busy'
  /\ asked' = 0
  /\ Verdict(result', asked)
  /\ UNCHANGED missing

Abort ==
  /\ busy
  /\ ~busy'
  /\ asked' = 0
  /\ result' \in {Thrown("callback"), Thrown("ast")}
  /\ UNCHANGED missing

ApiNext == Prepare \/ Ask \/ Refuse \/ Answered \/ Abort

ApiSpec == ApiInit /\ [][ApiNext]_apiVars
=============================================================================
