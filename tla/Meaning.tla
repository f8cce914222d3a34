------------------------------ MODULE Meaning ------------------------------
(***************************************************************************)
(* What a grammar without back references and UDTs means, independently of *)
(* how the parser works it out: the prioritized-choice reading that        *)
(* SABNF.md gives of the operators, as one function e of the points of a   *)
(* parse. (Peg says the same of grammars with back references; its         *)
(* definitions are recursive operators, for checking only.)                *)
(*                                                                         *)
(* A parse x is a record: g the grammar, input, start the first rule,      *)
(* behind the maximum look-behind distance, nodes the rules recorded.      *)
(* A point [op, k, beg, end, rec] stands for what is left of opcode op     *)
(* from its child, or its turn, k + 1 on, at the offset beg of the phrase  *)
(* that stops at end; opcode 0 is that of the start rule, and rec is FALSE *)
(* inside a look-around, where no node is recorded.                        *)
(* Its meaning is whether it matches, the length matched, and the AST      *)
(* records of the match as a sequence of                                   *)
(* <<index, "PRE" or "POST", offset, length>>.                             *)
(***************************************************************************)
EXTENDS Grammar

Failed      == [ok |-> FALSE, len |-> 0, tree |-> << >>]
Found(n, t) == [ok |-> TRUE, len |-> n, tree |-> t]
Check(b)    == IF b THEN Found(0, << >>) ELSE Failed

\* a match of r and then what s says of the rest
Then(r, s) == IF s.ok THEN Found(r.len + s.len, r.tree \o s.tree) ELSE Failed

OpAt(x, i) == IF i = 0 THEN StartOp(x.start) ELSE x.g.ops[i]

Points(x) == [op: 0..Len(x.g.ops), k: Nat, beg: 0..Len(x.input), end: 0..Len(x.input), rec: BOOLEAN]

Point(i, k, beg, end, rec) == [op |-> i, k |-> k, beg |-> beg, end |-> end, rec |-> rec]

\* opcode i as a whole
Node(i, beg, end, rec) == Point(i, 0, beg, end, rec)

CharsAt(x, str, beg, end, fold) ==
  /\ beg + Len(str) =< end
  /\ \A j \in 1..Len(str) : str[j] = IF fold THEN Lower(x.input[beg + j]) ELSE x.input[beg + j]

Named(x, index, p, r) ==
  IF ~r.ok \/ ~p.rec \/ index \notin x.nodes THEN r
  ELSE Found(r.len, <<<<index, "PRE", p.beg, r.len>>>> \o r.tree \o <<<<index, "POST", p.beg, r.len>>>>)

LookBehindMax(x, beg) == IF beg < x.behind THEN beg ELSE x.behind

\* opcode i matches the d characters before beg
MatchesBehind(e, i, beg, d) == LET r == e[Node(i, beg - d, beg, FALSE)] IN r.ok /\ r.len = d

\* the child i of the opcode of p, and what is left of that opcode after a turn that ended at beg
Kid(e, p, i) == e[Node(i, p.beg, p.end, p.rec)]
Rest(e, p, beg) == e[Point(p.op, p.k + 1, beg, p.end, p.rec)]

MeanAlt(e, p, o) ==
  IF p.k >= Len(o.kids) THEN Failed
  ELSE LET r == Kid(e, p, o.kids[p.k + 1]) IN IF r.ok THEN r ELSE Rest(e, p, p.beg)

MeanCat(e, p, o) ==
  IF p.k >= Len(o.kids) THEN Found(0, << >>)
  ELSE LET r == Kid(e, p, o.kids[p.k + 1]) IN
       IF r.ok THEN Then(r, Rest(e, p, p.beg + r.len)) ELSE Failed

\* an empty match ends the repetition, whatever the count
MeanRep(e, p, o) ==
  IF p.k >= o.max THEN Found(0, << >>)
  ELSE LET r == Kid(e, p, p.op + 1) IN
       IF ~r.ok THEN Check(p.k >= o.min)
       ELSE IF r.len = 0 THEN r ELSE Then(r, Rest(e, p, p.beg + r.len))

MeanRnm(x, e, p, o) == Named(x, o.index, p, Kid(e, p, x.g.rules[o.index].op))

MeanTerminal(x, p, o) ==
  IF o.id = "TRG"
    THEN IF p.beg < p.end /\ x.input[p.beg + 1] \in o.min..o.max THEN Found(1, << >>) ELSE Failed
    ELSE IF CharsAt(x, o.str, p.beg, p.end, o.id = "TLS") THEN Found(Len(o.str), << >>) ELSE Failed

\* what is ahead or behind, of which nothing is matched or recorded
Ahead(e, p) == e[Node(p.op + 1, p.beg, p.end, FALSE)].ok
Behind(x, e, p) == \E d \in 0..LookBehindMax(x, p.beg) : MatchesBehind(e, p.op + 1, p.beg, d)

Mean(x, e, p) ==
  LET o == OpAt(x, p.op) IN
  CASE o.id = "ALT" -> MeanAlt(e, p, o)
    [] o.id = "CAT" -> MeanCat(e, p, o)
    [] o.id = "REP" -> MeanRep(e, p, o)
    [] o.id = "RNM" -> MeanRnm(x, e, p, o)
    [] o.id \in TerminalIds -> MeanTerminal(x, p, o)
    [] o.id = "AND" -> Check(Ahead(e, p))
    [] o.id = "NOT" -> Check(~Ahead(e, p))
    [] o.id = "BKA" -> Check(Behind(x, e, p))
    [] o.id = "BKN" -> Check(~Behind(x, e, p))
    [] o.id = "ABG" -> Check(p.beg = 0)
    [] o.id = "AEN" -> Check(p.beg = Len(x.input))
    [] OTHER -> Failed

Meaning(x) == LET e[p \in Points(x)] == Mean(x, e, p) IN e

Results == {Failed} \cup [ok: {TRUE}, len: Nat, tree: Seq(Nat \X {"PRE", "POST"} \X Nat \X Nat)]

\* the equations have a solution, as they have unless the grammar is left recursive
Means(x, p) == Meaning(x)[p] \in Results /\ Meaning(x)[p] = Mean(x, Meaning(x), p)
HasMeaning(x) == \A p \in Points(x) : Means(x, p)
=============================================================================
