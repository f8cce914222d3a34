------------------------------- MODULE MCApgex -------------------------------
(***************************************************************************)
(* The pattern-matching engine over small patterns, whose parses are what  *)
(* Peg says they mean (the runs of ParserMeaning check that the parser     *)
(* agrees). The characters are a and b (97, 98).                           *)
(***************************************************************************)
EXTENDS ApgexMeaning, Peg

Op(id, kids, min, max, index, str) ==
  [id |-> id, kids |-> kids, min |-> min, max |-> max, index |-> index, str |-> str]
Alt(kids) == Op("ALT", kids, 0, 0, 0, << >>)
Cat(kids) == Op("CAT", kids, 0, 0, 0, << >>)
Rep(min, max) == Op("REP", << >>, min, max, 0, << >>)
Rnm(rule) == Op("RNM", << >>, 0, 0, rule, << >>)
Tbs(str) == Op("TBS", << >>, 0, 0, 0, str)
Bare(id) == Op(id, << >>, 0, 0, 0, << >>)

Rule(op) == [op |-> op, empty |-> FALSE]
Plain(ops, rules) == [ops |-> ops, rules |-> rules, udts |-> << >>, pppt |-> [on |-> FALSE]]
ca == 97
cb == 98
Inf == 255

\* S = X "b" / X X      X = %d97 : the first branch leaves a node of X behind when it fails
PBack == Plain(<<Alt(<<2, 5>>), Cat(<<3, 4>>), Rnm(2), Tbs(<<cb>>), Cat(<<6, 7>>), Rnm(2), Rnm(2),
                 Tbs(<<ca>>)>>, <<Rule(1), Rule(8)>>)
\* S = X *1S "b"        X = %d97 : nested, and rule S within S
PNest == Plain(<<Cat(<<2, 3, 5>>), Rnm(2), Rep(0, 1), Rnm(1), Tbs(<<cb>>), Tbs(<<ca>>)>>,
               <<Rule(1), Rule(6)>>)
\* S = *X               X = %d97 : empty matches before and after others
PStar == Plain(<<Rep(0, Inf), Rnm(2), Tbs(<<ca>>)>>, <<Rule(1), Rule(3)>>)
\* S = ""
PEmpty == Plain(<<Tbs(<< >>)>>, <<Rule(1)>>)
\* S = &X               X = %d98 : empty matches, not everywhere
PAhead == Plain(<<Bare("AND"), Rnm(2), Tbs(<<cb>>)>>, <<Rule(1), Rule(3)>>)
\* S = &&X "a"          X = %d98
PBehind == Plain(<<Cat(<<2, 4>>), Bare("BKA"), Rnm(2), Tbs(<<ca>>), Tbs(<<cb>>)>>, <<Rule(1), Rule(5)>>)

MCPatterns == {PBack, PNest, PStar, PEmpty, PAhead, PBehind}
MCRulesOf(p) == DOMAIN p.rules
MCLooksRight(p) == \A i \in DOMAIN p.ops : p.ops[i].id \notin LookBackIds \cup {"ABG"}

MCMatchAt(p, src, beg, nodes) ==
  LET m == Meaning([g |-> p, input |-> src, end |-> Len(src), behind |-> Inf, nodes |-> nodes,
                    frames |-> {}, refs |-> NoRefs(p)], 1, beg)
  IN [ok |-> m.ok, len |-> m.len, tree |-> m.tree]

MCSources == {<< >>, <<ca>>, <<ca, ca, cb>>, <<ca, cb, ca, ca, cb>>}

Token(id, value) == [id |-> id, value |-> value]
Lit(c) == Token("LIT", c)
cx == 120
MCReplacements ==
  {<< >>, <<Lit(ca)>>, <<Lit(cx), Token("MATCH", 0)>>,
   <<Token("LEFT", 0), Token("DOLLAR", 0), Token("RIGHT", 0)>>,
   <<Token("SOURCE", 0)>>, <<Token("BAD", 0)>>}
MCFuncPhrases == {<<cb, ca>>}
MCFlagStrings == {<< >>, <<"g">>, <<"y", "g">>}
MCLastIndexes == {1, 9}
MCSetUpAfter == {"setup", "exec"}
MCLimits == {0, 2}

\* the run about enabled rules
MCRulePatterns == {PBack, PNest, PStar}
MCRuleSources == {<<cb, ca>>, <<ca, ca, cb, cb>>, <<ca, cb, ca, ca, cb>>}
MCNameLists == {<<2>>, <<0>>, <<2, 9, 1>>}
MCRuleReplacements == {<<Token("NAME", 2), Token("NAME", 1)>>, <<Token("NAME", 9), Lit(ca)>>}
MCRuleFlags == {<< >>, <<"g">>}

\* what the theorem about splits takes for granted holds here
ASSUME InstanceBounded == SplitsAreBounded

\* what the theorem about replacements takes for granted holds here, in any source this long
MCAnySource == UNION {[1..n -> {ca, cb, cx}] : n \in 0..3}
ASSUME InstanceRight ==
  ParsesRight(MCAnySource) /\ Replacements \subseteq Seq(TokenType) /\ Junk \in Nat

\* the run about what the documentation says
MCMatches == {<<Token("MATCH", 0)>>}
=============================================================================
