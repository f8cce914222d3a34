------------------------------ MODULE MCParser ------------------------------
(***************************************************************************)
(* Small grammars and inputs for the parser. The characters are a, b and B *)
(* (97, 98, 66).                                                           *)
(***************************************************************************)
EXTENDS ParserMeaning, Pppt

Op(id, kids, min, max, index, str) ==
  [id |-> id, kids |-> kids, min |-> min, max |-> max, index |-> index, str |-> str]
Alt(kids) == Op("ALT", kids, 0, 0, 0, << >>)
Cat(kids) == Op("CAT", kids, 0, 0, 0, << >>)
Rep(min, max) == Op("REP", << >>, min, max, 0, << >>)
Rnm(rule) == Op("RNM", << >>, 0, 0, rule, << >>)
Trg(lo, hi) == Op("TRG", << >>, lo, hi, 0, << >>)
Tls(str) == Op("TLS", << >>, 0, 0, 0, str)
Tbs(str) == Op("TBS", << >>, 0, 0, 0, str)
UdtOp(udt) == Op("UDT", << >>, 0, 0, udt, << >>)
Bare(id) == Op(id, << >>, 0, 0, 0, << >>)

MCUndefined == 255
Inf == MCUndefined

Rule(op, empty) == [op |-> op, empty |-> empty]
NoPppt == [on |-> FALSE, min |-> 0, max |-> 0, rule |-> << >>, op |-> << >>]
Plain(ops, rules, udts) == [ops |-> ops, rules |-> rules, udts |-> udts, pppt |-> NoPppt]

ca == 97
cb == 98
cB == 66

(***************************************************************************)
(*   S = (X "b" / 1*2X) *X [Y]    X = %d97    Y = 'b' / ""                 *)
(***************************************************************************)
AbnfOps == <<Cat(<<2, 8, 10>>), Alt(<<3, 6>>), Cat(<<4, 5>>), Rnm(2), Tls(<<cb>>), Rep(1, 2), Rnm(2),
             Rep(0, Inf), Rnm(2), Rep(0, 1), Rnm(3),
             Trg(ca, ca),
             Alt(<<14, 15>>), Tbs(<<cb>>), Tls(<< >>)>>
AbnfRules == <<Rule(1, FALSE), Rule(12, FALSE), Rule(13, TRUE)>>

(***************************************************************************)
(*   S = X S X / Y      X = "a"     Y = *2(X / "ab")  -- nested, backtracks *)
(***************************************************************************)
NestOps == <<Alt(<<2, 6>>), Cat(<<3, 4, 5>>), Rnm(2), Rnm(1), Rnm(2), Rnm(3),
             Tls(<<ca>>),
             Rep(2, 2), Alt(<<10, 11>>), Tls(<<ca, cb>>), Rnm(2)>>
NestRules == <<Rule(1, FALSE), Rule(7, FALSE), Rule(8, FALSE)>>

(***************************************************************************)
(*   S = &(X 'b') X !X Y    X = %d97    Y = 1*"b"                          *)
(***************************************************************************)
AheadOps == <<Cat(<<2, 6, 7, 9>>), Bare("AND"), Cat(<<4, 5>>), Rnm(2), Tbs(<<cb>>),
              Rnm(2), Bare("NOT"), Rnm(2), Rnm(3),
              Trg(ca, ca),
              Rep(1, Inf), Tls(<<cb>>)>>
AheadRules == <<Rule(1, FALSE), Rule(10, FALSE), Rule(11, FALSE)>>

(***************************************************************************)
(*   S = %^ 1*(X / "b") &&W !!X %$    X = %d97    W = 'ab'                 *)
(***************************************************************************)
BehindOps == <<Cat(<<2, 3, 7, 9, 11>>), Bare("ABG"), Rep(1, Inf), Alt(<<5, 6>>), Rnm(2), Tls(<<cb>>),
               Bare("BKA"), Rnm(3), Bare("BKN"), Rnm(2), Bare("AEN"),
               Trg(ca, ca),
               Tbs(<<ca, cb>>)>>
BehindRules == <<Rule(1, FALSE), Rule(12, FALSE), Rule(13, FALSE)>>

(***************************************************************************)
(*   S = u_x e_y X / X 1*u_x    X = %d97                                   *)
(***************************************************************************)
UdtOps == <<Alt(<<2, 6>>), Cat(<<3, 4, 5>>), UdtOp(1), UdtOp(2), Rnm(2), Cat(<<7, 8>>), Rnm(2),
            Rep(1, Inf), UdtOp(1),
            Trg(ca, ca)>>
UdtRules == <<Rule(1, FALSE), Rule(10, FALSE)>>

GAbnf   == Plain(AbnfOps, AbnfRules, << >>)
GNest   == Plain(NestOps, NestRules, << >>)
GAhead  == Plain(AheadOps, AheadRules, << >>)
GBehind == Plain(BehindOps, BehindRules, << >>)
GUdt    == Plain(UdtOps, UdtRules, <<[empty |-> FALSE], [empty |-> TRUE]>>)

MCDecided == {GAbnf, GNest, GAhead, GBehind}

\* with prediction maps: no rule protected, and the rules 2 and 3 protected
MCPredicted == {WithPppt(g, {}) : g \in MCDecided} \cup {WithPppt(g, {2, 3}) : g \in MCDecided}
MCMeaningGrammars == MCDecided \cup MCPredicted

Config(input, start) ==
  [input |-> input, start |-> start, sub |-> FALSE, beg |-> 0, len |-> 0, lookBehind |-> 0]
SubConfig(input, start, beg, len) ==
  [Config(input, start) EXCEPT !.sub = TRUE, !.beg = beg, !.len = len]

Strings(n) == UNION {[1..k -> {ca, cb}] : k \in 1..n}
Whole(n) == {Config(s, 1) : s \in Strings(n)}

\* other start rules, sub-strings, an upper-case letter, and every rejected argument
Special ==
  {Config(<<cb, cb>>, 3), Config(<<cB, cb>>, 1), Config(<<ca, cB>>, 1),
   SubConfig(<<cb, ca, cb, ca>>, 1, 1, 2), SubConfig(<<ca, ca, cb>>, 1, 1, 0),
   SubConfig(<<ca, cb, ca, cb>>, 1, 2, 9),
   Config(<< >>, 1), Config(<<ca>>, 9), SubConfig(<<ca>>, 1, 1, 1)}

MCConfigs == Whole(4) \cup Special
               \cup {[Config(<<ca, ca, cb, ca>>, 1) EXCEPT !.lookBehind = 1]}

Answer(state, length) == [state |-> state, length |-> length]
MCActive == {Answer("ACTIVE", 0)}
MCRnmAnswers == {Answer("ACTIVE", 0), Answer("MATCH", 0), Answer("MATCH", 1), Answer("MATCH", 2),
                 Answer("NOMATCH", 1), Answer("THROW", 0)}
\* what the documentation allows, and what it says is an error
MCUdtAnswers == {Answer("MATCH", 0), Answer("MATCH", 1), Answer("MATCH", 2), Answer("EMPTY", 1),
                 Answer("NOMATCH", 0), Answer("ACTIVE", 0), Answer("THROW", 0)}
MCCallbackGrammars == {GUdt, GAhead, GBehind, GAbnf, GNest}
MCCallbackConfigs == {Config(s, 1) : s \in {<<ca, cb>>, <<ca, cb, ca>>}}
                       \cup {SubConfig(<<cb, ca, cb, ca>>, 1, 1, 2), Config(<< >>, 1)}

\* the hypotheses of the theorems about the meaning; the second, in which the maps have no
\* part, at its first points
ASSUME InstancePlain == \A nodes \in SUBSET AppNodes : AllPlain(nodes)
ASSUME InstanceMeans ==
  \A g \in Grammars, c \in Configs : Accepted(g, c) /\ ~g.pppt.on =>
    \A nodes \in {{}, AppNodes}, i \in 0..Len(g.ops), k \in 0..2, rec \in BOOLEAN,
       beg, end \in 0..Len(c.input) :
      Means(ParseOf(g, c, Len(c.input), nodes), Point(i, k, beg, end, rec))
ASSUME InstanceBare == \A nodes \in SUBSET AppNodes : AllBare(nodes)
=============================================================================
