-------------------------------- MODULE MCBkr --------------------------------
(***************************************************************************)
(* Small grammars with back references. The characters are a, b and A      *)
(* (97, 98, 65).                                                           *)
(***************************************************************************)
EXTENDS BkrMeaning, BackRefWalk

Op(id, kids, min, max, index, str) ==
  [id |-> id, kids |-> kids, min |-> min, max |-> max, index |-> index, str |-> str]
Alt(kids) == Op("ALT", kids, 0, 0, 0, << >>)
Cat(kids) == Op("CAT", kids, 0, 0, 0, << >>)
Rep(min, max) == Op("REP", << >>, min, max, 0, << >>)
Rnm(rule) == Op("RNM", << >>, 0, 0, rule, << >>)
Trg(lo, hi) == Op("TRG", << >>, lo, hi, 0, << >>)
Tls(str) == Op("TLS", << >>, 0, 0, 0, str)
Tbs(str) == Op("TBS", << >>, 0, 0, 0, str)
UdtOp(udt) == Op("UDT", << >>, 0, 0, udt, << >>)
Bare(id) == Op(id, << >>, 0, 0, 0, << >>)
U(fold, name) == Op("BKR", << >>, ID_BKR_MODE_U, fold, name, << >>)
P(fold, name) == Op("BKR", << >>, ID_BKR_MODE_P, fold, name, << >>)
S == ID_BKR_CASE_S
I == ID_BKR_CASE_I

MCUndefined == 255
Inf == MCUndefined
Rule(op) == [op |-> op, empty |-> FALSE]
NoPppt == [on |-> FALSE, min |-> 0, max |-> 0, rule |-> << >>, op |-> << >>]
Plain(ops, rules, udts) == [ops |-> ops, rules |-> rules, udts |-> udts, pppt |-> NoPppt]
ca == 97
cb == 98
cA == 65

(***************************************************************************)
(*   S = X S \X / "b"      X = %d97-98 / %d65     in both modes: the       *)
(* documentation's example of tags (main.h, parent_mode)                   *)
(***************************************************************************)
TagOps(ref) == <<Alt(<<2, 6>>), Cat(<<3, 4, 5>>), Rnm(2), Rnm(1), ref, Tbs(<<cA>>), Trg(ca, cb)>>
GTagsU == Plain(TagOps(U(S, 2)), <<Rule(1), Rule(7)>>, << >>)
GTagsP == Plain(TagOps(P(S, 2)), <<Rule(1), Rule(7)>>, << >>)

(***************************************************************************)
(*   S = 1*X 1*(\%iX / Y \%sX)     X = %d97 / %d65     Y = 1*%d98          *)
(***************************************************************************)
GCase == Plain(<<Cat(<<2, 4>>), Rep(1, Inf), Rnm(2), Rep(1, Inf), Alt(<<6, 7>>), U(I, 2), Cat(<<8, 9>>),
                 Rnm(3), U(S, 2),
                 Alt(<<11, 12>>), Tbs(<<ca>>), Tbs(<<cA>>),
                 Rep(1, Inf), Tbs(<<cb>>)>>,
               <<Rule(1), Rule(10), Rule(13)>>, << >>)

(***************************************************************************)
(*   S = X Y \Y / X \X / \X        X = %d97    Y = %d98 : backtracks       *)
(***************************************************************************)
BackOps(r2, r3) == <<Alt(<<2, 6, 9>>), Cat(<<3, 4, 5>>), Rnm(2), Rnm(3), r3, Cat(<<7, 8>>), Rnm(2), r2, r2,
                     Tbs(<<ca>>), Tbs(<<cb>>)>>
GBackU == Plain(BackOps(U(S, 2), U(S, 3)), <<Rule(1), Rule(10), Rule(11)>>, << >>)

(***************************************************************************)
(*   S = X *2W \%uX      W = Y \%pY / \%uX Y      X = %d97    Y = "a" / %d98 *)
(* both modes, frames within frames, and look-around                        *)
(***************************************************************************)
GBoth == Plain(<<Cat(<<2, 3, 5, 7>>), Rnm(2), Rep(0, 2), Rnm(3), Bare("NOT"), Rnm(4), U(S, 2),
                 Tbs(<<ca>>),
                 Alt(<<10, 13>>), Cat(<<11, 12>>), Rnm(4), P(S, 4), Cat(<<14, 15>>), U(I, 2), Rnm(4),
                 Alt(<<17, 18>>), Tbs(<<cA>>), Tbs(<<cb>>)>>,
               <<Rule(1), Rule(8), Rule(9), Rule(16)>>, << >>)

(***************************************************************************)
(*   S = 1*(X W) \u_u       W = X \%pX / u_u \%pu_u      X = %d97          *)
(***************************************************************************)
GUdtRef == Plain(<<Cat(<<2, 6>>), Rep(1, Inf), Cat(<<4, 5>>), Rnm(2), Rnm(3), U(S, 4),
                   Tbs(<<ca>>),
                   Alt(<<9, 12>>), Cat(<<10, 11>>), Rnm(2), P(S, 2), Cat(<<13, 14>>), UdtOp(1), P(I, 4)>>,
                 <<Rule(1), Rule(7), Rule(8)>>, <<[empty |-> FALSE]>>)

MCBkrGrammars == {GTagsU, GTagsP, GCase, GBackU, GBoth, GUdtRef}

Config(input, start) ==
  [input |-> input, start |-> start, sub |-> FALSE, beg |-> 0, len |-> 0, lookBehind |-> 0]
Strings(n) == UNION {[1..k -> {ca, cb, cA}] : k \in 1..n}
MCBkrConfigs == {Config(s, 1) : s \in Strings(2)}
  \cup {Config(s, 1) : s \in {<<ca, cA, ca>>, <<ca, cA, cb>>, <<cA, cb, ca>>, <<ca, ca, cb>>, <<ca, cb, cb>>,
                              <<ca, cb, cA, cb, ca>>, <<ca, cb, cA, ca, cb>>, <<ca, cb, cb, cA>>,
                              <<ca, cb, cb, ca>>, <<ca, ca, ca, cb, ca>>,
                              <<ca, cb, ca, cA>>, <<ca, cA, cb, cA>>}}
  \cup {[Config(<<cb, ca, cA, ca, ca>>, 1) EXCEPT !.sub = TRUE, !.beg = 1, !.len = 3]}

Answer(state, length) == [state |-> state, length |-> length]
MCBkrAnswers == {Answer("ACTIVE", 0), Answer("MATCH", 1), Answer("NOMATCH", 0), Answer("THROW", 0)}
MCBkrUdtAnswers == {Answer("MATCH", 1), Answer("NOMATCH", 0), Answer("THROW", 0)}
=============================================================================
