------------------------------ MODULE Semantics ------------------------------
(***************************************************************************)
(* From the syntax tree of a grammar to its opcodes: the callbacks that    *)
(* vAstTranslate calls (api/semantic-callbacks.c) and the passes of        *)
(* vApiOpcodes over what they collect (api/semantics.c).                   *)
(*                                                                         *)
(* A text is a sequence of definitions [name, inc, body, ...], inc saying  *)
(* that it is an incremental alternative (=/). A body is an alternation,   *)
(* a sequence of concatenations, each a sequence of repetitions            *)
(*   [pre |-> modifiers, elem |-> element],                                *)
(* the modifiers being AND, NOT, BKA, BKN and REP opcodes, an element an   *)
(* opcode or [id |-> "GROUP" or "OPTION", body |-> body]. Names have been  *)
(* folded to one case, as bLCCompare compares them.                        *)
(* For checking only: the definitions are recursive.                       *)
(***************************************************************************)
EXTENDS Pppt

\* a semantic_op: an opcode that holds a name until the rules are known
Sem(id) == [id |-> id, kids |-> << >>, min |-> 0, max |-> 0, index |-> 0, str |-> << >>,
            name |-> "", empty |-> FALSE]

SemRep(min, max) == [Sem("REP") EXCEPT !.min = min, !.max = max]

LOCAL AddKid(ops, parent, kid) == [ops EXCEPT ![parent].kids = Append(@, kid)]

RECURSIVE Alternation(_, _)

\* uiOptionOpen for an option, the callback of the operator for anything else
Element(ops, e) ==
  CASE e.id = "GROUP"  -> Alternation(ops, e.body)
    [] e.id = "OPTION" -> Alternation(Append(ops, SemRep(0, 1)), e.body)
    [] OTHER           -> Append(ops, e)

\* uiRepetition, then the modifiers
Repetition(ops, cat, r) ==
  Element(AddKid(Append(ops, SemRep(1, 1)), cat, Len(ops) + 1) \o r.pre, r.elem)

\* uiConcatenation: the new CAT is a child of the current ALT
Concatenation(ops, alt, cat) ==
  LET at == Len(ops) + 1 IN
  FoldLeft(LAMBDA acc, r : Repetition(acc, at, r), AddKid(Append(ops, Sem("CAT")), alt, at), cat)

(***************************************************************************)
(* uiAlternation. The ALT of a rule's body is nobody's child: that of an   *)
(* incremental alternative follows the opcodes the rule has already.       *)
(***************************************************************************)
Alternation(ops, body) ==
  LET at == Len(ops) + 1 IN
  FoldLeft(LAMBDA acc, cat : Concatenation(acc, at, cat), Append(ops, Sem("ALT")), body)

\* uiRepOp and uiTrgOp refuse an empty range
BadRange(ops) == \E i \in DOMAIN ops : ops[i].id \in {"REP", "TRG"} /\ ops[i].min > ops[i].max

FindRule(rules, name) == SelectInSeq(rules, LAMBDA r : r.name = name)

(***************************************************************************)
(* uiRuleLookup and what the body's callbacks do after it. An error ends   *)
(* the translation.                                                        *)
(***************************************************************************)
RuleLookup(st, def) ==
  LET found == FindRule(st.rules, def.name)
      ops == Alternation(IF found = 0 THEN << >> ELSE st.rules[found].ops, def.body)
  IN IF st.error \/ (found = 0) = def.inc \/ BadRange(ops) THEN [st EXCEPT !.error = TRUE]
     ELSE IF found = 0 THEN [st EXCEPT !.rules = Append(@, [name |-> def.name, ops |-> ops])]
     ELSE [st EXCEPT !.rules[found].ops = ops]

Translate(text) == FoldLeft(RuleLookup, [rules |-> << >>, error |-> FALSE], text)

LOCAL AllOps(rules) == FlattenSeq([r \in DOMAIN rules |-> rules[r].ops])

\* vGenerateUdtList: the UDTs in the order they are met
UdtList(rules) ==
  FoldLeft(LAMBDA udts, o : IF o.id # "UDT" \/ FindRule(udts, o.name) # 0 THEN udts
                            ELSE Append(udts, [name |-> o.name, empty |-> o.empty]),
           << >>, AllOps(rules))

\* the index vGenerateUdtList, vValidateRnmOps and vValidateBkrOps give an opcode; 0 is not found
OpIndex(rules, udts, o) ==
  LET rule == FindRule(rules, o.name)
      udt == FindRule(udts, o.name)
  IN CASE o.id = "RNM" -> rule
       [] o.id = "UDT" -> udt
       [] o.id = "BKR" -> IF rule # 0 \/ udt = 0 THEN rule ELSE Len(rules) + udt

NamedIds == {"RNM", "UDT", "BKR"}

UnknownName(rules, udts) ==
  \E i \in DOMAIN AllOps(rules) : LET o == AllOps(rules)[i] IN
    o.id \in NamedIds /\ OpIndex(rules, udts, o) = 0

\* whether vApiOpcodes throws, before it touches a table of the api object
OpcodesThrow(text) ==
  \E st \in {Translate(text)} : st.error \/ UnknownName(st.rules, UdtList(st.rules))

Essential(o) ==
  CASE o.id \in ListIds -> Len(o.kids) > 1
    [] o.id = "REP"     -> <<o.min, o.max>> # <<1, 1>>
    [] OTHER            -> TRUE

\* uiSeq, one more than in the code
Sequence(ops, i) == Cardinality({j \in 1..i : Essential(ops[j])})

Kept(ops, i) == Sequence(ops, Min({j \in i..Len(ops) : Essential(ops[j])}))

ApiOp(rules, udts, ops, offset, o) ==
  [id |-> o.id, min |-> o.min, max |-> o.max, str |-> o.str,
   index |-> IF o.id \in NamedIds THEN OpIndex(rules, udts, o) ELSE 0,
   kids |-> [k \in DOMAIN o.kids |-> offset + Kept(ops, o.kids[k])]]

ReduceRule(rules, udts, r, offset) ==
  LET ops == rules[r].ops
      kept == SelectSeq(ops, Essential)
  IN [k \in DOMAIN kept |-> ApiOp(rules, udts, ops, offset, kept[k])]

(***************************************************************************)
(* vStringTable and vReduceOpcodes: the tables of a text that does not     *)
(* throw. A rule's first opcode is the first of its list, and whether it   *)
(* is empty is not known yet.                                              *)
(***************************************************************************)
Tables(text) ==
  LET rules == Translate(text).rules
      udts == UdtList(rules)
      Add(g, r) == [g EXCEPT !.ops = @ \o ReduceRule(rules, udts, r, Len(@)),
                             !.rules = Append(@, [op |-> Len(g.ops) + 1, empty |-> FALSE])]
  IN FoldLeft(Add, [ops |-> << >>, rules |-> << >>,
                    udts |-> [u \in DOMAIN udts |-> [empty |-> udts[u].empty]],
                    pppt |-> [on |-> FALSE, min |-> 0, max |-> 0]],
              [r \in DOMAIN rules |-> r])
=============================================================================
