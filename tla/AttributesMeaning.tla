------------------------- MODULE AttributesMeaning -------------------------
(***************************************************************************)
(* What the attributes are said to be (api/attributes.h), as least fixed   *)
(* points over the grammar, and what the tables are said to be: the        *)
(* grammar that was written. Only the indexes of names are taken from the  *)
(* algorithms, OpIndex and UdtList of Semantics.                           *)
(***************************************************************************)
EXTENDS Semantics, Attributes

\* the least fixed point of a monotone F on the opcodes of g, met after at most Len(g.ops) steps
Lfp(g, F(_)) ==
  LET Step(known) == LET more == F(known) IN [ops |-> more, met |-> more = known] IN
  FoldLeft(LAMBDA acc, i : IF acc.met THEN acc ELSE CHOOSE next \in {Step(acc.ops)} : TRUE,
           [ops |-> {}, met |-> FALSE], g.ops).ops

Child(i) == i + 1

(***************************************************************************)
(* Opcodes that accept the empty string, and opcodes that accept some      *)
(* finite string.                                                          *)
(***************************************************************************)
AcceptsEmpty(g, i, known) ==
  LET o == g.ops[i] IN
  CASE o.id = "ALT" -> \E k \in DOMAIN o.kids : o.kids[k] \in known
    [] o.id = "CAT" -> \A k \in DOMAIN o.kids : o.kids[k] \in known
    [] o.id = "REP" -> o.min = 0 \/ Child(i) \in known
    [] o.id \in {"RNM", "BKR"} -> IF o.index \in DOMAIN g.rules THEN g.rules[o.index].op \in known
                                  ELSE g.udts[o.index - Len(g.rules)].empty
    [] o.id = "UDT" -> g.udts[o.index].empty
    [] o.id \in TerminalIds -> o.id = "TLS" /\ o.str = << >>
    [] OTHER -> TRUE

EmptyOps(g) ==
  Lfp(g, LAMBDA known : {i \in DOMAIN g.ops : AcceptsEmpty(g, i, known)})

AcceptsFinite(g, i, known) ==
  LET o == g.ops[i] IN
  CASE o.id = "ALT" -> \E k \in DOMAIN o.kids : o.kids[k] \in known
    [] o.id = "CAT" -> \A k \in DOMAIN o.kids : o.kids[k] \in known
    [] o.id = "REP" -> o.min = 0 \/ Child(i) \in known
    [] o.id \in LookAheadIds \cup LookBackIds -> Child(i) \in known
    [] o.id \in {"RNM", "BKR"} /\ o.index \in DOMAIN g.rules -> g.rules[o.index].op \in known
    [] OTHER -> TRUE

FiniteOps(g) ==
  Lfp(g, LAMBDA known : {i \in DOMAIN g.ops : AcceptsFinite(g, i, known)})

(***************************************************************************)
(* Opcodes that may begin, or end, with rule r; opcodes with a branch on   *)
(* which nothing but r is met.                                             *)
(***************************************************************************)
Meets(g, i, r, known) ==
  g.ops[i].id = "RNM" /\ (g.ops[i].index = r \/ g.rules[g.ops[i].index].op \in known)

BeginsWith(g, empties, i, r, known) ==
  LET o == g.ops[i] IN
  CASE o.id = "ALT" -> \E k \in DOMAIN o.kids : o.kids[k] \in known
    [] o.id = "CAT" -> \E k \in DOMAIN o.kids :
                         o.kids[k] \in known /\ \A j \in 1..(k - 1) : o.kids[j] \in empties
    [] o.id \in NextIds -> Child(i) \in known
    [] OTHER -> Meets(g, i, r, known)

EndsWith(g, empties, i, r, known) ==
  LET o == g.ops[i] IN
  CASE o.id = "ALT" -> \E k \in DOMAIN o.kids : o.kids[k] \in known
    [] o.id = "CAT" -> \E k \in DOMAIN o.kids :
                         o.kids[k] \in known /\ \A j \in (k + 1)..Len(o.kids) : o.kids[j] \in empties
    [] o.id \in NextIds -> Child(i) \in known
    [] OTHER -> Meets(g, i, r, known)

OnlyMeets(g, i, r, known) ==
  LET o == g.ops[i] IN
  CASE o.id = "ALT" -> \E k \in DOMAIN o.kids : o.kids[k] \in known
    [] o.id = "CAT" -> \A k \in DOMAIN o.kids : o.kids[k] \in known
    [] o.id \in NextIds -> Child(i) \in known
    [] OTHER -> Meets(g, i, r, known)

\* rules, as a set, whose opcode is in ops
LOCAL RulesIn(g, ops) == {r \in DOMAIN g.rules : g.rules[r].op \in ops}

Empties(g) == RulesIn(g, EmptyOps(g))
Finites(g) == RulesIn(g, FiniteOps(g))

LeftRecursive(g) ==
  LET empties == EmptyOps(g) IN
  {r \in DOMAIN g.rules : g.rules[r].op \in
     Lfp(g, LAMBDA known : {i \in DOMAIN g.ops : BeginsWith(g, empties, i, r, known)})}

RightRecursive(g) ==
  LET empties == EmptyOps(g) IN
  {r \in DOMAIN g.rules : g.rules[r].op \in
     Lfp(g, LAMBDA known : {i \in DOMAIN g.ops : EndsWith(g, empties, i, r, known)})}

Cyclic(g) ==
  {r \in DOMAIN g.rules : g.rules[r].op \in
     Lfp(g, LAMBDA known : {i \in DOMAIN g.ops : OnlyMeets(g, i, r, known)})}

LOCAL With(g, attrs, T(_)) == {r \in DOMAIN g.rules : T(attrs[r])}

(***************************************************************************)
(* No attribute is reported that the grammar does not have.                *)
(***************************************************************************)
Sound(g, attrs) ==
  /\ With(g, attrs, LAMBDA a : a.empty)    \subseteq Empties(g)
  /\ With(g, attrs, LAMBDA a : a.left)     \subseteq LeftRecursive(g)
  /\ With(g, attrs, LAMBDA a : a.right)    \subseteq RightRecursive(g)
  /\ With(g, attrs, LAMBDA a : a.cyclic)   \subseteq Cyclic(g)
  /\ With(g, attrs, LAMBDA a : ~ a.finite) \cap Finites(g) = {}

(***************************************************************************)
(* Nothing is missed: every attribute but finite is exact, and a grammar   *)
(* passes only if it has no fatal one.                                     *)
(***************************************************************************)
Exact(g, attrs) ==
  /\ With(g, attrs, LAMBDA a : a.empty)  = Empties(g)
  /\ With(g, attrs, LAMBDA a : a.left)   = LeftRecursive(g)
  /\ With(g, attrs, LAMBDA a : a.right)  = RightRecursive(g)
  /\ With(g, attrs, LAMBDA a : a.cyclic) = Cyclic(g)
  /\ (\E r \in DOMAIN g.rules : Fatal(attrs[r])) <=> Finites(g) # DOMAIN g.rules
                                                    \/ LeftRecursive(g) \cup Cyclic(g) # {}

\* two rules are in one group when each reaches the other
GroupsAreComponents(g, groups) ==
  /\ \A q, r \in DOMAIN g.rules :
       q # r => ((groups[q] # 0 /\ groups[q] = groups[r])
                   <=> (q \in RefersTo(g, r) /\ r \in RefersTo(g, q)))
  /\ \A r \in DOMAIN g.rules : groups[r] # 0 => \E q \in DOMAIN g.rules \ {r} : groups[q] = groups[r]

(***************************************************************************)
(* The tree that an opcode of the tables stands for, and the tree that was *)
(* written: a list of one is its only member, and 1*1 nothing.             *)
(***************************************************************************)
Node(o, kids) == [id |-> o.id, min |-> o.min, max |-> o.max, str |-> o.str, index |-> o.index,
                  kids |-> kids]

RECURSIVE Tree(_, _)
Tree(g, i) ==
  LET o == g.ops[i] IN
  Node(o, CASE o.id \in ListIds -> [k \in DOMAIN o.kids |-> Tree(g, o.kids[k])]
            [] o.id \in NextIds -> <<Tree(g, Child(i))>>
            [] OTHER -> << >>)

LOCAL List(id, trees) == IF Len(trees) = 1 THEN trees[1] ELSE Node(Sem(id), trees)
LOCAL Above(o, tree) ==
  IF o.id = "REP" /\ o.min = 1 /\ o.max = 1 THEN tree ELSE Node(o, <<tree>>)

\* the rules as written, and the UDTs named in them, in the order they are first met
WrittenRules(text) == SelectSeq(text, LAMBDA def : ~ def.inc)

RECURSIVE WrittenTree(_, _, _)
WrittenTree(rules, udts, body) ==
  LET Elem(e) ==
        CASE e.id = "GROUP"  -> WrittenTree(rules, udts, e.body)
          [] e.id = "OPTION" -> Above(SemRep(0, 1), WrittenTree(rules, udts, e.body))
          [] e.id \in NamedIds -> Node([e EXCEPT !.index = OpIndex(rules, udts, e)], << >>)
          [] OTHER -> Node(e, << >>)
      Rep(r) == FoldRight(Above, r.pre, Elem(r.elem))
      Cat(cat) == List("CAT", [k \in DOMAIN cat |-> Rep(cat[k])])
  IN List("ALT", [k \in DOMAIN body |-> Cat(body[k])])

\* the tables have the rules that were written, each the tree of its first definition
IsWritten(g, text) ==
  LET rules == WrittenRules(text)
      udts == UdtList(Translate(text).rules)
  IN /\ Len(g.rules) = Len(rules)
     /\ \A r \in DOMAIN g.rules : Tree(g, g.rules[r].op) = WrittenTree(rules, udts, rules[r].body)
=============================================================================
