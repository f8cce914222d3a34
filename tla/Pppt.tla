-------------------------------- MODULE Pppt --------------------------------
(***************************************************************************)
(* The partially-predictive parsing tables of api/pppt.c: for every opcode *)
(* and rule, a map from the next character to what the parser may conclude *)
(* from it. WithPppt(g, protected) is the grammar g with its maps.         *)
(* For checking only: the definitions are recursive.                       *)
(*                                                                         *)
(* The walk threads a table t through the calls, the fields of the api     *)
(* object it changes: rule and op (ucpPpptTable), open (bIsOpen) and done  *)
(* (bIsComplete). An operator function returns the map it is asked for and *)
(* the table it leaves.                                                    *)
(***************************************************************************)
EXTENDS Grammar, FiniteSets, FiniteSetsExt, SequencesExt

LOCAL Alphabet(g) == g.pppt.min..Eos(g)
LOCAL Same(g, value) == [c \in Alphabet(g) |-> value]

LOCAL Cases(c) == IF c \in 97..122 THEN {c, c - 32} ELSE {c}

\* the characters a terminal may begin with
FirstChars(o) ==
  CASE o.id = "TRG" -> o.min..o.max
    [] o.id = "TBS" -> {o.str[1]}
    [] o.id = "TLS" -> IF o.str = << >> THEN {} ELSE Cases(o.str[1])
    [] OTHER        -> {}

AllFirstChars(g) == UNION {FirstChars(g.ops[i]) : i \in DOMAIN g.ops}

\* vPpptSize: luiAcharMin and luiAcharMax (a TLS counts in lower case for the latter, which
\* is its larger form)
AcharMin(g) == IF AllFirstChars(g) = {} THEN 0 ELSE Min(AllFirstChars(g))
AcharMax(g) == IF AllFirstChars(g) = {} THEN 0 ELSE Max(AllFirstChars(g))

\* ucpPpptEmptyMap
EmptyMap(g) ==
  [c \in Alphabet(g) |-> IF c \in AllFirstChars(g) \cup {Eos(g)} THEN "EMPTY" ELSE "NOMATCH"]

TerminalMap(g, o) ==
  IF o.id = "TLS" /\ o.str = << >> THEN EmptyMap(g)
  ELSE LET here == IF o.id = "TRG" \/ Len(o.str) = 1 THEN "MATCH" ELSE "ACTIVE" IN
       [c \in Alphabet(g) |-> IF c \in FirstChars(o) THEN here ELSE "NOMATCH"]

AltMap(g, maps) ==
  [c \in Alphabet(g) |->
     LET said == SelectSeq([k \in DOMAIN maps |-> maps[k][c]], LAMBDA v : v # "NOMATCH")
     IN IF said = << >> THEN "NOMATCH" ELSE Head(said)]

CatMap(g, map) ==
  [c \in Alphabet(g) |-> IF map[c] = "NOMATCH" THEN "NOMATCH" ELSE "ACTIVE"]

RepMap(g, min, map) ==
  [c \in Alphabet(g) |-> CASE map[c] = "EMPTY" -> "EMPTY"
                           [] map[c] = "NOMATCH" -> IF min = 0 THEN "EMPTY" ELSE "NOMATCH"
                           [] OTHER -> "ACTIVE"]

AndMap(g, map) == [c \in Alphabet(g) |-> IF map[c] = "MATCH" THEN "EMPTY" ELSE map[c]]

\* EMPTY and ACTIVE stay what they are
NotMap(g, map) ==
  [c \in Alphabet(g) |-> CASE map[c] = "MATCH" -> "NOMATCH"
                           [] map[c] = "NOMATCH" -> "EMPTY"
                           [] OTHER -> map[c]]

RECURSIVE OpcodeMap(_, _, _, _), RuleMap(_, _, _, _)

LOCAL KidMaps(g, protected, kids, t) ==
  FoldLeft(LAMBDA acc, k : LET r == OpcodeMap(g, protected, k, acc.t) IN
                           [maps |-> Append(acc.maps, r.map), t |-> r.t],
           [maps |-> << >>, t |-> t], kids)

(***************************************************************************)
(* vRuleMap: a rule that is open already is recursive, and undecided.      *)
(***************************************************************************)
RuleMap(g, protected, r, t) ==
  IF r \in t.done THEN [map |-> t.rule[r], t |-> t]
  ELSE IF r \in t.open THEN [map |-> Same(g, "ACTIVE"), t |-> t]
  ELSE LET top == OpcodeMap(g, protected, g.rules[r].op, [t EXCEPT !.open = @ \cup {r}])
           map == IF r \in protected THEN Same(g, "ACTIVE") ELSE top.map
       IN [map |-> map, t |-> [top.t EXCEPT !.rule[r] = map, !.done = @ \cup {r},
                                            !.open = @ \ {r}]]

(***************************************************************************)
(* vOpcodeMap. The children of BKA and BKN are not visited.                *)
(***************************************************************************)
OpcodeMap(g, protected, i, t) ==
  LET o == g.ops[i]
      below == KidMaps(g, protected,
                       IF o.id \in ListIds THEN o.kids
                       ELSE IF o.id \in {"REP"} \cup LookAheadIds THEN <<i + 1>> ELSE << >>, t)
      Saved(map) == [map |-> map, t |-> [below.t EXCEPT !.op[i] = map]]
  IN CASE o.id = "RNM" -> RuleMap(g, protected, o.index, t)
       [] o.id = "ALT" -> Saved(AltMap(g, below.maps))
       [] o.id = "CAT" -> Saved(CatMap(g, below.maps[1]))
       [] o.id = "REP" -> Saved(RepMap(g, o.min, below.maps[1]))
       [] o.id = "AND" -> Saved(AndMap(g, below.maps[1]))
       [] o.id = "NOT" -> Saved(NotMap(g, below.maps[1]))
       [] o.id \in TerminalIds -> Saved(TerminalMap(g, o))
       [] o.id \in NoMapIds -> [map |-> Same(g, "ACTIVE"), t |-> t]

(***************************************************************************)
(* vGetMaps: the rules in ascending order of their opcode counts; those    *)
(* with as many opcodes in order of their names, here of their indexes.    *)
(***************************************************************************)
RuleEnd(g, r) ==
  Min({g.rules[q].op : q \in {q \in DOMAIN g.rules : g.rules[q].op > g.rules[r].op}}
        \cup {Len(g.ops) + 1})

OpCount(g, r) == RuleEnd(g, r) - g.rules[r].op

RuleOrder(g) ==
  SetToSortSeq(DOMAIN g.rules, LAMBDA q, r : \/ OpCount(g, q) < OpCount(g, r)
                                             \/ OpCount(g, q) = OpCount(g, r) /\ q < r)

\* the table as allocated: every entry is 0, which is NOMATCH
ZeroTable(g) ==
  [rule |-> [r \in DOMAIN g.rules |-> Same(g, "NOMATCH")],
   op |-> [i \in DOMAIN g.ops |-> Same(g, "NOMATCH")], open |-> {}, done |-> {}]

GetMaps(g, protected, complete) ==
  FoldLeft(LAMBDA t, r : RuleMap(g, protected, r, t).t,
           [ZeroTable(g) EXCEPT !.done = complete], RuleOrder(g))

\* vApiPppt: the maps of g, some of whose rules an earlier call has completed
Predicting(g, protected, complete) ==
  LET sized == [g EXCEPT !.pppt = [on |-> TRUE, min |-> AcharMin(g), max |-> AcharMax(g),
                                   rule |-> << >>, op |-> << >>]]
      t == GetMaps(sized, protected, complete)
  IN [sized EXCEPT !.pppt.rule = t.rule, !.pppt.op = t.op]

WithPppt(g, protected) == Predicting(g, protected, {})
=============================================================================
