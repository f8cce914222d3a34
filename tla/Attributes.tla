----------------------------- MODULE Attributes -----------------------------
(***************************************************************************)
(* What api/rule-dependencies.c and api/rule-attributes.c compute of the   *)
(* rules of a grammar, called by bApiAttrs.                                *)
(*                                                                         *)
(* The walk threads w through the calls, the fields of spWorkingAttrs it   *)
(* changes: open (bIsOpen), done (bIsComplete) and val, the attributes of  *)
(* the rules that are done. An operator returns the attributes it is asked *)
(* for and the w it leaves.                                                *)
(* For checking only: the definitions are recursive.                       *)
(***************************************************************************)
EXTENDS Pppt

(***************************************************************************)
(* Dependencies.                                                           *)
(***************************************************************************)
OpsOf(g, r) == g.rules[r].op..(RuleEnd(g, r) - 1)

\* the rules that the opcodes of r name, back references included
Named(g, r) == {g.ops[i].index : i \in {i \in OpsOf(g, r) : g.ops[i].id \in {"RNM", "BKR"}}}
                 \cap DOMAIN g.rules

RECURSIVE Scan(_, _)
Scan(g, scanned) ==
  LET more == scanned \cup UNION {Named(g, r) : r \in scanned}
  IN IF more = scanned THEN scanned ELSE Scan(g, more)

\* vScan: bpRefersTo
RefersTo(g, r) == Scan(g, Named(g, r))

\* the rules of type ID_ATTR_R or ID_ATTR_MR
Recursive(g) == {r \in DOMAIN g.rules : r \in RefersTo(g, r)}

(***************************************************************************)
(* vRuleDependencies: uiMRGroup of every rule, 0 for one that is not       *)
(* mutually recursive. A rule that has a group already is passed over.     *)
(***************************************************************************)
NewGroup(g, groups, r) ==
  LET others == {q \in Recursive(g) \ {r} : /\ groups[q] = 0
                                            /\ q \in RefersTo(g, r)
                                            /\ r \in RefersTo(g, q)}
  IN IF groups[r] # 0 \/ others = {} THEN groups
     ELSE [q \in DOMAIN groups |->
             IF q \in others \cup {r} THEN 1 + Max({groups[s] : s \in DOMAIN groups}) ELSE groups[q]]

Groups(g) ==
  FoldLeft(LAMBDA groups, r : IF r \in Recursive(g) THEN NewGroup(g, groups, r) ELSE groups,
           [r \in DOMAIN g.rules |-> 0], [r \in DOMAIN g.rules |-> r])

(***************************************************************************)
(* Attributes of a concatenation, from those of its children.              *)
(***************************************************************************)
NoAttrs == [left |-> FALSE, nested |-> FALSE, right |-> FALSE, cyclic |-> FALSE,
            empty |-> FALSE, finite |-> FALSE, leaf |-> FALSE]

IsRecursive(a) == a.left \/ a.nested \/ a.right \/ a.cyclic
EmptyOnly(a) == ~ IsRecursive(a) /\ a.empty
Solid(a) == ~ IsRecursive(a) /\ ~ a.empty

LOCAL Some(kids, T(_)) == \E k \in DOMAIN kids : T(kids[k])
LOCAL Every(kids, T(_)) == \A k \in DOMAIN kids : T(kids[k])

IsCatLeftFirst(kids) == kids[1].left                                  \* mutant
IsCatLeft(kids) ==
  \E k \in DOMAIN kids : kids[k].left /\ \A j \in 1..(k - 1) : kids[j].empty

IsCatRightAny(kids) == Some(kids, LAMBDA a : a.right)                 \* mutant
IsCatRight(kids) ==
  \E k \in DOMAIN kids : kids[k].right /\ \A j \in (k + 1)..Len(kids) : kids[j].empty

\* the child counts as preceding itself in the third case, so that one is enough
IsCatNested(kids) ==
  \/ Some(kids, LAMBDA a : a.nested)
  \/ \E k \in DOMAIN kids : /\ kids[k].right /\ ~ kids[k].leaf
                            /\ \E j \in (k + 1)..Len(kids) : ~ EmptyOnly(kids[j])
  \/ \E k \in DOMAIN kids : /\ kids[k].left /\ ~ kids[k].leaf
                            /\ \E j \in 1..k : ~ EmptyOnly(kids[j])
  \/ \E i, j, k \in DOMAIN kids :
       i < j /\ j < k /\ Solid(kids[i]) /\ IsRecursive(kids[j]) /\ Solid(kids[k])

CatAttrs(kids) ==
  [NoAttrs EXCEPT !.cyclic = Every(kids, LAMBDA a : a.cyclic),
                  !.empty  = Every(kids, LAMBDA a : a.empty),
                  !.finite = Every(kids, LAMBDA a : a.finite),
                  !.left   = IsCatLeft(kids),
                  !.right  = IsCatRight(kids),
                  !.nested = IsCatNested(kids)]

AltAttrs(kids) ==
  [NoAttrs EXCEPT !.cyclic = Some(kids, LAMBDA a : a.cyclic),
                  !.empty  = Some(kids, LAMBDA a : a.empty),
                  !.finite = Some(kids, LAMBDA a : a.finite),
                  !.left   = Some(kids, LAMBDA a : a.left),
                  !.right  = Some(kids, LAMBDA a : a.right),
                  !.nested = Some(kids, LAMBDA a : a.nested)]

\* terminals, anchors, and UDTs referred to by name or by a back reference
Known(empty) == [NoAttrs EXCEPT !.empty = empty, !.finite = TRUE]

(***************************************************************************)
(* The walk from the start rule.                                           *)
(***************************************************************************)
RECURSIVE OpcodeAttrs(_, _, _, _), RuleAttrs(_, _, _, _)

\* vRuleAttrs
RuleAttrs(g, start, r, w) ==
  IF r \in w.done THEN [a |-> w.val[r], w |-> w]
  ELSE IF r \in w.open
       THEN [a |-> IF r = start
                   THEN [NoAttrs EXCEPT !.left = TRUE, !.right = TRUE, !.cyclic = TRUE, !.leaf = TRUE]
                   ELSE [NoAttrs EXCEPT !.finite = TRUE],
             w |-> w]
       ELSE CHOOSE res \in {[a |-> body.a,
                             w |-> [open |-> body.w.open \ {r}, done |-> body.w.done \cup {r},
                                    val  |-> [body.w.val EXCEPT ![r] = [body.a EXCEPT !.leaf = FALSE]]]] :
                            body \in {OpcodeAttrs(g, start, g.rules[r].op, [w EXCEPT !.open = @ \cup {r}])}} :
              TRUE

LOCAL KidAttrs(g, start, kids, w) ==
  FoldLeft(LAMBDA acc, k : CHOOSE res \in {[as |-> Append(acc.as, r.a), w |-> r.w] :
                                           r \in {OpcodeAttrs(g, start, k, acc.w)}} : TRUE,
           [as |-> << >>, w |-> w], kids)

\* vOpcodeAttrs and vBkrAttrs
OpcodeAttrs(g, start, i, w) ==
  LET o == g.ops[i]
      Kids == KidAttrs(g, start, IF o.id \in ListIds THEN o.kids ELSE <<i + 1>>, w)
      Rule == RuleAttrs(g, start, o.index, w)
      One(kids, a) == [a |-> a, w |-> kids.w]
      From(kids) ==
        CASE o.id = "ALT" -> AltAttrs(kids.as)
          [] o.id = "CAT" -> CatAttrs(kids.as)
          [] o.id = "REP" -> IF o.min = 0 THEN [kids.as[1] EXCEPT !.empty = TRUE, !.finite = TRUE]
                             ELSE kids.as[1]
          [] OTHER        -> [kids.as[1] EXCEPT !.empty = TRUE]
  IN CASE o.id \in ListIds \cup NextIds ->
            CHOOSE res \in {One(kids, From(kids)) : kids \in {Kids}} : TRUE
       [] o.id = "RNM" -> Rule
       [] o.id = "BKR" /\ o.index \in DOMAIN g.rules ->
            CHOOSE res \in {[a |-> [r.a EXCEPT !.left = FALSE, !.nested = FALSE, !.right = FALSE,
                                               !.cyclic = FALSE],
                             w |-> r.w] : r \in {Rule}} : TRUE
       [] o.id = "BKR" /\ o.index \notin DOMAIN g.rules ->
            [a |-> Known(g.udts[o.index - Len(g.rules)].empty), w |-> w]
       [] o.id = "UDT" -> [a |-> Known(g.udts[o.index].empty), w |-> w]
       [] o.id \in {"ABG", "AEN"} -> [a |-> Known(TRUE), w |-> w]
       [] o.id \in TerminalIds -> [a |-> Known(o.id = "TLS" /\ o.str = << >>), w |-> w]

(***************************************************************************)
(* vRuleAttributes: a fresh walk for every rule as the start rule.         *)
(***************************************************************************)
NoWork(g) == [open |-> {}, done |-> {}, val |-> [r \in DOMAIN g.rules |-> NoAttrs]]

AttributesOf(g) == [r \in DOMAIN g.rules |-> RuleAttrs(g, r, r, NoWork(g)).a]

\* what uiErrorCount counts
Fatal(a) == a.left \/ a.cyclic \/ ~ a.finite
=============================================================================
