----------------------------- MODULE BackRefWalk -----------------------------
(***************************************************************************)
(* Which rules have a back-referenced rule or UDT in their syntax tree:    *)
(* vSESTWalk (library/backrefu.c) and uiSESTWalk (library/backrefp.c).     *)
(* w.has is uiHasBackRef of each rule, w.open the stack of open rules.     *)
(* For TLC only: the walk is recursive.                                    *)
(***************************************************************************)
EXTENDS BackRef, SequencesExt

SetAllParents(w) ==
  [w EXCEPT !.has = [r \in DOMAIN @ |-> IF \E k \in DOMAIN w.open : w.open[k] = r THEN "found" ELSE @[r]]]

RECURSIVE OpWalk(_, _, _, _), RnmWalk(_, _, _, _)

(***************************************************************************)
(* A rule is walked once. Met again while it is open it tells nothing but  *)
(* its own uiIsBackRef; later it passes on what was found in it.           *)
(***************************************************************************)
RnmWalk(g, is, w, r) ==
  LET state == w.has[r]
      known == r \in is \/ state = "found"
      seen == IF known THEN SetAllParents(w) ELSE w
      below == OpWalk(g, is, [seen EXCEPT !.open = Append(@, r), !.has[r] = "open"], g.rules[r].op)
  IN IF state = "undefined"
       THEN [below EXCEPT !.open = Pop(@), !.has[r] = IF @ = "open" THEN "notfound" ELSE @]
       ELSE seen

OpWalk(g, is, w, i) ==
  LET o == g.ops[i] IN
  CASE o.id = "RNM" -> RnmWalk(g, is, w, o.index)
    [] o.id = "UDT" -> IF Len(g.rules) + o.index \in is THEN SetAllParents(w) ELSE w
    [] o.id \in ListIds -> FoldLeft(LAMBDA acc, k : OpWalk(g, is, acc, k), w, o.kids)
    [] o.id = "REP" -> OpWalk(g, is, w, i + 1)
    [] OTHER -> w

SESTWalk(g, is) ==
  LET w == FoldLeft(LAMBDA acc, r : IF acc.has[r] = "undefined" THEN RnmWalk(g, is, acc, r) ELSE acc,
                    [has |-> [r \in DOMAIN g.rules |-> "undefined"], open |-> << >>],
                    [r \in DOMAIN g.rules |-> r])
  IN {r \in DOMAIN g.rules : w.has[r] = "found"}
=============================================================================
