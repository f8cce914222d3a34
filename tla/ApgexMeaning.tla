---------------------------- MODULE ApgexMeaning ----------------------------
(***************************************************************************)
(* What the calls of the pattern-matching engine promise, stated over the  *)
(* matches of the pattern in the source that was passed; that of a single  *)
(* match is in Apgex.                                                      *)
(***************************************************************************)
EXTENDS Apgex

\* the successive matches <<offset, length>>, none overlapping the one before
MatchList(from, how) ==
  LET list[i \in Nat] ==
        IF First(i, how) = {} THEN << >>
        ELSE LET b == CHOOSE b \in First(i, how) : TRUE
                 rest == IF how = "default" THEN << >> ELSE list[Advance(b, M(b).len)]
             IN <<<<b, M(b).len>>>> \o rest
  IN list[from]

\* where the k-th match of a list ends, and what is between it and the next: offset and length
EndOf(matches, k) == IF k = 0 THEN 0 ELSE matches[k][1] + matches[k][2]
Between(matches, k) == <<EndOf(matches, k), matches[k + 1][1] - EndOf(matches, k)>>

\* a source up to the end of the n-th match, each match replaced by the text of its number
RewriteTo(s, matches, texts, n) ==
  FlattenSeq([k \in 1..n |-> Slice(s, Between(matches, k - 1)[1], Between(matches, k - 1)[2]) \o texts[k]])

\* the parts of the source between the first n matches, <<offset, length>>, empty ones left out
NonEmpty(part) == IF part[2] = 0 THEN << >> ELSE <<part>>
GapsTo(matches, n) == FlattenSeq([k \in 1..n |-> NonEmpty(Between(matches, k - 1))])

\* what is left of a source after the n-th match
After(s, matches, n) == <<EndOf(matches, n), Len(s) - EndOf(matches, n)>>

-----------------------------------------------------------------------------
\* whether the pattern looks only at what is right of where it begins
CONSTANT LooksRight(_)

\* What a replacement takes for granted of a parse, at any place of any of some sources: that of a
\* pattern that looks only right finds the same where the same follows, and no more than there is.
SameAhead(s, b, t, c) == Len(s) - b = Len(t) - c /\ \A i \in 1..(Len(s) - b) : s[b + i] = t[c + i]

ParsedAlike(p, s, b, rules, t, c) ==
  LET m == MatchAt(p, s, b, rules)
      n == MatchAt(p, t, c, {})
  IN m.ok = n.ok /\ (m.ok => m.len = n.len /\ m.len \in 0..(Len(s) - b))

ParsesRight(sources) ==
  \A p \in Patterns : LooksRight(p) =>
    \A s, t \in sources : \A b \in 0..(Len(s) - 1), c \in 0..(Len(t) - 1) :
      SameAhead(s, b, t, c) => \A rules \in SUBSET RulesOf(p) : ParsedAlike(p, s, b, rules, t, c)

TokenType == [id : {"LIT", "DOLLAR", "SOURCE", "MATCH", "LEFT", "RIGHT", "NAME", "BAD"}, value : Nat]

\* a replacement that sApgexReplace treats as it documents: a match that leaves the index at the
\* end of the source is replaced again
Regular(raw, matches) ==
  /\ ~OneCharacter(raw)
  /\ \A i \in DOMAIN raw :
       /\ raw[i].id \in {"NAME", "LEFT"} => mode = "default"
       /\ raw[i].id = "SOURCE" => \A k \in DOMAIN matches : matches[k][2] # 0
  /\ mode # "default" =>
       \A k \in DOMAIN matches : Advance(matches[k][1], matches[k][2]) < Len(call.source)

\* the phrase of the first node of a rule in the tree of a match
FirstPhrase(rule, m) ==
  LET tree == MatchAt(pattern, call.source, m[1], Rules).tree
      nodes == Nodes(tree, rule)
  IN IF nodes = {} \/ rule \notin bEnabled THEN << >>
     ELSE LET i == CHOOSE i \in nodes : \A j \in nodes : i =< j
          IN Slice(call.source, tree[i][3], tree[i][4])

\* what a token of a replacement stands for at a match
Stands(t, m) ==
  CASE t.id = "LIT"    -> <<t.value>>
    [] t.id = "DOLLAR" -> <<Dollar>>
    [] t.id = "SOURCE" -> call.source
    [] t.id = "MATCH"  -> Slice(call.source, m[1], m[2])
    [] t.id = "LEFT"   -> SubSeq(call.source, 1, m[1])
    [] t.id = "RIGHT"  -> SubSeq(call.source, m[1] + m[2] + 1, Len(call.source))
    [] t.id = "NAME"   -> FirstPhrase(t.value, m)

Expanded(raw, m) == FlattenSeq([i \in DOMAIN raw |-> Stands(raw[i], m)])

RewrittenTo(s, matches, texts, n) ==
  RewriteTo(s, matches, texts, n) \o Slice(s, After(s, matches, n)[1], After(s, matches, n)[2])

Replaced(raw, matches) ==
  RewrittenTo(call.source, matches, [k \in DOMAIN matches |-> Expanded(raw, matches[k])], Len(matches))

\* When sApgexReplace returns, the source it returns is the one passed with every match of the
\* mode replaced, as if all had been found before the first was replaced: what was put in is not
\* searched again, and nothing between the matches is lost. The index is 0.
ReplaceIsRewrite ==
  Returned("replace") =>
    LET matches == MatchList(call.from, mode) IN
    /\ uiLastIndex = 0
    /\ Regular(call.arg, matches) /\ LooksRight(pattern) =>
         vpVecSource = Replaced(call.arg, matches)

\* what a split takes for granted: the limit is a number, and the source is shorter than the limit
\* that stands for none
SplitsAreBounded ==
  Limits \subseteq Nat /\ APG_MAX_AINT \in Nat /\ \A s \in Sources : Len(s) < APG_MAX_AINT

\* The sub-phrases of spApgexSplit are what the first matches leave of the source, as many as the
\* limit allows, and the rest when it allows more than there are; or its single characters when
\* the pattern matches the empty phrase everywhere.
SplitIsGaps ==
  Returned("split") =>
    LET all == MatchList(0, "global")
        tail == call.arg = 0 \/ call.arg > Len(all)
        n == IF tail THEN Len(all) ELSE call.arg
    IN /\ (\A k \in DOMAIN all : all[k][2] # 0) =>
            vpVecSplitPhrases = GapsTo(all, n) \o (IF tail THEN NonEmpty(After(call.source, all, n)) ELSE << >>)
       /\ (Len(all) = Len(call.source) /\ \A k \in DOMAIN all : all[k][2] = 0) =>
            vpVecSplitPhrases = [k \in 1..n |-> <<k - 1, 1>>]

\* A call that parses ends, whatever the pattern: a match, empty or not, always moves the search on.
CallsEnd ==
  (pc = "search" /\ (call.op \in {"replace", "func"} => mode = "default")) ~> (pc \in {"idle", "exited"})

-----------------------------------------------------------------------------
(* What the documentation says and the code does not do.                   *)

\* apgex.c: "In global or sticky mode, all possible matched phrases in those respective modes are
\* replaced." sApgexReplace comes to an end.
ReplaceEnds == (pc = "search" /\ call.op = "replace") ~> (pc = "idle")
=============================================================================
