--------------------------- MODULE ParserMeaning ---------------------------
(***************************************************************************)
(* The parser against the meaning of its grammar (Meaning), for the parses *)
(* whose callbacks leave the decision to the parser.                       *)
(***************************************************************************)
EXTENDS Parser, Meaning

ParseOf(g, c, behind, nodes) ==
  [g |-> g, input |-> c.input, start |-> c.start, behind |-> behind, nodes |-> nodes]

ThisParse(nodes) == ParseOf(grammar, config, uiLookBehindLength, nodes)

StartNode(c) == Node(0, SubStringBeg(c), SubStringEnd(c), TRUE)

ParseMeaning(nodes) == Meaning(ThisParse(nodes))[StartNode(config)]

Decided == Len(grammar.udts) = 0 /\ \A answer \in RnmResults : answer.state = "ACTIVE"

\* What vParserParse reports is what the grammar means: whether the start rule matches at
\* the beginning of the sub-string, how much of it, and whether that is all of it.
ParseIsMeaning == (Decided /\ spState.outcome = "parsed") => ReportIs(ParseMeaning({}))

-----------------------------------------------------------------------------
(* Where the parser does not try to give the meaning.                      *)

\* vRep looks at max only after a match: it takes 0*0X for *1X
RepetitionsPlain(g) ==
  \A i \in 1..Len(g.ops) : g.ops[i].id = "REP" => g.ops[i].max > 0 /\ g.ops[i].min =< g.ops[i].max

\* vLookBack stops at the first distance at which its child matches at all
FirstIsExact(x) ==
  \A i \in 1..Len(x.g.ops) : x.g.ops[i].id \in LookBackIds =>
    \A beg \in 0..Len(x.input) : \A d \in 0..LookBehindMax(x, beg) :
      MatchesBehind(Meaning(x), i + 1, beg, d) =>
        \A c \in 0..d : Meaning(x)[Node(i + 1, beg - c, beg, FALSE)].ok =>
                          MatchesBehind(Meaning(x), i + 1, beg, c)

\* the offsets a phrase may stop at
Ends(g, c) ==
  IF \E i \in 1..Len(g.ops) : g.ops[i].id \in LookBackIds THEN 0..Len(c.input) ELSE {SubStringEnd(c)}

\* vPpptSize and the maps themselves are the generator's: what they decide must be so
MapsTrue(x, ends) ==
  \A i \in 0..Len(x.g.ops), beg \in 0..Len(x.input), end \in ends, rec \in BOOLEAN :
    LET value == PpptAt(x.g, OpAt(x, i), i, x.input, beg, end)
        r == Meaning(x)[Node(i, beg, end, rec)]
    IN beg =< end /\ value # "ACTIVE" => /\ r.ok <=> PpptResult(value) = "MATCH"
                                        /\ r.len = PpptLength(value)

PlainParse(x, ends) == RepetitionsPlain(x.g) /\ FirstIsExact(x) /\ MapsTrue(x, ends)

\* vParserParse accepts the grammar and the configuration, and no UDT decides
Accepted(g, c) ==
  /\ Len(g.udts) = 0
  /\ c.start \in 1..Len(g.rules) /\ c.input # << >>
  /\ c.sub => c.beg < Len(c.input)

\* of no parse that can come up is any of this untrue
AllPlain(nodes) ==
  \A g \in Grammars, c \in Configs : Accepted(g, c) =>
    \A behind \in 0..Len(c.input) : PlainParse(ParseOf(g, c, behind, nodes), Ends(g, c))

AllMean(nodes) ==
  \A g \in Grammars, c \in Configs : Accepted(g, c) =>
    \A behind \in 0..Len(c.input) : HasMeaning(ParseOf(g, c, behind, nodes))

-----------------------------------------------------------------------------
(* The tree.                                                               *)

Flatten(records) ==
  [k \in 1..Len(records) |->
     <<records[k].index, records[k].state, records[k].offset, records[k].length>>]

\* prediction leaves out the nodes of the rules whose maps decide; those of a protected
\* rule decide nothing
Hides(g, r) ==
  r \in 1..Len(g.rules) /\ g.pppt.on /\ \E c \in DOMAIN g.pppt.rule[r] : g.pppt.rule[r][c] # "ACTIVE"
Hidden(r) == Hides(grammar, r)

\* what a map decides of an opcode says no node of a rule that none hides
MapsBare(x, ends) ==
  (\A r \in x.nodes : ~Hides(x.g, r)) =>
    \A i \in 0..Len(x.g.ops), beg \in 0..Len(x.input), end \in ends :
      beg =< end /\ PpptAt(x.g, OpAt(x, i), i, x.input, beg, end) # "ACTIVE" =>
        Meaning(x)[Node(i, beg, end, TRUE)].tree = << >>

AllBare(nodes) ==
  \A g \in Grammars, c \in Configs : Accepted(g, c) =>
    \A behind \in 0..Len(c.input) : MapsBare(ParseOf(g, c, behind, nodes), Ends(g, c))

\* The AST records the parse leaves are exactly the nodes of the meaning that have AST
\* callbacks, in order: none of a branch that failed or of a look-around, none missing.
AstIsMeaning ==
  (/\ Decided
   /\ pc = "return" /\ stack = << >>
   /\ ast.attached /\ uiLookaroundAtStart = 0
   /\ \A r \in ast.callbacks : ~Hidden(r)) =>
    Flatten(ast.records) = ParseMeaning(ast.callbacks).tree

\* the records of nodes inside one whose callback is called and skips
Skipped(records, called, skips) ==
  {k \in 1..Len(records) : \E p \in Pairs(records) :
     /\ records[p].index \in called /\ records[p].this \in skips
     /\ p < k /\ k < records[p].that + 1}

\* a callback is called of the records of its rule that lie in no skipped node
Stays(records, called, skips, ui) ==
  records[ui + 1].index \in called /\ ui + 1 \notin Skipped(records, called, skips)

\* Translating the tree that a parse left calls, in order, the callbacks of exactly the
\* records that lie in no skipped node, whatever the callbacks skip and whichever of them
\* are set by then: a skipped node still gets its ID_AST_POST call, and its siblings theirs.
TranslationIsTraversal ==
  (pc = "return" /\ stack = << >> /\ ast.attached /\ CallbacksRecorded) =>
    \A called \in SUBSET ast.callbacks : \A skips \in SUBSET {p - 1 : p \in Pairs(ast.records)} :
      LET calls == AstTranslate(ast.records, called, skips) IN
      /\ \A i, j \in DOMAIN calls : i < j => calls[i] < calls[j]
      /\ {calls[i] : i \in DOMAIN calls} =
           {ui \in 0..(Len(ast.records) - 1) : Stays(ast.records, called, skips, ui)}
=============================================================================
