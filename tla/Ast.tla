-------------------------------- MODULE Ast --------------------------------
(***************************************************************************)
(* The abstract syntax tree recorder of library/ast.c, as operators on one *)
(* record that stands for the ast object:                                  *)
(*   attached   vpAst is set in the parser                                 *)
(*   callbacks  the rule (1..rule count) and UDT (rule count + 1 ..)       *)
(*              indexes with a non-NULL AST callback                       *)
(*   records    vpVecRecords: one PRE and one POST record per saved node   *)
(*   that       vpVecThatStack: the PRE records that wait for their POST   *)
(*   open       vpVecOpenStack: the record count at each open node         *)
(*   error      an XTHROW was reached                                      *)
(* uiThisRecord and uiThatRecord count from 0, as in the code.             *)
(***************************************************************************)
EXTENDS Integers, Sequences

CONSTANT APG_UNDEFINED      \* (aint)-1, the largest unsigned integer

ASSUME UndefinedAssumption == APG_UNDEFINED \in Nat

Record == [index: Nat, state: {"PRE", "POST"}, offset: Nat, length: Nat, this: Nat, that: Nat]

AstSet == [attached: BOOLEAN, callbacks: SUBSET Nat, records: Seq(Record),
           that: Seq(Nat), open: Seq(Nat), error: BOOLEAN]

NoAst == [attached |-> FALSE, callbacks |-> {}, records |-> << >>,
          that |-> << >>, open |-> << >>, error |-> FALSE]

\* vpAstCtor: a fresh object replaces the one that may be there
AstCtor(a) == [NoAst EXCEPT !.attached = TRUE]

AstDtor(a) == NoAst

AstSetCallback(a, i, on) ==
  [a EXCEPT !.callbacks = IF on THEN @ \cup {i} ELSE @ \ {i}]

AstClear(a) == [a EXCEPT !.that = << >>, !.open = << >>, !.records = << >>]

Top(s)    == s[Len(s)]
Pop(s)    == SubSeq(s, 1, Len(s) - 1)
\* vpVecPopi(v, i): the elements from index i (from 0) on are dropped
Popi(s, i) == SubSeq(s, 1, i)

XThrow(a) == [a EXCEPT !.error = TRUE]

AstOpOpen(a) == [a EXCEPT !.open = Append(@, Len(a.records))]

AstOpCloseKeeps(a, state) ==                                      \* mutant
  IF a.open = << >> THEN XThrow(a) ELSE [a EXCEPT !.open = Pop(@)]

AstOpClose(a, state) ==
  IF a.open = << >> THEN XThrow(a)
  ELSE LET count == Top(a.open) IN
       [a EXCEPT !.open = Pop(@),
                 !.records = IF state = "NOMATCH" /\ count < Len(@) THEN Popi(@, count) ELSE @]

AstRuleOpen(a, i, offset) ==
  LET b == AstOpOpen(a)
      this == Len(a.records)
  IN IF i \notin a.callbacks THEN b
     ELSE [b EXCEPT !.that = Append(@, this),
                    !.records = Append(@, [index |-> i, state |-> "PRE", offset |-> offset,
                                           length |-> APG_UNDEFINED, this |-> this,
                                           that |-> APG_UNDEFINED])]

(***************************************************************************)
(* On a match the POST record is pushed and the two records are linked.    *)
(* Otherwise, if anything was recorded since the node was opened, it is    *)
(* dropped together with one entry of the that stack.                      *)
(***************************************************************************)
AstRuleMatch(a, i, offset, length) ==
  IF i \notin a.callbacks THEN a
  ELSE IF a.that = << >> THEN XThrow(a)
  ELSE LET pre  == Top(a.that)
           post == Len(a.records)
           b    == [a EXCEPT !.that = Pop(@)]
       IN IF pre >= post THEN XThrow(b)
          ELSE [b EXCEPT !.records =
                  Append([@ EXCEPT ![pre + 1].length = length, ![pre + 1].that = post],
                         [index |-> i, state |-> "POST", offset |-> offset, length |-> length,
                          this |-> post, that |-> @[pre + 1].this])]

AstRuleNomatchKeeps(a, count) == a                                \* mutant
AstRuleNomatch(a, count) ==
  IF count >= Len(a.records) THEN a
  ELSE LET b == [a EXCEPT !.records = Popi(@, count)]
       IN IF a.that = << >> THEN XThrow(b) ELSE [b EXCEPT !.that = Pop(@)]

AstRuleClose(a, i, state, offset, length) ==
  IF a.open = << >> THEN XThrow(a)
  ELSE LET b == [a EXCEPT !.open = Pop(@)] IN
       IF state = "MATCH" THEN AstRuleMatch(b, i, offset, length)
                          ELSE AstRuleNomatch(b, Top(a.open))

(***************************************************************************)
(* The macros the parser's operators use: nothing is recorded without an   *)
(* AST or inside a look-around.                                            *)
(***************************************************************************)
RecordingAlways(a, uiInLookaround) == a.attached                  \* mutant
Recording(a, uiInLookaround) == a.attached /\ uiInLookaround = 0

AST_CLEAR(a) == IF a.attached THEN AstClear(a) ELSE a

AST_OP_OPEN(a, la) == IF Recording(a, la) THEN AstOpOpen(a) ELSE a

AST_OP_CLOSE(a, la, state) == IF Recording(a, la) THEN AstOpClose(a, state) ELSE a

AST_RULE_OPEN(a, la, i, offset) == IF Recording(a, la) THEN AstRuleOpen(a, i, offset) ELSE a

AST_RULE_CLOSE(a, la, i, state, offset, length) ==
  IF Recording(a, la) THEN AstRuleClose(a, i, state, offset, length) ELSE a

(***************************************************************************)
(* The shape of a complete tree: PRE and POST records are linked to each   *)
(* other, and two nodes are nested or disjoint. (Their phrases need not    *)
(* be: a rule callback may cut the phrase of a rule whose nodes stay.)     *)
(***************************************************************************)
Pairs(records) == {k \in 1..Len(records) : records[k].state = "PRE"}

Linked(records) ==
  \A k \in 1..Len(records) :
    LET r == records[k] IN
    /\ r.this = k - 1
    /\ r.that + 1 \in 1..Len(records)
    /\ LET t == records[r.that + 1] IN
         /\ t.that = r.this
         /\ t.state # r.state
         /\ t.index = r.index /\ t.offset = r.offset /\ t.length = r.length
         /\ r.state = "PRE" <=> r.this < r.that

Nested(records) ==
  \A j, k \in Pairs(records) :
    LET p == records[j]
        q == records[k]
    IN (p.this < q.this /\ q.this < p.that) => q.that < p.that

(***************************************************************************)
(* vAstTranslate: the walk over the records. called are the indexes with a *)
(* non-NULL callback at the time of the translation, which may not be that *)
(* of the parse; skips are the records whose callback returns ID_AST_SKIP. *)
(* The result is the sequence of records whose callback is called.         *)
(***************************************************************************)
NextRecordPast(r, skipped) ==                                     \* mutant
  IF r.state = "PRE" /\ skipped THEN r.that + 1 ELSE r.this + 1
NextRecord(r, skipped) ==
  IF r.state = "PRE" /\ skipped THEN r.that ELSE r.this + 1

AstTranslate(records, called, skips) ==
  LET n == Len(records)
      walk[ui \in 0..n] ==
        IF ui = n THEN << >>
        ELSE LET r    == records[ui + 1]
                 on   == r.index \in called
                 next == NextRecord(r, on /\ ui \in skips)
             IN (IF on THEN <<ui>> ELSE << >>) \o (IF next < n THEN walk[next] ELSE << >>)
  IN walk[0]
=============================================================================
