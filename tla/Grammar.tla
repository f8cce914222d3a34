------------------------------ MODULE Grammar ------------------------------
(***************************************************************************)
(* The tables a generated parser is built from: what vpParserCtor          *)
(* (library/parser.c) leaves in the parser context after                   *)
(* vTranslateRules, vTranslateUdts and vTranslateOpcodes.                  *)
(*                                                                         *)
(* A grammar is a record                                                   *)
(*   ops   sequence of opcodes, the children of REP, AND, NOT, BKA and BKN *)
(*         being the next opcode, those of ALT and CAT a list of indexes;  *)
(*   rules sequence of [op, empty]: first opcode, and whether the rule     *)
(*         accepts the empty string;                                       *)
(*   udts  sequence of [empty];                                            *)
(*   pppt  the prediction maps (see Pppt), used only if pppt.on.           *)
(* Indexes count from 1 where the code counts from 0.                      *)
(***************************************************************************)
EXTENDS Integers, Sequences

TerminalIds  == {"TRG", "TLS", "TBS"}
LookAheadIds == {"AND", "NOT"}
LookBackIds  == {"BKA", "BKN"}
ListIds      == {"ALT", "CAT"}
\* operators whose only child is the next opcode (spOp + 1)
NextIds      == {"REP"} \cup LookAheadIds \cup LookBackIds
OpIds        == ListIds \cup NextIds \cup TerminalIds
                  \cup {"RNM", "UDT", "BKR", "ABG", "AEN"}

\* parser.h: mode and case of a back reference
ID_BKR_MODE_U == 60
ID_BKR_MODE_P == 61
ID_BKR_CASE_S == 62
ID_BKR_CASE_I == 63

(***************************************************************************)
(* One record shape serves for every member of the opcode union: kids for  *)
(* ALT and CAT; min, max for REP (counts) and TRG (characters); index for  *)
(* RNM (rule), UDT and BKR (name: a rule, or rule count + a UDT), min and   *)
(* max for the mode and the case of BKR; str for TLS and TBS.              *)
(***************************************************************************)
OpcodeSet == [id: OpIds, kids: Seq(Nat), min: Nat, max: Nat, index: Nat, str: Seq(Nat)]

PpptValues == {"NOMATCH", "MATCH", "EMPTY", "ACTIVE"}

\* operators that own no prediction map: uiPpptState answers ACTIVE for them
NoMapIds == {"BKR", "UDT", "BKA", "BKN", "ABG", "AEN"}

Lower(c) == IF c \in 65..90 THEN c + 32 ELSE c

\* the dummy opcode vParserParse makes for the start rule
StartOp(r) == [id |-> "RNM", kids |-> << >>, min |-> 0, max |-> 0, index |-> r, str |-> << >>]

OpcodeOK(g, i) ==
  LET o == g.ops[i] IN
  /\ o \in OpcodeSet
  /\ o.id \in ListIds => /\ o.kids # << >>
                         /\ \A k \in 1..Len(o.kids) : o.kids[k] \in 1..Len(g.ops)
  /\ o.id \in NextIds => i + 1 \in 1..Len(g.ops)
  /\ o.id = "RNM" => o.index \in 1..Len(g.rules)
  /\ o.id = "UDT" => o.index \in 1..Len(g.udts)
  /\ o.id = "BKR" => /\ o.index \in 1..(Len(g.rules) + Len(g.udts))
                     /\ o.min \in {ID_BKR_MODE_U, ID_BKR_MODE_P}
                     /\ o.max \in {ID_BKR_CASE_S, ID_BKR_CASE_I}

(***************************************************************************)
(* The map of an opcode: RNM shares the map of its rule.                   *)
(***************************************************************************)
MapOf(g, o, i) == IF o.id = "RNM" THEN g.pppt.rule[o.index] ELSE g.pppt.op[i]

\* the column of the end-of-string character, one past the largest character
Eos(g) == g.pppt.max + 1

\* uiPpptState: what the map of opcode i, which is o, says at an offset of the phrase that stops at end
PpptAt(g, o, i, input, offset, end) ==
  LET m == MapOf(g, o, i) IN
  IF ~g.pppt.on \/ o.id \in NoMapIds THEN "ACTIVE"
  ELSE IF offset >= end
    THEN IF end = 0 THEN "NOMATCH" ELSE m[Eos(g)]
  ELSE LET c == input[offset + 1] IN
       IF c < g.pppt.min \/ c > g.pppt.max THEN "NOMATCH" ELSE m[c]

(***************************************************************************)
(* What a map may hold. A terminal never matches the end of the string, so *)
(* no map predicts a one-character match in that column.                   *)
(***************************************************************************)
MapOK(g, m) ==
  /\ DOMAIN m = g.pppt.min..Eos(g)
  /\ \A c \in DOMAIN m : m[c] \in PpptValues
  /\ m[Eos(g)] # "MATCH"

PpptOK(g) ==
  /\ g.pppt.on \in BOOLEAN
  /\ g.pppt.min \in Nat
  /\ g.pppt.max \in Nat
  /\ g.pppt.on => /\ g.pppt.min =< g.pppt.max
                  /\ \A r \in 1..Len(g.rules) : MapOK(g, g.pppt.rule[r])
                  /\ \A i \in 1..Len(g.ops) :
                       g.ops[i].id \notin NoMapIds \cup {"RNM"} => MapOK(g, g.pppt.op[i])

GrammarOK(g) ==
  /\ g.ops \in Seq(OpcodeSet)
  /\ g.rules \in Seq([op: Nat, empty: BOOLEAN])
  /\ g.udts \in Seq([empty: BOOLEAN])
  /\ \A i \in 1..Len(g.ops) : OpcodeOK(g, i)
  /\ \A r \in 1..Len(g.rules) : g.rules[r].op \in 1..Len(g.ops)
  /\ PpptOK(g)
=============================================================================
