---------------------------- MODULE Parser_proofs ----------------------------
(***************************************************************************)
(* Proofs about the parser, for every grammar, input and callback.         *)
(***************************************************************************)
EXTENDS Parser, TLAPS, SequenceTheorems

-----------------------------------------------------------------------------
(* Stacks.                                                                 *)

\* Pushing onto a sequence keeps what it holds and puts the new element on top, from where
\* Pop takes it again.
LEMMA AppendLemma ==
  ASSUME NEW S, NEW s \in Seq(S), NEW x \in S
  PROVE  /\ Append(s, x) \in Seq(S)
         /\ Append(s, x) # << >>
         /\ Len(Append(s, x)) = Len(s) + 1
         /\ \A n \in 1..Len(s) : Append(s, x)[n] = s[n]
         /\ Top(Append(s, x)) = x
BY AppendProperties DEF Top

\* vpVecPopi keeps the elements below the index.
LEMMA PopiLemma ==
  ASSUME NEW S, NEW s \in Seq(S), NEW i \in 0..Len(s)
  PROVE  /\ Popi(s, i) \in Seq(S)
         /\ Len(Popi(s, i)) = i
         /\ \A n \in 1..i : Popi(s, i)[n] = s[n]
<1>1. Len(s) \in Nat /\ i \in Nat
  BY LenProperties
<1>2. \A n \in 1..i : s[n] \in S
  BY <1>1, ElementOfSeq
<1>3. SubSeq(s, 1, i) \in Seq(S)
  BY <1>1, <1>2, SubSeqProperties
<1>4. Len(SubSeq(s, 1, i)) = i
  BY <1>1, <1>2, SubSeqProperties
<1>5. \A n \in 1..i : SubSeq(s, 1, i)[n] = s[n]
  BY <1>1, <1>2, SubSeqProperties
<1> QED
  BY <1>3, <1>4, <1>5 DEF Popi

\* Popping keeps all but the top element.
LEMMA PopLemma ==
  ASSUME NEW S, NEW s \in Seq(S), s # << >>
  PROVE  /\ Pop(s) \in Seq(S)
         /\ Len(s) \in Nat \ {0}
         /\ Len(Pop(s)) = Len(s) - 1
         /\ \A n \in 1..(Len(s) - 1) : Pop(s)[n] = s[n]
         /\ Top(s) \in S
         /\ Top(s) = s[Len(s)]
<1>1. Len(s) \in Nat \ {0}
  BY EmptySeq
<1>2. s[Len(s)] \in S
  BY <1>1, ElementOfSeq
<1>3. Pop(s) = Popi(s, Len(s) - 1)
  BY DEF Pop, Popi
<1>4. Len(s) - 1 \in 0..Len(s)
  BY <1>1
<1>5. /\ Popi(s, Len(s) - 1) \in Seq(S)
      /\ Len(Popi(s, Len(s) - 1)) = Len(s) - 1
      /\ \A n \in 1..(Len(s) - 1) : Popi(s, Len(s) - 1)[n] = s[n]
  BY <1>4, PopiLemma
<1> QED
  BY <1>1, <1>2, <1>3, <1>5 DEF Top
-----------------------------------------------------------------------------
(* The inductive invariant.                                                *)

\* What is true of a frame by itself: its operator is one that has children, its child
\* number is one of them, and it entered a sub-string of the input.
FrameOK(f) ==
  /\ f \in Frame
  /\ f.op \in 0..Len(grammar.ops)
  /\ Opcode(f.op).id \in ListIds \cup NextIds \cup {"RNM"}
  /\ Opcode(f.op).id \in ListIds => f.k \in 1..Len(Opcode(f.op).kids)
  /\ f.subBeg =< uiInputStringLength

StackOK(s) ==
  /\ s \in Seq(Frame)
  /\ \A n \in 1..Len(s) : FrameOK(s[n]) /\ LinkedAt(s, n)

\* the configuration vParserParse accepted
ConfigOK ==
  /\ config \in Configs
  /\ config.start \in 1..uiRuleCount
  /\ config.input # << >>
  /\ config.sub => config.beg < uiInputStringLength

\* a node that runs above the stack s has this sub-string
InForce(s, beg, end, offset) ==
  /\ beg = NodeSubBeg(s, Len(s))
  /\ end = NodeSubEnd(s, Len(s))
  /\ end =< uiInputStringLength
  /\ offset =< end

\* a node that returns to the stack s has kept the contract
Returned(s, state, offset, length) ==
  /\ state \in {"MATCH", "NOMATCH"}
  /\ offset = NodeBeg(s, Len(s)) + length
  /\ state = "NOMATCH" => length = 0

RunOK ==
  /\ ConfigOK
  /\ StackOK(stack)
  /\ InForce(stack, uiSubStringBeg, uiSubStringEnd, uiOffset)
  /\ pc = "call" => uiOffset = NodeBeg(stack, Len(stack))
  /\ pc = "return" => Returned(stack, uiOpState, uiOffset, uiPhraseLength)

IInv ==
  /\ TypeOK
  /\ pc = "idle" => stack = << >>
  /\ Parsing => RunOK

-----------------------------------------------------------------------------
(* Opcodes.                                                                *)

\* The opcodes an operator calls exist, and so do the rules and UDTs it names.
LEMMA OpcodeFacts ==
  ASSUME grammar \in Grammars, config.start \in 1..uiRuleCount,
         NEW i \in 0..Len(grammar.ops)
  PROVE  /\ GrammarOK(grammar)
         /\ Opcode(i) \in OpcodeSet
         /\ Opcode(i).id # "RNM" => i \in 1..Len(grammar.ops)
         /\ Opcode(i).id \in ListIds =>
              /\ Len(Opcode(i).kids) \in Nat \ {0}
              /\ \A k \in 1..Len(Opcode(i).kids) : Opcode(i).kids[k] \in 0..Len(grammar.ops)
         /\ Opcode(i).id \in NextIds => i + 1 \in 0..Len(grammar.ops)
         /\ Opcode(i).id = "RNM" =>
              /\ Opcode(i).index \in 1..uiRuleCount
              /\ grammar.rules[Opcode(i).index].op \in 0..Len(grammar.ops)
         /\ Opcode(i).id = "UDT" => Opcode(i).index \in 1..Len(grammar.udts)
<1>1. GrammarOK(grammar)
  BY ParserAssumption
<1>2. Len(grammar.ops) \in Nat /\ Len(grammar.rules) \in Nat
  BY <1>1, LenProperties DEF GrammarOK
<1>3. \A r \in 1..uiRuleCount : grammar.rules[r].op \in 0..Len(grammar.ops)
  BY <1>1, <1>2 DEF GrammarOK, uiRuleCount
<1>4. CASE i = 0
  <2>1. Opcode(i) = StartOp(config.start)
    BY <1>4 DEF Opcode
  <2>2. config.start \in Nat
    BY <1>2 DEF uiRuleCount
  <2>3. << >> \in Seq(Nat)
    BY EmptySeq
  <2>4. Opcode(i) \in OpcodeSet /\ Opcode(i).id = "RNM" /\ Opcode(i).index = config.start
    BY <2>1, <2>2, <2>3 DEF StartOp, OpcodeSet, OpIds
  <2> QED
    BY <1>1, <1>3, <2>4 DEF ListIds, NextIds, LookAheadIds, LookBackIds
<1>5. CASE i # 0
  <2>1. i \in 1..Len(grammar.ops) /\ Opcode(i) = grammar.ops[i]
    BY <1>2, <1>5 DEF Opcode
  <2>2. OpcodeOK(grammar, i)
    BY <1>1, <2>1 DEF GrammarOK
  <2>3. Opcode(i) \in OpcodeSet
    BY <2>1, <2>2 DEF OpcodeOK
  <2>4. Opcode(i).kids \in Seq(Nat)
    BY <2>3 DEF OpcodeSet
  <2>5. Opcode(i).id \in ListIds =>
              /\ Len(Opcode(i).kids) \in Nat \ {0}
              /\ \A k \in 1..Len(Opcode(i).kids) : Opcode(i).kids[k] \in 0..Len(grammar.ops)
    <3>1. SUFFICES ASSUME Opcode(i).id \in ListIds
          PROVE  /\ Len(Opcode(i).kids) \in Nat \ {0}
                 /\ \A k \in 1..Len(Opcode(i).kids) : Opcode(i).kids[k] \in 0..Len(grammar.ops)
      OBVIOUS
    <3>2. /\ Opcode(i).kids # << >>
          /\ \A k \in 1..Len(Opcode(i).kids) : Opcode(i).kids[k] \in 1..Len(grammar.ops)
      BY <2>1, <2>2, <3>1 DEF OpcodeOK
    <3>3. Len(Opcode(i).kids) \in Nat \ {0}
      BY <2>4, <3>2, EmptySeq
    <3> QED
      BY <1>2, <3>2, <3>3
  <2>6. Opcode(i).id \in NextIds => i + 1 \in 0..Len(grammar.ops)
    BY <1>2, <2>1, <2>2 DEF OpcodeOK
  <2>7. Opcode(i).id = "RNM" => Opcode(i).index \in 1..uiRuleCount
    BY <2>1, <2>2 DEF OpcodeOK, uiRuleCount
  <2>8. Opcode(i).id = "UDT" => Opcode(i).index \in 1..Len(grammar.udts)
    BY <2>1, <2>2 DEF OpcodeOK
  <2> QED
    BY <1>1, <1>3, <2>1, <2>3, <2>5, <2>6, <2>7, <2>8
<1> QED
  BY <1>4, <1>5

-----------------------------------------------------------------------------
(* The AST recorder.                                                       *)

LEMMA AstOpOpenType ==
  ASSUME NEW a \in AstSet
  PROVE  AstOpOpen(a) \in AstSet /\ AstOpOpen(a).error = a.error
<1>1. Len(a.records) \in Nat /\ a.open \in Seq(Nat)
  BY LenProperties DEF AstSet
<1>2. Append(a.open, Len(a.records)) \in Seq(Nat)
  BY <1>1, AppendLemma
<1> QED
  BY <1>2 DEF AstOpOpen, AstSet

LEMMA AstRuleOpenType ==
  ASSUME NEW a \in AstSet, NEW i \in Nat, NEW offset \in Nat
  PROVE  AstRuleOpen(a, i, offset) \in AstSet /\ AstRuleOpen(a, i, offset).error = a.error
<1> DEFINE b == AstOpOpen(a)
           this == Len(a.records)
           pre == [index |-> i, state |-> "PRE", offset |-> offset,
                   length |-> APG_UNDEFINED, this |-> this, that |-> APG_UNDEFINED]
           c == [b EXCEPT !.that = Append(@, this), !.records = Append(@, pre)]
<1>1. b \in AstSet /\ b.error = a.error
  BY AstOpOpenType
<1>2. this \in Nat
  BY LenProperties DEF AstSet
<1>3. pre \in Record
  BY <1>2, UndefinedAssumption DEF Record
<1>4. b.that \in Seq(Nat) /\ b.records \in Seq(Record)
  BY <1>1 DEF AstSet
<1>5. Append(b.that, this) \in Seq(Nat)
  BY <1>2, <1>4, AppendLemma
<1>6. Append(b.records, pre) \in Seq(Record)
  BY <1>3, <1>4, AppendLemma
<1>7. c \in AstSet /\ c.error = a.error
  BY <1>1, <1>5, <1>6 DEF AstSet
<1>8. AstRuleOpen(a, i, offset) = IF i \notin a.callbacks THEN b ELSE c
  BY DEF AstRuleOpen
<1> QED
  BY <1>1, <1>7, <1>8

LEMMA XThrowType ==
  ASSUME NEW a \in AstSet
  PROVE  XThrow(a) \in AstSet
BY DEF XThrow, AstSet

LEMMA AstOpCloseType ==
  ASSUME NEW a \in AstSet, NEW state
  PROVE  AstOpClose(a, state) \in AstSet
<1>1. CASE a.open = << >>
  BY <1>1, XThrowType DEF AstOpClose
<1>2. CASE a.open # << >>
  <2> DEFINE count == Top(a.open)
             kept == IF state = "NOMATCH" /\ count < Len(a.records)
                       THEN Popi(a.records, count) ELSE a.records
  <2>1. a.open \in Seq(Nat) /\ a.records \in Seq(Record) /\ Len(a.records) \in Nat
    BY LenProperties DEF AstSet
  <2>2. Pop(a.open) \in Seq(Nat) /\ count \in Nat
    BY <1>2, <2>1, PopLemma
  <2>3. kept \in Seq(Record)
    BY <2>1, <2>2, PopiLemma
  <2>4. AstOpClose(a, state) = [a EXCEPT !.open = Pop(@), !.records = kept]
    BY <1>2 DEF AstOpClose
  <2> QED
    BY <2>2, <2>3, <2>4 DEF AstSet
<1> QED
  BY <1>1, <1>2

LEMMA AstRuleMatchType ==
  ASSUME NEW a \in AstSet, NEW i \in Nat, NEW offset \in Nat, NEW length \in Nat
  PROVE  AstRuleMatch(a, i, offset, length) \in AstSet
<1>1. CASE i \notin a.callbacks
  BY <1>1 DEF AstRuleMatch
<1>2. CASE i \in a.callbacks /\ a.that = << >>
  BY <1>2, XThrowType DEF AstRuleMatch
<1>3. CASE i \in a.callbacks /\ a.that # << >>
  <2> DEFINE pre == Top(a.that)
             post == Len(a.records)
             b == [a EXCEPT !.that = Pop(@)]
             linked == [a.records EXCEPT ![pre + 1].length = length, ![pre + 1].that = post]
             last == [index |-> i, state |-> "POST", offset |-> offset, length |-> length,
                      this |-> post, that |-> a.records[pre + 1].this]
  <2>1. a.that \in Seq(Nat) /\ a.records \in Seq(Record) /\ post \in Nat
    BY LenProperties DEF AstSet
  <2>2. pre \in Nat /\ Pop(a.that) \in Seq(Nat)
    BY <1>3, <2>1, PopLemma
  <2>3. b \in AstSet /\ b.records = a.records
    BY <2>2 DEF AstSet
  <2>4. CASE pre >= post
    BY <1>3, <2>3, <2>4, XThrowType DEF AstRuleMatch
  <2>5. CASE ~(pre >= post)
    <3>1. pre + 1 \in 1..post
      BY <2>1, <2>2, <2>5
    <3>2. a.records[pre + 1] \in Record
      BY <2>1, <3>1, ElementOfSeq
    <3> DEFINE r == [a.records[pre + 1] EXCEPT !.length = length]
               half == [a.records EXCEPT ![pre + 1] = r]
               q == [half[pre + 1] EXCEPT !.that = post]
    <3>3. r \in Record
      BY <3>2 DEF Record
    <3>8. half \in Seq(Record) /\ Len(half) = post /\ half[pre + 1] = r
      BY <2>1, <3>1, <3>3, ExceptSeq
    <3>9. q \in Record
      BY <2>1, <3>3, <3>8 DEF Record
    <3>10. [half EXCEPT ![pre + 1] = q] \in Seq(Record)
      BY <2>1, <3>1, <3>8, <3>9, ExceptSeq
    <3>11. linked = [half EXCEPT ![pre + 1] = q]
      OBVIOUS
    <3>4. linked \in Seq(Record)
      BY <3>10, <3>11
    <3>5. last \in Record
      BY <2>1, <3>2 DEF Record
    <3>6. Append(linked, last) \in Seq(Record)
      BY <3>4, <3>5, AppendLemma
    <3>7. AstRuleMatch(a, i, offset, length) = [b EXCEPT !.records = Append(linked, last)]
      BY <1>3, <2>3, <2>5 DEF AstRuleMatch
    <3> QED
      BY <2>3, <3>6, <3>7 DEF AstSet
  <2> QED
    BY <2>4, <2>5
<1> QED
  BY <1>1, <1>2, <1>3

LEMMA AstRuleNomatchType ==
  ASSUME NEW a \in AstSet, NEW count \in Nat
  PROVE  AstRuleNomatch(a, count) \in AstSet
<1> DEFINE b == [a EXCEPT !.records = Popi(@, count)]
<1>1. a.records \in Seq(Record) /\ a.that \in Seq(Nat) /\ Len(a.records) \in Nat
  BY LenProperties DEF AstSet
<1>2. CASE count >= Len(a.records)
  BY <1>2 DEF AstRuleNomatch
<1>3. CASE ~(count >= Len(a.records))
  <2>1. Popi(a.records, count) \in Seq(Record)
    BY <1>1, <1>3, PopiLemma
  <2>2. b \in AstSet /\ b.that = a.that
    BY <2>1 DEF AstSet
  <2>3. CASE a.that = << >>
    BY <1>3, <2>2, <2>3, XThrowType DEF AstRuleNomatch
  <2>4. CASE a.that # << >>
    <3>1. Pop(a.that) \in Seq(Nat)
      BY <1>1, <2>4, PopLemma
    <3>2. AstRuleNomatch(a, count) = [b EXCEPT !.that = Pop(@)]
      BY <1>3, <2>4 DEF AstRuleNomatch
    <3> QED
      BY <2>2, <3>1, <3>2 DEF AstSet
  <2> QED
    BY <2>3, <2>4
<1> QED
  BY <1>2, <1>3

LEMMA AstRuleCloseType ==
  ASSUME NEW a \in AstSet, NEW i \in Nat, NEW state, NEW offset \in Nat, NEW length \in Nat
  PROVE  AstRuleClose(a, i, state, offset, length) \in AstSet
<1>1. CASE a.open = << >>
  BY <1>1, XThrowType DEF AstRuleClose
<1>2. CASE a.open # << >>
  <2> DEFINE b == [a EXCEPT !.open = Pop(@)]
  <2>1. a.open \in Seq(Nat)
    BY DEF AstSet
  <2>2. Pop(a.open) \in Seq(Nat) /\ Top(a.open) \in Nat
    BY <1>2, <2>1, PopLemma
  <2>3. b \in AstSet
    BY <2>2 DEF AstSet
  <2>4. AstRuleMatch(b, i, offset, length) \in AstSet /\ AstRuleNomatch(b, Top(a.open)) \in AstSet
    BY <2>2, <2>3, AstRuleMatchType, AstRuleNomatchType
  <2> QED
    BY <1>2, <2>4 DEF AstRuleClose
<1> QED
  BY <1>1, <1>2

\* Whatever the parser asks of the recorder, it remains an ast object; opening a node
\* never throws.
LEMMA OpenHook ==
  ASSUME NEW a \in AstSet, NEW la
  PROVE  AST_OP_OPEN(a, la) \in AstSet /\ AST_OP_OPEN(a, la).error = a.error
BY AstOpOpenType DEF AST_OP_OPEN

LEMMA CloseHook ==
  ASSUME NEW a \in AstSet, NEW la, NEW state
  PROVE  AST_OP_CLOSE(a, la, state) \in AstSet
BY AstOpCloseType DEF AST_OP_CLOSE

LEMMA RuleOpenHook ==
  ASSUME NEW a \in AstSet, NEW la, NEW i \in Nat, NEW offset \in Nat
  PROVE  AST_RULE_OPEN(a, la, i, offset) \in AstSet
         /\ AST_RULE_OPEN(a, la, i, offset).error = a.error
BY AstRuleOpenType DEF AST_RULE_OPEN

LEMMA RuleCloseHook ==
  ASSUME NEW a \in AstSet, NEW la, NEW i \in Nat, NEW state, NEW offset \in Nat, NEW length \in Nat
  PROVE  AST_RULE_CLOSE(a, la, i, state, offset, length) \in AstSet
BY AstRuleCloseType DEF AST_RULE_CLOSE

-----------------------------------------------------------------------------
(* The stack of operators.                                                 *)

\* An accepted configuration parses a nonempty piece of the input.
LEMMA ConfigValue ==
  ASSUME Contract, NEW c \in Configs, c.input # << >>, c.sub => c.beg < Len(c.input)
  PROVE  /\ c \in ConfigSet
         /\ Len(c.input) \in Nat
         /\ Len(c.input) < APG_UNDEFINED
         /\ SubStringBeg(c) \in Nat
         /\ SubStringEnd(c) \in Nat
         /\ SubStringBeg(c) < SubStringEnd(c)
         /\ SubStringEnd(c) =< Len(c.input)
         /\ SubStringLength(c) = SubStringEnd(c) - SubStringBeg(c)
<1> DEFINE n == Len(c.input)
<1>1. /\ c \in ConfigSet
      /\ Len(c.input) < APG_UNDEFINED
      /\ c.beg =< APG_UNDEFINED
      /\ c.len =< APG_UNDEFINED
  BY ParserAssumption
<1>2. n \in Nat \ {0} /\ c.beg \in Nat /\ c.len \in Nat /\ c.sub \in BOOLEAN
  BY <1>1, EmptySeq DEF ConfigSet
<1>3. c.sub => c.beg + c.len =< APG_UNDEFINED
  BY DEF Contract
<1>4. c.sub => Plus(c.beg, c.len) = c.beg + c.len
  BY <1>2, <1>3, UndefinedAssumption DEF Plus
<1>5. CASE ~c.sub
  BY <1>1, <1>2, <1>5 DEF SubStringBeg, SubStringEnd, SubStringLength, Minus
<1>6. CASE c.sub
  <2>1. SubStringBeg(c) = c.beg /\ c.beg < n
    BY <1>6 DEF SubStringBeg
  <2>2. SubStringEnd(c) = IF c.len = 0 \/ c.beg + c.len > n THEN n ELSE c.beg + c.len
    BY <1>4, <1>6 DEF SubStringEnd
  <2> QED
    BY <1>1, <1>2, <2>1, <2>2 DEF SubStringLength, Minus
<1> QED
  BY <1>1, <1>2, <1>5, <1>6

LEMMA ConfigFacts ==
  ASSUME Contract, ConfigOK
  PROVE  /\ uiInputStringLength \in Nat
         /\ uiInputStringLength < APG_UNDEFINED
         /\ SubStringBeg(config) \in Nat
         /\ SubStringEnd(config) \in Nat
         /\ SubStringBeg(config) < SubStringEnd(config)
         /\ SubStringEnd(config) =< uiInputStringLength
         /\ SubStringLength(config) = SubStringEnd(config) - SubStringBeg(config)
BY ConfigValue DEF ConfigOK, uiInputStringLength

\* A frame that begins where the node above s stands may be pushed on s.
Fits(s, f) ==
  /\ FrameOK(f)
  /\ f.beg = NodeBeg(s, Len(s))
  /\ f.subBeg = NodeSubBeg(s, Len(s))
  /\ f.subEnd = NodeSubEnd(s, Len(s))
  /\ f.beg =< f.subEnd
  /\ f.subEnd =< uiInputStringLength
  /\ IF IsLookBack(f) THEN f.k =< f.beg ELSE f.beg + f.len =< f.subEnd

LEMMA PushStack ==
  ASSUME NEW s, StackOK(s), NEW f, Fits(s, f)
  PROVE  /\ StackOK(Append(s, f))
         /\ Append(s, f) # << >>
         /\ Top(Append(s, f)) = f
         /\ NodeBeg(Append(s, f), Len(Append(s, f))) = ChildBeg(f)
         /\ NodeSubBeg(Append(s, f), Len(Append(s, f))) = ChildSubBeg(f)
         /\ NodeSubEnd(Append(s, f), Len(Append(s, f))) = ChildSubEnd(f)
<1> DEFINE t == Append(s, f)
<1>1. s \in Seq(Frame) /\ f \in Frame
  BY DEF StackOK, Fits, FrameOK
<1>2. /\ t \in Seq(Frame)
      /\ t # << >>
      /\ Len(t) = Len(s) + 1
      /\ \A n \in 1..Len(s) : t[n] = s[n]
      /\ Top(t) = f
  BY <1>1, AppendLemma
<1>3. Len(s) \in Nat
  BY <1>1, LenProperties
<1>4. t[Len(t)] = f
  BY <1>2 DEF Top
<1>5. \A n \in 0..Len(s) : /\ NodeBeg(t, n) = NodeBeg(s, n)
                           /\ NodeSubBeg(t, n) = NodeSubBeg(s, n)
                           /\ NodeSubEnd(t, n) = NodeSubEnd(s, n)
  BY <1>2, <1>3 DEF NodeBeg, NodeSubBeg, NodeSubEnd
<1>6. ASSUME NEW n \in 1..Len(t)
      PROVE  FrameOK(t[n]) /\ LinkedAt(t, n)
  <2>1. CASE n \in 1..Len(s)
    <3>1. t[n] = s[n] /\ n - 1 \in 0..Len(s)
      BY <1>2, <1>3, <2>1
    <3>2. FrameOK(s[n]) /\ LinkedAt(s, n)
      BY <2>1 DEF StackOK
    <3> QED
      BY <1>5, <3>1, <3>2 DEF LinkedAt
  <2>2. CASE n = Len(t)
    <3>1. n - 1 = Len(s) /\ n - 1 \in 0..Len(s)
      BY <1>2, <1>3, <2>2
    <3> QED
      BY <1>4, <1>5, <2>2, <3>1 DEF Fits, LinkedAt
  <2> QED
    BY <1>2, <1>3, <2>1, <2>2
<1>7. StackOK(t)
  BY <1>2, <1>6 DEF StackOK
<1>8. Len(t) # 0
  BY <1>2, <1>3
<1> QED
  BY <1>2, <1>4, <1>7, <1>8 DEF NodeBeg, NodeSubBeg, NodeSubEnd

\* The frame on top of a stack may be taken off, and then it fits what is left.
LEMMA PopStack ==
  ASSUME NEW s, StackOK(s), s # << >>
  PROVE  /\ StackOK(Pop(s))
         /\ Fits(Pop(s), Top(s))
         /\ NodeBeg(s, Len(s)) = ChildBeg(Top(s))
         /\ NodeSubBeg(s, Len(s)) = ChildSubBeg(Top(s))
         /\ NodeSubEnd(s, Len(s)) = ChildSubEnd(Top(s))
<1> DEFINE t == Pop(s)
           f == Top(s)
<1>1. s \in Seq(Frame)
  BY DEF StackOK
<1>2. /\ t \in Seq(Frame)
      /\ Len(s) \in Nat \ {0}
      /\ Len(t) = Len(s) - 1
      /\ \A n \in 1..(Len(s) - 1) : t[n] = s[n]
      /\ f = s[Len(s)]
  BY <1>1, PopLemma
<1>3. \A n \in 0..Len(t) : /\ NodeBeg(t, n) = NodeBeg(s, n)
                           /\ NodeSubBeg(t, n) = NodeSubBeg(s, n)
                           /\ NodeSubEnd(t, n) = NodeSubEnd(s, n)
  BY <1>2 DEF NodeBeg, NodeSubBeg, NodeSubEnd
<1>4. ASSUME NEW n \in 1..Len(t)
      PROVE  FrameOK(t[n]) /\ LinkedAt(t, n)
  <2>1. t[n] = s[n] /\ n - 1 \in 0..Len(t) /\ n \in 1..Len(s)
    BY <1>2
  <2>2. FrameOK(s[n]) /\ LinkedAt(s, n)
    BY <2>1 DEF StackOK
  <2> QED
    BY <1>3, <2>1, <2>2 DEF LinkedAt
<1>5. StackOK(t)
  BY <1>2, <1>4 DEF StackOK
<1>6. FrameOK(f) /\ LinkedAt(s, Len(s))
  BY <1>2 DEF StackOK
<1>7. Fits(t, f)
  <2>1. Len(t) = Len(s) - 1 /\ Len(t) \in 0..Len(t)
    BY <1>2
  <2> QED
    BY <1>2, <1>3, <1>6, <2>1 DEF Fits, LinkedAt
<1> QED
  BY <1>2, <1>5, <1>7 DEF NodeBeg, NodeSubBeg, NodeSubEnd

\* The fields of a frame are numbers, and the node it waits for begins inside its sub-string.
LEMMA FrameFacts ==
  ASSUME NEW f, FrameOK(f), f.beg =< f.subEnd, f.subEnd =< uiInputStringLength,
         IF IsLookBack(f) THEN f.k =< f.beg ELSE f.beg + f.len =< f.subEnd,
         uiInputStringLength \in Nat
  PROVE  /\ f \in Frame
         /\ f.op \in Nat /\ f.beg \in Nat /\ f.len \in Nat /\ f.k \in Nat
         /\ f.subBeg \in Nat /\ f.subEnd \in Nat
         /\ ChildBeg(f) \in Nat /\ ChildSubBeg(f) \in Nat /\ ChildSubEnd(f) \in Nat
         /\ ChildBeg(f) =< ChildSubEnd(f)
         /\ ChildSubBeg(f) =< uiInputStringLength
         /\ ChildSubEnd(f) =< uiInputStringLength
<1>1. /\ f \in Frame
      /\ f.op \in Nat /\ f.beg \in Nat /\ f.len \in Nat /\ f.k \in Nat
      /\ f.subBeg \in Nat /\ f.subEnd \in Nat
      /\ f.subBeg =< uiInputStringLength
  BY DEF FrameOK, Frame
<1>2. CASE IsLookBack(f)
  BY <1>1, <1>2 DEF ChildBeg, ChildSubBeg, ChildSubEnd
<1>3. CASE ~IsLookBack(f)
  BY <1>1, <1>3 DEF ChildBeg, ChildSubBeg, ChildSubEnd
<1> QED
  BY <1>1, <1>2, <1>3

LEMMA NodeFacts ==
  ASSUME Contract, ConfigOK, NEW s, StackOK(s)
  PROVE  /\ NodeBeg(s, Len(s)) \in Nat
         /\ NodeSubBeg(s, Len(s)) \in Nat
         /\ NodeSubEnd(s, Len(s)) \in Nat
         /\ NodeBeg(s, Len(s)) =< NodeSubEnd(s, Len(s))
         /\ NodeSubBeg(s, Len(s)) =< uiInputStringLength
         /\ NodeSubEnd(s, Len(s)) =< uiInputStringLength
<1>1. CASE s = << >>
  <2>1. Len(s) = 0
    BY <1>1, EmptySeq
  <2> QED
    BY <2>1, ConfigFacts DEF NodeBeg, NodeSubBeg, NodeSubEnd
<1>2. CASE s # << >>
  <2>1. Fits(Pop(s), Top(s)) /\ NodeBeg(s, Len(s)) = ChildBeg(Top(s))
        /\ NodeSubBeg(s, Len(s)) = ChildSubBeg(Top(s))
        /\ NodeSubEnd(s, Len(s)) = ChildSubEnd(Top(s))
    BY <1>2, PopStack
  <2> QED
    BY <2>1, ConfigFacts, FrameFacts DEF Fits
<1> QED
  BY <1>1, <1>2

-----------------------------------------------------------------------------
(* What holds when a step begins.                                          *)

CallbackDataSet ==
  [offset: Nat, state: {"ACTIVE", "MATCH", "NOMATCH"}, length: Nat, stringLength: Nat]

DepthOK == uiTreeDepth \in 0..APG_UNDEFINED /\ uiMaxTreeDepth \in 0..APG_UNDEFINED

\* the position facts shared by calls and returns
Positions ==
  /\ uiSubStringBeg \in Nat /\ uiSubStringEnd \in Nat /\ uiOffset \in Nat
  /\ uiPhraseLength \in Nat
  /\ uiInputStringLength \in Nat /\ uiInputStringLength < APG_UNDEFINED
  /\ APG_UNDEFINED \in Nat
  /\ uiSubStringBeg =< uiInputStringLength
  /\ uiSubStringEnd =< uiInputStringLength
  /\ uiOffset =< uiSubStringEnd

\* Within the input aint addition does not wrap around.
LEMMA NoWrap ==
  ASSUME Positions, NEW m \in Nat, NEW n \in Nat, m + n =< uiInputStringLength
  PROVE  Plus(m, n) = m + n
BY DEF Positions, Plus

LEMMA RunFacts ==
  ASSUME Contract, IInv, Parsing
  PROVE  /\ RunOK /\ ConfigOK /\ StackOK(stack) /\ GrammarOK(grammar) /\ grammar \in Grammars
         /\ config.start \in 1..uiRuleCount
         /\ Positions
         /\ DepthOK /\ uiInLookaround \in Nat /\ sCBData \in CallbackDataSet
         /\ ast \in AstSet /\ ~ast.error /\ spState \in StateSet
         /\ ruleCallback \subseteq 1..uiRuleCount
         /\ uiSubStringBeg = NodeSubBeg(stack, Len(stack))
         /\ uiSubStringEnd = NodeSubEnd(stack, Len(stack))
<1>1. RunOK /\ ConfigOK /\ StackOK(stack)
  BY DEF IInv, RunOK
<1>2. /\ grammar \in Grammars /\ DepthOK /\ uiInLookaround \in Nat /\ sCBData \in CallbackDataSet
      /\ ast \in AstSet /\ ~ast.error /\ spState \in StateSet
      /\ ruleCallback \subseteq 1..uiRuleCount
      /\ uiSubStringBeg \in Nat /\ uiSubStringEnd \in Nat /\ uiOffset \in Nat
      /\ uiPhraseLength \in Nat
  BY DEF IInv, TypeOK, CallbackDataSet, DepthOK
<1>3. GrammarOK(grammar)
  BY <1>2, ParserAssumption
<1>4. Positions
  BY <1>1, <1>2, ConfigFacts, NodeFacts, UndefinedAssumption DEF RunOK, InForce, Positions
<1> QED
  BY <1>1, <1>2, <1>3, <1>4 DEF ConfigOK, RunOK, InForce

LEMMA CallFacts ==
  ASSUME Contract, IInv, pc = "call"
  PROVE  /\ Parsing
         /\ uiOffset = NodeBeg(stack, Len(stack))
         /\ callee \in 0..Len(grammar.ops)
         /\ Opcode(callee) \in OpcodeSet
         /\ Opcode(callee).id # "RNM" => callee \in 1..Len(grammar.ops)
         /\ Opcode(callee).id \in ListIds =>
              /\ Len(Opcode(callee).kids) \in Nat \ {0}
              /\ \A k \in 1..Len(Opcode(callee).kids) : Opcode(callee).kids[k] \in 0..Len(grammar.ops)
         /\ Opcode(callee).id \in NextIds => callee + 1 \in 0..Len(grammar.ops)
         /\ Opcode(callee).id = "RNM" =>
              /\ Opcode(callee).index \in 1..uiRuleCount
              /\ grammar.rules[Opcode(callee).index].op \in 0..Len(grammar.ops)
         /\ Opcode(callee).id = "UDT" => Opcode(callee).index \in 1..Len(grammar.udts)
<1>1. Parsing
  BY DEF Parsing
<1>2. callee \in 0..Len(grammar.ops)
  BY DEF IInv, TypeOK
<1>3. RunOK /\ grammar \in Grammars /\ config.start \in 1..uiRuleCount
  BY <1>1, RunFacts
<1>4. uiOffset = NodeBeg(stack, Len(stack))
  BY <1>3 DEF RunOK
<1> QED
  BY <1>1, <1>2, <1>3, <1>4, OpcodeFacts

LEMMA ReturnFacts ==
  ASSUME Contract, IInv, pc = "return", stack # << >>
  PROVE  /\ Parsing
         /\ StackOK(Pop(stack)) /\ Fits(Pop(stack), Top(stack))
         /\ Top(stack) \in Frame
         /\ Top(stack).op \in 0..Len(grammar.ops) /\ Top(stack).op \in Nat
         /\ Top(stack).beg \in Nat /\ Top(stack).len \in Nat /\ Top(stack).k \in Nat
         /\ Top(stack).subBeg \in Nat /\ Top(stack).subEnd \in Nat
         /\ uiOpState \in {"MATCH", "NOMATCH"}
         /\ uiOffset = ChildBeg(Top(stack)) + uiPhraseLength
         /\ uiOpState = "NOMATCH" => uiPhraseLength = 0
         /\ uiSubStringBeg = ChildSubBeg(Top(stack))
         /\ uiSubStringEnd = ChildSubEnd(Top(stack))
         /\ Opcode(Top(stack).op) \in OpcodeSet
         /\ Opcode(Top(stack).op).id \in ListIds =>
              /\ Len(Opcode(Top(stack).op).kids) \in Nat \ {0}
              /\ \A k \in 1..Len(Opcode(Top(stack).op).kids) :
                   Opcode(Top(stack).op).kids[k] \in 0..Len(grammar.ops)
         /\ Opcode(Top(stack).op).id \in NextIds => Top(stack).op + 1 \in 0..Len(grammar.ops)
         /\ Opcode(Top(stack).op).id = "RNM" => Opcode(Top(stack).op).index \in 1..uiRuleCount
<1> DEFINE f == Top(stack)
<1>1. Parsing
  BY DEF Parsing
<1>2. RunOK /\ StackOK(stack) /\ grammar \in Grammars /\ config.start \in 1..uiRuleCount /\ Positions
  BY <1>1, RunFacts
<1>3. /\ StackOK(Pop(stack)) /\ Fits(Pop(stack), f)
      /\ NodeBeg(stack, Len(stack)) = ChildBeg(f)
      /\ NodeSubBeg(stack, Len(stack)) = ChildSubBeg(f)
      /\ NodeSubEnd(stack, Len(stack)) = ChildSubEnd(f)
  BY <1>2, PopStack
<1>4. f.op \in 0..Len(grammar.ops)
  BY <1>3 DEF Fits, FrameOK
<1>5. /\ f \in Frame
      /\ f.op \in Nat /\ f.beg \in Nat /\ f.len \in Nat /\ f.k \in Nat
      /\ f.subBeg \in Nat /\ f.subEnd \in Nat
  BY <1>2, <1>3, FrameFacts DEF Fits, Positions
<1>6. Returned(stack, uiOpState, uiOffset, uiPhraseLength)
      /\ InForce(stack, uiSubStringBeg, uiSubStringEnd, uiOffset)
  BY <1>2 DEF RunOK
<1>7. /\ uiOpState \in {"MATCH", "NOMATCH"}
      /\ uiOffset = ChildBeg(f) + uiPhraseLength
      /\ uiOpState = "NOMATCH" => uiPhraseLength = 0
      /\ uiSubStringBeg = ChildSubBeg(f)
      /\ uiSubStringEnd = ChildSubEnd(f)
  BY <1>3, <1>6 DEF Returned, InForce
<1>8. /\ Opcode(f.op) \in OpcodeSet
      /\ Opcode(f.op).id \in ListIds =>
              /\ Len(Opcode(f.op).kids) \in Nat \ {0}
              /\ \A k \in 1..Len(Opcode(f.op).kids) : Opcode(f.op).kids[k] \in 0..Len(grammar.ops)
      /\ Opcode(f.op).id \in NextIds => f.op + 1 \in 0..Len(grammar.ops)
      /\ Opcode(f.op).id = "RNM" => Opcode(f.op).index \in 1..uiRuleCount
  BY <1>2, <1>4, OpcodeFacts
<1> QED
  BY <1>1, <1>3, <1>4, <1>5, <1>7, <1>8

\* A prediction is one of the four values, and a match is never predicted at the end of
\* the sub-string.
LEMMA PpptFacts ==
  ASSUME Contract, IInv, pc = "call", Opcode(callee).id \notin NoMapIds
  PROVE  /\ PpptState(callee) \in PpptValues
         /\ PpptState(callee) = "MATCH" => uiOffset < uiSubStringEnd
<1> DEFINE o == Opcode(callee)
           m == MapOf(grammar, o, callee)
<1>1. Parsing /\ o \in OpcodeSet
      /\ (o.id # "RNM" => callee \in 1..Len(grammar.ops))
      /\ (o.id = "RNM" => o.index \in 1..uiRuleCount)
  BY CallFacts
<1>2. GrammarOK(grammar) /\ Positions /\ ConfigOK
  BY <1>1, RunFacts
<1>3. CASE ~grammar.pppt.on
  BY <1>3 DEF PpptState, PpptAt, PpptValues
<1>4. CASE grammar.pppt.on
  <2>1. /\ grammar.pppt.min \in Nat /\ grammar.pppt.max \in Nat
        /\ grammar.pppt.min =< grammar.pppt.max
    BY <1>2, <1>4 DEF GrammarOK, PpptOK
  <2>2. MapOK(grammar, m)
    <3>1. CASE o.id = "RNM"
      BY <1>1, <1>2, <1>4, <3>1 DEF GrammarOK, PpptOK, MapOf, uiRuleCount
    <3>2. CASE o.id # "RNM"
      <4>1. o = grammar.ops[callee]
        BY <1>1, <3>2 DEF Opcode
      <4> QED
        BY <1>1, <1>2, <1>4, <3>2, <4>1 DEF GrammarOK, PpptOK, MapOf
    <3> QED
      BY <3>1, <3>2
  <2>3. /\ Eos(grammar) \in grammar.pppt.min..Eos(grammar)
        /\ grammar.pppt.min..grammar.pppt.max \subseteq grammar.pppt.min..Eos(grammar)
    BY <2>1 DEF Eos
  <2>4. /\ m[Eos(grammar)] \in PpptValues /\ m[Eos(grammar)] # "MATCH"
        /\ \A c \in grammar.pppt.min..grammar.pppt.max : m[c] \in PpptValues
    BY <2>2, <2>3 DEF MapOK
  <2>5. CASE uiOffset >= uiSubStringEnd
    BY <1>4, <2>4, <2>5 DEF PpptState, PpptAt, PpptValues
  <2>6. CASE ~(uiOffset >= uiSubStringEnd)
    <3>1. uiOffset < uiSubStringEnd /\ uiOffset + 1 \in 1..uiInputStringLength
      BY <1>2, <2>6 DEF Positions
    <3>2. config.input \in Seq(Nat)
      BY <1>2, ParserAssumption DEF ConfigOK, ConfigSet
    <3>3. acpInputString[uiOffset + 1] \in Nat
      BY <3>1, <3>2, ElementOfSeq DEF acpInputString, uiInputStringLength
    <3> DEFINE c == acpInputString[uiOffset + 1]
    <3>4. PpptState(callee) = IF c < grammar.pppt.min \/ c > grammar.pppt.max THEN "NOMATCH" ELSE m[c]
      BY <1>4, <2>6 DEF PpptState, PpptAt
    <3>5. ~(c < grammar.pppt.min \/ c > grammar.pppt.max) => c \in grammar.pppt.min..grammar.pppt.max
      BY <2>1, <3>3
    <3> QED
      BY <2>4, <3>1, <3>4, <3>5 DEF PpptValues
  <2> QED
    BY <2>5, <2>6
<1> QED
  BY <1>3, <1>4

-----------------------------------------------------------------------------
(* How a step ends.                                                        *)

\* The variables whose type no other variable depends on.
SideOK ==
  /\ DepthOK
  /\ uiInLookaround \in Nat
  /\ sCBData \in CallbackDataSet
  /\ ast \in AstSet /\ ~ast.error
  /\ spState \in StateSet

\* The definitions that speak of the grammar and the configuration do not change within a parse.
LEMMA Carried ==
  ASSUME UNCHANGED <<app, parse>>
  PROVE  /\ StackOK(stack)' <=> StackOK(stack')
         /\ NodeBeg(stack, Len(stack))' = NodeBeg(stack', Len(stack'))
         /\ NodeSubBeg(stack, Len(stack))' = NodeSubBeg(stack', Len(stack'))
         /\ NodeSubEnd(stack, Len(stack))' = NodeSubEnd(stack', Len(stack'))
         /\ ConfigOK' <=> ConfigOK
         /\ uiInputStringLength' = uiInputStringLength
<1>1. /\ grammar' = grammar /\ config' = config
  BY DEF app, parse
<1>2. \A f : Opcode(f.op)' = Opcode(f.op)
  BY <1>1 DEF Opcode
<1>3. uiInputStringLength' = uiInputStringLength
  BY <1>1 DEF uiInputStringLength
<1>4. ConfigOK' <=> ConfigOK
  BY <1>1 DEF ConfigOK, uiInputStringLength, uiRuleCount
<1>5. SubStringBeg(config)' = SubStringBeg(config) /\ SubStringEnd(config)' = SubStringEnd(config)
  BY <1>1 DEF SubStringBeg, SubStringEnd
<1>6. /\ NodeBeg(stack, Len(stack))' = NodeBeg(stack', Len(stack'))
      /\ NodeSubBeg(stack, Len(stack))' = NodeSubBeg(stack', Len(stack'))
      /\ NodeSubEnd(stack, Len(stack))' = NodeSubEnd(stack', Len(stack'))
  BY <1>1 DEF NodeBeg, NodeSubBeg, NodeSubEnd, ChildBeg, ChildSubBeg, ChildSubEnd,
              IsLookBack, Opcode, SubStringBeg, SubStringEnd
<1>7. StackOK(stack)' <=> StackOK(stack')
  BY <1>1 DEF StackOK, FrameOK, LinkedAt, NodeBeg, NodeSubBeg, NodeSubEnd, ChildBeg, ChildSubBeg,
              ChildSubEnd, IsLookBack, Opcode, SubStringBeg, SubStringEnd, uiInputStringLength
<1> QED
  BY <1>3, <1>4, <1>6, <1>7

LEMMA TypeStep ==
  ASSUME Contract, IInv, Parsing, UNCHANGED <<app, parse>>, SideOK',
         pc' \in {"idle", "call", "return"}, callee' \in 0..Len(grammar.ops),
         stack' \in Seq(Frame),
         uiSubStringBeg' \in Nat, uiSubStringEnd' \in Nat, uiOffset' \in Nat,
         uiPhraseLength' \in Nat, uiOpState' \in {"ACTIVE", "MATCH", "NOMATCH"}
  PROVE  TypeOK'
<1>1. TypeOK
  BY DEF IInv
<1> QED
  BY <1>1 DEF TypeOK, app, parse, SideOK, DepthOK, CallbackDataSet, uiRuleCount

\* The parser has called the next operator from the stack it leaves.
LEMMA CallStep ==
  ASSUME Contract, IInv, Parsing, UNCHANGED <<app, parse>>, SideOK',
         pc' = "call", callee' \in 0..Len(grammar.ops), StackOK(stack'),
         uiSubStringBeg' = NodeSubBeg(stack', Len(stack')),
         uiSubStringEnd' = NodeSubEnd(stack', Len(stack')),
         uiOffset' = NodeBeg(stack', Len(stack')),
         uiPhraseLength' \in Nat, uiOpState' \in {"ACTIVE", "MATCH", "NOMATCH"}
  PROVE  IInv'
<1>1. ConfigOK
  BY RunFacts
<1>2. /\ uiOffset' \in Nat /\ uiSubStringBeg' \in Nat /\ uiSubStringEnd' \in Nat
      /\ uiOffset' =< uiSubStringEnd'
      /\ uiSubStringEnd' =< uiInputStringLength
  BY <1>1, NodeFacts
<1>3. TypeOK'
  BY <1>2, TypeStep DEF StackOK
<1>4. RunOK'
  BY <1>1, <1>2, Carried DEF RunOK, InForce
<1> QED
  BY <1>3, <1>4 DEF IInv

\* An operator has returned to the stack it leaves.
LEMMA ReturnStep ==
  ASSUME Contract, IInv, Parsing, UNCHANGED <<app, parse>>, SideOK',
         pc' = "return", callee' = 0, StackOK(stack'),
         uiSubStringBeg' = NodeSubBeg(stack', Len(stack')),
         uiSubStringEnd' = NodeSubEnd(stack', Len(stack')),
         uiPhraseLength' \in Nat,
         Returned(stack', uiOpState', uiOffset', uiPhraseLength'),
         uiOffset' =< uiSubStringEnd'
  PROVE  IInv'
<1>1. ConfigOK /\ GrammarOK(grammar)
  BY RunFacts
<1>2. /\ uiSubStringBeg' \in Nat /\ uiSubStringEnd' \in Nat
      /\ NodeBeg(stack', Len(stack')) \in Nat
      /\ uiSubStringEnd' =< uiInputStringLength
  BY <1>1, NodeFacts
<1>3. uiOffset' \in Nat /\ uiOpState' \in {"ACTIVE", "MATCH", "NOMATCH"}
  BY <1>2 DEF Returned
<1>4. callee' \in 0..Len(grammar.ops)
  BY <1>1, LenProperties DEF GrammarOK
<1>5. TypeOK'
  BY <1>2, <1>3, <1>4, TypeStep DEF StackOK
<1>6. Returned(stack, uiOpState, uiOffset, uiPhraseLength)'
  BY Carried DEF Returned
<1>7. RunOK'
  BY <1>1, <1>2, <1>6, Carried DEF RunOK, InForce
<1> QED
  BY <1>5, <1>7 DEF IInv

\* The parse was abandoned.
LEMMA ThrowStep ==
  ASSUME Contract, IInv, Parsing, UNCHANGED <<app, parse>>, SideOK',
         pc' = "idle", callee' = 0, stack' = << >>,
         uiSubStringBeg' \in Nat, uiSubStringEnd' \in Nat, uiOffset' \in Nat,
         uiPhraseLength' \in Nat, uiOpState' \in {"ACTIVE", "MATCH", "NOMATCH"}
  PROVE  IInv'
<1>1. callee' \in 0..Len(grammar.ops)
  BY RunFacts, LenProperties DEF GrammarOK
<1>2. stack' \in Seq(Frame)
  BY EmptySeq
<1>3. TypeOK'
  BY <1>1, <1>2, TypeStep
<1> QED
  BY <1>3 DEF IInv, Parsing

LEMMA ThrownState ==
  ASSUME NEW a \in AstSet, NEW outcome \in {"argument", "callback", "ast"}
  PROVE  /\ [a EXCEPT !.error = FALSE] \in AstSet
         /\ ~[a EXCEPT !.error = FALSE].error
         /\ [NoState EXCEPT !.outcome = outcome] \in StateSet
BY DEF AstSet, NoState, StateSet

\* An operator that ends with an AST hook returns or throws.
LEMMA FinishStep ==
  ASSUME Contract, IInv, Parsing, UNCHANGED <<app, parse>>,
         NEW frames, NEW a \in AstSet, NEW state, NEW offset, NEW length \in Nat,
         Finish(frames, a, state, offset, length),
         StackOK(frames), Returned(frames, state, offset, length),
         offset =< NodeSubEnd(frames, Len(frames)),
         uiSubStringBeg' = NodeSubBeg(frames, Len(frames)),
         uiSubStringEnd' = NodeSubEnd(frames, Len(frames)),
         DepthOK', uiInLookaround' \in Nat, sCBData' \in CallbackDataSet
  PROVE  IInv'
<1>1. ConfigOK /\ Positions /\ spState \in StateSet
  BY RunFacts
<1>2. CASE a.error
  <2>1. Throw("ast", a) /\ UNCHANGED phrase
    BY <1>2 DEF Finish
  <2>2. SideOK'
    BY <2>1, ThrownState DEF Throw, SideOK
  <2>3. uiOpState \in {"ACTIVE", "MATCH", "NOMATCH"}
    BY DEF IInv, TypeOK
  <2>4. uiSubStringBeg' \in Nat /\ uiSubStringEnd' \in Nat
    BY <1>1, NodeFacts
  <2> QED
    BY <1>1, <2>1, <2>2, <2>3, <2>4, ThrowStep DEF Throw, phrase, Positions
<1>3. CASE ~a.error
  <2>1. Return(frames, state, offset, length) /\ ast' = a /\ spState' = spState
    BY <1>3 DEF Finish
  <2>2. SideOK'
    BY <1>1, <1>3, <2>1 DEF SideOK
  <2> QED
    BY <2>1, <2>2, ReturnStep DEF Return
<1> QED
  BY <1>2, <1>3

\* The counter of open nodes is an unsigned integer however it is moved.
LEMMA DepthSteps ==
  ASSUME DepthOK
  PROVE  /\ EnterNode => DepthOK'
         /\ LeafNode => DepthOK'
         /\ ExitNode => DepthOK'
         /\ LookBackDepth => DepthOK'
BY UndefinedAssumption
   DEF DepthOK, EnterNode, LeafNode, ExitNode, LookBackDepth, Increment, Decrement

LEMMA CounterSteps ==
  ASSUME NEW n \in Nat
  PROVE  Increment(n) \in Nat /\ Decrement(n) \in Nat
BY UndefinedAssumption DEF Increment, Decrement

\* An operator that never has a child on the stack.
LEMMA LeafStep ==
  ASSUME Contract, IInv, pc = "call", NEW state, NEW length \in Nat,
         LeafReturn(state, length),
         state \in {"MATCH", "NOMATCH"}, state = "NOMATCH" => length = 0,
         uiOffset + length =< uiSubStringEnd
  PROVE  IInv'
<1>1. Parsing /\ uiOffset = NodeBeg(stack, Len(stack))
  BY CallFacts
<1>2. UNCHANGED <<app, parse>> /\ stack' = stack /\ UNCHANGED sub
  BY DEF LeafReturn, Return
<1>3. SideOK'
  BY <1>1, RunFacts, DepthSteps DEF LeafReturn, SideOK
<1>4. Returned(stack', uiOpState', uiOffset', uiPhraseLength')
  BY <1>1, <1>2 DEF LeafReturn, Return, Returned
<1> QED
  BY <1>1, <1>2, <1>3, <1>4, RunFacts, ReturnStep DEF LeafReturn, Return, sub

-----------------------------------------------------------------------------
(* The operators: each step keeps the invariant.                           *)

\* A frame that an operator pushes when it begins.
LEMMA Opened ==
  ASSUME Contract, IInv, pc = "call", NEW k \in Nat,
         Opcode(callee).id \in ListIds \cup NextIds \cup {"RNM"},
         Opcode(callee).id \in ListIds => k \in 1..Len(Opcode(callee).kids),
         Opcode(callee).id \in LookBackIds => k = 0
  PROVE  /\ Fits(stack, NewFrame(k))
         /\ StackOK(Append(stack, NewFrame(k)))
         /\ NodeBeg(Append(stack, NewFrame(k)), Len(Append(stack, NewFrame(k)))) = uiOffset
         /\ NodeSubBeg(Append(stack, NewFrame(k)), Len(Append(stack, NewFrame(k)))) =
              IF Opcode(callee).id \in LookBackIds THEN uiOffset ELSE uiSubStringBeg
         /\ NodeSubEnd(Append(stack, NewFrame(k)), Len(Append(stack, NewFrame(k)))) =
              IF Opcode(callee).id \in LookBackIds THEN uiOffset ELSE uiSubStringEnd
<1> DEFINE f == NewFrame(k)
<1>1. Parsing /\ uiOffset = NodeBeg(stack, Len(stack)) /\ callee \in 0..Len(grammar.ops)
  BY CallFacts
<1>2. /\ StackOK(stack) /\ Positions
      /\ uiSubStringBeg = NodeSubBeg(stack, Len(stack))
      /\ uiSubStringEnd = NodeSubEnd(stack, Len(stack))
  BY <1>1, RunFacts
<1>3. /\ f.op = callee /\ f.beg = uiOffset /\ f.len = 0 /\ f.k = k
      /\ f.subBeg = uiSubStringBeg /\ f.subEnd = uiSubStringEnd
  BY DEF NewFrame
<1>4. f \in Frame
  BY <1>1, <1>2 DEF NewFrame, Frame, Positions
<1>5. FrameOK(f)
  BY <1>1, <1>2, <1>3, <1>4 DEF FrameOK, Positions
<1>6. Fits(stack, f)
  BY <1>1, <1>2, <1>3, <1>5 DEF Fits, IsLookBack, Positions
<1>7. /\ ChildBeg(f) = uiOffset
      /\ ChildSubBeg(f) = IF Opcode(callee).id \in LookBackIds THEN uiOffset ELSE uiSubStringBeg
      /\ ChildSubEnd(f) = IF Opcode(callee).id \in LookBackIds THEN uiOffset ELSE uiSubStringEnd
  BY <1>2, <1>3 DEF ChildBeg, ChildSubBeg, ChildSubEnd, IsLookBack, Positions
<1> QED
  BY <1>2, <1>6, <1>7, PushStack

LEMMA Disjoint ==
  /\ \A id \in ListIds \cup {"REP"} \cup LookAheadIds \cup {"RNM"} : id \notin LookBackIds
  /\ \A id \in ListIds \cup {"REP"} \cup LookAheadIds \cup {"RNM"} \cup TerminalIds : id \notin NoMapIds
  /\ {"REP"} \cup LookAheadIds \cup LookBackIds = NextIds
  /\ \A id \in NextIds \cup {"RNM"} : id \notin ListIds
  /\ {"ALT", "CAT"} = ListIds
BY DEF ListIds, LookAheadIds, LookBackIds, TerminalIds, NoMapIds, NextIds

LEMMA PredictStep ==
  ASSUME Contract, IInv, Predict
  PROVE  IInv'
<1>1. pc = "call" /\ Opcode(callee).id \notin NoMapIds
  BY Disjoint DEF Predict, Calling
<1> DEFINE v == PpptState(callee)
<1>2. v \in PpptValues /\ v # "ACTIVE" /\ (v = "MATCH" => uiOffset < uiSubStringEnd)
  BY <1>1, PpptFacts DEF Predict, Undecided
<1>3. LeafReturn(PpptResult(v), PpptLength(v))
  BY DEF Predict
<1>4. /\ PpptLength(v) \in Nat
      /\ PpptResult(v) \in {"MATCH", "NOMATCH"}
      /\ PpptResult(v) = "NOMATCH" => PpptLength(v) = 0
      /\ PpptLength(v) = 1 => v = "MATCH"
      /\ PpptLength(v) \in {0, 1}
  BY <1>2 DEF PpptResult, PpptLength, PpptValues
<1>5. uiOffset + PpptLength(v) =< uiSubStringEnd
  BY <1>1, <1>2, <1>4, CallFacts, RunFacts DEF Positions
<1> QED
  BY <1>1, <1>3, <1>4, <1>5, LeafStep

LEMMA AltOpenStep ==
  ASSUME Contract, IInv, AltOpen
  PROVE  IInv'
<1>1. pc = "call" /\ Opcode(callee).id = "ALT"
  BY DEF AltOpen, Calling
<1>2. Opcode(callee).id \in ListIds /\ Opcode(callee).id \notin LookBackIds
  BY <1>1, Disjoint DEF ListIds
<1>3. Parsing /\ 1 \in 1..Len(Opcode(callee).kids) /\ Opcode(callee).kids[1] \in 0..Len(grammar.ops)
  BY <1>1, <1>2, CallFacts
<1>4. Positions
  BY <1>3, RunFacts
<1>5. SideOK'
  BY <1>3, RunFacts, DepthSteps DEF AltOpen, SideOK
<1>6. /\ UNCHANGED <<app, parse, sub, uiOffset, uiPhraseLength>>
      /\ uiOpState' = "ACTIVE"
      /\ Call(Append(stack, NewFrame(1)), Opcode(callee).kids[1])
  BY DEF AltOpen
<1> QED
  BY <1>1, <1>2, <1>3, <1>4, <1>5, <1>6, Opened, CallStep DEF Call, sub, Positions

LEMMA CatOpenStep ==
  ASSUME Contract, IInv, CatOpen
  PROVE  IInv'
<1>1. pc = "call" /\ Opcode(callee).id = "CAT"
  BY DEF CatOpen, Calling
<1>2. Opcode(callee).id \in ListIds /\ Opcode(callee).id \notin LookBackIds
  BY <1>1, Disjoint DEF ListIds
<1>3. Parsing /\ 1 \in 1..Len(Opcode(callee).kids) /\ Opcode(callee).kids[1] \in 0..Len(grammar.ops)
  BY <1>1, <1>2, CallFacts
<1>4. Positions
  BY <1>3, RunFacts
<1>5. AST_OP_OPEN(ast, uiInLookaround) \in AstSet /\ ~AST_OP_OPEN(ast, uiInLookaround).error
  BY <1>3, RunFacts, OpenHook
<1>6. SideOK'
  BY <1>3, <1>5, RunFacts, DepthSteps DEF CatOpen, SideOK
<1>7. /\ UNCHANGED <<app, parse, sub, uiOffset, uiPhraseLength>>
      /\ uiOpState' = "ACTIVE"
      /\ Call(Append(stack, NewFrame(1)), Opcode(callee).kids[1])
  BY DEF CatOpen
<1> QED
  BY <1>1, <1>2, <1>3, <1>4, <1>6, <1>7, Opened, CallStep DEF Call, sub, Positions

LEMMA RepOpenStep ==
  ASSUME Contract, IInv, RepOpen
  PROVE  IInv'
<1>1. pc = "call" /\ Opcode(callee).id = "REP"
  BY DEF RepOpen, Calling
<1>2. Opcode(callee).id \in NextIds /\ Opcode(callee).id \notin LookBackIds
      /\ Opcode(callee).id \notin ListIds
  BY <1>1, Disjoint DEF ListIds
<1>3. Parsing /\ callee + 1 \in 0..Len(grammar.ops)
  BY <1>1, <1>2, CallFacts
<1>4. Positions
  BY <1>3, RunFacts
<1> DEFINE a == AST_OP_OPEN(ast, uiInLookaround)
<1>5. a \in AstSet /\ ~a.error
  BY <1>3, RunFacts, OpenHook
<1>6. AST_OP_OPEN(a, uiInLookaround) \in AstSet /\ ~AST_OP_OPEN(a, uiInLookaround).error
  BY <1>5, OpenHook
<1>7. SideOK'
  BY <1>3, <1>6, RunFacts, DepthSteps DEF RepOpen, SideOK
<1>8. /\ UNCHANGED <<app, parse, sub, uiOffset, uiPhraseLength>>
      /\ uiOpState' = "ACTIVE"
      /\ Call(Append(stack, NewFrame(0)), callee + 1)
  BY DEF RepOpen
<1> QED
  BY <1>1, <1>2, <1>3, <1>4, <1>7, <1>8, Opened, CallStep DEF Call, sub, Positions

LEMMA LookAheadOpenStep ==
  ASSUME Contract, IInv, LookAheadOpen
  PROVE  IInv'
<1>1. pc = "call" /\ Opcode(callee).id \in LookAheadIds
  BY DEF LookAheadOpen, Calling
<1>2. Opcode(callee).id \in NextIds /\ Opcode(callee).id \notin LookBackIds
      /\ Opcode(callee).id \notin ListIds
  BY <1>1, Disjoint
<1>3. Parsing /\ callee + 1 \in 0..Len(grammar.ops)
  BY <1>1, <1>2, CallFacts
<1>4. Positions
  BY <1>3, RunFacts
<1>5. AST_OP_OPEN(ast, uiInLookaround) \in AstSet /\ ~AST_OP_OPEN(ast, uiInLookaround).error
  BY <1>3, RunFacts, OpenHook
<1>6. uiInLookaround' \in Nat
  BY <1>3, RunFacts, CounterSteps DEF LookAheadOpen
<1>7. SideOK'
  BY <1>3, <1>5, <1>6, RunFacts, DepthSteps DEF LookAheadOpen, SideOK
<1>8. /\ UNCHANGED <<app, parse, sub, phrase>>
      /\ Call(Append(stack, NewFrame(0)), callee + 1)
  BY DEF LookAheadOpen
<1>9. uiOpState \in {"ACTIVE", "MATCH", "NOMATCH"}
  BY DEF IInv, TypeOK
<1> QED
  BY <1>1, <1>2, <1>3, <1>4, <1>7, <1>8, <1>9, Opened, CallStep DEF Call, sub, phrase, Positions

LEMMA LookBackOpenStep ==
  ASSUME Contract, IInv, LookBackOpen
  PROVE  IInv'
<1>1. pc = "call" /\ Opcode(callee).id \in LookBackIds
  BY DEF LookBackOpen, Calling
<1>2. Opcode(callee).id \in NextIds /\ Opcode(callee).id \notin ListIds
  BY <1>1, Disjoint
<1>3. Parsing /\ callee + 1 \in 0..Len(grammar.ops)
  BY <1>1, <1>2, CallFacts
<1>4. Positions
  BY <1>3, RunFacts
<1>5. AST_OP_OPEN(ast, uiInLookaround) \in AstSet /\ ~AST_OP_OPEN(ast, uiInLookaround).error
  BY <1>3, RunFacts, OpenHook
<1>6. uiInLookaround' \in Nat
  BY <1>3, RunFacts, CounterSteps DEF LookBackOpen
<1>7. SideOK'
  BY <1>3, <1>5, <1>6, RunFacts, DepthSteps DEF LookBackOpen, SideOK
<1>8. /\ UNCHANGED <<app, parse, phrase>>
      /\ uiSubStringBeg' = uiOffset /\ uiSubStringEnd' = uiOffset
      /\ Call(Append(stack, NewFrame(0)), callee + 1)
  BY DEF LookBackOpen
<1>9. uiOpState \in {"ACTIVE", "MATCH", "NOMATCH"}
  BY DEF IInv, TypeOK
<1> QED
  BY <1>1, <1>2, <1>3, <1>4, <1>7, <1>8, <1>9, Opened, CallStep DEF Call, phrase, Positions

-----------------------------------------------------------------------------
(* A child has returned.                                                   *)

\* The operator on top of the stack returns in its turn.
LEMMA Closed ==
  ASSUME Contract, IInv, pc = "return", stack # << >>, UNCHANGED <<app, parse>>,
         NEW a \in AstSet, NEW state \in {"MATCH", "NOMATCH"}, NEW offset, NEW length \in Nat,
         Finish(Pop(stack), a, state, offset, length),
         offset = Top(stack).beg + length, state = "NOMATCH" => length = 0,
         offset =< Top(stack).subEnd,
         uiSubStringBeg' = Top(stack).subBeg, uiSubStringEnd' = Top(stack).subEnd,
         DepthOK', uiInLookaround' \in Nat, sCBData' \in CallbackDataSet
  PROVE  IInv'
<1> DEFINE f == Top(stack)
<1>1. Parsing /\ StackOK(Pop(stack)) /\ Fits(Pop(stack), f)
  BY ReturnFacts
<1>2. /\ f.beg = NodeBeg(Pop(stack), Len(Pop(stack)))
      /\ f.subBeg = NodeSubBeg(Pop(stack), Len(Pop(stack)))
      /\ f.subEnd = NodeSubEnd(Pop(stack), Len(Pop(stack)))
  BY <1>1 DEF Fits
<1>3. Returned(Pop(stack), state, offset, length)
  BY <1>2 DEF Returned
<1> QED
  BY <1>1, <1>2, <1>3, FinishStep

\* An operator that is not a look-behind runs its children in its own sub-string.
LEMMA Ordinary ==
  ASSUME Contract, IInv, pc = "return", stack # << >>,
         Opcode(Top(stack).op).id \notin LookBackIds
  PROVE  /\ uiSubStringBeg = Top(stack).subBeg /\ uiSubStringEnd = Top(stack).subEnd
         /\ uiOffset = uiPhraseLength +
              IF Opcode(Top(stack).op).id \in {"CAT", "REP"} THEN Top(stack).beg + Top(stack).len
                                                           ELSE Top(stack).beg
         /\ uiOffset =< Top(stack).subEnd
         /\ Top(stack).beg =< Top(stack).subEnd
         /\ Top(stack).beg + Top(stack).len =< Top(stack).subEnd
<1> DEFINE f == Top(stack)
<1>1. /\ Parsing /\ Fits(Pop(stack), f)
      /\ f.beg \in Nat /\ f.len \in Nat
      /\ uiOffset = ChildBeg(f) + uiPhraseLength
      /\ uiSubStringBeg = ChildSubBeg(f)
      /\ uiSubStringEnd = ChildSubEnd(f)
  BY ReturnFacts
<1>2. Positions
  BY <1>1, RunFacts
<1> QED
  BY <1>1, <1>2 DEF ChildBeg, ChildSubBeg, ChildSubEnd, IsLookBack, Fits, Positions

\* An operator goes on with another child.
LEMMA Advanced ==
  ASSUME Contract, IInv, pc = "return", stack # << >>,
         NEW g \in Frame, g.op = Top(stack).op, g.beg = Top(stack).beg,
         g.subBeg = Top(stack).subBeg, g.subEnd = Top(stack).subEnd,
         Opcode(Top(stack).op).id \in ListIds => g.k \in 1..Len(Opcode(Top(stack).op).kids),
         IF Opcode(Top(stack).op).id \in LookBackIds THEN g.k =< Top(stack).beg
           ELSE Top(stack).beg + g.len =< Top(stack).subEnd
  PROVE  LET s == Append(Pop(stack), g) IN
         /\ StackOK(s)
         /\ NodeBeg(s, Len(s)) = ChildBeg(g)
         /\ NodeSubBeg(s, Len(s)) = uiSubStringBeg
         /\ NodeSubEnd(s, Len(s)) = uiSubStringEnd
<1> DEFINE f == Top(stack)
<1>1. /\ Parsing /\ StackOK(Pop(stack)) /\ Fits(Pop(stack), f) /\ f \in Frame
      /\ uiSubStringBeg = ChildSubBeg(f)
      /\ uiSubStringEnd = ChildSubEnd(f)
  BY ReturnFacts
<1>3. FrameOK(g)
  BY <1>1 DEF Fits, FrameOK
<1>4. Fits(Pop(stack), g)
  BY <1>1, <1>3 DEF Fits, IsLookBack
<1>5. ChildSubBeg(g) = ChildSubBeg(f) /\ ChildSubEnd(g) = ChildSubEnd(f)
  BY DEF ChildSubBeg, ChildSubEnd, IsLookBack
<1> QED
  BY <1>1, <1>4, <1>5, PushStack

LEMMA AltNextStep ==
  ASSUME Contract, IInv, AltNext
  PROVE  IInv'
<1> DEFINE f == Top(stack)
           kids == Opcode(f.op).kids
<1>1. pc = "return" /\ stack # << >> /\ Opcode(f.op).id = "ALT"
  BY DEF AltNext, Returning
<1>2. Opcode(f.op).id \in ListIds /\ Opcode(f.op).id \notin LookBackIds
  BY <1>1, Disjoint DEF ListIds
<1>3. /\ Parsing /\ f \in Frame /\ f.beg \in Nat /\ f.len \in Nat /\ f.k \in Nat
      /\ uiOpState \in {"MATCH", "NOMATCH"}
      /\ uiOpState = "NOMATCH" => uiPhraseLength = 0
      /\ \A k \in 1..Len(kids) : kids[k] \in 0..Len(grammar.ops)
      /\ Len(kids) \in Nat
  BY <1>1, <1>2, ReturnFacts
<1>4. /\ uiSubStringBeg = f.subBeg /\ uiSubStringEnd = f.subEnd
      /\ uiOffset = uiPhraseLength + f.beg
      /\ uiOffset =< f.subEnd
      /\ f.beg + f.len =< f.subEnd
  BY <1>1, <1>2, Ordinary
<1>5. /\ UNCHANGED <<app, parse, sub>> /\ uiInLookaround' = uiInLookaround /\ sCBData' = sCBData
  BY DEF AltNext
<1>6. Positions /\ DepthOK /\ uiInLookaround \in Nat /\ sCBData \in CallbackDataSet
      /\ ast \in AstSet /\ ~ast.error /\ spState \in StateSet
  BY <1>3, RunFacts
<1>7. CASE OpReturn(ast, uiOpState, uiOffset, uiPhraseLength)
  <2>1. Finish(Pop(stack), ast, uiOpState, uiOffset, uiPhraseLength) /\ DepthOK'
    BY <1>6, <1>7, DepthSteps DEF OpReturn
  <2>2. uiPhraseLength \in Nat /\ uiOffset = f.beg + uiPhraseLength
    BY <1>3, <1>4, <1>6 DEF Positions
  <2> QED
    BY <1>1, <1>3, <1>4, <1>5, <1>6, <2>1, <2>2, Closed DEF sub
<1>8. CASE /\ uiOpState # "MATCH" /\ f.k < Len(kids)
           /\ uiOpState' = "ACTIVE"
           /\ Call(Append(Pop(stack), NextTry(f)), kids[f.k + 1])
           /\ UNCHANGED <<depth, uiOffset, uiPhraseLength, ast, spState>>
  <2> DEFINE g == NextTry(f)
  <2>1. f.k + 1 \in 1..Len(kids) /\ f.k + 1 \in Nat
    BY <1>3, <1>8
  <2>2. /\ g \in Frame /\ g.op = f.op /\ g.beg = f.beg /\ g.len = f.len /\ g.k = f.k + 1
        /\ g.subBeg = f.subBeg /\ g.subEnd = f.subEnd
    BY <1>3, <2>1 DEF NextTry, Frame
  <2>3. /\ StackOK(stack')
        /\ NodeBeg(stack', Len(stack')) = ChildBeg(g)
        /\ NodeSubBeg(stack', Len(stack')) = uiSubStringBeg
        /\ NodeSubEnd(stack', Len(stack')) = uiSubStringEnd
    BY <1>1, <1>2, <1>3, <1>4, <1>8, <2>1, <2>2, Advanced DEF Call
  <2>5. ChildBeg(g) = f.beg
    BY <1>1, <1>2, <2>2 DEF ChildBeg, IsLookBack
  <2>6. uiOffset = f.beg
    BY <1>3, <1>4, <1>8
  <2>7. SideOK'
    BY <1>5, <1>6, <1>8 DEF SideOK, DepthOK, depth
  <2> QED
    BY <1>3, <1>5, <1>6, <1>8, <2>1, <2>3, <2>5, <2>6, <2>7, CallStep DEF Call, sub, Positions
<1> QED
  BY <1>7, <1>8 DEF AltNext

LEMMA CatNextStep ==
  ASSUME Contract, IInv, CatNext
  PROVE  IInv'
<1> DEFINE f == Top(stack)
           kids == Opcode(f.op).kids
           len == Plus(f.len, uiPhraseLength)
           a == AST_OP_CLOSE(ast, uiInLookaround, uiOpState)
<1>1. pc = "return" /\ stack # << >> /\ Opcode(f.op).id = "CAT"
  BY DEF CatNext, Returning
<1>2. Opcode(f.op).id \in ListIds /\ Opcode(f.op).id \notin LookBackIds
  BY <1>1, Disjoint DEF ListIds
<1>3. /\ Parsing /\ f \in Frame /\ f.beg \in Nat /\ f.len \in Nat /\ f.k \in Nat
      /\ uiOpState \in {"MATCH", "NOMATCH"}
      /\ uiOpState = "NOMATCH" => uiPhraseLength = 0
      /\ \A k \in 1..Len(kids) : kids[k] \in 0..Len(grammar.ops)
      /\ Len(kids) \in Nat
  BY <1>1, <1>2, ReturnFacts
<1>4. /\ uiSubStringBeg = f.subBeg /\ uiSubStringEnd = f.subEnd
      /\ uiOffset = uiPhraseLength + (f.beg + f.len)
      /\ uiOffset =< f.subEnd
      /\ f.beg =< f.subEnd
  BY <1>1, <1>2, Ordinary
<1>5. /\ UNCHANGED <<app, parse, sub>> /\ uiInLookaround' = uiInLookaround /\ sCBData' = sCBData
  BY DEF CatNext
<1>6. Positions /\ DepthOK /\ uiInLookaround \in Nat /\ sCBData \in CallbackDataSet
      /\ ast \in AstSet /\ ~ast.error /\ spState \in StateSet
  BY <1>3, RunFacts
<1>7. a \in AstSet
  BY <1>6, CloseHook
<1>8. len \in Nat /\ uiPhraseLength \in Nat /\ uiOffset = f.beg + len
  <2>1. f.len + uiPhraseLength =< uiInputStringLength /\ uiPhraseLength \in Nat
    BY <1>3, <1>4, <1>6 DEF Positions
  <2>2. len = f.len + uiPhraseLength
    BY <1>3, <1>6, <2>1, NoWrap
  <2> QED
    BY <1>3, <1>4, <1>6, <2>1, <2>2 DEF Positions
<1>9. CASE /\ uiOpState = "NOMATCH"
           /\ OpReturn(AST_OP_CLOSE(ast, uiInLookaround, "NOMATCH"), "NOMATCH", f.beg, uiPhraseLength)
  <2>1. Finish(Pop(stack), a, uiOpState, f.beg, 0) /\ DepthOK'
    BY <1>3, <1>6, <1>9, DepthSteps DEF OpReturn
  <2>2. f.beg = f.beg + 0
    BY <1>3
  <2> QED
    BY <1>1, <1>3, <1>4, <1>5, <1>6, <1>7, <2>1, <2>2, Closed DEF sub
<1>10. CASE /\ uiOpState # "NOMATCH" /\ f.k = Len(kids)
            /\ OpReturn(a, uiOpState, uiOffset, len)
  <2>1. Finish(Pop(stack), a, uiOpState, uiOffset, len) /\ DepthOK'
    BY <1>6, <1>10, DepthSteps DEF OpReturn
  <2> QED
    BY <1>1, <1>3, <1>4, <1>5, <1>6, <1>7, <1>8, <1>10, <2>1, Closed DEF sub
<1>11. CASE /\ uiOpState # "NOMATCH" /\ f.k < Len(kids)
            /\ uiOpState' = "ACTIVE"
            /\ Call(Append(Pop(stack), [f EXCEPT !.k = @ + 1, !.len = len]), kids[f.k + 1])
            /\ UNCHANGED <<depth, uiOffset, uiPhraseLength, ast, spState>>
  <2> DEFINE g == [f EXCEPT !.k = @ + 1, !.len = len]
  <2>1. f.k + 1 \in 1..Len(kids) /\ f.k + 1 \in Nat
    BY <1>3, <1>11
  <2>2. /\ g \in Frame /\ g.op = f.op /\ g.beg = f.beg /\ g.len = len /\ g.k = f.k + 1
        /\ g.subBeg = f.subBeg /\ g.subEnd = f.subEnd
    BY <1>3, <1>8, <2>1 DEF Frame
  <2>3. /\ StackOK(stack')
        /\ NodeBeg(stack', Len(stack')) = ChildBeg(g)
        /\ NodeSubBeg(stack', Len(stack')) = uiSubStringBeg
        /\ NodeSubEnd(stack', Len(stack')) = uiSubStringEnd
    BY <1>1, <1>2, <1>4, <1>8, <1>11, <2>1, <2>2, Advanced DEF Call
  <2>4. ChildBeg(g) = uiOffset
    BY <1>1, <1>2, <1>8, <2>2 DEF ChildBeg, IsLookBack
  <2>5. SideOK'
    BY <1>5, <1>6, <1>11 DEF SideOK, DepthOK, depth
  <2> QED
    BY <1>3, <1>5, <1>6, <1>11, <2>1, <2>3, <2>4, <2>5, CallStep DEF Call, sub, Positions
<1> QED
  BY <1>9, <1>10, <1>11 DEF CatNext

\* REP returns with what its repetitions matched, or with nothing.
LEMMA RepDone ==
  ASSUME Contract, IInv, pc = "return", stack # << >>, Opcode(Top(stack).op).id = "REP",
         UNCHANGED <<app, parse, sub>>, uiInLookaround' = uiInLookaround, sCBData' = sCBData,
         NEW a \in AstSet, NEW state \in {"MATCH", "NOMATCH"}, NEW length \in Nat,
         OpReturn(AST_OP_CLOSE(a, uiInLookaround, state), state, Plus(Top(stack).beg, length), length),
         state = "NOMATCH" => length = 0,
         Top(stack).beg + length =< Top(stack).subEnd
  PROVE  IInv'
<1> DEFINE f == Top(stack)
           b == AST_OP_CLOSE(a, uiInLookaround, state)
<1>1. Opcode(f.op).id \notin LookBackIds
  BY Disjoint
<1>2. Parsing
  BY ReturnFacts
<1>3. uiSubStringBeg = f.subBeg /\ uiSubStringEnd = f.subEnd
  BY <1>1, Ordinary
<1>4. DepthOK /\ uiInLookaround \in Nat /\ sCBData \in CallbackDataSet
  BY <1>2, RunFacts
<1>5. b \in AstSet
  BY CloseHook
<1>6. Finish(Pop(stack), b, state, Plus(f.beg, length), length) /\ DepthOK'
  BY <1>4, DepthSteps DEF OpReturn
<1>7. Plus(f.beg, length) = f.beg + length
  <2>1. f.beg \in Nat /\ f.beg + length =< uiInputStringLength /\ Positions
    BY <1>2, <1>3, ReturnFacts, RunFacts DEF Positions
  <2> QED
    BY <2>1, NoWrap
<1> QED
  BY <1>3, <1>4, <1>5, <1>6, <1>7, Closed DEF sub

LEMMA RepNextStep ==
  ASSUME Contract, IInv, RepNext
  PROVE  IInv'
<1> DEFINE f == Top(stack)
           o == Opcode(f.op)
           a == AST_OP_CLOSE(ast, uiInLookaround, uiOpState)
           len == Plus(f.len, uiPhraseLength)
           Done(state, length) ==
             OpReturn(AST_OP_CLOSE(a, uiInLookaround, state), state, Plus(f.beg, length), length)
<1>1. pc = "return" /\ stack # << >> /\ Opcode(f.op).id = "REP"
  BY DEF RepNext, Returning
<1>2. Opcode(f.op).id \in NextIds /\ Opcode(f.op).id \notin LookBackIds
      /\ Opcode(f.op).id \notin ListIds
  BY <1>1, Disjoint DEF ListIds
<1>3. /\ Parsing /\ f \in Frame /\ f.beg \in Nat /\ f.len \in Nat /\ f.k \in Nat
      /\ uiOpState \in {"MATCH", "NOMATCH"}
      /\ f.op + 1 \in 0..Len(grammar.ops)
  BY <1>1, <1>2, ReturnFacts
<1>4. /\ uiSubStringBeg = f.subBeg /\ uiSubStringEnd = f.subEnd
      /\ uiOffset = uiPhraseLength + (f.beg + f.len)
      /\ uiOffset =< f.subEnd
      /\ f.beg =< f.subEnd
      /\ f.beg + f.len =< f.subEnd
  BY <1>1, <1>2, Ordinary
<1>5. /\ UNCHANGED <<app, parse, sub>> /\ uiInLookaround' = uiInLookaround /\ sCBData' = sCBData
  BY DEF RepNext
<1>6. Positions /\ DepthOK /\ uiInLookaround \in Nat /\ sCBData \in CallbackDataSet
      /\ ast \in AstSet /\ ~ast.error /\ spState \in StateSet
  BY <1>3, RunFacts
<1>7. a \in AstSet
  BY <1>6, CloseHook
<1>8. len \in Nat /\ uiPhraseLength \in Nat /\ uiOffset = f.beg + len
  <2>1. f.len + uiPhraseLength =< uiInputStringLength /\ uiPhraseLength \in Nat
    BY <1>3, <1>4, <1>6 DEF Positions
  <2>2. len = f.len + uiPhraseLength
    BY <1>3, <1>6, <2>1, NoWrap
  <2> QED
    BY <1>3, <1>4, <1>6, <2>1, <2>2 DEF Positions
<1>9. CASE Done("MATCH", f.len)
  BY <1>1, <1>3, <1>4, <1>5, <1>7, <1>9, RepDone
<1>10. CASE Done("NOMATCH", 0)
  <2>1. f.beg + 0 =< f.subEnd
    BY <1>3, <1>4
  <2> QED
    BY <1>1, <1>5, <1>7, <1>10, <2>1, RepDone
<1>11. CASE Done("MATCH", len)
  BY <1>1, <1>4, <1>5, <1>7, <1>8, <1>11, RepDone
<1> DEFINE g == [f EXCEPT !.k = @ + 1, !.len = len]
           b == AST_OP_OPEN(a, uiInLookaround)
<1>12. CASE Continue(Append(Pop(stack), g), f.op + 1, b) /\ UNCHANGED <<depth, phrase>>
            /\ uiOpState = "MATCH"
  <2>1. /\ g \in Frame /\ g.op = f.op /\ g.beg = f.beg /\ g.len = len /\ g.k = f.k + 1
        /\ g.subBeg = f.subBeg /\ g.subEnd = f.subEnd
    <3>1. f.k + 1 \in Nat
      BY <1>3
    <3> QED
      BY <1>3, <1>8, <3>1 DEF Frame
  <2>2. b \in AstSet
    BY <1>7, OpenHook
  <2>3. /\ uiOffset' = uiOffset /\ uiPhraseLength' = uiPhraseLength /\ uiOpState' = uiOpState
        /\ uiSubStringBeg' = uiSubStringBeg /\ uiSubStringEnd' = uiSubStringEnd
        /\ DepthOK'
    BY <1>5, <1>6, <1>12 DEF sub, phrase, depth, DepthOK
  <2>4. CASE b.error
    <3>1. Throw("ast", b)
      BY <1>12, <2>4 DEF Continue
    <3>2. SideOK'
      BY <1>5, <1>6, <2>2, <2>3, <3>1, ThrownState DEF Throw, SideOK
    <3> QED
      BY <1>3, <1>5, <1>6, <2>3, <3>1, <3>2, ThrowStep DEF Throw, Positions
  <2>5. CASE ~b.error
    <3>1. Call(Append(Pop(stack), g), f.op + 1) /\ ast' = b /\ spState' = spState
      BY <1>12, <2>5 DEF Continue
    <3>2. /\ StackOK(stack')
          /\ NodeBeg(stack', Len(stack')) = ChildBeg(g)
          /\ NodeSubBeg(stack', Len(stack')) = uiSubStringBeg
          /\ NodeSubEnd(stack', Len(stack')) = uiSubStringEnd
      BY <1>1, <1>2, <1>4, <1>8, <2>1, <3>1, Advanced DEF Call
    <3>3. ChildBeg(g) = uiOffset
      BY <1>1, <1>2, <1>3, <1>8, <2>1 DEF ChildBeg, IsLookBack
    <3>4. SideOK'
      BY <1>5, <1>6, <2>2, <2>3, <2>5, <3>1 DEF SideOK
    <3> QED
      BY <1>3, <1>5, <1>6, <1>12, <2>3, <3>1, <3>2, <3>3, <3>4, CallStep DEF Call, Positions
  <2> QED
    BY <2>4, <2>5
<1>13. \/ Done("MATCH", f.len) \/ Done("NOMATCH", 0) \/ Done("MATCH", len)
       \/ /\ Continue(Append(Pop(stack), g), f.op + 1, b) /\ UNCHANGED <<depth, phrase>>
          /\ uiOpState = "MATCH"
  BY DEF RepNext
<1> QED
  BY <1>9, <1>10, <1>11, <1>12, <1>13

LEMMA LookAheadCloseStep ==
  ASSUME Contract, IInv, LookAheadClose
  PROVE  IInv'
<1> DEFINE f == Top(stack)
           state == IF Opcode(f.op).id = "NOT" THEN Negate(uiOpState) ELSE uiOpState
           a == AST_OP_CLOSE(ast, uiInLookaround', state)
<1>1. pc = "return" /\ stack # << >> /\ Opcode(f.op).id \in LookAheadIds
  BY DEF LookAheadClose, Returning
<1>2. Opcode(f.op).id \notin LookBackIds
  BY <1>1, Disjoint
<1>3. /\ Parsing /\ f.beg \in Nat
      /\ uiOpState \in {"MATCH", "NOMATCH"}
  BY <1>1, ReturnFacts
<1>4. /\ uiSubStringBeg = f.subBeg /\ uiSubStringEnd = f.subEnd /\ f.beg =< f.subEnd
  BY <1>1, <1>2, Ordinary
<1>5. /\ UNCHANGED <<app, parse, sub>> /\ sCBData' = sCBData /\ LeaveLookaround
      /\ OpReturn(a, state, f.beg, 0)
  BY DEF LookAheadClose
<1>6. DepthOK /\ uiInLookaround \in Nat /\ sCBData \in CallbackDataSet /\ ast \in AstSet
  BY <1>3, RunFacts
<1>7. uiInLookaround' \in Nat
  BY <1>5, <1>6, CounterSteps DEF LeaveLookaround
<1>8. a \in AstSet
  BY <1>6, CloseHook
<1>9. state \in {"MATCH", "NOMATCH"}
  BY <1>3 DEF Negate
<1>10. Finish(Pop(stack), a, state, f.beg, 0) /\ DepthOK'
  BY <1>5, <1>6, DepthSteps DEF OpReturn
<1>11. f.beg = f.beg + 0
  BY <1>3
<1> QED
  BY <1>1, <1>4, <1>5, <1>6, <1>7, <1>8, <1>9, <1>10, <1>11, Closed DEF sub

LEMMA LookBackFrame ==
  ASSUME Contract, IInv, Returning(LookBackIds)
  PROVE  /\ pc = "return" /\ stack # << >> /\ Parsing
         /\ Opcode(Top(stack).op).id \in LookBackIds
         /\ Top(stack) \in Frame /\ Top(stack).beg \in Nat /\ Top(stack).k \in Nat
         /\ Top(stack).k =< Top(stack).beg
         /\ Top(stack).beg =< Top(stack).subEnd
         /\ Top(stack).subBeg \in Nat /\ Top(stack).subEnd \in Nat
         /\ Top(stack).op + 1 \in 0..Len(grammar.ops)
<1>1. pc = "return" /\ stack # << >> /\ Opcode(Top(stack).op).id \in LookBackIds
  BY DEF Returning
<1>2. Opcode(Top(stack).op).id \in NextIds
  BY <1>1, Disjoint
<1> QED
  BY <1>1, <1>2, ReturnFacts DEF Fits, IsLookBack

LEMMA LookBackAgainStep ==
  ASSUME Contract, IInv, LookBackAgain
  PROVE  IInv'
<1> DEFINE f == Top(stack)
           g == NextTry(f)
<1>1. /\ pc = "return" /\ stack # << >> /\ Parsing
      /\ Opcode(f.op).id \in LookBackIds
      /\ f \in Frame /\ f.beg \in Nat /\ f.k \in Nat
      /\ f.op + 1 \in 0..Len(grammar.ops)
  BY LookBackFrame DEF LookBackAgain
<1>2. /\ f.k < LookBackLimit(f)
      /\ uiOffset' = f.beg - (f.k + 1)
      /\ Call(Append(Pop(stack), g), f.op + 1)
      /\ UNCHANGED <<app, parse, sub, depth, uiPhraseLength, uiOpState, uiInLookaround,
                     sCBData, ast, spState>>
  BY DEF LookBackAgain
<1>3. /\ Positions /\ DepthOK /\ uiInLookaround \in Nat /\ sCBData \in CallbackDataSet
      /\ ast \in AstSet /\ ~ast.error /\ spState \in StateSet
  BY <1>1, RunFacts
<1>4. uiLookBehindLength \in Nat /\ uiOpState \in {"ACTIVE", "MATCH", "NOMATCH"}
  BY DEF IInv, TypeOK
<1>5. f.k + 1 \in Nat /\ f.k + 1 =< f.beg
  BY <1>1, <1>2, <1>4 DEF LookBackLimit
<1>6. /\ g \in Frame /\ g.op = f.op /\ g.beg = f.beg /\ g.k = f.k + 1
      /\ g.subBeg = f.subBeg /\ g.subEnd = f.subEnd
  BY <1>1, <1>5 DEF NextTry, Frame
<1>7. Opcode(f.op).id \notin ListIds
  BY <1>1, Disjoint
<1>8. /\ StackOK(stack')
      /\ NodeBeg(stack', Len(stack')) = ChildBeg(g)
      /\ NodeSubBeg(stack', Len(stack')) = uiSubStringBeg
      /\ NodeSubEnd(stack', Len(stack')) = uiSubStringEnd
  BY <1>1, <1>2, <1>5, <1>6, <1>7, Advanced DEF Call
<1>9. ChildBeg(g) = uiOffset'
  BY <1>1, <1>2, <1>6 DEF ChildBeg, IsLookBack
<1>10. SideOK'
  BY <1>2, <1>3 DEF SideOK, DepthOK, depth
<1> QED
  BY <1>1, <1>2, <1>3, <1>4, <1>8, <1>9, <1>10, CallStep DEF Call, sub, Positions

LEMMA LookBackCloseStep ==
  ASSUME Contract, IInv, LookBackClose
  PROVE  IInv'
<1> DEFINE f == Top(stack)
           found == uiOpState = "MATCH" /\ uiPhraseLength = f.k
           behind == IF found THEN "MATCH" ELSE "NOMATCH"
           state == IF Opcode(f.op).id = "BKN" THEN Negate(behind) ELSE behind
           a == AST_OP_CLOSE(ast, uiInLookaround', state)
<1>1. /\ pc = "return" /\ stack # << >> /\ Parsing
      /\ f.beg \in Nat /\ f.beg =< f.subEnd
  BY LookBackFrame DEF LookBackClose
<1>2. /\ LeaveLookaround /\ RestoreSubString(f) /\ LookBackDepth
      /\ Finish(Pop(stack), a, state, f.beg, 0)
      /\ UNCHANGED <<app, parse, sCBData>>
  BY DEF LookBackClose
<1>3. DepthOK /\ uiInLookaround \in Nat /\ sCBData \in CallbackDataSet /\ ast \in AstSet
  BY <1>1, RunFacts
<1>4. uiInLookaround' \in Nat /\ DepthOK'
  BY <1>2, <1>3, CounterSteps, DepthSteps DEF LeaveLookaround
<1>5. a \in AstSet
  BY <1>3, CloseHook
<1>6. state \in {"MATCH", "NOMATCH"}
  BY DEF Negate
<1>7. f.beg = f.beg + 0
  BY <1>1
<1> QED
  BY <1>1, <1>2, <1>3, <1>4, <1>5, <1>6, <1>7, Closed DEF RestoreSubString

LEMMA MatchTerminalStep ==
  ASSUME Contract, IInv, MatchTerminal
  PROVE  IInv'
<1> DEFINE o == Opcode(callee)
<1>1. pc = "call" /\ o.id \in TerminalIds
  BY DEF MatchTerminal, Calling
<1>2. o \in OpcodeSet /\ Parsing
  BY <1>1, CallFacts
<1>3. Positions
  BY <1>2, RunFacts
<1>4. CASE Terminal(o) /\ LeafReturn("MATCH", TerminalLength(o))
  <2>1. Len(o.str) \in Nat
    BY <1>2, LenProperties DEF OpcodeSet
  <2>2. TerminalLength(o) \in Nat /\ uiOffset + TerminalLength(o) =< uiSubStringEnd
    BY <1>3, <1>4, <2>1 DEF Terminal, TerminalLength, StringAt, Positions
  <2> QED
    BY <1>1, <1>4, <2>2, LeafStep
<1>5. CASE ~Terminal(o) /\ LeafReturn("NOMATCH", 0)
  <2>1. uiOffset + 0 =< uiSubStringEnd
    BY <1>3 DEF Positions
  <2> QED
    BY <1>1, <1>5, <2>1, LeafStep
<1> QED
  BY <1>4, <1>5 DEF MatchTerminal

LEMMA AnchorStep ==
  ASSUME Contract, IInv, Anchor
  PROVE  IInv'
<1>1. pc = "call"
  BY DEF Anchor, Calling
<1>2. Positions
  BY <1>1, CallFacts, RunFacts
<1>3. uiOffset + 0 =< uiSubStringEnd
  BY <1>2 DEF Positions
<1>4. PICK state \in {"MATCH", "NOMATCH"} : LeafReturn(state, 0)
  BY DEF Anchor
<1> QED
  BY <1>1, <1>3, <1>4, LeafStep

-----------------------------------------------------------------------------
(* Rules and UDTs.                                                         *)

LEMMA ShowStep ==
  ASSUME Positions, sCBData \in CallbackDataSet,
         NEW beg \in Nat, NEW state \in {"ACTIVE", "MATCH", "NOMATCH"}, NEW length \in Nat,
         ShowCallback(beg, state, length)
  PROVE  sCBData' \in CallbackDataSet
<1>1. Minus(beg, uiSubStringBeg) \in Nat
  BY DEF Minus, Positions
<1> QED
  BY <1>1 DEF ShowCallback, CallbackDataSet

\* Adding the length of an answer does not wrap around.
LEMMA PlusFacts ==
  ASSUME Contract, ConfigOK, Positions, NEW answer \in RnmResults \cup UdtResults,
         NEW beg \in Nat, beg =< uiInputStringLength
  PROVE  /\ answer.length \in Nat
         /\ Plus(beg, answer.length) = beg + answer.length
         /\ Plus(beg, 0) = beg
<1>1. answer.length \in Nat
  BY ParserAssumption DEF CallbackSet
<1>2. uiInputStringLength + answer.length =< APG_UNDEFINED
  BY DEF Contract, ConfigOK, uiInputStringLength
<1> QED
  BY <1>1, <1>2 DEF Plus, Positions

\* The phrase a rule callback answers for is inside the sub-string.
LEMMA AnswerFacts ==
  ASSUME Contract, ConfigOK, Positions, NEW answer \in RnmResults, NEW r,
         NEW beg \in Nat, beg =< uiSubStringEnd,
         ~RnmInvalid(r, beg, answer), answer.state # "ACTIVE"
  PROVE  /\ answer.state \in {"MATCH", "NOMATCH"}
         /\ AnswerLength(answer) \in Nat
         /\ answer.state = "NOMATCH" => AnswerLength(answer) = 0
         /\ Plus(beg, AnswerLength(answer)) = beg + AnswerLength(answer)
         /\ beg + AnswerLength(answer) =< uiSubStringEnd
<1>1. beg =< uiInputStringLength
  BY DEF Positions
<1>2. /\ answer.length \in Nat
      /\ Plus(beg, answer.length) = beg + answer.length
      /\ Plus(beg, 0) = beg
  BY <1>1, PlusFacts
<1>3. answer.state \in {"MATCH", "NOMATCH"} /\ beg + answer.length =< uiSubStringEnd
  BY <1>2 DEF RnmInvalid, Positions
<1> QED
  BY <1>2, <1>3 DEF AnswerLength, Positions

\* RNM goes down to the rule's first opcode, or takes the predicted answer.
LEMMA RnmDownStep ==
  ASSUME Contract, IInv, pc = "call", Opcode(callee).id = "RNM",
         NEW a \in AstSet, ~a.error, RnmDown(a),
         UNCHANGED <<app, parse, sub, uiInLookaround>>, sCBData' \in CallbackDataSet
  PROVE  IInv'
<1> DEFINE v == PpptState(callee)
           s == Append(stack, NewFrame(0))
<1>1. /\ Opcode(callee).id \notin ListIds /\ Opcode(callee).id \notin LookBackIds
      /\ Opcode(callee).id \notin NoMapIds
  BY Disjoint DEF ListIds, LookBackIds
<1>2. Parsing /\ grammar.rules[Opcode(callee).index].op \in 0..Len(grammar.ops)
  BY CallFacts
<1>3. Positions /\ DepthOK /\ uiInLookaround \in Nat /\ spState \in StateSet
  BY <1>2, RunFacts
<1>4. SideOK'
  BY <1>3, DepthSteps DEF RnmDown, SideOK
<1>5. v \in PpptValues /\ (v = "MATCH" => uiOffset < uiSubStringEnd)
  BY <1>1, PpptFacts
<1>6. /\ StackOK(s)
      /\ NodeBeg(s, Len(s)) = uiOffset
      /\ NodeSubBeg(s, Len(s)) = uiSubStringBeg
      /\ NodeSubEnd(s, Len(s)) = uiSubStringEnd
  BY <1>1, Opened
<1>7. CASE v = "ACTIVE"
  <2>1. /\ Call(s, grammar.rules[Opcode(callee).index].op)
        /\ uiOpState' = "ACTIVE"
        /\ UNCHANGED <<uiOffset, uiPhraseLength>>
    BY <1>7 DEF RnmDown
  <2> QED
    BY <1>2, <1>3, <1>4, <1>6, <2>1, CallStep DEF Call, sub, Positions
<1>8. CASE v # "ACTIVE"
  <2> DEFINE length == PpptLength(v)
  <2>1. Return(s, PpptResult(v), uiOffset + length, length)
    BY <1>8 DEF RnmDown
  <2>2. /\ length \in {0, 1}
        /\ PpptResult(v) \in {"MATCH", "NOMATCH"}
        /\ PpptResult(v) = "NOMATCH" => length = 0
        /\ length = 1 => v = "MATCH"
    BY <1>5, <1>8 DEF PpptResult, PpptLength, PpptValues
  <2>3. length \in Nat /\ uiOffset + length =< uiSubStringEnd
    BY <1>3, <1>5, <2>2 DEF Positions
  <2>4. Returned(stack', uiOpState', uiOffset', uiPhraseLength')
    BY <1>6, <2>1, <2>2 DEF Return, Returned
  <2> QED
    BY <1>2, <1>4, <1>6, <2>1, <2>3, <2>4, ReturnStep DEF Return, sub
<1> QED
  BY <1>7, <1>8

LEMMA RnmOpenStep ==
  ASSUME Contract, IInv, RnmOpen
  PROVE  IInv'
<1> DEFINE r == Opcode(callee).index
           a == AST_RULE_OPEN(ast, uiInLookaround, r, uiOffset)
<1>1. pc = "call" /\ Opcode(callee).id = "RNM"
  BY DEF RnmOpen, Calling
<1>2. Parsing /\ r \in 1..uiRuleCount /\ uiOffset = NodeBeg(stack, Len(stack))
  BY <1>1, CallFacts
<1>3. /\ Positions /\ DepthOK /\ uiInLookaround \in Nat /\ sCBData \in CallbackDataSet
      /\ ast \in AstSet /\ ~ast.error /\ ConfigOK /\ StackOK(stack) /\ GrammarOK(grammar)
      /\ uiSubStringBeg = NodeSubBeg(stack, Len(stack))
      /\ uiSubStringEnd = NodeSubEnd(stack, Len(stack))
  BY <1>2, RunFacts
<1>4. r \in Nat
  BY <1>2, <1>3, LenProperties DEF GrammarOK, uiRuleCount
<1>5. a \in AstSet /\ ~a.error
  <2>1. uiOffset \in Nat
    BY <1>3 DEF Positions
  <2> QED
    BY <1>3, <1>4, <2>1, RuleOpenHook
<1>6. UNCHANGED <<app, parse, sub, uiInLookaround>>
  BY DEF RnmOpen
<1>7. CASE RnmDown(a) /\ UNCHANGED sCBData
  BY <1>1, <1>3, <1>5, <1>6, <1>7, RnmDownStep
<1>8. CASE /\ ShowCallback(uiOffset, "ACTIVE", 0)
           /\ \E answer \in RnmResults :
                \/ /\ RnmInvalid(r, uiOffset, answer)
                   /\ EnterNode
                   /\ Throw("callback", a)
                   /\ UNCHANGED phrase
                \/ /\ ~RnmInvalid(r, uiOffset, answer)
                   /\ answer.state = "ACTIVE"
                   /\ RnmDown(a)
                \/ /\ ~RnmInvalid(r, uiOffset, answer)
                   /\ answer.state # "ACTIVE"
                   /\ LeafNode
                   /\ LET len == AnswerLength(answer) IN
                      Finish(stack, AST_RULE_CLOSE(a, uiInLookaround, r, answer.state, uiOffset, len),
                             answer.state, Plus(uiOffset, len), len)
  <2>1. sCBData' \in CallbackDataSet
    BY <1>3, <1>8, ShowStep DEF Positions
  <2>2. PICK answer \in RnmResults :
                \/ /\ EnterNode
                   /\ Throw("callback", a)
                   /\ UNCHANGED phrase
                \/ RnmDown(a)
                \/ /\ ~RnmInvalid(r, uiOffset, answer)
                   /\ answer.state # "ACTIVE"
                   /\ LeafNode
                   /\ LET len == AnswerLength(answer) IN
                      Finish(stack, AST_RULE_CLOSE(a, uiInLookaround, r, answer.state, uiOffset, len),
                             answer.state, Plus(uiOffset, len), len)
    BY <1>8
  <2>3. CASE EnterNode /\ Throw("callback", a) /\ UNCHANGED phrase
    <3>1. SideOK'
      BY <1>3, <1>5, <1>6, <2>1, <2>3, DepthSteps, ThrownState DEF Throw, SideOK
    <3>2. uiOpState \in {"ACTIVE", "MATCH", "NOMATCH"}
      BY DEF IInv, TypeOK
    <3> QED
      BY <1>2, <1>3, <1>6, <2>3, <3>1, <3>2, ThrowStep DEF Throw, phrase, sub, Positions
  <2>4. CASE RnmDown(a)
    BY <1>1, <1>5, <1>6, <2>1, <2>4, RnmDownStep
  <2>5. CASE /\ ~RnmInvalid(r, uiOffset, answer)
             /\ answer.state # "ACTIVE"
             /\ LeafNode
             /\ LET len == AnswerLength(answer) IN
                Finish(stack, AST_RULE_CLOSE(a, uiInLookaround, r, answer.state, uiOffset, len),
                       answer.state, Plus(uiOffset, len), len)
    <3> DEFINE len == AnswerLength(answer)
               b == AST_RULE_CLOSE(a, uiInLookaround, r, answer.state, uiOffset, len)
    <3>1. /\ answer.state \in {"MATCH", "NOMATCH"}
          /\ len \in Nat
          /\ answer.state = "NOMATCH" => len = 0
          /\ Plus(uiOffset, len) = uiOffset + len
          /\ uiOffset + len =< uiSubStringEnd
      BY <1>3, <2>5, AnswerFacts DEF Positions
    <3>2. b \in AstSet
      <4>1. uiOffset \in Nat
        BY <1>3 DEF Positions
      <4> QED
        BY <1>4, <1>5, <3>1, <4>1, RuleCloseHook
    <3>3. Finish(stack, b, answer.state, uiOffset + len, len) /\ DepthOK'
      BY <1>3, <2>5, <3>1, DepthSteps
    <3>4. Returned(stack, answer.state, uiOffset + len, len)
      BY <1>2, <3>1 DEF Returned
    <3> QED
      BY <1>2, <1>3, <1>6, <2>1, <3>1, <3>2, <3>3, <3>4, FinishStep DEF sub
  <2> QED
    BY <2>2, <2>3, <2>4, <2>5
<1> QED
  BY <1>7, <1>8 DEF RnmOpen

LEMMA RnmReturnStep ==
  ASSUME Contract, IInv, pc = "return", stack # << >>, Opcode(Top(stack).op).id = "RNM",
         UNCHANGED <<app, parse, sub, uiInLookaround>>, sCBData' \in CallbackDataSet,
         NEW state \in {"MATCH", "NOMATCH"}, NEW offset, NEW length \in Nat,
         RnmReturn(Opcode(Top(stack).op).index, state, offset, length),
         offset = Top(stack).beg + length, state = "NOMATCH" => length = 0,
         offset =< uiSubStringEnd
  PROVE  IInv'
<1> DEFINE f == Top(stack)
           r == Opcode(f.op).index
           a == AST_RULE_CLOSE(ast, uiInLookaround, r, state, Minus(offset, length), length)
<1>1. Opcode(f.op).id \notin LookBackIds
  BY Disjoint
<1>2. Parsing /\ f.beg \in Nat /\ r \in 1..uiRuleCount
  BY ReturnFacts
<1>3. uiSubStringBeg = f.subBeg /\ uiSubStringEnd = f.subEnd
  BY <1>1, Ordinary
<1>4. DepthOK /\ uiInLookaround \in Nat /\ ast \in AstSet /\ GrammarOK(grammar)
  BY <1>2, RunFacts
<1>5. r \in Nat
  BY <1>2, <1>4, LenProperties DEF GrammarOK, uiRuleCount
<1>6. Minus(offset, length) \in Nat
  BY <1>2 DEF Minus
<1>7. a \in AstSet
  BY <1>4, <1>5, <1>6, RuleCloseHook
<1>8. Finish(Pop(stack), a, state, offset, length) /\ DepthOK'
  BY <1>4, DepthSteps DEF RnmReturn, OpReturn
<1> QED
  BY <1>3, <1>4, <1>7, <1>8, Closed DEF sub

LEMMA RnmCloseStep ==
  ASSUME Contract, IInv, RnmClose
  PROVE  IInv'
<1> DEFINE f == Top(stack)
           r == Opcode(f.op).index
<1>1. pc = "return" /\ stack # << >> /\ Opcode(f.op).id = "RNM"
  BY DEF RnmClose, Returning
<1>2. Opcode(f.op).id \notin LookBackIds /\ Opcode(f.op).id \notin {"CAT", "REP"}
  BY <1>1, Disjoint
<1>3. /\ Parsing /\ f.beg \in Nat
      /\ uiOpState \in {"MATCH", "NOMATCH"}
      /\ uiOpState = "NOMATCH" => uiPhraseLength = 0
  BY <1>1, ReturnFacts
<1>4. /\ Positions /\ DepthOK /\ uiInLookaround \in Nat /\ sCBData \in CallbackDataSet
      /\ ast \in AstSet /\ ConfigOK
  BY <1>3, RunFacts
<1>5. /\ uiOffset = f.beg + uiPhraseLength /\ uiOffset =< uiSubStringEnd
      /\ f.beg =< uiSubStringEnd /\ uiPhraseLength \in Nat
  BY <1>1, <1>2, <1>3, <1>4, Ordinary DEF Positions
<1>6. UNCHANGED <<app, parse, sub, uiInLookaround>>
  BY DEF RnmClose
<1>7. CASE RnmReturn(r, uiOpState, uiOffset, uiPhraseLength) /\ UNCHANGED sCBData
  BY <1>1, <1>3, <1>4, <1>5, <1>6, <1>7, RnmReturnStep
<1>8. CASE /\ ShowCallback(f.beg, uiOpState, uiPhraseLength)
           /\ \E answer \in RnmResults :
                \/ /\ RnmInvalid(r, f.beg, answer)
                   /\ Throw("callback", ast)
                   /\ UNCHANGED <<depth, phrase>>
                \/ /\ ~RnmInvalid(r, f.beg, answer)
                   /\ answer.state = "ACTIVE"
                   /\ RnmReturn(r, uiOpState, uiOffset, uiPhraseLength)
                \/ /\ ~RnmInvalid(r, f.beg, answer)
                   /\ answer.state # "ACTIVE"
                   /\ RnmReturn(r, answer.state, Plus(f.beg, AnswerLength(answer)), AnswerLength(answer))
  <2>1. sCBData' \in CallbackDataSet
    BY <1>3, <1>4, <1>5, <1>8, ShowStep
  <2>2. PICK answer \in RnmResults :
                \/ /\ Throw("callback", ast)
                   /\ UNCHANGED <<depth, phrase>>
                \/ RnmReturn(r, uiOpState, uiOffset, uiPhraseLength)
                \/ /\ ~RnmInvalid(r, f.beg, answer)
                   /\ answer.state # "ACTIVE"
                   /\ RnmReturn(r, answer.state, Plus(f.beg, AnswerLength(answer)), AnswerLength(answer))
    BY <1>8
  <2>3. CASE Throw("callback", ast) /\ UNCHANGED <<depth, phrase>>
    <3>1. SideOK'
      BY <1>4, <1>6, <2>1, <2>3, ThrownState DEF Throw, SideOK, depth, DepthOK
    <3> QED
      BY <1>3, <1>4, <1>6, <2>3, <3>1, ThrowStep DEF Throw, phrase, sub, Positions
  <2>4. CASE RnmReturn(r, uiOpState, uiOffset, uiPhraseLength)
    BY <1>1, <1>3, <1>5, <1>6, <2>1, <2>4, RnmReturnStep
  <2>5. CASE /\ ~RnmInvalid(r, f.beg, answer)
             /\ answer.state # "ACTIVE"
             /\ RnmReturn(r, answer.state, Plus(f.beg, AnswerLength(answer)), AnswerLength(answer))
    <3> DEFINE len == AnswerLength(answer)
    <3>1. /\ answer.state \in {"MATCH", "NOMATCH"}
          /\ len \in Nat
          /\ answer.state = "NOMATCH" => len = 0
          /\ Plus(f.beg, len) = f.beg + len
          /\ f.beg + len =< uiSubStringEnd
      BY <1>3, <1>4, <1>5, <2>5, AnswerFacts
    <3>2. RnmReturn(r, answer.state, f.beg + len, len)
      BY <2>5, <3>1
    <3> QED
      BY <1>1, <1>6, <2>1, <3>1, <3>2, RnmReturnStep
  <2> QED
    BY <2>2, <2>3, <2>4, <2>5
<1> QED
  BY <1>7, <1>8 DEF RnmClose

LEMMA UdtStep ==
  ASSUME Contract, IInv, Udt
  PROVE  IInv'
<1> DEFINE u == Opcode(callee).index
           i == uiRuleCount + u
           a == AST_RULE_OPEN(ast, uiInLookaround, i, uiOffset)
<1>1. pc = "call" /\ Opcode(callee).id = "UDT"
  BY DEF Udt, Calling
<1>2. Parsing /\ u \in 1..Len(grammar.udts) /\ uiOffset = NodeBeg(stack, Len(stack))
  BY <1>1, CallFacts
<1>3. /\ Positions /\ DepthOK /\ uiInLookaround \in Nat /\ sCBData \in CallbackDataSet
      /\ ast \in AstSet /\ ~ast.error /\ ConfigOK /\ StackOK(stack) /\ GrammarOK(grammar)
      /\ uiSubStringBeg = NodeSubBeg(stack, Len(stack))
      /\ uiSubStringEnd = NodeSubEnd(stack, Len(stack))
  BY <1>2, RunFacts
<1>4. i \in Nat
  BY <1>2, <1>3, LenProperties DEF GrammarOK, uiRuleCount
<1>5. uiOffset \in Nat
  BY <1>3 DEF Positions
<1>6. a \in AstSet /\ ~a.error
  BY <1>3, <1>4, <1>5, RuleOpenHook
<1>7. UNCHANGED <<app, parse, sub, uiInLookaround>>
  BY DEF Udt
<1>8. sCBData' \in CallbackDataSet
  BY <1>3, <1>5, ShowStep DEF Udt
<1>9. PICK given \in UdtResults :
             LET answer == UdtAnswer(given) IN
             \/ /\ UdtInvalid(u, answer)
                /\ EnterNode
                /\ Throw("callback", a)
                /\ UNCHANGED phrase
             \/ /\ ~UdtInvalid(u, answer)
                /\ LeafNode
                /\ Finish(stack, AST_RULE_CLOSE(a, uiInLookaround, i, answer.state,
                                                uiOffset, answer.length),
                          answer.state, Plus(uiOffset, answer.length), answer.length)
  BY DEF Udt
<1> DEFINE answer == UdtAnswer(given)
           b == AST_RULE_CLOSE(a, uiInLookaround, i, answer.state, uiOffset, answer.length)
<1>10. CASE EnterNode /\ Throw("callback", a) /\ UNCHANGED phrase
  <2>1. SideOK'
    BY <1>3, <1>6, <1>7, <1>8, <1>10, DepthSteps, ThrownState DEF Throw, SideOK
  <2>2. uiOpState \in {"ACTIVE", "MATCH", "NOMATCH"}
    BY DEF IInv, TypeOK
  <2> QED
    BY <1>2, <1>3, <1>7, <1>10, <2>1, <2>2, ThrowStep DEF Throw, phrase, sub, Positions
<1>11. CASE /\ ~UdtInvalid(u, answer)
            /\ LeafNode
            /\ Finish(stack, b, answer.state, Plus(uiOffset, answer.length), answer.length)
  <2>1. given \in CallbackSet
    BY ParserAssumption
  <2>2. /\ given.length \in Nat
        /\ Plus(uiOffset, given.length) = uiOffset + given.length
        /\ Plus(uiOffset, 0) = uiOffset
    BY <1>3, <1>5, PlusFacts DEF Positions
  <2>3. /\ answer.length \in Nat
        /\ answer.state \in {"MATCH", "NOMATCH"}
        /\ answer.state = "NOMATCH" => answer.length = 0
        /\ Plus(uiOffset, answer.length) = uiOffset + answer.length
    <3>1. CASE given.state = "EMPTY"
      <4>1. answer = [state |-> "MATCH", length |-> 0]
        BY <3>1 DEF UdtAnswer
      <4> QED
        BY <1>5, <2>2, <4>1
    <3>2. CASE given.state # "EMPTY"
      <4>1. answer = given
        BY <3>2 DEF UdtAnswer
      <4>2. given.state \in {"ACTIVE", "MATCH", "NOMATCH", "THROW"}
        BY <2>1, <3>2 DEF CallbackSet, CallbackStates
      <4>3. given.state \notin {"ACTIVE", "THROW"}
        BY <1>11, <4>1 DEF UdtInvalid
      <4>4. given.state = "NOMATCH" => given.length = 0
        BY DEF Contract
      <4> QED
        BY <2>2, <4>1, <4>2, <4>3, <4>4
    <3> QED
      BY <3>1, <3>2
  <2>4. uiOffset + answer.length =< uiSubStringEnd
    BY <1>3, <1>11, <2>3 DEF UdtInvalid, Positions
  <2>5. b \in AstSet
    BY <1>4, <1>5, <1>6, <2>3, RuleCloseHook
  <2>6. Finish(stack, b, answer.state, uiOffset + answer.length, answer.length) /\ DepthOK'
    BY <1>3, <1>11, <2>3, DepthSteps
  <2>7. Returned(stack, answer.state, uiOffset + answer.length, answer.length)
    BY <1>2, <2>3 DEF Returned
  <2> QED
    BY <1>2, <1>3, <1>7, <1>8, <2>3, <2>4, <2>5, <2>6, <2>7, FinishStep DEF sub
<1> QED
  BY <1>9, <1>10, <1>11

-----------------------------------------------------------------------------
(* The calls of the application, and the end of a parse.                   *)

LEMMA ParserFinishStep ==
  ASSUME Contract, IInv, ParserFinish
  PROVE  IInv'
<1>1. Parsing /\ pc = "return" /\ stack = << >>
  BY DEF ParserFinish, Parsing
<1>2. RunOK /\ ConfigOK /\ Positions /\ DepthOK
  BY <1>1, RunFacts
<1>3. uiOpState \in {"MATCH", "NOMATCH"}
  BY <1>1, <1>2 DEF RunOK, Returned
<1>4. SubStringLength(config) \in Nat
  BY <1>2, ConfigFacts
<1>5. uiMaxTreeDepth \in Nat
  BY <1>2, UndefinedAssumption DEF DepthOK
<1>6. (IF uiOffset > uiSubStringBeg THEN uiOffset - uiSubStringBeg ELSE 0) \in Nat
  BY <1>2 DEF Positions
<1>7. spState' \in StateSet
  BY <1>3, <1>4, <1>5, <1>6 DEF ParserFinish, StateSet
<1>8. TypeOK
  BY DEF IInv
<1>9. /\ pc' = "idle"
      /\ UNCHANGED <<app, parse, sub, phrase, depth, callee, stack, uiInLookaround, sCBData, ast>>
  BY DEF ParserFinish
<1>10. TypeOK'
  BY <1>7, <1>8, <1>9 DEF TypeOK, app, parse, sub, phrase, depth, uiRuleCount
<1> QED
  BY <1>1, <1>9, <1>10 DEF IInv, Parsing

LEMMA ParserParseStep ==
  ASSUME Contract, IInv, NEW c \in Configs, ParserParse(c)
  PROVE  IInv'
<1>1. TypeOK /\ pc = "idle" /\ grammar \in Grammars /\ GrammarOK(grammar)
  BY ParserAssumption DEF IInv, TypeOK, ParserParse
<1>2. c.input # << >> /\ (c.sub => c.beg < Len(c.input)) /\ c.start =< uiRuleCount
  <2>1. /\ ~BadArgument(c)
        /\ ~BadSubString(c)
    BY DEF ParserParse
  <2>2. c \in ConfigSet
    BY ParserAssumption
  <2>3. Len(c.input) \in Nat /\ c.beg \in Nat /\ c.start \in Nat /\ uiRuleCount \in Nat
    BY <1>1, <2>2, LenProperties DEF ConfigSet, GrammarOK, uiRuleCount
  <2> QED
    BY <2>1, <2>3 DEF BadArgument, BadSubString
<1>3. /\ c \in ConfigSet
      /\ Len(c.input) \in Nat
      /\ SubStringBeg(c) \in Nat
      /\ SubStringEnd(c) \in Nat
      /\ SubStringBeg(c) < SubStringEnd(c)
      /\ SubStringEnd(c) =< Len(c.input)
      /\ SubStringLength(c) \in Nat
  BY <1>2, ConfigValue
<1>4. /\ config' = c
      /\ uiSubStringBeg' = SubStringBeg(c)
      /\ uiSubStringEnd' = SubStringEnd(c)
      /\ uiOffset' = SubStringBeg(c)
      /\ uiLookBehindLength' = LookBehind(c)
      /\ sCBData' = [NoCallback EXCEPT !.stringLength = SubStringLength(c)]
      /\ ast' = AST_CLEAR(ast)
      /\ spState' = NoState
      /\ uiTreeDepth' = 0
      /\ uiMaxTreeDepth' = 0
      /\ uiLookaroundAtStart' = uiInLookaround
      /\ pc' = "call" /\ callee' = 0 /\ stack' = << >>
      /\ UNCHANGED <<app, uiPhraseLength, uiOpState, uiInLookaround>>
  BY DEF ParserParse, Call
<1>5. TypeOK'
  <2>1. LookBehind(c) \in Nat
    BY <1>1, <1>3 DEF LookBehind, TypeOK
  <2>2. [NoCallback EXCEPT !.stringLength = SubStringLength(c)] \in CallbackDataSet
    BY <1>3 DEF NoCallback, CallbackDataSet
  <2>3. AST_CLEAR(ast) \in AstSet /\ ~AST_CLEAR(ast).error
    <3>1. ast \in AstSet /\ ~ast.error
      BY <1>1 DEF TypeOK
    <3>2. << >> \in Seq(Nat) /\ << >> \in Seq(Record)
      BY EmptySeq
    <3> QED
      BY <3>1, <3>2 DEF AST_CLEAR, AstClear, AstSet
  <2>4. NoState \in StateSet
    BY DEF NoState, StateSet
  <2>5. << >> \in Seq(Frame)
    BY EmptySeq
  <2>6. 0 \in 0..APG_UNDEFINED /\ 0 \in 0..Len(grammar.ops)
    BY <1>1, UndefinedAssumption, LenProperties DEF GrammarOK
  <2> QED
    BY <1>1, <1>3, <1>4, <2>1, <2>2, <2>3, <2>4, <2>5, <2>6
       DEF TypeOK, app, uiRuleCount, CallbackDataSet
<1>6. RunOK'
  <2>1. ConfigOK'
    <3>1. c.start \in 1..uiRuleCount
      <4>1. c.start > 0
        BY ParserAssumption
      <4>2. c.start \in Nat /\ uiRuleCount \in Nat
        BY <1>1, <1>3, LenProperties DEF ConfigSet, GrammarOK, uiRuleCount
      <4> QED
        BY <1>2, <4>1, <4>2
    <3> QED
      BY <1>2, <1>4, <3>1 DEF ConfigOK, app, uiRuleCount, uiInputStringLength
  <2>2. Len(<< >>) = 0 /\ << >> \in Seq(Frame)
    BY EmptySeq
  <2>3. StackOK(stack)'
    BY <1>4, <2>2 DEF StackOK
  <2>4. /\ NodeBeg(stack, Len(stack))' = SubStringBeg(c)
        /\ NodeSubBeg(stack, Len(stack))' = SubStringBeg(c)
        /\ NodeSubEnd(stack, Len(stack))' = SubStringEnd(c)
    BY <1>4, <2>2 DEF NodeBeg, NodeSubBeg, NodeSubEnd
  <2> QED
    BY <1>3, <1>4, <2>1, <2>3, <2>4 DEF RunOK, InForce, uiInputStringLength
<1> QED
  BY <1>4, <1>5, <1>6 DEF IInv

LEMMA ParserParseThrowsStep ==
  ASSUME Contract, IInv, NEW c \in Configs, ParserParseThrows(c)
  PROVE  IInv'
<1>1. TypeOK /\ ast \in AstSet
  BY DEF IInv, TypeOK
<1>2. c \in ConfigSet
  BY ParserAssumption
<1>3. /\ config' \in {config, c}
      /\ Throw("argument", ast)
      /\ UNCHANGED <<app, uiLookBehindLength, uiLookaroundAtStart, sub, phrase, depth,
                 uiInLookaround, sCBData>>
  BY DEF ParserParseThrows
<1>4. /\ ast' \in AstSet /\ ~ast'.error /\ spState' \in StateSet
  BY <1>1, <1>3, ThrownState DEF Throw
<1>5. << >> \in Seq(Frame)
  BY EmptySeq
<1>6. 0 \in 0..Len(grammar.ops)
  BY <1>1, LenProperties, ParserAssumption DEF TypeOK, GrammarOK
<1>7. TypeOK'
  BY <1>1, <1>2, <1>3, <1>4, <1>5, <1>6 DEF TypeOK, Throw, app, sub, phrase, depth, uiRuleCount
<1> QED
  BY <1>3, <1>7 DEF IInv, Throw, Parsing

\* Between parses the application only changes callbacks and the ast object.
LEMMA IdleStep ==
  ASSUME IInv, pc = "idle",
         UNCHANGED <<grammar, parse, sub, phrase, depth, control, uiInLookaround, sCBData, spState>>,
         ruleCallback' \subseteq 1..uiRuleCount, udtCallback' \subseteq 1..Len(grammar.udts),
         ast' \in AstSet, ~ast'.error
  PROVE  IInv'
<1>1. TypeOK /\ stack = << >>
  BY DEF IInv
<1>2. TypeOK'
  BY <1>1 DEF TypeOK, parse, sub, phrase, depth, control, uiRuleCount
<1> QED
  BY <1>1, <1>2 DEF IInv, control, Parsing

LEMMA AstObjects ==
  ASSUME NEW a \in AstSet, ~a.error, NEW i \in Nat, NEW on \in BOOLEAN
  PROVE  /\ AstCtor(a) \in AstSet /\ ~AstCtor(a).error
         /\ AstDtor(a) \in AstSet /\ ~AstDtor(a).error
         /\ AstSetCallback(a, i, on) \in AstSet /\ ~AstSetCallback(a, i, on).error
<1>1. << >> \in Seq(Nat) /\ << >> \in Seq(Record)
  BY EmptySeq
<1>2. NoAst \in AstSet /\ ~NoAst.error
  BY <1>1 DEF NoAst, AstSet
<1>3. AstCtor(a) \in AstSet /\ ~AstCtor(a).error
  BY <1>2 DEF AstCtor, AstSet
<1>4. AstSetCallback(a, i, on) \in AstSet /\ ~AstSetCallback(a, i, on).error
  BY DEF AstSetCallback, AstSet
<1> QED
  BY <1>2, <1>3, <1>4 DEF AstDtor

LEMMA ApplicationStep ==
  ASSUME Contract, IInv, Application
  PROVE  IInv'
<1>1. /\ ruleCallback \subseteq 1..uiRuleCount /\ udtCallback \subseteq 1..Len(grammar.udts)
      /\ ast \in AstSet /\ ~ast.error /\ grammar \in Grammars
  BY DEF IInv, TypeOK
<1>2. GrammarOK(grammar) /\ uiRuleCount \in Nat
  BY <1>1, ParserAssumption, LenProperties DEF GrammarOK, uiRuleCount
<1>3. CASE \E c \in Configs : ParserParse(c) \/ ParserParseThrows(c)
  BY <1>3, ParserParseStep, ParserParseThrowsStep
<1>4. ASSUME NEW r \in AppRules, SetRuleCallback(r)
      PROVE  IInv'
  <2>1. r \in 1..uiRuleCount
    BY <1>2, <1>4, ParserAssumption DEF SetRuleCallback
  <2>2. ruleCallback' \subseteq 1..uiRuleCount
    BY <1>1, <1>4, <2>1 DEF SetRuleCallback
  <2> QED
    BY <1>1, <1>4, <2>2, IdleStep DEF SetRuleCallback
<1>5. ASSUME NEW u \in 1..Len(grammar.udts), SetUdtCallback(u)
      PROVE  IInv'
  <2>1. udtCallback' \subseteq 1..Len(grammar.udts)
    BY <1>1, <1>5 DEF SetUdtCallback
  <2> QED
    BY <1>1, <1>5, <2>1, IdleStep DEF SetUdtCallback
<1>6. ASSUME NEW a \in AstSet, ~a.error, SetAst(a)
      PROVE  IInv'
  BY <1>1, <1>6, IdleStep DEF SetAst, app
<1>7. CASE SetAst(AstCtor(ast))
  BY <1>1, <1>6, <1>7, AstObjects
<1>8. CASE SetAst(AstDtor(ast))
  BY <1>1, <1>6, <1>8, AstObjects
<1>9. ASSUME NEW i \in AppNodes, SetAstCallback(i)
      PROVE  IInv'
  <2>1. i \in Nat
    BY ParserAssumption
  <2>2. PICK on \in BOOLEAN : SetAst(AstSetCallback(ast, i, on))
    BY <1>9 DEF SetAstCallback
  <2> QED
    BY <1>1, <1>6, <2>1, <2>2, AstObjects
<1> QED
  BY <1>3, <1>4, <1>5, <1>7, <1>8, <1>9 DEF Application

-----------------------------------------------------------------------------
(* The theorems.                                                           *)

LEMMA InitInv ==
  ASSUME Init
  PROVE  IInv
<1>1. GrammarOK(grammar)
  BY ParserAssumption DEF Init
<1>2. 0 \in 0..Len(grammar.ops) /\ 0 \in 0..APG_UNDEFINED
  BY <1>1, UndefinedAssumption, LenProperties DEF GrammarOK
<1>3. << >> \in Seq(Nat) /\ << >> \in Seq(Record) /\ << >> \in Seq(Frame)
  BY EmptySeq
<1>4. NoConfig \in ConfigSet
  BY <1>3 DEF NoConfig, ConfigSet
<1>5. NoCallback \in CallbackDataSet /\ NoState \in StateSet
  BY DEF NoCallback, CallbackDataSet, NoState, StateSet
<1>6. NoAst \in AstSet /\ ~NoAst.error
  BY <1>3 DEF NoAst, AstSet
<1>7. TypeOK
  BY <1>2, <1>3, <1>4, <1>5, <1>6 DEF Init, TypeOK, CallbackDataSet
<1> QED
  BY <1>7 DEF IInv, Init, Parsing

LEMMA ParserStepInv ==
  ASSUME Contract, IInv, ParserStep
  PROVE  IInv'
BY PredictStep, AltOpenStep, AltNextStep, CatOpenStep, CatNextStep, RepOpenStep, RepNextStep,
   RnmOpenStep, RnmCloseStep, MatchTerminalStep, UdtStep, LookAheadOpenStep, LookAheadCloseStep,
   LookBackOpenStep, LookBackAgainStep, LookBackCloseStep, AnchorStep, ParserFinishStep
   DEF ParserStep

LEMMA StutterInv ==
  ASSUME IInv, UNCHANGED vars
  PROVE  IInv'
<1>1. UNCHANGED <<app, parse, sub, phrase, depth, control, uiInLookaround, sCBData, ast, spState>>
  BY DEF vars
<1>2. TypeOK'
  BY <1>1 DEF IInv, TypeOK, app, parse, sub, phrase, depth, control, uiRuleCount
<1>3. UNCHANGED <<pc, stack, uiOpState, uiOffset, uiPhraseLength, uiSubStringBeg, uiSubStringEnd>>
  BY <1>1 DEF control, phrase, sub
<1>4. ASSUME RunOK PROVE RunOK'
  <2>1. StackOK(stack)' /\ ConfigOK'
    BY <1>1, <1>3, <1>4, Carried DEF RunOK
  <2> QED
    BY <1>1, <1>3, <1>4, <2>1, Carried DEF RunOK, InForce, Returned
<1>5. pc' = "idle" => stack' = << >>
  BY <1>3 DEF IInv
<1>6. Parsing' => RunOK'
  BY <1>3, <1>4 DEF IInv, Parsing
<1> QED
  BY <1>2, <1>5, <1>6 DEF IInv

LEMMA NextInv ==
  ASSUME Contract, IInv, [Next]_vars
  PROVE  IInv'
BY ParserStepInv, ApplicationStep, StutterInv DEF Next

\* The inductive invariant holds throughout, for every grammar, input and callback answer
\* that keeps the contract.
THEOREM Invariance ==
  Contract => (Spec => []IInv)
<1> SUFFICES ASSUME Contract PROVE Spec => []IInv
  OBVIOUS
<1>1. Init => IInv
  BY InitInv
<1>2. IInv /\ [Next]_vars => IInv'
  BY NextInv
<1> QED
  BY <1>1, <1>2, PTL DEF Spec

\* The variables keep their types: no offset, length or distance goes below zero, and no
\* frame or callee names an opcode the grammar does not have.
THEOREM TypeCorrect ==
  Contract => (Spec => []TypeOK)
<1> SUFFICES ASSUME Contract PROVE Spec => []TypeOK
  OBVIOUS
<1>1. Spec => []IInv
  BY Invariance
<1>2. IInv => TypeOK
  BY DEF IInv
<1> QED
  BY <1>1, <1>2, PTL

\* Each operator on the C stack began where its caller's phrase stood and within the
\* sub-string its caller gave it.
THEOREM StackLinked ==
  Contract => (Spec => []FramesLinked)
<1> SUFFICES ASSUME Contract PROVE Spec => []FramesLinked
  OBVIOUS
<1>1. Spec => []IInv
  BY Invariance
<1>2. IInv => FramesLinked
  <2> SUFFICES ASSUME IInv PROVE FramesLinked
    OBVIOUS
  <2>1. CASE Parsing
    BY <2>1 DEF IInv, RunOK, StackOK, FramesLinked
  <2>2. CASE ~Parsing
    <3>1. stack = << >>
      BY <2>2 DEF IInv, TypeOK, Parsing
    <3>2. 1..Len(stack) = {}
      BY <3>1, EmptySeq
    <3> QED
      BY <3>2 DEF FramesLinked
  <2> QED
    BY <2>1, <2>2
<1> QED
  BY <1>1, <1>2, PTL

\* Whatever look-behinds have run, a node begins and ends with the sub-string of its caller,
\* and never stands past its end.
THEOREM SubStringSafe ==
  Contract => (Spec => []SubStringInForce)
<1> SUFFICES ASSUME Contract PROVE Spec => []SubStringInForce
  OBVIOUS
<1>1. Spec => []IInv
  BY Invariance
<1>2. IInv => SubStringInForce
  BY DEF IInv, RunOK, InForce, SubStringInForce
<1> QED
  BY <1>1, <1>2, PTL

\* A node is called where its caller stands; on a match it has advanced by the length it
\* reports, on a failure it has put the offset back.
THEOREM ContractKept ==
  Contract => (Spec => []PhraseContract)
<1> SUFFICES ASSUME Contract PROVE Spec => []PhraseContract
  OBVIOUS
<1>1. Spec => []IInv
  BY Invariance
<1>2. IInv => PhraseContract
  BY DEF IInv, RunOK, Returned, PhraseContract, Parsing
<1> QED
  BY <1>1, <1>2, PTL

-----------------------------------------------------------------------------
(* The parser implements ParserApi.                                        *)

\* A parse goes on, and its caller sees nothing of it.
GoesOn ==
  /\ pc' \in {"call", "return"}
  /\ UNCHANGED <<app, parse, spState>>

\* A parse is abandoned in a callback or in the recorder.
IsAbandoned ==
  /\ pc' = "idle"
  /\ UNCHANGED <<app, parse>>
  /\ spState' \in {[NoState EXCEPT !.outcome = outcome] : outcome \in {"callback", "ast"}}

LEMMA FinishSeen ==
  ASSUME NEW frames, NEW a, NEW state, NEW offset, NEW length, UNCHANGED <<app, parse>>,
         Finish(frames, a, state, offset, length)
  PROVE  GoesOn \/ IsAbandoned
BY DEF Finish, Throw, Return, GoesOn, IsAbandoned

LEMMA StepSeen ==
  ASSUME ParserStep, ~ParserFinish
  PROVE  GoesOn \/ IsAbandoned
<1>1. CASE Predict
  BY <1>1 DEF Predict, LeafReturn, Return, GoesOn
<1>2. CASE AltOpen \/ CatOpen \/ RepOpen \/ LookAheadOpen \/ LookBackOpen \/ LookBackAgain
  BY <1>2 DEF AltOpen, CatOpen, RepOpen, LookAheadOpen, LookBackOpen, LookBackAgain, Call, GoesOn
<1>3. CASE AltNext
  BY <1>3, FinishSeen DEF AltNext, OpReturn, Call, GoesOn
<1>4. CASE CatNext
  BY <1>4, FinishSeen DEF CatNext, OpReturn, Call, GoesOn
<1>5. CASE RepNext
  BY <1>5, FinishSeen DEF RepNext, OpReturn, Continue, Throw, Call, GoesOn, IsAbandoned
<1>6. CASE MatchTerminal
  BY <1>6 DEF MatchTerminal, LeafReturn, Return, GoesOn
<1>7. CASE Anchor
  BY <1>7 DEF Anchor, LeafReturn, Return, GoesOn
<1>8. CASE LookAheadClose
  BY <1>8, FinishSeen DEF LookAheadClose, OpReturn
<1>9. CASE LookBackClose
  BY <1>9, FinishSeen DEF LookBackClose
<1>10. CASE RnmOpen
  BY <1>10, FinishSeen DEF RnmOpen, RnmDown, Throw, Call, Return, GoesOn, IsAbandoned
<1>11. CASE RnmClose
  BY <1>11, FinishSeen DEF RnmClose, RnmReturn, OpReturn, Throw, GoesOn, IsAbandoned
<1>12. CASE Udt
  BY <1>12, FinishSeen DEF Udt, Throw, GoesOn, IsAbandoned
<1> QED
  BY <1>1, <1>2, <1>3, <1>4, <1>5, <1>6, <1>7, <1>8, <1>9, <1>10, <1>11, <1>12 DEF ParserStep

LEMMA AnsweredSeen ==
  ASSUME Contract, IInv, ParserFinish
  PROVE  Api!Answered
<1> DEFINE n == SubStringLength(config)
           len == IF uiOffset > uiSubStringBeg THEN uiOffset - uiSubStringBeg ELSE 0
<1>1. Parsing /\ pc = "return" /\ stack = << >>
  BY DEF ParserFinish, Parsing
<1>2. RunOK /\ ConfigOK /\ Positions
  BY <1>1, RunFacts
<1>3. Len(stack) = 0
  BY <1>1, EmptySeq
<1>4. /\ uiSubStringBeg = SubStringBeg(config)
      /\ uiSubStringEnd = SubStringEnd(config)
      /\ uiOpState \in {"MATCH", "NOMATCH"}
      /\ uiOffset = SubStringBeg(config) + uiPhraseLength
      /\ uiOpState = "NOMATCH" => uiPhraseLength = 0
  BY <1>1, <1>2, <1>3 DEF RunOK, InForce, Returned, NodeBeg, NodeSubBeg, NodeSubEnd
<1>5. n \in Nat /\ n = SubStringEnd(config) - SubStringBeg(config)
      /\ SubStringEnd(config) \in Nat /\ SubStringBeg(config) \in Nat
  BY <1>2, ConfigFacts
<1>6. len = uiPhraseLength /\ len \in 0..n
  BY <1>2, <1>4, <1>5 DEF Positions
<1>7. /\ pc' = "idle"
      /\ spState' = [outcome |-> "parsed", state |-> uiOpState,
                     success |-> uiOpState # "NOMATCH" /\ len = n,
                     length |-> len, stringLength |-> n, depth |-> uiMaxTreeDepth]
      /\ UNCHANGED <<grammar, udtCallback, config>>
  BY DEF ParserFinish, app, parse
<1>8. Parsing /\ ~Parsing' /\ ApiAsked = n /\ ApiAsked' = 0
  BY <1>1, <1>7 DEF Parsing, ApiAsked
<1>9. /\ ApiResult'.outcome = "parsed" /\ ApiResult'.state = uiOpState
      /\ ApiResult'.success = (uiOpState # "NOMATCH" /\ len = n)
      /\ ApiResult'.length = len /\ ApiResult'.stringLength = n
  BY <1>7 DEF ApiResult
<1>10. Api!Verdict(ApiResult', ApiAsked)
  BY <1>4, <1>6, <1>8, <1>9 DEF Api!Verdict
<1> QED
  BY <1>7, <1>8, <1>10 DEF Api!Answered

LEMMA AskSeen ==
  ASSUME Contract, IInv, NEW c \in Configs, ParserParse(c)
  PROVE  Api!Ask
<1>1. /\ pc = "idle" /\ pc' = "call" /\ config' = c /\ spState' = NoState
      /\ UNCHANGED <<grammar, udtCallback>>
      /\ ~BadArgument(c) /\ ~BadSubString(c)
  BY DEF ParserParse, Call, app
<1>2. c \in ConfigSet
  BY ParserAssumption
<1>3. Len(c.input) \in Nat /\ c.beg \in Nat /\ c.input # << >>
  BY <1>1, <1>2, LenProperties DEF ConfigSet, BadArgument
<1>4. c.sub => c.beg < Len(c.input)
  BY <1>1, <1>3 DEF BadSubString
<1>5. /\ SubStringLength(c) = SubStringEnd(c) - SubStringBeg(c)
      /\ SubStringBeg(c) \in Nat /\ SubStringEnd(c) \in Nat /\ SubStringBeg(c) < SubStringEnd(c)
  BY <1>3, <1>4, ConfigValue
<1>6. ~Parsing /\ Parsing' /\ ApiAsked' > 0
  <2>1. ApiAsked' = SubStringLength(c)
    BY <1>1 DEF ApiAsked, Parsing, SubStringLength, SubStringBeg, SubStringEnd
  <2> QED
    BY <1>1, <1>5, <2>1 DEF Parsing
<1>7. (1..Len(grammar.udts)) \ udtCallback = {}
  BY <1>1 DEF BadArgument
<1>8. ApiResult' = Api!Nothing
  BY <1>1 DEF ApiResult, NoState, Api!Nothing
<1> QED
  BY <1>1, <1>6, <1>7, <1>8 DEF Api!Ask

LEMMA ThrownSeen ==
  ASSUME NEW outcome, spState' = [NoState EXCEPT !.outcome = outcome]
  PROVE  ApiResult' = Api!Thrown(outcome)
<1> DEFINE r == [outcome |-> outcome, state |-> "none", success |-> FALSE,
                 length |-> 0, stringLength |-> 0]
<1>1. /\ spState'.outcome = outcome /\ spState'.state = "none" /\ spState'.success = FALSE
      /\ spState'.length = 0 /\ spState'.stringLength = 0
  BY DEF NoState
<1>2. ApiResult' = r
  BY <1>1 DEF ApiResult
<1>3. Api!Thrown(outcome) = r
  <2>1. Api!Nothing = [outcome |-> "none", state |-> "none", success |-> FALSE,
                       length |-> 0, stringLength |-> 0]
    BY DEF Api!Nothing
  <2>2. Api!Thrown(outcome) = [Api!Nothing EXCEPT !.outcome = outcome]
    BY DEF Api!Thrown
  <2> QED
    BY <2>1, <2>2
<1> QED
  BY <1>2, <1>3

LEMMA RefuseSeen ==
  ASSUME IInv, NEW c \in Configs, ParserParseThrows(c)
  PROVE  Api!Refuse
<1>1. /\ pc = "idle" /\ pc' = "idle" /\ spState' = [NoState EXCEPT !.outcome = "argument"]
      /\ UNCHANGED <<grammar, udtCallback>>
  BY DEF ParserParseThrows, Throw, app
<1>2. ApiResult' = Api!Thrown("argument")
  BY <1>1, ThrownSeen
<1> QED
  BY <1>1, <1>2 DEF Api!Refuse, Parsing, ApiAsked

LEMMA AbortSeen ==
  ASSUME Parsing, IsAbandoned
  PROVE  Api!Abort
<1>1. /\ pc' = "idle" /\ UNCHANGED <<grammar, udtCallback>>
      /\ spState' \in {[NoState EXCEPT !.outcome = outcome] : outcome \in {"callback", "ast"}}
  BY DEF IsAbandoned, app
<1>2. ApiResult' \in {Api!Thrown("callback"), Api!Thrown("ast")}
  BY <1>1, ThrownSeen
<1> QED
  BY <1>1, <1>2 DEF Api!Abort, Parsing, ApiAsked

LEMMA GoesOnSeen ==
  ASSUME Parsing, GoesOn
  PROVE  UNCHANGED Api!apiVars
<1>1. /\ pc' \in {"call", "return"} /\ UNCHANGED <<grammar, udtCallback, config, spState>>
  BY DEF GoesOn, app, parse
<1>2. Parsing' = Parsing
  BY <1>1 DEF Parsing
<1>3. ApiAsked' = ApiAsked
  BY <1>1 DEF ApiAsked, Parsing, SubStringLength, SubStringBeg, SubStringEnd
<1> QED
  BY <1>1, <1>2, <1>3 DEF Api!apiVars, ApiResult

LEMMA PrepareSeen ==
  ASSUME pc = "idle", UNCHANGED <<pc, spState>>
  PROVE  Api!Prepare
BY DEF Api!Prepare, Parsing, ApiAsked, ApiResult

LEMMA UnchangedSeen ==
  ASSUME UNCHANGED vars
  PROVE  UNCHANGED Api!apiVars
<1>1. UNCHANGED <<grammar, udtCallback, config, pc, spState>>
  BY DEF vars, app, parse, control
<1> QED
  BY <1>1 DEF Api!apiVars, Parsing, ApiAsked, ApiResult, SubStringLength, SubStringBeg, SubStringEnd

LEMMA ApiInitSeen ==
  ASSUME Init
  PROVE  Api!ApiInit
BY DEF Init, NoState, Api!ApiInit, Api!Nothing, Parsing, ApiAsked, ApiResult

LEMMA NextSeen ==
  ASSUME Contract, IInv, [Next]_vars
  PROVE  [Api!ApiNext]_(Api!apiVars)
<1>1. CASE ParserStep
  <2>1. Parsing
    BY <1>1 DEF ParserStep, Parsing, Predict, AltOpen, AltNext, CatOpen, CatNext, RepOpen, RepNext,
         RnmOpen, RnmClose, MatchTerminal, Udt, LookAheadOpen, LookAheadClose, LookBackOpen,
         LookBackAgain, LookBackClose, Anchor, ParserFinish, Calling, Returning
  <2>2. CASE ParserFinish
    BY <2>2, AnsweredSeen DEF Api!ApiNext
  <2>3. CASE ~ParserFinish
    BY <1>1, <2>1, <2>3, StepSeen, AbortSeen, GoesOnSeen DEF Api!ApiNext
  <2> QED
    BY <2>2, <2>3
<1>2. CASE Application
  <2>1. ASSUME NEW c \in Configs, ParserParse(c) \/ ParserParseThrows(c)
        PROVE  Api!ApiNext
    BY <2>1, AskSeen, RefuseSeen DEF Api!ApiNext
  <2>2. ASSUME NEW r \in AppRules, SetRuleCallback(r)
        PROVE  Api!ApiNext
    BY <2>2, PrepareSeen DEF SetRuleCallback, control, Api!ApiNext
  <2>3. ASSUME NEW u \in 1..Len(grammar.udts), SetUdtCallback(u)
        PROVE  Api!ApiNext
    BY <2>3, PrepareSeen DEF SetUdtCallback, control, Api!ApiNext
  <2>4. ASSUME NEW a, SetAst(a)
        PROVE  Api!ApiNext
    BY <2>4, PrepareSeen DEF SetAst, control, Api!ApiNext
  <2> QED
    BY <1>2, <2>1, <2>2, <2>3, <2>4 DEF Application, SetAstCallback
<1>3. CASE UNCHANGED vars
  BY <1>3, UnchangedSeen
<1> QED
  BY <1>1, <1>2, <1>3 DEF Next

\* A caller of vParserParse sees the parser that ParserApi describes: one verdict on the
\* string it asked about, or one exception, whatever the grammar and the callbacks.
THEOREM Implements ==
  Contract => (Spec => ApiSpec)
<1> SUFFICES ASSUME Contract PROVE Spec => ApiSpec
  OBVIOUS
<1>1. Spec => []IInv
  BY Invariance
<1>2. Init => Api!ApiInit
  BY ApiInitSeen
<1>3. IInv /\ [Next]_vars => [Api!ApiNext]_(Api!apiVars)
  BY NextSeen
<1> QED
  BY <1>1, <1>2, <1>3, PTL DEF Spec, ApiSpec, Api!ApiSpec
=============================================================================
