------------------------------ MODULE Api_proofs ------------------------------
(***************************************************************************)
(* Proofs about the phases of the generator, for every application and     *)
(* input, and also after a clear that threw out of halfway: what the flags *)
(* say holds of the input that the phases read.                            *)
(***************************************************************************)
EXTENDS Api, TLAPS

Parses(t) == \A k \in DOMAIN t : t[k].syntax # "error"

\* What the theorem takes for granted of the translation (Semantics): the tables of a text that is
\* not refused are those of the grammar written in it.
TablesAreWritten ==
  \A t \in Seq(Definitions) : Parses(t) /\ ~ Refused(t) => Written(TablesOf(t), t)

-----------------------------------------------------------------------------
(* The inductive invariant: the flags come down from the input to the      *)
(* attributes, and below a flag that is up everything is of the input that *)
(* cpInput says there is. That input is the text unless a clear that threw *)
(* freed the lines; there is no text without lines.                        *)

Typed ==
  /\ text \in Seq(Definitions) /\ cpInput \in Seq(Definitions)
  /\ valid \in [input : BOOLEAN, syntax : BOOLEAN, semantics : BOOLEAN, attributes : BOOLEAN]

InputHolds ==
  /\ vpLines # "freed" => cpInput = text
  /\ vpLines \in {"null", "live", "freed"} /\ (vpLines = "null" => text = << >>)
  /\ valid.input => LinesValid(FALSE)

SyntaxHolds == valid.syntax => vpParser = "live" /\ vpAst = cpInput /\ Parses(cpInput)

SemanticsHold ==
  valid.semantics => valid.syntax /\ ~ Refused(cpInput) /\ grammar = TablesOf(cpInput)

AttributesHold ==
  valid.attributes => /\ valid.semantics
                      /\ vpAttrsCtx.ops = grammar.ops
                      /\ vpAttrsCtx.rules = AttributeList(grammar)
                      /\ \A r \in DOMAIN grammar.rules : ~ IsFatal(vpAttrsCtx.rules[r])

PhasesInv == Typed /\ InputHolds /\ SyntaxHolds /\ SemanticsHold /\ AttributesHold

-----------------------------------------------------------------------------
\* the input changes, and all flags go down
LEMMA InputChanges ==
  ASSUME text' \in Seq(Definitions), cpInput' \in Seq(Definitions), valid' = NotValid,
         vpLines' # "freed" => cpInput' = text',
         vpLines' \in {"null", "live", "freed"}, vpLines' = "null" => text' = << >>
  PROVE  PhasesInv'
BY DEF PhasesInv, Typed, InputHolds, SyntaxHolds, SemanticsHold, AttributesHold, NotValid

\* a call that leaves what the flags are about
LEMMA NothingChanges ==
  ASSUME PhasesInv, UNCHANGED <<Input, valid, vpParser, vpAst, grammar, vpAttrsCtx>>
  PROVE  PhasesInv'
BY DEF PhasesInv, Typed, InputHolds, SyntaxHolds, SemanticsHold, AttributesHold, LinesValid, Parses,
       Input

\* vApiInClear: whole, it takes the flags down; thrown out of, it leaves them, and all they are about
LEMMA InClearStep ==
  ASSUME PhasesInv, InClear
  PROVE  PhasesInv'
<1>1. Undefined \/ Cleared \/ HalfCleared
  BY DEF InClear
<1>2. CASE Undefined
  <2>1. UNCHANGED <<Input, valid, vpParser, vpAst, grammar, vpAttrsCtx>>
    BY <1>2 DEF Undefined, Built
  <2> QED
    BY <2>1, NothingChanges
<1>3. CASE Cleared
  <2>1. text' = << >> /\ cpInput' = << >> /\ vpLines' = "null"
        /\ valid' = NotValid /\ << >> \in Seq(Definitions)
    BY <1>3 DEF Cleared
  <2> QED
    BY <2>1, InputChanges
<1>4. CASE HalfCleared
  <2>1. /\ UNCHANGED <<cpInput, valid, vpParser, vpAst, grammar, vpAttrsCtx>>
        /\ text' = << >> /\ vpLines' = (IF vpLines = "live" THEN "freed" ELSE vpLines)
    BY <1>4 DEF HalfCleared, Built
  <2>2. Typed' /\ SyntaxHolds' /\ SemanticsHold' /\ AttributesHold'
    BY <2>1 DEF PhasesInv, Typed, SyntaxHolds, SemanticsHold, AttributesHold, Parses
  <2> QED
    BY <2>1, <2>2 DEF PhasesInv, InputHolds, LinesValid
<1> QED
  BY <1>1, <1>2, <1>3, <1>4

\* cpApiInString and cpApiInFile: with nothing to append they leave the input, and lower the flags
LEMMA InStringStep ==
  ASSUME PhasesInv, NEW s \in Inputs, InString(s)
  PROVE  PhasesInv'
<1>1. s \in Seq(Definitions) /\ text \in Seq(Definitions) /\ cpInput \in Seq(Definitions)
  BY ApiAssumption DEF PhasesInv, Typed
<1>2. CASE s # << >> /\ vpLines = "freed"
  <2>1. UNCHANGED <<Input, valid, vpParser, vpAst, grammar, vpAttrsCtx>>
    BY <1>2 DEF InString, Undefined, Built
  <2> QED
    BY <2>1, NothingChanges
<1>3. CASE s # << >> /\ vpLines # "freed"
  <2>1. text' = text \o s /\ cpInput' = text' /\ vpLines' = "live" /\ valid' = NotValid
    BY <1>3 DEF InString
  <2> QED
    BY <1>1, <2>1, InputChanges
<1>4. CASE s = << >>
  <2>1. text' = text \o << >> /\ UNCHANGED <<cpInput, vpLines>> /\ valid' = NotValid
    BY <1>4 DEF InString
  <2>2. text' = text
    BY <1>1, <2>1
  <2> QED
    BY <1>1, <2>1, <2>2, InputChanges DEF PhasesInv, InputHolds
<1> QED
  BY <1>2, <1>3, <1>4

\* vApiInValidate: what is valid strictly is valid
LEMMA InValidateStep ==
  ASSUME PhasesInv, NEW strict, InValidate(strict)
  PROVE  PhasesInv'
<1>1. CASE vpLines = "freed"
  <2>1. UNCHANGED <<Input, valid, vpParser, vpAst, grammar, vpAttrsCtx>>
    BY <1>1 DEF InValidate, Undefined, Built
  <2> QED
    BY <2>1, NothingChanges
<1>2. CASE vpLines # "freed"
  <2>1. PICK b : b = LinesValid(strict)
    OBVIOUS
  <2>2. b \in BOOLEAN /\ (b => LinesValid(FALSE))
    BY <2>1 DEF LinesValid
  <2>3. /\ UNCHANGED <<Input, vpParser, vpAst, grammar, vpAttrsCtx>>
        /\ valid' = [valid EXCEPT !.input = b]
    BY <1>2, <2>1 DEF InValidate, Built
  <2>4. /\ valid'.input = b /\ valid'.syntax = valid.syntax
        /\ valid'.semantics = valid.semantics /\ valid'.attributes = valid.attributes
    BY <2>3 DEF PhasesInv, Typed
  <2>5. UNCHANGED <<text, cpInput, vpLines>>
    BY <2>3 DEF Input
  <2>6. Typed'
    BY <2>2, <2>3, <2>5 DEF PhasesInv, Typed
  <2>7. InputHolds'
    BY <2>2, <2>4, <2>5 DEF PhasesInv, InputHolds, LinesValid
  <2>8. SyntaxHolds' /\ SemanticsHold' /\ AttributesHold'
    BY <2>3, <2>4, <2>5 DEF PhasesInv, SyntaxHolds, SemanticsHold, AttributesHold, Parses
  <2> QED
    BY <2>6, <2>7, <2>8 DEF PhasesInv
<1> QED
  BY <1>1, <1>2

\* vApiSyntax runs only with bSyntaxValid down, so that nothing below it can be up
LEMMA SyntaxStep ==
  ASSUME PhasesInv, NEW strict, Syntax(strict)
  PROVE  PhasesInv'
<1>1. PICK b : b = SyntaxValid(strict)
  OBVIOUS
<1>2. b \in BOOLEAN /\ (b => Parses(cpInput))
  BY <1>1 DEF SyntaxValid, Parses
<1>3. CASE vpLines = "freed" /\ ~ b
  <2>1. UNCHANGED <<Input, valid, vpParser, vpAst, grammar, vpAttrsCtx>>
    BY <1>1, <1>3 DEF Syntax, Undefined, Built
  <2> QED
    BY <2>1, NothingChanges
<1>4. CASE ~ (vpLines = "freed" /\ ~ b)
  <2>1. /\ ~ valid.syntax /\ vpParser' = "live" /\ vpAst' = (IF b THEN cpInput ELSE << >>)
        /\ valid' = [valid EXCEPT !.syntax = b] /\ UNCHANGED <<text, cpInput, vpLines>>
    BY <1>1, <1>4 DEF Syntax, Input
  <2>2. ~ valid.semantics /\ ~ valid.attributes
    BY <2>1 DEF PhasesInv, SemanticsHold, AttributesHold
  <2>3. /\ valid'.input = valid.input /\ valid'.syntax = b
        /\ ~ valid'.semantics /\ ~ valid'.attributes
    BY <2>1, <2>2 DEF PhasesInv, Typed
  <2>4. Typed'
    BY <1>2, <2>1 DEF PhasesInv, Typed
  <2>5. InputHolds'
    BY <2>1, <2>3 DEF PhasesInv, InputHolds, LinesValid
  <2>6. SyntaxHolds'
    BY <1>2, <2>1, <2>3 DEF SyntaxHolds, Parses
  <2> QED
    BY <2>3, <2>4, <2>5, <2>6 DEF PhasesInv, SemanticsHold, AttributesHold
<1> QED
  BY <1>3, <1>4

\* vApiOpcodes: the attributes that may be left from an earlier call are of no flag that is up
LEMMA OpcodesStep ==
  ASSUME PhasesInv, Opcodes
  PROVE  PhasesInv'
<1>1. valid.syntax /\ ~ valid.semantics
  BY DEF Opcodes
<1>2. vpAst = cpInput
  BY <1>1 DEF PhasesInv, SyntaxHolds
<1>3. CASE Refused(vpAst)
  <2>1. UNCHANGED <<Input, valid, vpParser, vpAst, grammar, vpAttrsCtx>>
    BY <1>3 DEF Opcodes, Undefined, Built
  <2> QED
    BY <2>1, NothingChanges
<1>4. CASE ~ Refused(vpAst)
  <2>1. /\ grammar' = TablesOf(vpAst) /\ valid' = [valid EXCEPT !.semantics = TRUE]
        /\ UNCHANGED <<text, cpInput, vpLines, vpParser, vpAst, vpAttrsCtx>>
    BY <1>4 DEF Opcodes, Translated, Input
  <2>2. ~ valid.attributes
    BY <1>1 DEF PhasesInv, AttributesHold
  <2>3. /\ valid'.input = valid.input /\ valid'.syntax
        /\ valid'.semantics /\ ~ valid'.attributes
    BY <1>1, <2>1, <2>2 DEF PhasesInv, Typed
  <2>4. Typed'
    BY <2>1 DEF PhasesInv, Typed
  <2>5. InputHolds' /\ SyntaxHolds'
    BY <1>1, <2>1, <2>3 DEF PhasesInv, InputHolds, LinesValid, SyntaxHolds, Parses
  <2>6. SemanticsHold'
    BY <1>2, <1>4, <2>1, <2>3 DEF SemanticsHold
  <2> QED
    BY <2>3, <2>4, <2>5, <2>6 DEF PhasesInv, AttributesHold
<1> QED
  BY <1>3, <1>4

\* bApiAttrs: bAttributesValid stays up if it was, for it was these attributes that put it up
LEMMA AttrsStep ==
  ASSUME PhasesInv, Attrs
  PROVE  PhasesInv'
<1>1. PICK found : found = AttributeList(grammar)
  OBVIOUS
<1> DEFINE fine == \A r \in DOMAIN grammar.rules : ~ IsFatal(found[r])
           b == valid.attributes \/ fine
<1>2. b \in BOOLEAN
  OBVIOUS
<1>3. vpAttrsCtx'.ops = grammar.ops /\ vpAttrsCtx'.rules = found
  BY <1>1 DEF Attrs
<1>4. valid' = [valid EXCEPT !.attributes = b]
  <2>1. valid' = [valid EXCEPT !.attributes = @ \/ \A r \in DOMAIN grammar.rules : ~ IsFatal(vpAttrsCtx'.rules[r])]
    BY DEF Attrs
  <2>2. (\A r \in DOMAIN grammar.rules : ~ IsFatal(vpAttrsCtx'.rules[r])) <=> fine
    BY <1>3
  <2> QED
    BY <2>1, <2>2 DEF PhasesInv, Typed
<1>5. b => fine
  BY <1>1 DEF PhasesInv, AttributesHold
<1> HIDE DEF fine, b
<1>6. valid.semantics /\ UNCHANGED <<text, cpInput, vpLines, vpParser, vpAst, grammar>>
  BY DEF Attrs, Input
<1>7. /\ valid'.input = valid.input /\ valid'.syntax = valid.syntax
      /\ valid'.semantics = valid.semantics /\ valid'.attributes = b
  BY <1>4 DEF PhasesInv, Typed
<1>8. Typed'
  BY <1>2, <1>4, <1>6 DEF PhasesInv, Typed
<1>9. InputHolds' /\ SyntaxHolds' /\ SemanticsHold'
  BY <1>6, <1>7 DEF PhasesInv, InputHolds, LinesValid, SyntaxHolds, SemanticsHold, Parses
<1>10. AttributesHold'
  <2>1. fine => \A r \in DOMAIN grammar.rules : ~ IsFatal(found[r])
    BY DEF fine
  <2> QED
    BY <1>1, <1>3, <1>5, <1>6, <1>7, <2>1 DEF AttributesHold
<1> QED
  BY <1>8, <1>9, <1>10 DEF PhasesInv

-----------------------------------------------------------------------------
LEMMA PhasesInvInit ==
  Init => PhasesInv
BY DEF Init, PhasesInv, Typed, InputHolds, SyntaxHolds, SemanticsHold, AttributesHold, NotValid

LEMMA PhasesInvNext ==
  ASSUME PhasesInv, [Next]_vars
  PROVE  PhasesInv'
<1>1. CASE InClear
  BY <1>1, InClearStep
<1>2. ASSUME NEW s \in Inputs, InString(s)
      PROVE  PhasesInv'
  BY <1>2, InStringStep
<1>3. ASSUME NEW strict \in Stricts, InValidate(strict)
      PROVE  PhasesInv'
  BY <1>3, InValidateStep
<1>4. ASSUME NEW strict \in Stricts, Syntax(strict)
      PROVE  PhasesInv'
  BY <1>4, SyntaxStep
<1>5. CASE Opcodes
  BY <1>5, OpcodesStep
<1>6. CASE Attrs
  BY <1>6, AttrsStep
<1>7. ASSUME NEW list \in ProtectedLists, Pppt(list)
      PROVE  PhasesInv'
  <2>1. UNCHANGED <<Input, valid, vpParser, vpAst, grammar, vpAttrsCtx>>
    BY <1>7 DEF Pppt
  <2> QED
    BY <2>1, NothingChanges
<1>8. CASE OutputParser \/ Dtor \/ UNCHANGED vars
  <2>1. UNCHANGED <<Input, valid, vpParser, vpAst, grammar, vpAttrsCtx>>
    BY <1>8 DEF OutputParser, Dtor, Undefined, Built, vars
  <2> QED
    BY <2>1, NothingChanges
<1> QED
  BY <1>1, <1>2, <1>3, <1>4, <1>5, <1>6, <1>7, <1>8 DEF Next

\* In whatever order an application appends, clears, validates, parses and translates, also when a
\* phase throws, finds an error, or clears only half, a flag that is up is about the input that the
\* phases read: the syntax tree is that of it, the tables are those of the grammar written in it,
\* and no rule of them has a fatal attribute. It is the input put in since the last clear, but
\* where a clear threw and left the lines of one it removed.
THEOREM FlagsAreCurrent ==
  ASSUME TablesAreWritten
  PROVE  Spec => []PhasesAreCurrent
<1>1. PhasesInv => PhasesAreCurrent
  BY DEF PhasesInv, Typed, InputHolds, SyntaxHolds, SemanticsHold, AttributesHold, PhasesAreCurrent,
         TablesAreWritten
<1> QED
  BY PhasesInvInit, PhasesInvNext, <1>1, PTL DEF Spec
=============================================================================
