--------------------------------- MODULE Api ---------------------------------
(***************************************************************************)
(* The phases of the parser generator (api/): input, validation, syntax,   *)
(* opcodes, attributes, prediction maps and output, each a call of the     *)
(* application on one api object, in any order the application likes.      *)
(* vApiString and vApiFile are sequences of these calls.                   *)
(*                                                                         *)
(* A text is a sequence of definitions as in Semantics, with two more      *)
(* fields: chars, "bad" if it has a character or a line end that is not    *)
(* allowed, else its line ends, "lf" or "crlf"; and syntax, "error" if it  *)
(* does not parse, else the least notation it does parse in, "abnf" or     *)
(* "sabnf".                                                                *)
(*                                                                         *)
(* A call that follows a pointer to freed memory, or a null pointer, or    *)
(* frees what it read past the end of an array, is the end: pc is          *)
(* "undefined" and nothing is said of what comes after.                    *)
(*                                                                         *)
(* What the phases compute are constants here: the tables of Semantics,    *)
(* the attributes and groups of Attributes, and what AttributesMeaning     *)
(* says of them.                                                           *)
(***************************************************************************)
EXTENDS Integers, Sequences, SequencesExt

CONSTANTS
  Refused(_),      \* vApiOpcodes throws on the AST of a text (OpcodesThrow)
  TablesOf(_),     \* else, the rules, UDTs and opcodes it makes (Tables)
  AttributeList(_), GroupList(_), \* what bApiAttrs finds of the rules (AttributesOf, Groups)
  IsFatal(_),      \*   and whether it is an error (Fatal)
  Written(_, _),   \* the tables are those of the grammar that was written (IsWritten)
  TooLarge(_),     \* luiAcharMax of the tables is the largest luint
  Inputs,          \* the texts an application may pass to cpApiInString
  ProtectedLists,  \* lists of rules for vApiPppt, 0 for a name that is no rule's
  Stricts,         \* values of bStrict
  MaxText          \* bound on the definitions of one input

\* what an application writes, one by one
Definitions == UNION {{s[k] : k \in DOMAIN s} : s \in Inputs}

ASSUME ApiAssumption ==
  /\ Stricts \subseteq BOOLEAN /\ MaxText \in Nat
  /\ Inputs \subseteq Seq(Definitions)

VARIABLES
  text,            \* vpVecInput, what was put in since the last clear
  cpInput,         \* the text that cpInput and uiInputLength say there is
  vpLines,         \* the lines of text: "null", "live", or "freed" and still pointed to
  valid,           \* bInputValid, bSyntaxValid, bSemanticsValid, bAttributesValid
  vpParser,        \* "null", "live", or "freed" and still pointed to
  vpAst,           \* the text whose AST vpAst holds; the AST is freed with its parser
  grammar,         \* spRules, spOpcodes, spUdts
  protected,       \* the rules whose bProtected is set
  complete,        \* the rules whose bIsComplete is set
  vpAttrsCtx,      \* the attributes, and the opcodes they were computed for
  ucpPpptTable,    \* what the maps were computed from: the opcodes, the protected rules, and
                   \* those that were complete; not NULL exactly when bUsePppt
  output,          \* the parser last handed out
  pc               \* "ready", "exited" (vExContext), "closed", or "undefined"

Input == <<text, cpInput, vpLines>>
Built == <<grammar, protected, complete, vpAttrsCtx, ucpPpptTable>>
vars == <<Input, valid, vpParser, vpAst, Built, output, pc>>

NoGrammar == [ops |-> << >>, rules |-> << >>, udts |-> << >>,
              pppt |-> [on |-> FALSE, min |-> 0, max |-> 0]]
NoAttrsCtx == [none |-> TRUE]
NoTable == [none |-> TRUE]
NoOutput == [none |-> TRUE]
NotValid == [input |-> FALSE, syntax |-> FALSE, semantics |-> FALSE, attributes |-> FALSE]

\* vpApiCtor
Init ==
  /\ text = << >>
  /\ cpInput = << >>
  /\ vpLines = "null"
  /\ valid = NotValid
  /\ vpParser = "null"
  /\ vpAst = << >>
  /\ grammar = NoGrammar
  /\ protected = {}
  /\ complete = {}
  /\ vpAttrsCtx = NoAttrsCtx
  /\ ucpPpptTable = NoTable
  /\ output = NoOutput
  /\ pc = "ready"

Undefined ==
  /\ pc' = "undefined"
  /\ output' = NoOutput
  /\ UNCHANGED <<Input, valid, vpParser, vpAst, Built>>

Cleared ==
  /\ text' = << >>
  /\ cpInput' = << >>
  /\ vpLines' = "null"
  /\ valid' = NotValid
  /\ vpParser' = IF vpParser = "live" THEN "freed" ELSE vpParser
  /\ vpAst' = << >>
  /\ grammar' = NoGrammar
  /\ protected' = {}
  /\ complete' = {}
  /\ vpAttrsCtx' = NoAttrsCtx
  /\ ucpPpptTable' = NoTable
  /\ output' = NoOutput
  /\ UNCHANGED pc

\* vMemFree throws in vAttrsDtor: the input is gone, with its lines, and nothing else
HalfCleared ==
  /\ text' = << >>
  /\ vpLines' = IF vpLines = "live" THEN "freed" ELSE vpLines
  /\ output' = NoOutput
  /\ UNCHANGED <<cpInput, valid, vpParser, vpAst, Built, pc>>

\* vAttrsDtor goes by the rules there are now, not by those the attributes were made for
PastAttrs == ~ vpAttrsCtx.none /\ Len(vpAttrsCtx.rules) < Len(grammar.rules)

(***************************************************************************)
(* vApiInClear. The parser is freed and not forgotten: freed again, it is  *)
(* read after it was freed. What lies past the attributes is taken for     *)
(* pointers to free: all may be NULL, or one no block of the memory, which *)
(* throws, or one a block that is in use.                                  *)
(***************************************************************************)
InClear ==
  /\ pc = "ready"
  /\ IF "freed" \in {vpLines, vpParser} THEN Undefined
     ELSE IF PastAttrs THEN Cleared \/ HalfCleared \/ Undefined
     ELSE Cleared

\* the bound on the input: a full one is not appended to, not even nothing
Fits(s) == Len(text) < MaxText /\ Len(text) + Len(s) =< MaxText

InStringKeeps(s) ==                                                   \* mutant
  /\ pc = "ready"
  /\ Fits(s)
  /\ IF s # << >> /\ vpLines = "freed" THEN Undefined
     ELSE /\ text' = text \o s
          /\ cpInput' = IF s = << >> THEN cpInput ELSE text'
          /\ vpLines' = IF s = << >> THEN vpLines ELSE "live"
          /\ valid' = [valid EXCEPT !.input = FALSE, !.syntax = FALSE]
          /\ output' = NoOutput
          /\ UNCHANGED <<vpParser, vpAst, Built, pc>>

(***************************************************************************)
(* cpApiInString and cpApiInFile append s, and make the lines anew. The    *)
(* empty string stands for what is refused when the flags are down         *)
(* already: NULL, an empty string, a file that does not open.              *)
(***************************************************************************)
InString(s) ==
  /\ pc = "ready"
  /\ Fits(s)
  /\ IF s # << >> /\ vpLines = "freed" THEN Undefined
     ELSE /\ text' = text \o s
          /\ cpInput' = IF s = << >> THEN cpInput ELSE text'
          /\ vpLines' = IF s = << >> THEN vpLines ELSE "live"
          /\ valid' = NotValid
          /\ output' = NoOutput
          /\ UNCHANGED <<vpParser, vpAst, Built, pc>>

LinesValid(strict) ==
  \A k \in DOMAIN cpInput : cpInput[k].chars \in (IF strict THEN {"crlf"} ELSE {"lf", "crlf"})

\* vApiInValidate: without lines, spLinesFirst ends the program
InValidate(strict) ==
  /\ pc = "ready"
  /\ IF vpLines = "freed" THEN Undefined
     ELSE /\ pc' = IF vpLines = "null" THEN "exited" ELSE pc
          /\ valid' = [valid EXCEPT !.input = LinesValid(strict)]
          /\ output' = NoOutput
          /\ UNCHANGED <<Input, vpParser, vpAst, Built>>

SyntaxValid(strict) ==
  \A k \in DOMAIN cpInput : cpInput[k].syntax \in (IF strict THEN {"abnf"} ELSE {"abnf", "sabnf"})

(***************************************************************************)
(* vApiSyntax. The earlier parser, if any, is left to the memory it was    *)
(* made in. An error is looked up in the lines.                            *)
(***************************************************************************)
Syntax(strict) ==
  /\ pc = "ready"
  /\ valid.input /\ ~ valid.syntax
  /\ IF vpLines = "freed" /\ ~ SyntaxValid(strict) THEN Undefined
     ELSE /\ vpParser' = "live"
          /\ vpAst' = IF SyntaxValid(strict) THEN cpInput ELSE << >>
          /\ valid' = [valid EXCEPT !.syntax = SyntaxValid(strict)]
          /\ output' = NoOutput
          /\ UNCHANGED <<Input, Built, pc>>

(***************************************************************************)
(* vApiOpcodes. When it throws it leaves the tables of an earlier call, if *)
(* any. The attributes and the maps are not touched: they may be of that   *)
(* earlier call.                                                           *)
(***************************************************************************)
Translated ==
  /\ grammar' = TablesOf(vpAst)
  /\ protected' = {}
  /\ complete' = {}
  /\ valid' = [valid EXCEPT !.semantics = TRUE]
  /\ output' = NoOutput
  /\ UNCHANGED <<Input, vpParser, vpAst, vpAttrsCtx, ucpPpptTable, pc>>

Opcodes ==
  /\ pc = "ready"
  /\ valid.input /\ valid.syntax /\ ~ valid.semantics
  /\ IF ~ Refused(vpAst) THEN Translated
     ELSE IF vpLines = "freed" THEN Undefined
     ELSE output' = NoOutput /\ UNCHANGED <<Input, valid, vpParser, vpAst, Built, pc>>

\* bApiAttrs
Attrs ==
  /\ pc = "ready"
  /\ valid.semantics
  /\ vpAttrsCtx' = [none |-> FALSE, ops |-> grammar.ops, rules |-> AttributeList(grammar),
                    groups |-> GroupList(grammar)]
  /\ valid' = [valid EXCEPT !.attributes = @ \/ \A r \in DOMAIN grammar.rules :
                                                   ~ IsFatal(vpAttrsCtx'.rules[r])]
  /\ output' = NoOutput
  /\ UNCHANGED <<Input, vpParser, vpAst, grammar, protected, complete, ucpPpptTable, pc>>

(***************************************************************************)
(* vApiPppt. The names are protected one after the other: those before one *)
(* that is unknown stay protected when it throws. The maps are those of    *)
(* GetMaps in Pppt: a rule that is complete keeps the map it has, which in *)
(* a new table is none. Nothing but new opcodes makes it incomplete again. *)
(***************************************************************************)
Pppt(list) ==
  LET unknown == SelectInSeq(list, LAMBDA r : r \notin DOMAIN grammar.rules)
      known == IF unknown = 0 THEN list ELSE SubSeq(list, 1, unknown - 1)
  IN
  /\ pc = "ready"
  /\ valid.semantics /\ ~ TooLarge(grammar)
  /\ protected' = protected \cup {known[k] : k \in DOMAIN known}
  /\ IF unknown # 0 THEN UNCHANGED <<complete, ucpPpptTable>>
     ELSE /\ complete' = DOMAIN grammar.rules
          /\ ucpPpptTable' = [none |-> FALSE, ops |-> grammar.ops, protected |-> protected',
                              complete |-> complete]
  /\ output' = NoOutput
  /\ UNCHANGED <<Input, valid, vpParser, vpAst, grammar, vpAttrsCtx, pc>>

Outputs == valid.input /\ valid.syntax /\ valid.semantics

(***************************************************************************)
(* vpApiOutputParser. Whether a rule is empty is read from the attributes: *)
(* without them through a null pointer, past the end of theirs anything.   *)
(***************************************************************************)
WithEmpties(empties) ==
  [grammar EXCEPT !.rules = [r \in DOMAIN @ |-> [op |-> @[r].op, empty |-> empties[r]]]]

OutputParser ==
  /\ pc = "ready"
  /\ Outputs
  /\ IF vpAttrsCtx.none THEN Undefined
     ELSE \E empties \in [DOMAIN grammar.rules -> BOOLEAN] :
            /\ \A r \in DOMAIN grammar.rules \cap DOMAIN vpAttrsCtx.rules :
                 empties[r] = vpAttrsCtx.rules[r].empty
            /\ output' = [none |-> FALSE, grammar |-> WithEmpties(empties), maps |-> ucpPpptTable]
            /\ UNCHANGED <<Input, valid, vpParser, vpAst, Built, pc>>

\* vApiDtor
Dtor ==
  /\ pc = "ready"
  /\ IF "freed" \in {vpLines, vpParser} THEN Undefined
     ELSE /\ pc' = "closed"
          /\ output' = NoOutput
          /\ UNCHANGED <<Input, valid, vpParser, vpAst, Built>>

Next ==
  \/ InClear
  \/ \E s \in Inputs : InString(s)
  \/ \E strict \in Stricts : InValidate(strict) \/ Syntax(strict)
  \/ Opcodes
  \/ Attrs
  \/ \E list \in ProtectedLists : Pppt(list)
  \/ OutputParser
  \/ Dtor

Spec == Init /\ [][Next]_vars

-----------------------------------------------------------------------------
(***************************************************************************)
(* What a flag says was found valid is the input that the phases read, in  *)
(* whatever order they are called: no call that changes the input leaves   *)
(* an earlier finding standing. And that input is the one put in since the *)
(* last clear, unless a clear threw out of halfway, which leaves the flags *)
(* and the lines of the input that it removed.                             *)
(***************************************************************************)
PhasesAreCurrent ==
  /\ vpLines # "freed" => cpInput = text
  /\ valid.input => LinesValid(FALSE)
  /\ valid.syntax => vpParser = "live" /\ vpAst = cpInput
  /\ valid.semantics => valid.syntax /\ Written(grammar, cpInput)
  /\ valid.attributes => /\ valid.semantics
                         /\ vpAttrsCtx.ops = grammar.ops
                         /\ \A r \in DOMAIN grammar.rules : ~ IsFatal(vpAttrsCtx.rules[r])
=============================================================================
