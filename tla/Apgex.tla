------------------------------- MODULE Apgex -------------------------------
(***************************************************************************)
(* The pattern-matching engine (apgex/apgex.c): one object, driven by an   *)
(* application that sets patterns, enables rules, moves the index and      *)
(* executes, tests, replaces and splits. A call that parses runs here one  *)
(* parse at a time:                                                        *)
(*   "idle"     the application has control                                *)
(*   "search"   at the entry of vExecResult, bExecTest or, in a split, of  *)
(*              vMatchGlobal                                               *)
(*   "attempt"  in the loop of vMatchDefault, vMatchGlobal, vMatchSticky   *)
(*              or of their bTest twins, before a parse                    *)
(*   "found"    back in the calling function                               *)
(*   "exited"   vExContext ended the program, or what it does next is      *)
(*              undefined                                                  *)
(* Offsets in a source count from 0; positions in vpVecRelPhrases count    *)
(* from 1, and 0 stands for APG_UNDEFINED. UDTs, tracing and the "p" flag  *)
(* are left out.                                                           *)
(***************************************************************************)
EXTENDS Integers, Sequences, FiniteSets, SequencesExt

CONSTANTS
  Patterns, NoPattern,   \* what vApiOutputParser may build a parser for
  RulesOf(_),            \* the rules of a pattern, numbered from 1
  MatchAt(_, _, _, _),   \* vParserParse: pattern, source, where to begin, rules to record
  Sources,               \* the phrases an application may pass as a source,
  Replacements,          \*   as a replacement,
  FuncPhrases,           \*   and return from a replacement function
  FlagStrings, NameLists, LastIndexes, Limits,
  SetUpAfter,            \* bound: settings change after these calls only
  APG_MAX_AINT,
  Junk,                  \* a character past the end of the source
  MaxSource,             \* bounds: a replacement that does not end stops at a source
  MaxIndex               \*   or an index this large

\* which rules are recorded does not change what matches
ASSUME ApgexAssumption ==
  /\ NoPattern \notin Patterns
  /\ \A p \in Patterns : IsFiniteSet(RulesOf(p))
  /\ \A s \in Sources : s \in Seq(Nat)
  /\ \A p \in Patterns, s \in Sources : \A beg \in 0..(Len(s) - 1), rules \in SUBSET RulesOf(p) :
       LET m == MatchAt(p, s, beg, rules)
           n == MatchAt(p, s, beg, {})
       IN /\ m.ok \in BOOLEAN /\ m.len \in Nat /\ m.ok = n.ok
          /\ m.ok => m.len = n.len /\ m.tree \in Seq(Nat \X {"PRE", "POST"} \X Nat \X Nat)
  /\ \A names \in NameLists : names \in Seq(Nat)
  /\ LastIndexes \subseteq Nat
  /\ MaxIndex \in Nat

VARIABLES
  pattern,               \* vpParser and what is fixed with it
  mode,                  \* bDefaultMode, bGlobalMode, bStickyMode
  uiLastIndex,
  bEnabled, uiEnabledRuleCount,
  stringsFreed,          \* the buffer of vpVecStrings is freed, the vector does not know
  spRelRules, vpVecRelPhrases,
  vpVecSource, vpVecOriginalSource,
  astCallbacks, astRecords,
  pc, call,              \* the call in progress, or the last one: its arguments
  uiSubStringBeg,        \* sConfig's, 0 when no attempt is under way
  sResult,               \* the caller's apgex_result
  bReturn,               \* what a test returns
  threw,                 \* the last call threw
  vpVecSplitPhrases

object == <<pattern, mode, bEnabled, uiEnabledRuleCount, stringsFreed>>
lists  == <<spRelRules, vpVecRelPhrases>>
source == <<vpVecSource, vpVecOriginalSource>>
ast    == <<astCallbacks, astRecords>>
vars   == <<object, uiLastIndex, lists, source, ast, pc, call, uiSubStringBeg, sResult, bReturn,
            threw, vpVecSplitPhrases>>

NoResult == [found |-> FALSE]
SetUp    == [op |-> "setup"]

Rules == IF pattern = NoPattern THEN {} ELSE RulesOf(pattern)

ClearedRules(rules) == [r \in rules |-> [first |-> 0, last |-> 0, count |-> 0]]

\* what a pointer and a length name in the source of now
Slice(s, offset, length) ==
  [k \in 1..length |-> IF offset + k =< Len(s) THEN s[offset + k] ELSE Junk]

Init ==
  /\ pattern = NoPattern /\ mode = "default"
  /\ uiLastIndex = 0
  /\ bEnabled = {} /\ uiEnabledRuleCount = 0 /\ stringsFreed = FALSE
  /\ spRelRules = << >> /\ vpVecRelPhrases = << >>
  /\ vpVecSource = << >> /\ vpVecOriginalSource = << >>
  /\ astCallbacks = {} /\ astRecords = << >>
  /\ pc = "idle" /\ call = SetUp
  /\ uiSubStringBeg = 0
  /\ sResult = NoResult /\ bReturn = FALSE /\ threw = FALSE
  /\ vpVecSplitPhrases = << >>

-----------------------------------------------------------------------------
(* What an application sets before a match.                                *)

\* the locals and the caller's result are those of a new call
NewSetting == call.op \in SetUpAfter /\ call' = SetUp /\ sResult' = NoResult /\ bReturn' = FALSE /\ uiSubStringBeg' = 0

ReturnTo(thrown) == pc' = "idle" /\ threw' = thrown

\* the first of "g" and "y" holds
Mode(flags) ==
  LET modes == SelectSeq(flags, LAMBDA f : f \in {"g", "y"}) IN
  IF modes = << >> THEN "default" ELSE IF Head(modes) = "g" THEN "global" ELSE "sticky"

(***************************************************************************)
(* vApgexPattern, vApgexPatternFile, vApgexPatternParser: all is cleared   *)
(* first, so that a pattern that throws leaves the object without one.     *)
(***************************************************************************)
Pattern(p, flags) ==
  /\ pc = "idle"
  /\ uiLastIndex' = 0
  /\ bEnabled' = {} /\ uiEnabledRuleCount' = 0
  /\ vpVecRelPhrases' = << >>
  /\ vpVecSource' = << >> /\ vpVecOriginalSource' = << >> /\ vpVecSplitPhrases' = << >>
  /\ astCallbacks' = {} /\ astRecords' = << >>
  /\ \/ /\ pattern' = p /\ mode' = Mode(flags)
        /\ spRelRules' = ClearedRules(RulesOf(p))
        /\ ReturnTo(FALSE)
     \/ /\ pattern' = NoPattern /\ mode' = "default"
        /\ spRelRules' = << >>
        /\ ReturnTo(TRUE)
  /\ NewSetting
  /\ UNCHANGED stringsFreed

(***************************************************************************)
(* vApgexEnableRules. names is the list, with 0 for "--all". The first     *)
(* that is no rule ends the list: those before it are set, the count is    *)
(* not taken again, and the buffer the names are written to is freed.      *)
(***************************************************************************)
EnableNames(names, enable) ==
  LET bad == {i \in DOMAIN names : names[i] \notin Rules}
      named == {names[i] : i \in {i \in DOMAIN names : \A j \in bad : i < j}}
  IN /\ bEnabled' = IF enable THEN bEnabled \cup named ELSE bEnabled \ named
     /\ IF bad = {} THEN uiEnabledRuleCount' = Cardinality(bEnabled') /\ UNCHANGED stringsFreed
                    ELSE UNCHANGED uiEnabledRuleCount /\ stringsFreed' = TRUE
     /\ ReturnTo(bad # {})

EnableAll(enable) ==
  /\ bEnabled' = IF enable THEN Rules ELSE {}
  /\ uiEnabledRuleCount' = Cardinality(Rules)
  /\ UNCHANGED stringsFreed
  /\ ReturnTo(FALSE)

EnableRules(names, enable) ==
  /\ pc = "idle" /\ NewSetting
  /\ \/ /\ pattern = NoPattern
        /\ ReturnTo(TRUE) /\ UNCHANGED <<bEnabled, uiEnabledRuleCount, stringsFreed>>
     \/ /\ pattern # NoPattern /\ stringsFreed
        /\ pc' = "exited" /\ UNCHANGED <<bEnabled, uiEnabledRuleCount, stringsFreed, threw>>
     \/ /\ pattern # NoPattern /\ ~stringsFreed
        /\ IF \E i \in DOMAIN names : names[i] = 0 /\ \A j \in 1..(i - 1) : names[j] \in Rules
             THEN EnableAll(enable) ELSE EnableNames(names, enable)
  /\ UNCHANGED <<pattern, mode, uiLastIndex, lists, source, ast, vpVecSplitPhrases>>

\* vApgexSetLastIndex: any value is taken
SetLastIndex(i) ==
  /\ pc = "idle" /\ NewSetting
  /\ uiLastIndex' = i
  /\ ReturnTo(FALSE)
  /\ UNCHANGED <<object, lists, source, ast, vpVecSplitPhrases>>

-----------------------------------------------------------------------------
(* The beginning of the calls that match.                                  *)

\* vClearForParse, and the source that is pushed after it
ClearForParse(src, original) ==
  /\ vpVecSource' = src /\ vpVecOriginalSource' = original
  /\ vpVecRelPhrases' = << >> /\ spRelRules' = ClearedRules(Rules)
  /\ vpVecSplitPhrases' = << >>

Throws == ReturnTo(TRUE) /\ UNCHANGED <<object, uiLastIndex, lists, source, ast, uiSubStringBeg,
                                        sResult, bReturn, vpVecSplitPhrases>>

Begin(op, src, arg) ==
  [op |-> op, from |-> uiLastIndex, source |-> src, arg |-> arg, begin |-> 0, uiLimit |-> 0]

\* the result of the call begins empty, and its search with the next step
Searches == pc' = "search" /\ sResult' = NoResult /\ bReturn' = FALSE /\ threw' = FALSE

Exec(src) ==
  /\ pc = "idle"
  /\ call' = Begin("exec", src, << >>)
  /\ IF pattern = NoPattern \/ src = << >> THEN Throws
     ELSE /\ ClearForParse(src, << >>)
          /\ astCallbacks' = Rules            \* vInitCallbacks
          /\ Searches
          /\ UNCHANGED <<object, uiLastIndex, astRecords, uiSubStringBeg>>

\* neither the callbacks are set nor is it checked that there is a pattern
Test(src) ==
  /\ pc = "idle"
  /\ call' = Begin("test", src, << >>)
  /\ IF src = << >> THEN Throws
     ELSE /\ ClearForParse(src, << >>)
          /\ Searches
          /\ UNCHANGED <<object, uiLastIndex, ast, uiSubStringBeg>>

\* sApgexReplace with op "replace", sApgexReplaceFunc with op "func"
Replace(op, src, raw) ==
  /\ pc = "idle"
  /\ call' = Begin(op, src, raw)
  /\ IF src = << >> THEN Throws
     ELSE IF pattern = NoPattern
       THEN /\ ReturnTo(TRUE)
            /\ ClearForParse(<< >>, << >>)
            /\ UNCHANGED <<object, uiLastIndex, ast, uiSubStringBeg, sResult, bReturn>>
       ELSE /\ ClearForParse(src, src)
            /\ astCallbacks' = Rules
            /\ Searches
            /\ UNCHANGED <<object, uiLastIndex, astRecords, uiSubStringBeg>>

\* spApgexSplit disables all rules for good
Split(src, limit) ==
  /\ pc = "idle"
  /\ call' = [Begin("split", src, limit) EXCEPT !.uiLimit = IF limit = 0 THEN APG_MAX_AINT ELSE limit]
  /\ IF src = << >> THEN Throws
     ELSE /\ ClearForParse(src, << >>)
          /\ uiLastIndex' = 0
          /\ bEnabled' = {} /\ uiEnabledRuleCount' = 0
          /\ Searches
          /\ UNCHANGED <<pattern, mode, stringsFreed, ast, uiSubStringBeg>>

-----------------------------------------------------------------------------
(* The search.                                                             *)

(***************************************************************************)
(* vExecResult and bExecTest return at once when the index is past the     *)
(* source, and leave the caller's result as it is. A split has no such     *)
(* check: vMatchGlobal clears the result before its loop condition fails.  *)
(* To parse without a parser ends the program.                             *)
(***************************************************************************)
Search ==
  /\ pc = "search"
  /\ LET past == uiLastIndex >= Len(vpVecSource) IN
     /\ uiSubStringBeg' = IF past THEN 0 ELSE uiLastIndex
     /\ sResult' = IF past /\ call.op # "split" THEN sResult ELSE NoResult
     /\ pc' = IF past THEN "found" ELSE IF pattern = NoPattern THEN "exited" ELSE "attempt"
  /\ call' = [call EXCEPT !.begin = uiLastIndex]
  /\ UNCHANGED <<object, uiLastIndex, lists, source, ast, bReturn, threw, vpVecSplitPhrases>>

\* vMatchDefault stops at the first match; in a split vMatchGlobal is called in every mode
SearchMode == IF call.op = "split" THEN "global" ELSE mode

Advance(beg, len) == IF len = 0 THEN beg + 1 ELSE beg + len

(***************************************************************************)
(* pfnRuleCallback: the phrase of an enabled rule is linked to the list of *)
(* its rule. l is [rules, phrases], phrase [index, offset, length].        *)
(***************************************************************************)
LengthenedAtFirst(rule, here) ==                                  \* mutant
  [first |-> here, last |-> here, count |-> rule.count + 1]
Lengthened(rule, here) ==
  [first |-> IF rule.first = 0 THEN here ELSE rule.first, last |-> here, count |-> rule.count + 1]

LinkPhrase(l, p) ==
  LET rule == l.rules[p.index]
      here == Len(l.phrases) + 1
      phrases == IF rule.first = 0 THEN l.phrases ELSE [l.phrases EXCEPT ![rule.last].next = here]
  IN [rules |-> [l.rules EXCEPT ![p.index] = Lengthened(@, here)],
      phrases |-> Append(phrases, [offset |-> p.offset, length |-> p.length, next |-> 0])]

\* a node of the AST is <<index, state, offset, length>>
NodePhrase(node) == [index |-> node[1], offset |-> node[3], length |-> node[4]]

\* vAstTranslate over the nodes of a match; the set makes TLC evaluate link[k - 1] once
Translate(tree) ==
  LET link[k \in 0..Len(tree)] ==
        IF k = 0 THEN [rules |-> spRelRules, phrases |-> vpVecRelPhrases]
        ELSE IF tree[k][1] \in bEnabled /\ tree[k][2] = "PRE"
          THEN CHOOSE l \in {LinkPhrase(before, NodePhrase(tree[k])) : before \in {link[k - 1]}} : TRUE
          ELSE link[k - 1]
  IN link[Len(tree)]

\* the list that begins at a position: links only go forward
Chain(phrases, first) ==
  LET chain[i \in 0..Len(phrases)] ==
        IF i = 0 THEN << >>
        ELSE <<<<phrases[i].offset, phrases[i].length>>>> \o chain[phrases[i].next]
  IN chain[first]

RightLength(beg, len) == Len(vpVecSource) - (beg + len)

(***************************************************************************)
(* vMatchResult: the AST is translated to lists of phrases, three more     *)
(* phrases are pushed, and the caller's result is made. The sanity check   *)
(* compares each list with the count of its rule. The AST callbacks are    *)
(* gone afterwards.                                                        *)
(***************************************************************************)
MatchResult(beg, m) ==
  LET l == Translate(m.tree)
      list == [r \in bEnabled |-> Chain(l.phrases, l.rules[r].first)]
      sane == uiEnabledRuleCount = 0 \/ \A r \in bEnabled : Len(list[r]) = l.rules[r].count
      Phrase(offset, length) == [offset |-> offset, length |-> length, next |-> 0]
  IN /\ spRelRules' = l.rules
     /\ vpVecRelPhrases' = l.phrases \o <<Phrase(beg, m.len), Phrase(0, beg),
                                          Phrase(beg + m.len, RightLength(beg, m.len))>>
     /\ sResult' = [found |-> TRUE, beg |-> beg, length |-> m.len,
                    right |-> RightLength(beg, m.len),
                    uiRuleCount |-> uiEnabledRuleCount,
                    rules |-> IF uiEnabledRuleCount = 0 THEN << >> ELSE list]
     /\ IF sane THEN pc' = "found" /\ astCallbacks' = {} /\ UNCHANGED threw
                ELSE ReturnTo(TRUE) /\ UNCHANGED astCallbacks

\* the parse of an attempt matches
AttemptMatches(beg, m) ==
  /\ m.ok
  /\ astRecords' = m.tree
  /\ IF call.op = "test"
       THEN /\ bReturn' = TRUE /\ pc' = "found"
            /\ UNCHANGED <<lists, sResult, astCallbacks, threw>>
       ELSE MatchResult(beg, m) /\ UNCHANGED bReturn
  /\ uiLastIndex' = IF SearchMode = "default" THEN 0 ELSE Advance(beg, m.len)
  /\ uiSubStringBeg' = 0

OneMoreSticky(beg) == beg + 1 < Len(vpVecSource)                  \* mutant
OneMore(beg) == SearchMode # "sticky" /\ beg + 1 < Len(vpVecSource)

NextAttemptSame(beg) == <<beg, uiLastIndex>>                      \* mutant
NextAttempt(beg) == <<beg + 1, uiLastIndex + 1>>

\* it does not: the next character, or the end of the search; the AST is left empty
AttemptFails(beg, m) ==
  /\ ~m.ok
  /\ astRecords' = << >>
  /\ IF OneMore(beg)
       THEN /\ uiSubStringBeg' = NextAttempt(beg)[1] /\ uiLastIndex' = NextAttempt(beg)[2]
            /\ UNCHANGED pc
       ELSE /\ pc' = "found"
            /\ uiLastIndex' = IF call.op = "split" THEN uiLastIndex + 1 ELSE 0
            /\ uiSubStringBeg' = 0
  /\ UNCHANGED <<lists, sResult, astCallbacks, bReturn, threw>>

Attempt ==
  /\ pc = "attempt"
  /\ \E m \in {MatchAt(pattern, vpVecSource, uiSubStringBeg, astCallbacks)} :
       AttemptMatches(uiSubStringBeg, m) \/ AttemptFails(uiSubStringBeg, m)
  /\ UNCHANGED <<object, source, call, vpVecSplitPhrases>>

-----------------------------------------------------------------------------
(* Back in the calling function.                                           *)

\* sApgexExec ends; vResetCallbacks
ExecReturn ==
  /\ pc = "found" /\ call.op = "exec"
  /\ astCallbacks' = {}
  /\ ReturnTo(FALSE)
  /\ UNCHANGED <<object, uiLastIndex, lists, source, astRecords, call, uiSubStringBeg, sResult, bReturn,
                 vpVecSplitPhrases>>

TestReturn ==
  /\ pc = "found" /\ call.op = "test"
  /\ ReturnTo(FALSE)
  /\ UNCHANGED <<object, uiLastIndex, lists, source, ast, call, uiSubStringBeg, sResult, bReturn,
                 vpVecSplitPhrases>>

(***************************************************************************)
(* vReplacement. A replacement is a sequence of tokens: [id, value] with   *)
(* id "LIT" a character, "DOLLAR" $$, "SOURCE" $_, "MATCH" $&, "LEFT" $`,  *)
(* "RIGHT" $', "NAME" $<rule value>, and "BAD" a $ followed by none of     *)
(* these. A replacement of at most one character is taken as empty.        *)
(***************************************************************************)
Dollar == 36
OneCharacter(raw) == Len(raw) = 1 /\ raw[1].id = "LIT"

NamePhraseLast(rule) ==                                           \* mutant
  IF rule \notin bEnabled \/ spRelRules[rule].first = 0 THEN << >>
  ELSE LET p == vpVecRelPhrases[spRelRules[rule].last] IN Slice(vpVecSource, p.offset, p.length)
\* vNamePhrase: the first phrase of the list, at its offset in the source of now
NamePhrase(rule) ==
  IF rule \notin bEnabled \/ spRelRules[rule].first = 0 THEN << >>
  ELSE LET p == vpVecRelPhrases[spRelRules[rule].first] IN Slice(vpVecSource, p.offset, p.length)

Expand(t) ==
  CASE t.id = "LIT"    -> <<t.value>>
    [] t.id = "DOLLAR" -> <<Dollar>>
    [] t.id = "SOURCE" -> IF sResult.length = 0 THEN << >> ELSE vpVecOriginalSource
    [] t.id = "MATCH"  -> Slice(vpVecSource, sResult.beg, sResult.length)
    [] t.id = "LEFT"   -> Slice(vpVecSource, 0, sResult.beg)
    [] t.id = "RIGHT"  -> Slice(vpVecSource, sResult.beg + sResult.length, sResult.right)
    [] t.id = "NAME"   -> NamePhrase(t.value)

Malformed(raw) == \E i \in DOMAIN raw : raw[i].id = "BAD"
Names(raw) == {raw[i].value : i \in {i \in DOMAIN raw : raw[i].id = "NAME"}}

Replacement(raw) ==
  IF OneCharacter(raw) THEN << >> ELSE FlattenSeq([i \in DOMAIN raw |-> Expand(raw[i])])

NextIndexForgets(length) == uiLastIndex + length                  \* mutant
NextIndex(length) == uiLastIndex + length - sResult.length

(***************************************************************************)
(* vReplace: the source is cut after the left context; the replacement and *)
(* the right context follow. The pointers of the result are used as they   *)
(* are, also when vExecResult has left an earlier result in place.         *)
(***************************************************************************)
ReplaceMatch(new) ==
  /\ vpVecSource' = Slice(vpVecSource, 0, sResult.beg) \o new
                      \o Slice(vpVecSource, sResult.beg + sResult.length, sResult.right)
  /\ Len(vpVecSource') =< MaxSource
  /\ IF mode = "default" THEN ReturnTo(FALSE) /\ astCallbacks' = {} /\ uiLastIndex' = 0
     ELSE /\ NextIndex(Len(new)) \in 0..MaxIndex
          /\ pc' = "search" /\ uiLastIndex' = NextIndex(Len(new))
          /\ UNCHANGED <<astCallbacks, threw>>

\* what the loops of sApgexReplace and sApgexReplaceFunc do with a match
ReplaceStep ==
  /\ pc = "found" /\ call.op \in {"replace", "func"} /\ sResult.found
  /\ IF call.op = "replace" /\ stringsFreed /\ Names(call.arg) # {}
       THEN pc' = "exited" /\ UNCHANGED <<vpVecSource, uiLastIndex, astCallbacks, threw>>
     ELSE IF call.op = "replace" /\ (Malformed(call.arg) \/ ~(Names(call.arg) \subseteq Rules))
       THEN ReturnTo(TRUE) /\ UNCHANGED <<vpVecSource, uiLastIndex, astCallbacks>>
       ELSE \E new \in IF call.op = "func" THEN FuncPhrases ELSE {Replacement(call.arg)} : ReplaceMatch(new)
  /\ UNCHANGED <<object, lists, vpVecOriginalSource, astRecords, call, uiSubStringBeg, sResult, bReturn,
                 vpVecSplitPhrases>>

ReplaceReturn ==
  /\ pc = "found" /\ call.op \in {"replace", "func"} /\ ~sResult.found
  /\ uiLastIndex' = 0
  /\ astCallbacks' = {}
  /\ ReturnTo(FALSE)
  /\ UNCHANGED <<object, lists, source, astRecords, call, uiSubStringBeg, sResult, bReturn,
                 vpVecSplitPhrases>>

\* the sub-phrase before a match, or after the last: offset and length
SubPhraseOne(begin) ==                                            \* mutant
  IF ~sResult.found THEN <<begin, Len(vpVecSource) - begin>> ELSE <<begin, sResult.beg - begin>>
SubPhrase(begin) ==
  IF ~sResult.found THEN <<begin, Len(vpVecSource) - begin>>
  ELSE IF sResult.length = 0 THEN <<begin, 1>>
  ELSE <<begin, sResult.beg - begin>>

\* the loop of spApgexSplit
SplitStep ==
  /\ pc = "found" /\ call.op = "split"
  /\ LET piece == SubPhrase(call.begin) IN
     vpVecSplitPhrases' = IF piece[2] = 0 THEN vpVecSplitPhrases ELSE Append(vpVecSplitPhrases, piece)
  /\ call' = [call EXCEPT !.uiLimit = @ - 1]
  /\ IF sResult.found /\ call.uiLimit > 1 THEN pc' = "search" /\ UNCHANGED <<astCallbacks, threw>>
     ELSE ReturnTo(FALSE) /\ astCallbacks' = {}
  /\ UNCHANGED <<object, uiLastIndex, lists, source, astRecords, uiSubStringBeg, sResult, bReturn>>

-----------------------------------------------------------------------------
Setup ==
  \/ \E p \in Patterns, flags \in FlagStrings : Pattern(p, flags)
  \/ \E names \in NameLists, enable \in BOOLEAN : EnableRules(names, enable)
  \/ \E i \in LastIndexes : SetLastIndex(i)

Call ==
  \E src \in Sources :
    \/ Exec(src)
    \/ Test(src)
    \/ \E raw \in Replacements : Replace("replace", src, raw)
    \/ FuncPhrases # {} /\ Replace("func", src, << >>)
    \/ \E limit \in Limits : Split(src, limit)

\* the steps of a call that has begun
Step == Search \/ Attempt \/ ExecReturn \/ TestReturn \/ ReplaceStep \/ ReplaceReturn \/ SplitStep

Next == Setup \/ Call \/ Step

Spec == Init /\ [][Next]_vars
\* a call that has begun goes on: the object is used by one thread
FairSpec == Spec /\ WF_vars(Step)
-----------------------------------------------------------------------------
(* Correctness of a search.                                                *)

\* the match at an offset of the source as it was passed
M(beg) == MatchAt(pattern, call.source, beg, {})

Matching(from) == {b \in from..(Len(call.source) - 1) : M(b).ok}

\* where the match from an offset on begins: 0 or one offset
First(from, how) ==
  {b \in Matching(from) : (how = "sticky" => b = from) /\ \A c \in Matching(from) : b =< c}

Returned(op) == pc = "idle" /\ ~threw /\ call.op = op

\* what the caller of sApgexExec and bApgexTest is told, and where the index is left
LeftmostReported ==
  LET first == First(call.from, mode)
      found == first # {}
  IN /\ IF call.op = "test" THEN bReturn = found ELSE sResult.found = found
     /\ found => LET b == CHOOSE b \in first : TRUE IN
          /\ call.op = "exec" => /\ sResult.beg = b /\ sResult.length = M(b).len
                                 /\ b + M(b).len + sResult.right = Len(call.source)
          /\ uiLastIndex = IF mode = "default" THEN 0
                           ELSE IF M(b).len = 0 THEN b + 1 ELSE b + M(b).len
     /\ ~found => uiLastIndex = IF call.from >= Len(call.source) THEN call.from ELSE 0

\* sApgexExec and bApgexTest report the leftmost match at or after the index the call began with
\* (in sticky mode, the one that begins there), and leave the index after it: behind the match,
\* one further when it is empty, at 0 in default mode or without a match. Only an index past the
\* source stays as it is. So calls repeated on one source in global mode report, one by one, all
\* the matches that do not overlap, and then none.
FoundIsLeftmost == (Returned("exec") \/ Returned("test")) => LeftmostReported

IsPhraseOf(r, node) == node[1] = r /\ node[2] = "PRE"

Nodes(tree, r) == {i \in DOMAIN tree : IsPhraseOf(r, tree[i])}

\* a list has the phrases of the nodes of a rule, each at its place among them
Lists(list, tree, r) ==
  /\ Len(list) = Cardinality(Nodes(tree, r))
  /\ \A i \in Nodes(tree, r) :
       list[Cardinality({j \in Nodes(tree, r) : j =< i})] = <<tree[i][3], tree[i][4]>>

\* The phrases that sApgexExec returns for an enabled rule are the nodes of that rule in the
\* syntax tree of the match, in order, and the AST that is left holds the nodes of all rules,
\* whatever was enabled, matched or thrown before. The lists always have as many phrases as were
\* counted: the check that would throw never does.
PhrasesAreNodes ==
  /\ (pc = "idle" /\ call.op = "exec" /\ pattern # NoPattern /\ call.source # << >>) => ~threw
  /\ (Returned("exec") /\ sResult.found) =>
    LET tree == MatchAt(pattern, call.source, sResult.beg, Rules).tree IN
    /\ astRecords = tree
    /\ sResult.uiRuleCount = Cardinality(bEnabled) => \A r \in bEnabled : Lists(sResult.rules[r], tree, r)
=============================================================================
