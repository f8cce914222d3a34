----------------------------- MODULE Apgex_proofs -----------------------------
(***************************************************************************)
(* Proofs about the pattern-matching engine, for every pattern, source and *)
(* application: a search reports the leftmost match, the phrases of a      *)
(* result are the nodes of its tree, a split leaves the gaps, and a        *)
(* replacement rewrites every match and nothing else.                      *)
(***************************************************************************)
EXTENDS ApgexMeaning, WellFoundedInduction, FiniteSetTheorems, SequenceTheorems, TLAPS

\* What a theorem takes for granted of a parse, besides ApgexAssumption: a phrase has a length,
\* also in a source that a replacement has made. apg_phrase counts it in an unsigned integer.
LengthsAreNumbers ==
  \A p \in Patterns : \A s, beg, rules : MatchAt(p, s, beg, rules).ok => MatchAt(p, s, beg, rules).len \in Nat

-----------------------------------------------------------------------------
(* The inductive invariant.                                                *)

CallIs(f, s, o, a, b, l) ==
  call = [op |-> o, from |-> f, source |-> s, arg |-> a, begin |-> b, uiLimit |-> l]

Typed ==
  /\ uiLastIndex \in Nat
  /\ uiSubStringBeg \in Nat
  /\ pattern \in Patterns \cup {NoPattern}
  /\ pc = "attempt" => pattern \in Patterns
  /\ astCallbacks \subseteq Rules
  /\ pc \in {"search", "attempt", "found"} =>
       \E f \in Nat, s \in Sources : s # << >> /\ \E o, a, b, l : CallIs(f, s, o, a, b, l)

Looking == call.op \in {"exec", "test"}

Blank == sResult = NoResult /\ bReturn = FALSE

\* no match begins between the index of the call and the attempt under way
NoneBefore(beg) == \A b \in call.from..(beg - 1) : ~M(b).ok

SearchGoesOn ==
  Looking =>
    /\ pc \in {"search", "attempt", "found"} => vpVecSource = call.source
    /\ pc = "search" => Blank /\ uiLastIndex = call.from
    /\ pc = "attempt" => /\ Blank
                         /\ uiSubStringBeg \in call.from..(Len(call.source) - 1)
                         /\ uiLastIndex = uiSubStringBeg
                         /\ NoneBefore(uiSubStringBeg)
                         /\ mode = "sticky" => uiSubStringBeg = call.from
    /\ pc = "found" \/ (pc = "idle" /\ ~threw) => LeftmostReported

SearchInv == Typed /\ SearchGoesOn

-----------------------------------------------------------------------------
(* The leftmost match.                                                     *)

LEMMA FirstHere ==
  ASSUME call.source \in Seq(Nat), NEW from \in Nat, NEW how, NEW beg \in from..(Len(call.source) - 1),
         \A b \in from..(beg - 1) : ~M(b).ok, M(beg).ok, how = "sticky" => beg = from
  PROVE  First(from, how) = {beg}
<1>1. Len(call.source) \in Nat
  OBVIOUS
<1>2. beg \in Matching(from)
  BY DEF Matching
<1>3. \A c \in Matching(from) : beg =< c /\ c \in Nat
  BY <1>1 DEF Matching
<1>4. beg \in First(from, how)
  BY <1>2, <1>3 DEF First
<1>5. \A c \in First(from, how) : c \in Matching(from) /\ c =< beg
  BY <1>2 DEF First
<1>6. \A c \in First(from, how) : c = beg
  BY <1>3, <1>5
<1> QED
  BY <1>4, <1>6

LEMMA FirstNowhere ==
  ASSUME NEW from, NEW how,
         \/ \A b \in from..(Len(call.source) - 1) : ~M(b).ok
         \/ how = "sticky" /\ ~M(from).ok
  PROVE  First(from, how) = {}
BY DEF First, Matching

\* a step that leaves what the report is about
LEMMA ReportStays ==
  ASSUME LeftmostReported, UNCHANGED <<pattern, mode, call, sResult, bReturn, uiLastIndex>>
  PROVE  LeftmostReported'
<1>1. \A b : M(b)' = M(b)
  BY DEF M
<1>2. First(call.from, mode)' = First(call.from, mode)
  BY DEF First, Matching, M
<1> QED
  BY <1>1, <1>2 DEF LeftmostReported

LEMMA Constants ==
  /\ NoPattern \notin Patterns
  /\ \A s \in Sources : s \in Seq(Nat)
  /\ \A names \in NameLists : names \in Seq(Nat)
  /\ LastIndexes \subseteq Nat
  /\ MaxIndex \in Nat
BY ApgexAssumption

LEMMA SameMatches ==
  ASSUME NEW p \in Patterns, NEW s \in Sources, NEW beg \in 0..(Len(s) - 1), NEW rules \in SUBSET RulesOf(p)
  PROVE  /\ MatchAt(p, s, beg, rules).ok = MatchAt(p, s, beg, {}).ok
         /\ MatchAt(p, s, beg, rules).ok => MatchAt(p, s, beg, rules).len = MatchAt(p, s, beg, {}).len
BY ApgexAssumption

-----------------------------------------------------------------------------
(* The steps.                                                              *)

LEMMA SettingStep ==
  ASSUME SearchInv, Setup
  PROVE  SearchInv'
<1>1. call' = SetUp /\ pc' \in {"idle", "exited"}
  BY DEF Setup, Pattern, EnableRules, EnableAll, EnableNames, SetLastIndex, NewSetting, ReturnTo
<1>2. Typed'
  <2>1. uiLastIndex' \in Nat
    <3>1. CASE \E p \in Patterns, flags \in FlagStrings : Pattern(p, flags)
      BY <3>1 DEF Pattern
    <3>2. CASE \E names \in NameLists, enable \in BOOLEAN : EnableRules(names, enable)
      BY <3>2 DEF EnableRules, SearchInv, Typed
    <3>3. CASE \E i \in LastIndexes : SetLastIndex(i)
      <4>1. PICK i \in LastIndexes : uiLastIndex' = i
        BY <3>3 DEF SetLastIndex
      <4>2. i \in Nat
        BY Constants
      <4> QED
        BY <4>1, <4>2
    <3> QED
      BY <3>1, <3>2, <3>3 DEF Setup
  <2>2. uiSubStringBeg' \in Nat
    <3>1. uiSubStringBeg' = 0
      BY DEF Setup, Pattern, EnableRules, SetLastIndex, NewSetting
    <3> QED
      BY <3>1
  <2>3. pattern' \in Patterns \cup {NoPattern} /\ (astCallbacks \subseteq Rules)'
    <3>1. CASE \E p \in Patterns, flags \in FlagStrings : Pattern(p, flags)
      BY <3>1 DEF Pattern, Rules
    <3>2. CASE \E names \in NameLists, enable \in BOOLEAN : EnableRules(names, enable)
      BY <3>2 DEF EnableRules, SearchInv, Typed, Rules, ast
    <3>3. CASE \E i \in LastIndexes : SetLastIndex(i)
      BY <3>3 DEF SetLastIndex, SearchInv, Typed, Rules, ast, object
    <3> QED
      BY <3>1, <3>2, <3>3 DEF Setup
  <2> QED
    BY <1>1, <2>1, <2>2, <2>3 DEF Typed
<1>3. SearchGoesOn'
  BY <1>1 DEF SearchGoesOn, Looking, SetUp
<1> QED
  BY <1>2, <1>3 DEF SearchInv

\* the first step of a call
LEMMA CallStep ==
  ASSUME SearchInv, NEW src \in Sources, NEW op, NEW arg,
         \E l : call' = [Begin(op, src, arg) EXCEPT !.uiLimit = l],
         UNCHANGED <<pattern, uiSubStringBeg>>, uiLastIndex' \in {0, uiLastIndex},
         astCallbacks' \in {astCallbacks, Rules},
         \/ pc' = "idle" /\ threw' = TRUE
         \/ /\ pc' = "search" /\ src # << >> /\ vpVecSource' = src
            /\ sResult' = NoResult /\ bReturn' = FALSE
            /\ op \in {"exec", "test"} => uiLastIndex' = uiLastIndex
  PROVE  SearchInv'
<1>1. PICK l : call' = [op |-> op, from |-> uiLastIndex, source |-> src, arg |-> arg, begin |-> 0,
                        uiLimit |-> l]
  BY DEF Begin
<1>2. Typed'
  <2>1. uiLastIndex \in Nat /\ uiLastIndex' \in Nat /\ uiSubStringBeg' \in Nat
    BY DEF SearchInv, Typed
  <2>2. pattern' \in Patterns \cup {NoPattern} /\ (astCallbacks \subseteq Rules)' /\ pc' # "attempt"
    BY DEF SearchInv, Typed, Rules
  <2>3. PICK f : f = uiLastIndex
    OBVIOUS
  <2>4. CallIs(f, src, op, arg, 0, l)'
    BY <1>1, <2>3 DEF CallIs
  <2> QED
    BY <2>1, <2>2, <2>3, <2>4 DEF Typed
<1>3. SearchGoesOn'
  BY <1>1 DEF SearchGoesOn, Looking, Blank
<1> QED
  BY <1>2, <1>3 DEF SearchInv

LEMMA CallSteps ==
  ASSUME SearchInv, Call
  PROVE  SearchInv'
<1>1. PICK src \in Sources :
        \/ Exec(src)
        \/ Test(src)
        \/ \E raw \in Replacements : Replace("replace", src, raw)
        \/ FuncPhrases # {} /\ Replace("func", src, << >>)
        \/ \E limit \in Limits : Split(src, limit)
  BY DEF Call
<1>2. ASSUME NEW op, NEW arg, Begin(op, src, arg) = call'
      PROVE  \E l : call' = [Begin(op, src, arg) EXCEPT !.uiLimit = l]
  <2>1. call' = [Begin(op, src, arg) EXCEPT !.uiLimit = 0]
    BY <1>2 DEF Begin
  <2> QED
    BY <2>1
<1>3. CASE Exec(src)
  <2>1. /\ call' = Begin("exec", src, << >>) /\ UNCHANGED <<pattern, uiSubStringBeg, uiLastIndex>>
        /\ astCallbacks' \in {astCallbacks, Rules}
        /\ \/ pc' = "idle" /\ threw' = TRUE
           \/ /\ pc' = "search" /\ src # << >> /\ vpVecSource' = src
              /\ sResult' = NoResult /\ bReturn' = FALSE
    BY <1>3 DEF Exec, Throws, ReturnTo, ClearForParse, Searches, object, source, ast
  <2>2. \E l : call' = [Begin("exec", src, << >>) EXCEPT !.uiLimit = l]
    BY <1>2, <2>1
  <2>3. uiLastIndex' \in {0, uiLastIndex}
    BY <2>1
  <2>4. \/ pc' = "idle" /\ threw' = TRUE
        \/ /\ pc' = "search" /\ src # << >> /\ vpVecSource' = src
           /\ sResult' = NoResult /\ bReturn' = FALSE
           /\ "exec" \in {"exec", "test"} => uiLastIndex' = uiLastIndex
    BY <2>1
  <2> QED
    BY <2>1, <2>2, <2>3, <2>4, CallStep
<1>4. CASE Test(src)
  <2>1. /\ call' = Begin("test", src, << >>) /\ UNCHANGED <<pattern, uiSubStringBeg, uiLastIndex>>
        /\ astCallbacks' \in {astCallbacks, Rules}
        /\ \/ pc' = "idle" /\ threw' = TRUE
           \/ /\ pc' = "search" /\ src # << >> /\ vpVecSource' = src
              /\ sResult' = NoResult /\ bReturn' = FALSE
    BY <1>4 DEF Test, Throws, ReturnTo, ClearForParse, Searches, object, source, ast
  <2>2. \E l : call' = [Begin("test", src, << >>) EXCEPT !.uiLimit = l]
    BY <1>2, <2>1
  <2>3. uiLastIndex' \in {0, uiLastIndex}
    BY <2>1
  <2>4. \/ pc' = "idle" /\ threw' = TRUE
        \/ /\ pc' = "search" /\ src # << >> /\ vpVecSource' = src
           /\ sResult' = NoResult /\ bReturn' = FALSE
           /\ "test" \in {"exec", "test"} => uiLastIndex' = uiLastIndex
    BY <2>1
  <2> QED
    BY <2>1, <2>2, <2>3, <2>4, CallStep
<1>5. ASSUME NEW op, NEW raw, Replace(op, src, raw)
      PROVE  SearchInv'
  <2>1. /\ call' = Begin(op, src, raw) /\ UNCHANGED <<pattern, uiSubStringBeg, uiLastIndex>>
        /\ astCallbacks' \in {astCallbacks, Rules}
        /\ \/ pc' = "idle" /\ threw' = TRUE
           \/ /\ pc' = "search" /\ src # << >> /\ vpVecSource' = src
              /\ sResult' = NoResult /\ bReturn' = FALSE
    BY <1>5 DEF Replace, Throws, ReturnTo, ClearForParse, Searches, object, source, ast
  <2>2. \E l : call' = [Begin(op, src, raw) EXCEPT !.uiLimit = l]
    BY <1>2, <2>1
  <2>3. uiLastIndex' \in {0, uiLastIndex}
    BY <2>1
  <2>4. \/ pc' = "idle" /\ threw' = TRUE
        \/ /\ pc' = "search" /\ src # << >> /\ vpVecSource' = src
           /\ sResult' = NoResult /\ bReturn' = FALSE
           /\ op \in {"exec", "test"} => uiLastIndex' = uiLastIndex
    BY <2>1
  <2> QED
    BY ZenonT(60), <2>1, <2>2, <2>3, <2>4, CallStep
<1>6. ASSUME NEW limit, Split(src, limit)
      PROVE  SearchInv'
  <2>1. /\ \E l : call' = [Begin("split", src, limit) EXCEPT !.uiLimit = l]
        /\ UNCHANGED <<pattern, uiSubStringBeg>> /\ uiLastIndex' \in {0, uiLastIndex}
        /\ astCallbacks' \in {astCallbacks, Rules}
        /\ \/ pc' = "idle" /\ threw' = TRUE
           \/ /\ pc' = "search" /\ src # << >> /\ vpVecSource' = src
              /\ sResult' = NoResult /\ bReturn' = FALSE
    BY <1>6 DEF Split, Throws, ReturnTo, ClearForParse, Searches, object, source, ast
  <2> QED
    BY <2>1, CallStep
<1> QED
  BY <1>1, <1>3, <1>4, <1>5, <1>6

\* what the invariant says of a call under way
LEMMA Underway ==
  ASSUME Typed, pc \in {"search", "attempt", "found"}
  PROVE  /\ call.from \in Nat /\ call.source \in Sources /\ call.source \in Seq(Nat)
         /\ call.source # << >> /\ Len(call.source) \in Nat
<1>1. PICK f \in Nat, s \in Sources : s # << >> /\ \E o, a, b, l : CallIs(f, s, o, a, b, l)
  BY DEF Typed
<1>2. call.from = f /\ call.source = s
  BY <1>1 DEF CallIs
<1>3. s \in Seq(Nat)
  BY Constants
<1> QED
  BY <1>1, <1>2, <1>3

LEMMA SearchStep ==
  ASSUME SearchInv, Search
  PROVE  SearchInv'
<1>1. PICK f \in Nat, s \in Sources : s # << >> /\ \E o, a, b, l : CallIs(f, s, o, a, b, l)
  BY DEF SearchInv, Typed, Search
<1>2. PICK o, a, b, l : CallIs(f, s, o, a, b, l)
  BY <1>1
<1>3. PICK i : i = uiLastIndex
  OBVIOUS
<1>4. CallIs(f, s, o, a, i, l)'
  BY <1>2, <1>3 DEF CallIs, Search
<1>5. /\ call.from = f /\ call.source = s /\ call.op = o
      /\ call'.from = f /\ call'.source = s /\ call'.op = o
  BY <1>2, <1>4 DEF CallIs
<1>6. UNCHANGED <<pattern, mode, uiLastIndex, astCallbacks, vpVecSource, bReturn, threw>>
  BY DEF Search, object, source, ast
<1>7. Typed'
  <2>1. uiLastIndex' \in Nat /\ uiSubStringBeg' \in Nat
    BY <1>6 DEF SearchInv, Typed, Search
  <2>2. pattern' \in Patterns \cup {NoPattern} /\ (astCallbacks \subseteq Rules)'
    BY <1>6 DEF SearchInv, Typed, Rules
  <2>3. pc' = "attempt" => pattern' \in Patterns
    BY <1>6, <2>2 DEF Search
  <2> QED
    BY <1>1, <1>4, <2>1, <2>2, <2>3 DEF Typed
<1>8. SearchGoesOn'
  <2> SUFFICES ASSUME o \in {"exec", "test"}
               PROVE  SearchGoesOn'
    BY <1>5 DEF SearchGoesOn, Looking
  <2>1. vpVecSource = call.source /\ Blank /\ uiLastIndex = call.from
    BY <1>5 DEF SearchInv, SearchGoesOn, Looking, Search
  <2>2. f \in Nat /\ s \in Seq(Nat) /\ Len(s) \in Nat
    BY Constants
  <2>3. sResult' = NoResult /\ bReturn' = FALSE /\ vpVecSource' = s /\ uiLastIndex' = f
    BY <1>5, <1>6, <2>1 DEF Search, Blank
  <2>4. CASE f >= Len(s)
    <3>1. pc' = "found"
      BY <1>5, <2>1, <2>4 DEF Search
    <3>2. f..(Len(s) - 1) = {}
      BY <2>2, <2>4
    <3>3. (First(call.from, mode) = {})'
      BY <1>5, <3>2 DEF First, Matching
    <3>4. LeftmostReported'
      BY <1>5, <2>3, <2>4, <3>3 DEF LeftmostReported, NoResult
    <3> QED
      BY <1>5, <2>3, <3>1, <3>4 DEF SearchGoesOn
  <2>5. CASE ~(f >= Len(s))
    <3>1. pc' \in {"attempt", "exited"} /\ uiSubStringBeg' = f
      BY <1>5, <2>1, <2>5 DEF Search
    <3>2. f \in f..(Len(s) - 1)
      BY <2>2, <2>5
    <3>3. NoneBefore(uiSubStringBeg)'
      BY <1>5, <2>2, <3>1 DEF NoneBefore
    <3> QED
      BY <1>5, <2>3, <3>1, <3>2, <3>3 DEF SearchGoesOn, Blank
  <2> QED
    BY <2>4, <2>5
<1> QED
  BY <1>7, <1>8 DEF SearchInv

\* a call that goes on as it is, or has returned
LEMMA CallStays ==
  ASSUME SearchInv, pc \in {"search", "attempt", "found"}, UNCHANGED <<call, pattern>>,
         uiLastIndex' \in Nat, uiSubStringBeg' \in Nat, pc' = "attempt" => pattern \in Patterns,
         astCallbacks' \in {astCallbacks, {}}
  PROVE  Typed'
<1>1. PICK f \in Nat, s \in Sources : s # << >> /\ \E o, a, b, l : CallIs(f, s, o, a, b, l)
  BY DEF SearchInv, Typed
<1>2. PICK o, a, b, l : CallIs(f, s, o, a, b, l)
  BY <1>1
<1>3. CallIs(f, s, o, a, b, l)'
  BY <1>2 DEF CallIs
<1>4. pattern' \in Patterns \cup {NoPattern} /\ (astCallbacks \subseteq Rules)'
  BY DEF SearchInv, Typed, Rules
<1> QED
  BY <1>1, <1>3, <1>4 DEF Typed

\* the attempt under way is at an offset of the source, and nothing before it matches
LEMMA UnderAttempt ==
  ASSUME SearchInv, pc = "attempt", Looking
  PROVE  /\ vpVecSource = call.source /\ Blank /\ uiLastIndex = uiSubStringBeg
         /\ uiSubStringBeg \in call.from..(Len(call.source) - 1) /\ NoneBefore(uiSubStringBeg)
         /\ mode = "sticky" => uiSubStringBeg = call.from
         /\ SearchMode = mode
         /\ uiSubStringBeg \in 0..(Len(call.source) - 1)
<1>1. /\ vpVecSource = call.source /\ Blank /\ uiLastIndex = uiSubStringBeg
      /\ uiSubStringBeg \in call.from..(Len(call.source) - 1) /\ NoneBefore(uiSubStringBeg)
      /\ mode = "sticky" => uiSubStringBeg = call.from
  BY DEF SearchInv, SearchGoesOn
<1>2. SearchMode = mode
  BY DEF Looking, SearchMode
<1>3. call.from \in Nat /\ Len(call.source) \in Nat
  BY Underway DEF SearchInv
<1>4. uiSubStringBeg \in 0..(Len(call.source) - 1)
  BY <1>1, <1>3
<1> QED
  BY <1>1, <1>2, <1>4

LEMMA MatchStep ==
  ASSUME LengthsAreNumbers, SearchInv, pc = "attempt",
         NEW m, m = MatchAt(pattern, vpVecSource, uiSubStringBeg, astCallbacks),
         AttemptMatches(uiSubStringBeg, m), UNCHANGED <<object, source, call, vpVecSplitPhrases>>
  PROVE  SearchInv'
<1> DEFINE beg == uiSubStringBeg
<1>1. pattern \in Patterns /\ uiLastIndex \in Nat /\ beg \in Nat /\ astCallbacks \subseteq Rules
  BY DEF SearchInv, Typed
<1>2. m.ok /\ m.len \in Nat
  BY <1>1 DEF AttemptMatches, LengthsAreNumbers
<1>3. Advance(beg, m.len) \in Nat
  BY <1>1, <1>2 DEF Advance
<1>4. uiLastIndex' = IF SearchMode = "default" THEN 0 ELSE Advance(beg, m.len)
  BY DEF AttemptMatches
<1>5. UNCHANGED <<call, pattern, mode, vpVecSource>>
  BY DEF object, source
<1>6. \/ pc' = "found" /\ threw' = threw
      \/ pc' = "idle" /\ threw' = TRUE
  BY DEF AttemptMatches, MatchResult, ReturnTo
<1>7. astCallbacks' \in {astCallbacks, {}}
  BY DEF AttemptMatches, MatchResult
<1>8. Typed'
  <2>1. uiLastIndex' \in Nat
    BY <1>3, <1>4
  <2>2. uiSubStringBeg' \in Nat
    BY DEF AttemptMatches
  <2> QED
    BY <1>1, <1>5, <1>6, <1>7, <2>1, <2>2, CallStays
<1>9. ASSUME Looking
      PROVE  SearchGoesOn'
  <2>1. /\ vpVecSource = call.source /\ Blank
        /\ beg \in call.from..(Len(call.source) - 1) /\ NoneBefore(beg)
        /\ mode = "sticky" => beg = call.from
        /\ SearchMode = mode
        /\ beg \in 0..(Len(call.source) - 1)
    BY <1>9, UnderAttempt
  <2>2. call.from \in Nat /\ call.source \in Sources /\ call.source \in Seq(Nat) /\ Len(call.source) \in Nat
    BY Underway DEF SearchInv
  <2>3. astCallbacks \in SUBSET RulesOf(pattern)
    <3>1. pattern # NoPattern
      BY <1>1, Constants
    <3> QED
      BY <1>1, <3>1 DEF Rules
  <2>4. M(beg).ok /\ M(beg).len = m.len
    <3>1. PICK s : s = call.source
      OBVIOUS
    <3>2. PICK cb : cb = astCallbacks
      OBVIOUS
    <3>3. /\ MatchAt(pattern, s, beg, cb).ok = MatchAt(pattern, s, beg, {}).ok
          /\ MatchAt(pattern, s, beg, cb).ok => MatchAt(pattern, s, beg, cb).len = MatchAt(pattern, s, beg, {}).len
      BY <1>1, <2>1, <2>2, <2>3, <3>1, <3>2, SameMatches
    <3>4. m = MatchAt(pattern, s, beg, cb)
      BY <2>1, <3>1, <3>2
    <3> QED
      BY <1>2, <3>1, <3>3, <3>4 DEF M
  <2>5. First(call.from, mode) = {beg}
    <3>1. \A b \in call.from..(beg - 1) : ~M(b).ok
      BY <2>1 DEF NoneBefore
    <3> QED
      BY <2>1, <2>2, <2>4, <3>1, FirstHere
  <2>6. PICK b0 : b0 = beg
    OBVIOUS
  <2>7. First(call.from, mode)' = {b0}
    BY <1>5, <2>5, <2>6 DEF First, Matching, M
  <2>8. M(b0)'.len = m.len
    BY <1>5, <2>4, <2>6 DEF M
  <2>9. uiLastIndex' = IF mode = "default" THEN 0 ELSE IF m.len = 0 THEN b0 + 1 ELSE b0 + m.len
    BY <1>4, <2>1, <2>6 DEF Advance
  <2>10. CASE call.op = "test"
    <3>1. bReturn' = TRUE
      BY <2>10 DEF AttemptMatches
    <3>2. LeftmostReported'
      BY <1>5, <2>7, <2>8, <2>9, <2>10, <3>1 DEF LeftmostReported
    <3> QED
      BY <1>5, <1>6, <2>1, <3>2 DEF SearchGoesOn
  <2>11. CASE call.op # "test"
    <3>1. /\ sResult'.found = TRUE /\ sResult'.beg = b0 /\ sResult'.length = m.len
          /\ sResult'.right = Len(call.source) - (b0 + m.len)
      BY SMTT(40), <2>1, <2>6, <2>11 DEF AttemptMatches, MatchResult, RightLength
    <3>2. b0 + m.len + sResult'.right = Len(call.source)
      BY <1>1, <1>2, <2>2, <2>6, <3>1
    <3>3. LeftmostReported'
      BY <1>5, <2>7, <2>8, <2>9, <2>11, <3>1, <3>2 DEF LeftmostReported
    <3> QED
      BY <1>5, <1>6, <2>1, <3>3 DEF SearchGoesOn
  <2> QED
    BY <2>10, <2>11
<1>10. ASSUME ~Looking
       PROVE  SearchGoesOn'
  BY <1>5, <1>10 DEF SearchGoesOn, Looking
<1> QED
  BY <1>8, <1>9, <1>10 DEF SearchInv

LEMMA FailStep ==
  ASSUME SearchInv, pc = "attempt",
         NEW m, m = MatchAt(pattern, vpVecSource, uiSubStringBeg, astCallbacks),
         AttemptFails(uiSubStringBeg, m), UNCHANGED <<object, source, call, vpVecSplitPhrases>>
  PROVE  SearchInv'
<1> DEFINE beg == uiSubStringBeg
<1>1. pattern \in Patterns /\ uiLastIndex \in Nat /\ beg \in Nat /\ astCallbacks \subseteq Rules
  BY DEF SearchInv, Typed
<1>2. UNCHANGED <<call, pattern, mode, vpVecSource, sResult, bReturn, threw, astCallbacks>>
  BY DEF object, source, AttemptFails
<1>3. \/ OneMore(beg) /\ uiSubStringBeg' = beg + 1 /\ uiLastIndex' = uiLastIndex + 1 /\ pc' = "attempt"
      \/ /\ ~OneMore(beg) /\ uiSubStringBeg' = 0 /\ pc' = "found"
         /\ uiLastIndex' = IF call.op = "split" THEN uiLastIndex + 1 ELSE 0
  BY DEF AttemptFails, NextAttempt
<1>4. Typed'
  <2>1. uiLastIndex' \in Nat /\ uiSubStringBeg' \in Nat
    BY <1>1, <1>3
  <2> QED
    BY <1>1, <1>2, <2>1, CallStays
<1>5. ASSUME Looking
      PROVE  SearchGoesOn'
  <2>1. /\ vpVecSource = call.source /\ Blank /\ uiLastIndex = beg
        /\ beg \in call.from..(Len(call.source) - 1) /\ NoneBefore(beg)
        /\ mode = "sticky" => beg = call.from
        /\ SearchMode = mode
        /\ beg \in 0..(Len(call.source) - 1)
    BY <1>5, UnderAttempt
  <2>2. call.from \in Nat /\ call.source \in Sources /\ call.source \in Seq(Nat) /\ Len(call.source) \in Nat
    BY Underway DEF SearchInv
  <2>3. ~M(beg).ok
    <3>1. pattern # NoPattern
      BY <1>1, Constants
    <3>2. PICK s : s = call.source
      OBVIOUS
    <3>3. PICK cb : cb = astCallbacks
      OBVIOUS
    <3>4. cb \in SUBSET RulesOf(pattern)
      BY <1>1, <3>1, <3>3 DEF Rules
    <3>5. MatchAt(pattern, s, beg, cb).ok = MatchAt(pattern, s, beg, {}).ok
      BY <1>1, <2>1, <2>2, <3>2, <3>4, SameMatches
    <3>6. ~MatchAt(pattern, s, beg, cb).ok
      BY <2>1, <3>2, <3>3 DEF AttemptFails
    <3> QED
      BY <3>2, <3>5, <3>6 DEF M
  <2>4. \A b \in call.from..beg : ~M(b).ok
    <3>1. \A b \in call.from..beg : b = beg \/ b \in call.from..(beg - 1)
      BY <1>1, <2>2
    <3> QED
      BY <2>1, <2>3, <3>1 DEF NoneBefore
  <2>5. CASE OneMore(beg)
    <3>1. mode # "sticky" /\ beg + 1 < Len(call.source)
      BY <2>1, <2>5 DEF OneMore
    <3>2. uiSubStringBeg' = beg + 1 /\ uiLastIndex' = beg + 1 /\ pc' = "attempt"
      BY <1>3, <2>1, <2>5
    <3>3. beg + 1 \in call.from..(Len(call.source) - 1)
      BY <2>1, <2>2, <3>1
    <3>4. call.from..((beg + 1) - 1) = call.from..beg
      BY <1>1
    <3>5. \A b : M(b)' = M(b)
      BY <1>2 DEF M
    <3>6. NoneBefore(uiSubStringBeg)'
      BY <1>2, <2>4, <3>2, <3>4, <3>5 DEF NoneBefore
    <3> QED
      BY <1>2, <2>1, <3>1, <3>2, <3>3, <3>6 DEF SearchGoesOn, Blank
  <2>6. CASE ~OneMore(beg)
    <3>1. pc' = "found" /\ uiLastIndex' = 0
      BY <1>3, <1>5, <2>6 DEF Looking
    <3>2. \/ \A b \in call.from..(Len(call.source) - 1) : ~M(b).ok
          \/ mode = "sticky" /\ ~M(call.from).ok
      <4>1. mode = "sticky" \/ ~(beg + 1 < Len(call.source))
        BY <2>1, <2>6 DEF OneMore
      <4>2. CASE ~(beg + 1 < Len(call.source))
        BY <1>1, <2>2, <2>4, <4>2
      <4>3. CASE mode = "sticky"
        BY <2>1, <2>3, <4>3
      <4> QED
        BY <4>1, <4>2, <4>3
    <3>3. First(call.from, mode) = {}
      BY <3>2, FirstNowhere
    <3>4. (First(call.from, mode) = {})'
      BY <1>2, <3>3 DEF First, Matching, M
    <3>5. ~(call.from >= Len(call.source))
      BY <2>1, <2>2
    <3>6. LeftmostReported'
      BY <1>2, <2>1, <3>1, <3>4, <3>5 DEF LeftmostReported, Blank, NoResult
    <3> QED
      BY <1>2, <2>1, <3>1, <3>6 DEF SearchGoesOn
  <2> QED
    BY <2>5, <2>6
<1>6. ASSUME ~Looking
      PROVE  SearchGoesOn'
  BY <1>2, <1>6 DEF SearchGoesOn, Looking
<1> QED
  BY <1>4, <1>5, <1>6 DEF SearchInv

LEMMA AttemptStep ==
  ASSUME LengthsAreNumbers, SearchInv, Attempt
  PROVE  SearchInv'
<1>1. PICK m : /\ m = MatchAt(pattern, vpVecSource, uiSubStringBeg, astCallbacks)
               /\ AttemptMatches(uiSubStringBeg, m) \/ AttemptFails(uiSubStringBeg, m)
  BY DEF Attempt
<1>2. pc = "attempt" /\ UNCHANGED <<object, source, call, vpVecSplitPhrases>>
  BY DEF Attempt
<1>3. CASE AttemptMatches(uiSubStringBeg, m)
  BY <1>1, <1>2, <1>3, MatchStep
<1>4. CASE AttemptFails(uiSubStringBeg, m)
  BY <1>1, <1>2, <1>4, FailStep
<1> QED
  BY <1>1, <1>3, <1>4

\* sApgexExec and bApgexTest return what the search has found
LEMMA ReturnStep ==
  ASSUME SearchInv, ExecReturn \/ TestReturn
  PROVE  SearchInv'
<1>1. /\ pc = "found" /\ pc' = "idle" /\ threw' = FALSE /\ Looking
      /\ UNCHANGED <<pattern, mode, call, sResult, bReturn, uiLastIndex, uiSubStringBeg, vpVecSource>>
      /\ astCallbacks' \in {astCallbacks, {}}
  BY DEF ExecReturn, TestReturn, ReturnTo, Looking, object, source, ast
<1>2. Typed'
  <2>1. uiLastIndex' \in Nat /\ uiSubStringBeg' \in Nat
    BY <1>1 DEF SearchInv, Typed
  <2> QED
    BY <1>1, <2>1, CallStays
<1>3. LeftmostReported'
  <2>1. LeftmostReported
    BY <1>1 DEF SearchInv, SearchGoesOn
  <2> QED
    BY <1>1, <2>1, ReportStays
<1>4. SearchGoesOn'
  BY <1>1, <1>3 DEF SearchGoesOn
<1> QED
  BY <1>2, <1>4 DEF SearchInv

\* the steps of a replacement leave a search that is none of theirs to begin
LEMMA ReplaceSteps ==
  ASSUME SearchInv, ReplaceStep \/ ReplaceReturn
  PROVE  SearchInv'
<1>1. pc = "found" /\ pc' # "attempt" /\ ~Looking /\ UNCHANGED <<pattern, call, uiSubStringBeg>>
  BY DEF ReplaceStep, ReplaceReturn, ReplaceMatch, ReturnTo, Looking, object
<1>2. astCallbacks' \in {astCallbacks, {}}
  BY DEF ReplaceStep, ReplaceReturn, ReplaceMatch
<1>3. uiLastIndex' \in Nat
  <2>1. uiLastIndex \in Nat /\ MaxIndex \in Nat
    BY Constants DEF SearchInv, Typed
  <2>2. CASE \E new : ReplaceMatch(new)
    <3>1. PICK new : ReplaceMatch(new)
      BY <2>2
    <3>2. PICK i : i = NextIndex(Len(new))
      OBVIOUS
    <3>3. uiLastIndex' = 0 \/ (i \in 0..MaxIndex /\ uiLastIndex' = i)
      BY <3>1, <3>2 DEF ReplaceMatch
    <3> QED
      BY <2>1, <3>3
  <2>3. CASE uiLastIndex' = uiLastIndex \/ uiLastIndex' = 0
    BY <2>1, <2>3
  <2> QED
    BY <2>2, <2>3 DEF ReplaceStep, ReplaceReturn
<1>4. Typed'
  <2>1. uiSubStringBeg' \in Nat
    BY <1>1 DEF SearchInv, Typed
  <2> QED
    BY <1>1, <1>2, <1>3, <2>1, CallStays
<1>5. SearchGoesOn'
  BY <1>1 DEF SearchGoesOn, Looking
<1> QED
  BY <1>4, <1>5 DEF SearchInv

LEMMA SplitSteps ==
  ASSUME SearchInv, SplitStep
  PROVE  SearchInv'
<1>1. PICK f \in Nat, s \in Sources : s # << >> /\ \E o, a, b, l : CallIs(f, s, o, a, b, l)
  BY DEF SearchInv, Typed, SplitStep
<1>2. PICK o, a, b, l : CallIs(f, s, o, a, b, l)
  BY <1>1
<1>3. PICK l1 : l1 = l - 1
  OBVIOUS
<1>4. CallIs(f, s, o, a, b, l1)'
  BY <1>2, <1>3 DEF CallIs, SplitStep
<1>5. o = "split"
  BY <1>2 DEF CallIs, SplitStep
<1>6. /\ pc' \in {"search", "idle"} /\ astCallbacks' \in {astCallbacks, {}}
      /\ UNCHANGED <<pattern, uiLastIndex, uiSubStringBeg>>
  BY DEF SplitStep, ReturnTo, object
<1>7. Typed'
  <2>1. uiLastIndex' \in Nat /\ uiSubStringBeg' \in Nat /\ pattern' \in Patterns \cup {NoPattern}
    BY <1>6 DEF SearchInv, Typed
  <2>2. (astCallbacks \subseteq Rules)'
    BY <1>6 DEF SearchInv, Typed, Rules
  <2> QED
    BY <1>1, <1>4, <1>6, <2>1, <2>2 DEF Typed
<1>8. SearchGoesOn'
  BY <1>4, <1>5 DEF SearchGoesOn, Looking, CallIs
<1> QED
  BY <1>7, <1>8 DEF SearchInv

-----------------------------------------------------------------------------
(* The theorem.                                                            *)

LEMMA SearchInvInit ==
  Init => SearchInv
BY DEF Init, SearchInv, Typed, SearchGoesOn, Looking, SetUp, Rules

LEMMA SearchInvNext ==
  ASSUME LengthsAreNumbers, SearchInv, [Next]_vars
  PROVE  SearchInv'
<1>1. CASE Setup
  BY <1>1, SettingStep
<1>2. CASE Call
  BY <1>2, CallSteps
<1>3. CASE Step
  <2>1. CASE Search
    BY <2>1, SearchStep
  <2>2. CASE Attempt
    BY <2>2, AttemptStep
  <2>3. CASE ExecReturn \/ TestReturn
    BY <2>3, ReturnStep
  <2>4. CASE ReplaceStep \/ ReplaceReturn
    BY <2>4, ReplaceSteps
  <2>5. CASE SplitStep
    BY <2>5, SplitSteps
  <2> QED
    BY <1>3, <2>1, <2>2, <2>3, <2>4, <2>5 DEF Step
<1>4. CASE UNCHANGED vars
  <2>1. /\ UNCHANGED <<pattern, mode, pc, call, uiLastIndex, uiSubStringBeg, astCallbacks, vpVecSource>>
        /\ UNCHANGED <<sResult, bReturn, threw>>
    BY <1>4 DEF vars, object, source, ast
  <2>2. Typed'
    BY <2>1 DEF SearchInv, Typed, Rules, CallIs
  <2>3. SearchGoesOn'
    <3>1. LeftmostReported => LeftmostReported'
      BY <2>1, ReportStays
    <3>2. NoneBefore(uiSubStringBeg)' = NoneBefore(uiSubStringBeg)
      BY <2>1 DEF NoneBefore, M
    <3> QED
      BY <2>1, <3>1, <3>2 DEF SearchInv, SearchGoesOn, Looking, Blank
  <2> QED
    BY <2>2, <2>3 DEF SearchInv
<1> QED
  BY <1>1, <1>2, <1>3, <1>4 DEF Next

\* What sApgexExec and bApgexTest tell their caller: the leftmost match at or after the index they
\* began with, in sticky mode the one that begins there, or none when there is none; and they leave
\* the index behind it. For every pattern and source, whatever was set, matched, replaced or split
\* on the object before.
THEOREM SearchIsLeftmost ==
  ASSUME LengthsAreNumbers
  PROVE  Spec => []FoundIsLeftmost
<1>1. SearchInv /\ [Next]_vars => SearchInv'
  BY SearchInvNext
<1>2. SearchInv => FoundIsLeftmost
  BY DEF SearchInv, SearchGoesOn, Looking, FoundIsLeftmost, Returned
<1> QED
  BY SearchInvInit, <1>1, <1>2, PTL DEF Spec

-----------------------------------------------------------------------------
(* The lists of phrases. One parse links the phrase of every enabled node; *)
(* after the first k nodes the node at i has its phrase at spot[i].        *)

PhraseType == [offset : Nat, length : Nat, next : Nat]
RuleType == [first : Nat, last : Nat, count : Nat]
NodeType == Nat \X {"PRE", "POST"} \X Nat \X Nat

Marks(E, node) == node[1] \in E /\ node[2] = "PRE"
Marked(tree, E, k) == {i \in 1..k : Marks(E, tree[i])}
NodesTo(tree, r, k) == {i \in 1..k : IsPhraseOf(r, tree[i])}

IsLeast(N, i) == i \in N /\ \A m \in N : i =< m
IsGreatest(N, i) == i \in N /\ \A m \in N : m =< i
IsNext(N, i, j) == i \in N /\ j \in N /\ i < j /\ \A m \in N : m =< i \/ j =< m

\* links only go forward
Forward(phrases) ==
  \A p \in 1..Len(phrases) : phrases[p].next = 0 \/ phrases[p].next \in (p + 1)..Len(phrases)

\* the list of a rule: its nodes in order
ListLinked(N, rule, phrases, spot) ==
  /\ rule.count = Cardinality(N)
  /\ rule.first = 0 <=> N = {}
  /\ \A i \in N : IsLeast(N, i) => rule.first = spot[i]
  /\ \A i \in N : IsGreatest(N, i) => rule.last = spot[i] /\ phrases[spot[i]].next = 0
  /\ \A i, j \in N : IsNext(N, i, j) => phrases[spot[i]].next = spot[j]

Spotted(tree, E, k, l, spot) ==
  /\ spot \in [Marked(tree, E, k) -> 1..Len(l.phrases)]
  /\ \A i, j \in Marked(tree, E, k) : i < j => spot[i] < spot[j]
  /\ \A i \in Marked(tree, E, k) :
       l.phrases[spot[i]].offset = tree[i][3] /\ l.phrases[spot[i]].length = tree[i][4]
  /\ \A r \in E : ListLinked(NodesTo(tree, r, k), l.rules[r], l.phrases, spot)

LinkInv(tree, E, R, k, l) ==
  /\ l.rules \in [R -> RuleType]
  /\ l.phrases \in Seq(PhraseType)
  /\ Forward(l.phrases)
  /\ \E spot : Spotted(tree, E, k, l, spot)

LEMMA LeastOf ==
  ASSUME NEW S \in SUBSET Nat, S # {}
  PROVE  \E n \in S : \A m \in S : n =< m
<1>1. PICK n \in S : \A m \in S : ~(<<m, n>> \in OpToRel(<, Nat))
  BY NatLessThanWellFounded, WFMin
<1>2. ASSUME NEW m \in S, m < n PROVE FALSE
  <2>1. <<m, n>> \in OpToRel(<, Nat)
    BY <1>2 DEF OpToRel
  <2> QED
    BY <1>1, <2>1
<1>3. ASSUME NEW m \in S PROVE n =< m
  BY <1>2, <1>3
<1> QED
  BY <1>3

LEMMA GreatestOf ==
  ASSUME NEW k \in Nat, NEW S \in SUBSET (1..k), S # {}
  PROVE  \E n \in S : \A m \in S : m =< n
<1> DEFINE D == {k - m : m \in S}
<1>1. D \subseteq Nat /\ D # {}
  <2>1. \A m \in S : m \in Nat /\ k - m \in Nat
    OBVIOUS
  <2> QED
    BY <2>1
<1>2. PICK d \in D : \A e \in D : d =< e
  <2> HIDE DEF D
  <2> QED
    BY <1>1, LeastOf
<1>3. PICK n \in S : d = k - n
  OBVIOUS
<1>4. \A m \in S : k - n =< k - m /\ m \in Nat /\ n \in Nat
  BY <1>2, <1>3
<1>5. \A m \in S : m =< n
  <2> TAKE m \in S
  <2> QED
    BY <1>4
<1> QED
  BY <1>5

LEMMA FiniteUpTo ==
  ASSUME NEW k \in Nat, NEW S \in SUBSET (1..k)
  PROVE  IsFiniteSet(S) /\ Cardinality(S) \in Nat
<1>1. IsFiniteSet(1..k)
  BY FS_Interval
<1>2. IsFiniteSet(S)
  BY <1>1, FS_Subset
<1> QED
  BY <1>2, FS_CardinalityType

\* what vAstTranslate does at a node: where the links of a list go
LEMMA LinkNode ==
  ASSUME NEW tree \in Seq(NodeType), NEW E, NEW R, E \subseteq R, NEW k \in Nat, k + 1 =< Len(tree),
         NEW l, LinkInv(tree, E, R, k, l), Marks(E, tree[k + 1])
  PROVE  LinkInv(tree, E, R, k + 1, LinkPhrase(l, NodePhrase(tree[k + 1])))
<1> DEFINE node == tree[k + 1]
           q == node[1]
           here == Len(l.phrases) + 1
           rule == l.rules[q]
           new == [offset |-> node[3], length |-> node[4], next |-> 0]
           ph == IF rule.first = 0 THEN l.phrases ELSE [l.phrases EXCEPT ![rule.last].next = here]
           L == LinkPhrase(l, NodePhrase(node))
           N == NodesTo(tree, q, k)
<1>1. node \in NodeType /\ q \in E /\ q \in R /\ node[2] = "PRE" /\ node[3] \in Nat /\ node[4] \in Nat
  BY DEF NodeType, Marks
<1>2. /\ l.rules \in [R -> RuleType] /\ l.phrases \in Seq(PhraseType) /\ Forward(l.phrases)
      /\ Len(l.phrases) \in Nat
  BY DEF LinkInv
<1>3. PICK spot : Spotted(tree, E, k, l, spot)
  BY DEF LinkInv
<1>4. rule \in RuleType /\ new \in PhraseType
  BY <1>1, <1>2 DEF PhraseType
<1>5. L.rules = [l.rules EXCEPT ![q] = Lengthened(@, here)] /\ L.phrases = Append(ph, new)
  BY DEF LinkPhrase, NodePhrase
<1>6. Lengthened(rule, here) = [first |-> IF rule.first = 0 THEN here ELSE rule.first,
                                last |-> here, count |-> rule.count + 1]
  BY DEF Lengthened
<1>7. L.rules \in [R -> RuleType]
  <2>1. Lengthened(rule, here) \in RuleType
    BY SMTT(40), <1>2, <1>4, <1>6 DEF RuleType
  <2> QED
    BY <1>2, <1>5, <2>1
<1>8. ListLinked(N, rule, l.phrases, spot)
  BY <1>1, <1>3 DEF Spotted
<1>9. \A r \in E : NodesTo(tree, r, k) \subseteq Marked(tree, E, k) /\ NodesTo(tree, r, k) \subseteq 1..k
  BY DEF NodesTo, Marked, Marks, IsPhraseOf
\* the phrase the new one is linked to, if there is one
<1>10. ASSUME rule.first # 0
       PROVE  \E g \in N : IsGreatest(N, g) /\ rule.last = spot[g] /\ rule.last \in 1..Len(l.phrases)
  <2>1. N # {} /\ N \subseteq 1..k
    BY <1>1, <1>8, <1>9, <1>10 DEF ListLinked
  <2>2. PICK g \in N : \A m \in N : m =< g
    BY <2>1, GreatestOf
  <2>3. IsGreatest(N, g)
    BY <2>2 DEF IsGreatest
  <2>4. rule.last = spot[g]
    BY <1>8, <2>3 DEF ListLinked
  <2>5. spot[g] \in 1..Len(l.phrases)
    BY <1>1, <1>3, <1>9 DEF Spotted
  <2> QED
    BY <2>3, <2>4, <2>5
<1>11. /\ ph \in Seq(PhraseType) /\ Len(ph) = Len(l.phrases)
       /\ \A p \in 1..Len(l.phrases) :
            /\ ph[p].offset = l.phrases[p].offset /\ ph[p].length = l.phrases[p].length
            /\ ph[p].next = IF rule.first # 0 /\ p = rule.last THEN here ELSE l.phrases[p].next
  <2>1. CASE rule.first = 0
    BY <1>2, <2>1
  <2>2. CASE rule.first # 0
    <3>1. rule.last \in 1..Len(l.phrases)
      BY <1>10, <2>2
    <3>2. PICK i : i = rule.last
      OBVIOUS
    <3>3. PICK ps : ps = l.phrases
      OBVIOUS
    <3>4. PICK x : x = ps[i]
      OBVIOUS
    <3>5. PICK h : h = here
      OBVIOUS
    <3>6. x \in PhraseType /\ h \in Nat /\ ps \in Seq(PhraseType) /\ i \in 1..Len(ps)
      BY <1>2, <3>1, <3>2, <3>3, <3>4, <3>5
    <3>7. PICK e : e = [x EXCEPT !.next = h]
      OBVIOUS
    <3>8. e \in PhraseType /\ e.next = h /\ e.offset = x.offset /\ e.length = x.length
      BY <3>6, <3>7 DEF PhraseType
    <3>9. ph = [ps EXCEPT ![i] = e]
      BY <2>2, <3>2, <3>3, <3>4, <3>5, <3>7
    <3>10. /\ [ps EXCEPT ![i] = e] \in Seq(PhraseType) /\ Len([ps EXCEPT ![i] = e]) = Len(ps)
           /\ \A p \in 1..Len(ps) : [ps EXCEPT ![i] = e][p] = IF p = i THEN e ELSE ps[p]
      BY <3>6, <3>8, ExceptSeq
    <3> HIDE DEF ph, here, rule
    <3>11. /\ ph \in Seq(PhraseType) /\ Len(ph) = Len(ps)
           /\ \A p \in 1..Len(ps) : ph[p] = IF p = i THEN e ELSE ps[p]
      BY <3>9, <3>10
    <3> QED
      BY <2>2, <3>2, <3>3, <3>4, <3>5, <3>8, <3>11
  <2> QED
    BY <2>1, <2>2
<1> HIDE DEF ph
<1>12. /\ L.phrases \in Seq(PhraseType) /\ Len(L.phrases) = here /\ L.phrases[here] = new
       /\ \A p \in 1..Len(l.phrases) : L.phrases[p] = ph[p]
  BY <1>2, <1>4, <1>5, <1>11
<1>13. Forward(L.phrases)
  <2> SUFFICES ASSUME NEW p \in 1..here
               PROVE  L.phrases[p].next = 0 \/ L.phrases[p].next \in (p + 1)..here
    BY <1>12 DEF Forward
  <2>1. CASE p = here
    BY <1>12, <2>1
  <2>2. CASE p # here
    <3>1. p \in 1..Len(l.phrases)
      BY <1>2, <2>2
    <3>2. L.phrases[p].next = IF rule.first # 0 /\ p = rule.last THEN here ELSE l.phrases[p].next
      BY <1>11, <1>12, <3>1
    <3>3. l.phrases[p].next = 0 \/ l.phrases[p].next \in (p + 1)..Len(l.phrases)
      BY <1>2, <3>1 DEF Forward
    <3>4. here \in (p + 1)..here
      BY <1>2, <3>1
    <3> QED
      BY <1>2, <3>1, <3>2, <3>3, <3>4
  <2> QED
    BY <2>1, <2>2
<1>12b. \A p \in 1..Len(l.phrases) :
         /\ L.phrases[p].offset = l.phrases[p].offset /\ L.phrases[p].length = l.phrases[p].length
         /\ L.phrases[p].next = IF rule.first # 0 /\ p = rule.last THEN here ELSE l.phrases[p].next
  <2> HIDE DEF L, rule, here
  <2> QED
    BY <1>11, <1>12
<1> DEFINE M1 == Marked(tree, E, k + 1)
           M0 == Marked(tree, E, k)
           sp == [i \in M1 |-> IF i = k + 1 THEN here ELSE spot[i]]
<1>14. M1 = M0 \cup {k + 1} /\ M0 \subseteq 1..k
  BY <1>1 DEF Marked, Marks
<1>15. sp[k + 1] = here /\ \A i \in M0 : i # k + 1 /\ sp[i] = spot[i] /\ spot[i] \in 1..Len(l.phrases)
  BY <1>3, <1>14 DEF Spotted
<1>16. sp \in [M1 -> 1..Len(L.phrases)]
  <2>1. here \in 1..here
    BY <1>2
  <2>2. \A i \in M1 : (IF i = k + 1 THEN here ELSE spot[i]) \in 1..here
    <3> TAKE i \in M1
    <3>1. CASE i = k + 1
      BY <2>1, <3>1
    <3>2. CASE i # k + 1
      <4>1. spot[i] \in 1..Len(l.phrases)
        BY <1>14, <1>15, <3>2
      <4> QED
        BY <1>2, <3>2, <4>1
    <3> QED
      BY <3>1, <3>2
  <2> HIDE DEF M1, here, L
  <2> QED
    BY <1>12, <2>2
<1> HIDE DEF sp
<1>17. \A i, j \in M1 : i < j => sp[i] < sp[j]
  <2> SUFFICES ASSUME NEW i \in M1, NEW j \in M1, i < j
               PROVE  sp[i] < sp[j]
    OBVIOUS
  <2>1. i \in M0 /\ spot[i] \in 1..Len(l.phrases) /\ sp[i] = spot[i]
    BY <1>14, <1>15
  <2>2. CASE j = k + 1
    BY <1>2, <1>15, <2>1, <2>2
  <2>3. CASE j # k + 1
    <3>1. j \in M0
      BY <1>14, <2>3
    <3>2. spot[i] < spot[j]
      BY <1>3, <2>1, <3>1 DEF Spotted
    <3> QED
      BY <1>15, <2>1, <3>1, <3>2
  <2> QED
    BY <2>2, <2>3
<1>18. \A i, j \in M0 : spot[i] = spot[j] => i = j
  <2> SUFFICES ASSUME NEW i \in M0, NEW j \in M0, i # j
               PROVE  spot[i] # spot[j]
    OBVIOUS
  <2>1. i \in Int /\ j \in Int /\ spot[i] \in Int /\ spot[j] \in Int
    BY <1>14, <1>15
  <2>2. i < j => spot[i] < spot[j]
    BY <1>3 DEF Spotted
  <2>3. j < i => spot[j] < spot[i]
    BY <1>3 DEF Spotted
  <2> QED
    BY <2>1, <2>2, <2>3
<1>19. \A i \in M1 : L.phrases[sp[i]].offset = tree[i][3] /\ L.phrases[sp[i]].length = tree[i][4]
  <2> SUFFICES ASSUME NEW i \in M1
               PROVE  L.phrases[sp[i]].offset = tree[i][3] /\ L.phrases[sp[i]].length = tree[i][4]
    OBVIOUS
  <2>1. CASE i = k + 1
    BY <1>12, <1>15, <2>1
  <2>2. CASE i # k + 1
    <3>1. i \in M0
      BY <1>14, <2>2
    <3>2. l.phrases[spot[i]].offset = tree[i][3] /\ l.phrases[spot[i]].length = tree[i][4]
      BY <1>3, <3>1 DEF Spotted
    <3>3. PICK p \in 1..Len(l.phrases) : p = spot[i] /\ sp[i] = p
      BY <1>15, <3>1
    <3>4. L.phrases[p].offset = l.phrases[p].offset /\ L.phrases[p].length = l.phrases[p].length
      BY <1>12b
    <3> QED
      BY <3>2, <3>3, <3>4
  <2> QED
    BY <2>1, <2>2
\* the list of another rule
<1>20. ASSUME NEW r \in E, r # q
       PROVE  ListLinked(NodesTo(tree, r, k + 1), L.rules[r], L.phrases, sp)
  <2> DEFINE O == NodesTo(tree, r, k)
  <2>1. NodesTo(tree, r, k + 1) = O
    BY <1>20 DEF NodesTo, IsPhraseOf
  <2>2. r \in R /\ L.rules[r] = l.rules[r]
    BY <1>2, <1>5, <1>20
  <2>3. ListLinked(O, l.rules[r], l.phrases, spot)
    BY <1>3 DEF Spotted
  <2>4. O \subseteq M0
    BY <1>9
  <2>5. \A i \in O : L.phrases[sp[i]].next = l.phrases[spot[i]].next
    <3> SUFFICES ASSUME NEW i \in O
                 PROVE  L.phrases[sp[i]].next = l.phrases[spot[i]].next
      OBVIOUS
    <3>1. i \in M0 /\ spot[i] \in 1..Len(l.phrases) /\ sp[i] = spot[i]
      BY <1>15, <2>4
    <3>2. ~(rule.first # 0 /\ spot[i] = rule.last)
      <4> SUFFICES ASSUME rule.first # 0, spot[i] = rule.last
                   PROVE  FALSE
        OBVIOUS
      <4>1. PICK g \in N : rule.last = spot[g]
        BY <1>10
      <4>2. g \in M0
        BY <1>1, <1>9
      <4>3. i = g
        BY <1>18, <3>1, <4>1, <4>2
      <4> QED
        BY <1>20, <4>3 DEF NodesTo, IsPhraseOf
    <3>3. PICK p \in 1..Len(l.phrases) : p = spot[i] /\ sp[i] = p
      BY <3>1
    <3>4. L.phrases[p].next = l.phrases[p].next
      BY <1>12b, <3>2, <3>3
    <3> QED
      BY <3>3, <3>4
  <2>6. \A i \in O : sp[i] = spot[i]
    BY <1>15, <2>4
  <2> HIDE DEF O, L
  <2>7. ListLinked(O, l.rules[r], L.phrases, sp)
    BY <2>3, <2>5, <2>6 DEF ListLinked, IsLeast, IsGreatest, IsNext
  <2> QED
    BY <2>1, <2>2, <2>7
\* the list of the rule of the node
<1>21. ListLinked(NodesTo(tree, q, k + 1), L.rules[q], L.phrases, sp)
  <2> DEFINE N1 == NodesTo(tree, q, k + 1)
             new1 == L.rules[q]
  <2>1. N1 = N \cup {k + 1} /\ N \subseteq 1..k /\ k + 1 \notin N
    BY <1>1 DEF NodesTo, IsPhraseOf
  <2>2. new1.first = (IF rule.first = 0 THEN here ELSE rule.first) /\ new1.last = here
        /\ new1.count = rule.count + 1
    BY SMTT(40), <1>1, <1>2, <1>5, <1>6
  <2>3. \A i \in N : i \in M0 /\ i \in 1..k /\ sp[i] = spot[i] /\ spot[i] \in 1..Len(l.phrases)
    BY <1>1, <1>9, <1>15
  <2>4. rule.first = 0 <=> N = {}
    BY <1>8 DEF ListLinked
  <2> HIDE DEF N1, N, new1
  <2>5. new1.count = Cardinality(N1)
    <3>1. IsFiniteSet(N)
      BY <2>1, FiniteUpTo
    <3>2. Cardinality(N \cup {k + 1}) = Cardinality(N) + 1
      BY <2>1, <3>1, FS_AddElement
    <3> QED
      BY <1>8, <2>1, <2>2, <3>2 DEF ListLinked
  <2>6. new1.first = 0 <=> N1 = {}
    BY <1>2, <2>1, <2>2
  <2>7. ASSUME NEW i \in N1, IsLeast(N1, i)
        PROVE  new1.first = sp[i]
    <3>1. CASE N = {}
      BY <1>15, <2>1, <2>2, <2>4, <3>1
    <3>2. CASE N # {}
      <4>1. PICK m \in N : m \in 1..k
        BY <2>3, <3>2
      <4>2. i =< m
        BY <2>1, <2>7, <4>1 DEF IsLeast
      <4>3. i \in N
        BY <2>1, <4>1, <4>2
      <4>4. IsLeast(N, i)
        BY <2>1, <2>7, <4>3 DEF IsLeast
      <4>5. rule.first = spot[i]
        BY <1>8, <4>3, <4>4 DEF ListLinked
      <4> QED
        BY <2>2, <2>3, <2>4, <3>2, <4>3, <4>5
    <3> QED
      BY <3>1, <3>2
  <2>8. ASSUME NEW i \in N1, IsGreatest(N1, i)
        PROVE  new1.last = sp[i] /\ L.phrases[sp[i]].next = 0
    <3>1. k + 1 =< i
      BY <2>1, <2>8 DEF IsGreatest
    <3>2. i = k + 1
      BY <2>1, <3>1
    <3> QED
      BY <1>12, <1>15, <2>2, <3>2
  <2>9. ASSUME NEW i \in N1, NEW j \in N1, IsNext(N1, i, j)
        PROVE  L.phrases[sp[i]].next = sp[j]
    <3>1. i < j /\ \A m \in N1 : m =< i \/ j =< m
      BY <2>9 DEF IsNext
    <3>2. i \in N
      BY <2>1, <3>1
    <3>3. PICK g \in N : IsGreatest(N, g) /\ rule.last = spot[g]
      BY <1>10, <2>4, <3>2
    <3>4. i =< g /\ g \in 1..k /\ i \in 1..k
      BY <2>3, <3>2, <3>3 DEF IsGreatest
    <3>5. L.phrases[sp[i]].next = IF spot[i] = rule.last THEN here ELSE l.phrases[spot[i]].next
      <4>1. PICK p \in 1..Len(l.phrases) : p = spot[i] /\ sp[i] = p
        BY <2>3, <3>2
      <4>2. L.phrases[p].next = IF rule.first # 0 /\ p = rule.last THEN here ELSE l.phrases[p].next
        BY <1>12b
      <4>3. rule.first # 0
        BY <2>4, <3>2
      <4> HIDE DEF L, rule, here
      <4> QED
        BY <4>1, <4>2, <4>3
    <3>6. CASE j = k + 1
      <4>1. g =< i
        BY <2>1, <3>1, <3>4, <3>6
      <4>2. i = g
        BY <3>4, <4>1
      <4> QED
        BY <1>15, <3>3, <3>5, <3>6, <4>2
    <3>7. CASE j # k + 1
      <4>1. j \in N /\ j \in 1..k
        BY <2>1, <3>7
      <4>2. j =< g
        BY <3>3, <4>1 DEF IsGreatest
      <4>3. i # g
        BY <3>1, <3>4, <4>1, <4>2
      <4>4. spot[i] # rule.last
        BY <1>18, <2>3, <3>2, <3>3, <4>3
      <4>5. IsNext(N, i, j)
        BY <2>1, <3>1, <3>2, <4>1 DEF IsNext
      <4>6. l.phrases[spot[i]].next = spot[j]
        BY <1>8, <3>2, <4>1, <4>5 DEF ListLinked
      <4> QED
        BY <2>3, <3>5, <4>1, <4>4, <4>6
    <3> QED
      BY <3>6, <3>7
  <2>10. ListLinked(N1, new1, L.phrases, sp)
    BY <2>5, <2>6, <2>7, <2>8, <2>9 DEF ListLinked
  <2> QED
    BY <2>10 DEF N1, new1
<1>22. Spotted(tree, E, k + 1, L, sp)
  <2>1. \A r \in E : ListLinked(NodesTo(tree, r, k + 1), L.rules[r], L.phrases, sp)
    <3> TAKE r \in E
    <3>1. CASE r = q
      BY <1>21, <3>1
    <3>2. CASE r # q
      BY <1>20, <3>2
    <3> QED
      BY <3>1, <3>2
  <2> QED
    BY <1>16, <1>17, <1>19, <2>1 DEF Spotted
<1> HIDE DEF L
<1>23. LinkInv(tree, E, R, k + 1, L)
  BY <1>7, <1>12, <1>13, <1>22 DEF LinkInv
<1> QED
  BY <1>23 DEF L

\* a node that is not recorded changes nothing
LEMMA PassNode ==
  ASSUME NEW tree \in Seq(NodeType), NEW E, NEW R, NEW k \in Nat, k + 1 =< Len(tree),
         NEW l, LinkInv(tree, E, R, k, l), ~Marks(E, tree[k + 1])
  PROVE  LinkInv(tree, E, R, k + 1, l)
<1>1. Marked(tree, E, k + 1) = Marked(tree, E, k)
  BY DEF Marked
<1>2. \A r \in E : NodesTo(tree, r, k + 1) = NodesTo(tree, r, k)
  BY DEF NodesTo, IsPhraseOf, Marks
<1> QED
  BY <1>1, <1>2 DEF LinkInv, Spotted

\* no node yet
LEMMA LinkNone ==
  ASSUME NEW tree \in Seq(NodeType), NEW E, NEW R, E \subseteq R
  PROVE  LinkInv(tree, E, R, 0, [rules |-> ClearedRules(R), phrases |-> << >>])
<1> DEFINE l == [rules |-> ClearedRules(R), phrases |-> << >>]
<1>1. l.rules \in [R -> RuleType] /\ \A r \in R : l.rules[r].first = 0 /\ l.rules[r].count = 0
  BY DEF ClearedRules, RuleType
<1>2. l.phrases \in Seq(PhraseType) /\ Forward(l.phrases)
  BY DEF Forward
<1>3. Marked(tree, E, 0) = {} /\ \A r \in E : NodesTo(tree, r, 0) = {}
  BY DEF Marked, NodesTo
<1>4. [i \in {} |-> 0] \in [{} -> 1..Len(l.phrases)]
  OBVIOUS
<1>5. Cardinality({}) = 0
  BY FS_EmptySet
<1>6. Spotted(tree, E, 0, l, [i \in {} |-> 0])
  <2>1. \A r \in E : ListLinked({}, l.rules[r], l.phrases, [i \in {} |-> 0])
    BY <1>1, <1>5 DEF ListLinked
  <2> HIDE DEF l
  <2> QED
    BY <1>3, <1>4, <2>1 DEF Spotted
<1> HIDE DEF l
<1>7. LinkInv(tree, E, R, 0, l)
  BY <1>1, <1>2, <1>6 DEF LinkInv
<1> QED
  BY <1>7 DEF l

\* the recursion of Translate, one node after the other
Linking(f, n, tree, E, base) ==
  f = [k \in 0..n |->
        IF k = 0 THEN base
        ELSE IF tree[k][1] \in E /\ tree[k][2] = "PRE"
          THEN CHOOSE l \in {LinkPhrase(before, NodePhrase(tree[k])) : before \in {f[k - 1]}} : TRUE
          ELSE f[k - 1]]

LEMMA LinkingExists ==
  ASSUME NEW n \in Nat, NEW tree, NEW E, NEW base
  PROVE  \E f : Linking(f, n, tree, E, base)
<1> DEFINE Rec(f, k) ==
        IF tree[k][1] \in E /\ tree[k][2] = "PRE"
          THEN CHOOSE l \in {LinkPhrase(before, NodePhrase(tree[k])) : before \in {f[k - 1]}} : TRUE
          ELSE f[k - 1]
      Upto(f, m) == f = [k \in 0..m |-> IF k = 0 THEN base ELSE Rec(f, k)]
      Missing == {m \in Nat : ~\E f : Upto(f, m)}
<1>1. \E f : Upto(f, 0)
  <2>1. Upto([k \in 0..0 |-> base], 0)
    OBVIOUS
  <2> QED
    BY <2>1
<1>2. ASSUME NEW m \in Nat, NEW f, Upto(f, m)
      PROVE  \E g : Upto(g, m + 1)
  <2> DEFINE g == [k \in 0..(m + 1) |-> IF k = m + 1 THEN Rec(f, k) ELSE f[k]]
  <2>1. \A k \in 0..m : g[k] = f[k]
    OBVIOUS
  <2>2. \A k \in 1..(m + 1) : Rec(g, k) = Rec(f, k)
    <3> TAKE k \in 1..(m + 1)
    <3>1. k - 1 \in 0..m
      OBVIOUS
    <3>2. g[k - 1] = f[k - 1]
      BY <2>1, <3>1
    <3> HIDE DEF g
    <3> QED
      BY <3>2
  <2>3. \A k \in 0..m : f[k] = IF k = 0 THEN base ELSE Rec(f, k)
    <3> HIDE DEF Rec
    <3> QED
      BY <1>2
  <2>4. \A k \in 0..(m + 1) : g[k] = IF k = 0 THEN base ELSE Rec(g, k)
    <3> TAKE k \in 0..(m + 1)
    <3>1. CASE k = m + 1
      <4>1. g[k] = Rec(f, k) /\ k \in 1..(m + 1) /\ k # 0
        <5> HIDE DEF Rec
        <5> QED
          BY <3>1
      <4> HIDE DEF g, Rec
      <4> QED
        BY <2>2, <4>1
    <3>2. CASE k # m + 1
      <4>1. k \in 0..m /\ (k # 0 => k \in 1..(m + 1))
        BY <3>2
      <4> HIDE DEF g, Rec
      <4> QED
        BY <2>1, <2>2, <2>3, <4>1
    <3> QED
      BY <3>1, <3>2
  <2>5. g = [k \in 0..(m + 1) |-> g[k]]
    <3> HIDE DEF Rec
    <3> QED
      OBVIOUS
  <2>6. [k \in 0..(m + 1) |-> g[k]] = [k \in 0..(m + 1) |-> IF k = 0 THEN base ELSE Rec(g, k)]
    <3> HIDE DEF g, Rec
    <3> QED
      BY <2>4
  <2>7. Upto(g, m + 1)
    <3> HIDE DEF g, Rec
    <3> QED
      BY <2>5, <2>6
  <2> QED
    <3> HIDE DEF g, Upto
    <3> QED
      BY <2>7
<1>3. Missing = {}
  <2> SUFFICES ASSUME Missing # {}
               PROVE  FALSE
    OBVIOUS
  <2> HIDE DEF Upto
  <2>1. Missing \in SUBSET Nat
    OBVIOUS
  <2>2. PICK m \in Missing : \A j \in Missing : m =< j
    <3> HIDE DEF Missing
    <3> QED
      BY <2>1, LeastOf
  <2>3. m # 0
    BY <1>1
  <2>4. m - 1 \in Nat /\ m - 1 \notin Missing
    BY <2>2, <2>3
  <2>5. PICK f : Upto(f, m - 1)
    BY <2>4
  <2>6. \E g : Upto(g, (m - 1) + 1)
    BY <1>2, <2>4, <2>5
  <2>7. (m - 1) + 1 = m
    OBVIOUS
  <2> QED
    BY <2>6, <2>7
<1>4. \E f : Upto(f, n)
  <2> HIDE DEF Upto
  <2> QED
    BY <1>3
<1> QED
  BY <1>4 DEF Linking

\* what a function so defined has for the first k nodes
LEMMA LinkingLinks ==
  ASSUME NEW tree \in Seq(NodeType), NEW E, NEW R, E \subseteq R, NEW f,
         Linking(f, Len(tree), tree, E, [rules |-> ClearedRules(R), phrases |-> << >>])
  PROVE  LinkInv(tree, E, R, Len(tree), f[Len(tree)])
<1> DEFINE n == Len(tree)
           Wrong == {k \in 0..n : ~LinkInv(tree, E, R, k, f[k])}
<1>1. n \in Nat
  OBVIOUS
<1>2. f[0] = [rules |-> ClearedRules(R), phrases |-> << >>]
  BY <1>1 DEF Linking
<1>3. ASSUME NEW k \in 1..n
      PROVE  f[k] = IF Marks(E, tree[k]) THEN LinkPhrase(f[k - 1], NodePhrase(tree[k])) ELSE f[k - 1]
  <2>1. f[k] = IF tree[k][1] \in E /\ tree[k][2] = "PRE"
                 THEN CHOOSE l \in {LinkPhrase(before, NodePhrase(tree[k])) : before \in {f[k - 1]}} : TRUE
                 ELSE f[k - 1]
    BY SMTT(40), <1>1 DEF Linking
  <2>2. (CHOOSE l \in {LinkPhrase(before, NodePhrase(tree[k])) : before \in {f[k - 1]}} : TRUE)
          = LinkPhrase(f[k - 1], NodePhrase(tree[k]))
    OBVIOUS
  <2> QED
    BY <2>1, <2>2 DEF Marks
<1>4. Wrong = {}
  <2> SUFFICES ASSUME Wrong # {}
               PROVE  FALSE
    OBVIOUS
  <2>1. Wrong \in SUBSET Nat
    OBVIOUS
  <2>2. PICK k \in Wrong : \A j \in Wrong : k =< j
    <3> HIDE DEF Wrong
    <3> QED
      BY <2>1, LeastOf
  <2>3. k # 0
    BY <1>2, LinkNone
  <2>4. PICK j : j = k - 1
    OBVIOUS
  <2>5. j \in Nat /\ j + 1 = k /\ j \in 0..n /\ j + 1 \in 1..n /\ j + 1 =< n /\ j \notin Wrong
    BY <1>1, <2>2, <2>3, <2>4
  <2>6. LinkInv(tree, E, R, j, f[j])
    BY <2>5
  <2>7. f[j + 1] = IF Marks(E, tree[j + 1]) THEN LinkPhrase(f[j], NodePhrase(tree[j + 1])) ELSE f[j]
    BY <1>3, <2>4, <2>5
  <2>8. LinkInv(tree, E, R, j + 1, f[j + 1])
    <3>1. CASE Marks(E, tree[j + 1])
      BY <2>5, <2>6, <2>7, <3>1, LinkNode
    <3>2. CASE ~Marks(E, tree[j + 1])
      BY <2>5, <2>6, <2>7, <3>2, PassNode
    <3> QED
      BY <3>1, <3>2
  <2> QED
    BY <2>5, <2>8
<1>5. n \in 0..n
  BY <1>1
<1> QED
  BY <1>4, <1>5

\* vAstTranslate over a match, from lists that have been cleared
LEMMA TranslateLinks ==
  ASSUME NEW tree \in Seq(NodeType), bEnabled \subseteq Rules,
         spRelRules = ClearedRules(Rules), vpVecRelPhrases = << >>
  PROVE  LinkInv(tree, bEnabled, Rules, Len(tree), Translate(tree))
<1> DEFINE base == [rules |-> spRelRules, phrases |-> vpVecRelPhrases]
           link == CHOOSE f : Linking(f, Len(tree), tree, bEnabled, base)
<1>1. Translate(tree) = link[Len(tree)]
  BY DEF Translate, Linking
<1>2. Len(tree) \in Nat
  OBVIOUS
<1>3. \E f : Linking(f, Len(tree), tree, bEnabled, base)
  BY <1>2, LinkingExists
<1>4. Linking(link, Len(tree), tree, bEnabled, base)
  BY <1>3
<1>5. PICK f : f = link
  OBVIOUS
<1>6. PICK E : E = bEnabled
  OBVIOUS
<1>7. PICK R : R = Rules
  OBVIOUS
<1> HIDE DEF link
<1>8. E \subseteq R /\ Linking(f, Len(tree), tree, E, [rules |-> ClearedRules(R), phrases |-> << >>])
  BY <1>4, <1>5, <1>6, <1>7
<1>9. LinkInv(tree, E, R, Len(tree), f[Len(tree)])
  BY <1>8, LinkingLinks
<1> QED
  BY <1>1, <1>5, <1>6, <1>7, <1>9

\* the recursion of Chain
Chaining(f, phrases) ==
  f = [i \in 0..Len(phrases) |->
        IF i = 0 THEN << >> ELSE <<<<phrases[i].offset, phrases[i].length>>>> \o f[phrases[i].next]]

LEMMA ChainingExists ==
  ASSUME NEW phrases \in Seq(PhraseType), Forward(phrases)
  PROVE  \E f : Chaining(f, phrases)
<1> DEFINE n == Len(phrases)
           One(i) == <<<<phrases[i].offset, phrases[i].length>>>>
           To(i) == phrases[i].next
           Upto(f, m) == f = [i \in 0..n |-> IF i # 0 /\ i > n - m THEN One(i) \o f[To(i)] ELSE << >>]
           Missing == {m \in 0..n : ~\E f : Upto(f, m)}
<1>1. n \in Nat
  OBVIOUS
<1>2. \A i \in 1..n : To(i) = 0 \/ To(i) \in (i + 1)..n
  BY DEF Forward
<1> HIDE DEF One, To, n
<1>3. \E f : Upto(f, 0)
  <2>1. \A i \in 0..n : ~(i # 0 /\ i > n - 0)
    BY <1>1
  <2>2. [i \in 0..n |-> << >>]
          = [i \in 0..n |-> IF i # 0 /\ i > n - 0 THEN One(i) \o [j \in 0..n |-> << >>][To(i)] ELSE << >>]
    BY <2>1
  <2> QED
    BY <2>2
<1>4. ASSUME NEW m \in 0..n, m + 1 =< n, NEW f, Upto(f, m)
      PROVE  \E g : Upto(g, m + 1)
  <2> DEFINE p == n - m
             Old(i) == IF i # 0 /\ i > n - m THEN One(i) \o f[To(i)] ELSE << >>
             g == [i \in 0..n |-> IF i = p THEN One(p) \o f[To(p)] ELSE f[i]]
             New(i) == IF i # 0 /\ i > n - (m + 1) THEN One(i) \o g[To(i)] ELSE << >>
  <2>1. p \in 1..n /\ n - (m + 1) = p - 1
    BY <1>1, <1>4
  <2>2. \A i \in 0..n : f[i] = Old(i)
    BY <1>4
  <2>3. \A i \in 0..n : i # p => g[i] = f[i]
    OBVIOUS
  <2>4. g[p] = One(p) \o f[To(p)]
    <3>1. p \in 0..n
      BY <1>1, <2>1
    <3> HIDE DEF p
    <3> QED
      BY <3>1
  <2>5. g = [i \in 0..n |-> g[i]]
    OBVIOUS
  <2> HIDE DEF g
  <2>6. \A i \in p..n : i \in 1..n /\ To(i) \in 0..n /\ To(i) # p /\ g[To(i)] = f[To(i)]
    <3> TAKE i \in p..n
    <3>1. i \in 1..n /\ i >= p
      BY <1>1, <2>1
    <3>2. To(i) \in 0..n /\ To(i) # p
      BY <1>1, <1>2, <2>1, <3>1
    <3> QED
      BY <2>3, <3>1, <3>2
  <2>7. \A i \in 0..n : g[i] = New(i)
    <3> TAKE i \in 0..n
    <3>1. CASE i = p
      <4>1. i # 0 /\ i > n - (m + 1) /\ i \in p..n
        BY <1>1, <2>1, <3>1
      <4>2. g[To(i)] = f[To(i)]
        BY <2>6, <4>1
      <4> QED
        BY <2>4, <3>1, <4>1, <4>2
    <3>2. CASE i > p
      <4>1. i # 0 /\ i > n - (m + 1) /\ i > n - m /\ i # p /\ i \in p..n
        BY <1>1, <2>1, <3>2
      <4>2. g[To(i)] = f[To(i)]
        BY <2>6, <4>1
      <4>3. g[i] = One(i) \o f[To(i)]
        BY <2>2, <2>3, <4>1
      <4> QED
        BY <4>1, <4>2, <4>3
    <3>3. CASE i < p
      <4>1. ~(i > n - (m + 1)) /\ ~(i > n - m) /\ i # p
        BY <1>1, <2>1, <3>3
      <4> QED
        BY <2>2, <2>3, <4>1
    <3> QED
      BY <1>1, <2>1, <3>1, <3>2, <3>3
  <2>8. [i \in 0..n |-> g[i]] = [i \in 0..n |-> New(i)]
    <3> HIDE DEF New
    <3> QED
      BY <2>7
  <2>9. Upto(g, m + 1)
    BY <2>5, <2>8
  <2> QED
    <3> HIDE DEF Upto
    <3> QED
      BY <2>9
<1> HIDE DEF Upto
<1>5. Missing = {}
  <2> SUFFICES ASSUME Missing # {}
               PROVE  FALSE
    OBVIOUS
  <2>1. Missing \in SUBSET Nat
    BY <1>1
  <2>2. PICK m \in Missing : \A j \in Missing : m =< j
    <3> HIDE DEF Missing
    <3> QED
      BY <2>1, LeastOf
  <2>3. m # 0
    BY <1>3
  <2>4. PICK j : j = m - 1
    OBVIOUS
  <2>5. j \in 0..n /\ j + 1 = m /\ j + 1 =< n /\ j \notin Missing
    BY <1>1, <2>2, <2>3, <2>4
  <2>6. PICK f : Upto(f, j)
    BY <2>5
  <2>7. \E g : Upto(g, j + 1)
    BY <1>4, <2>5, <2>6
  <2> QED
    BY <2>5, <2>7
<1>6. PICK f : Upto(f, n)
  <2>1. n \in 0..n
    BY <1>1
  <2> QED
    BY <1>5, <2>1
<1>7. f = [i \in 0..n |-> IF i # 0 /\ i > n - n THEN One(i) \o f[To(i)] ELSE << >>]
  BY <1>6 DEF Upto
<1>8. \A i \in 0..n : (i # 0 /\ i > n - n) <=> i # 0
  BY <1>1
<1>9. [i \in 0..n |-> IF i # 0 /\ i > n - n THEN One(i) \o f[To(i)] ELSE << >>]
        = [i \in 0..n |-> IF i = 0 THEN << >> ELSE One(i) \o f[To(i)]]
  BY <1>8
<1>10. f = [i \in 0..n |-> IF i = 0 THEN << >> ELSE One(i) \o f[To(i)]]
  BY <1>7, <1>9
<1>11. Chaining(f, phrases)
  BY <1>10 DEF Chaining, One, To, n
<1> QED
  BY <1>11

LEMMA ChainStep ==
  ASSUME NEW phrases \in Seq(PhraseType), Forward(phrases)
  PROVE  /\ Chain(phrases, 0) = << >>
         /\ \A p \in 1..Len(phrases) :
              Chain(phrases, p) = <<<<phrases[p].offset, phrases[p].length>>>> \o Chain(phrases, phrases[p].next)
<1> DEFINE chain == CHOOSE f : Chaining(f, phrases)
<1>1. \A p : Chain(phrases, p) = chain[p]
  BY DEF Chain, Chaining
<1>2. Chaining(chain, phrases)
  BY ChainingExists
<1> HIDE DEF chain
<1>3. Len(phrases) \in Nat
  OBVIOUS
<1>4. chain[0] = << >>
  BY <1>2, <1>3 DEF Chaining
<1>5. \A p \in 1..Len(phrases) : chain[p] = <<<<phrases[p].offset, phrases[p].length>>>> \o chain[phrases[p].next]
  <2> TAKE p \in 1..Len(phrases)
  <2>1. p \in 0..Len(phrases) /\ p # 0
    BY <1>3
  <2> QED
    BY <1>2, <2>1 DEF Chaining
<1> QED
  BY <1>1, <1>4, <1>5

\* a list has the nodes of N from i on
ListFrom(N, tree, i, list) ==
  /\ list \in Seq(Nat \X Nat)
  /\ Len(list) = Cardinality({m \in N : i =< m})
  /\ \A j \in N : i =< j => list[Cardinality({m \in N : i =< m /\ m =< j})] = <<tree[j][3], tree[j][4]>>

LEMMA GreatestAlone ==
  ASSUME NEW N \in SUBSET Nat, NEW i \in N, IsGreatest(N, i)
  PROVE  /\ {m \in N : i =< m} = {i}
         /\ \A j \in N : i =< j => j = i /\ {m \in N : i =< m /\ m =< j} = {i}
<1>1. \A m \in N : m \in Nat /\ (i =< m <=> m = i)
  BY DEF IsGreatest
<1>2. {m \in N : i =< m} = {i}
  BY <1>1
<1>3. {m \in N : i =< m /\ m =< i} = {i}
  BY <1>1
<1> QED
  BY <1>1, <1>2, <1>3

LEMMA NextAdds ==
  ASSUME NEW N \in SUBSET Nat, NEW i, NEW n, IsNext(N, i, n)
  PROVE  /\ {m \in N : i =< m} = {m \in N : n =< m} \cup {i}
         /\ \A j \in N : i =< j /\ j # i =>
              n =< j /\ {m \in N : i =< m /\ m =< j} = {m \in N : n =< m /\ m =< j} \cup {i}
<1>1. i \in N /\ n \in N /\ i \in Nat /\ n \in Nat /\ i < n
  BY DEF IsNext
<1>2. \A m \in N : m \in Nat /\ (i =< m <=> n =< m \/ m = i)
  BY <1>1 DEF IsNext
<1>3. {m \in N : i =< m} = {m \in N : n =< m} \cup {i}
  BY <1>1, <1>2
<1>4. ASSUME NEW j \in N, i =< j, j # i
      PROVE  n =< j /\ {m \in N : i =< m /\ m =< j} = {m \in N : n =< m /\ m =< j} \cup {i}
  BY <1>1, <1>2, <1>4
<1> QED
  BY <1>3, <1>4

LEMMA ListIsNodes ==
  ASSUME NEW k \in Nat, NEW N \in SUBSET (1..k), NEW tree, NEW phrases \in Seq(PhraseType),
         Forward(phrases), NEW spot, NEW rule, ListLinked(N, rule, phrases, spot),
         \A i \in N : /\ spot[i] \in 1..Len(phrases)
                      /\ phrases[spot[i]].offset = tree[i][3] /\ phrases[spot[i]].length = tree[i][4]
  PROVE  \A i \in N : ListFrom(N, tree, i, Chain(phrases, spot[i]))
<1> DEFINE Wrong == {i \in N : ~ListFrom(N, tree, i, Chain(phrases, spot[i]))}
<1> SUFFICES ASSUME Wrong # {}
             PROVE  FALSE
  OBVIOUS
<1>1. Wrong \in SUBSET (1..k)
  OBVIOUS
<1>2. PICK i \in Wrong : \A m \in Wrong : m =< i
  <2> HIDE DEF Wrong
  <2> QED
    BY <1>1, GreatestOf
<1>2a. i \in N /\ ~ListFrom(N, tree, i, Chain(phrases, spot[i])) /\ i \in Nat
  OBVIOUS
<1>2b. \A m \in N : i < m => ListFrom(N, tree, m, Chain(phrases, spot[m]))
  <2> TAKE m \in N
  <2>1. m \in Nat
    OBVIOUS
  <2> QED
    BY <1>2, <1>2a, <2>1
<1> HIDE DEF Wrong
<1> DEFINE head == <<tree[i][3], tree[i][4]>>
           list == Chain(phrases, spot[i])
<1>3. head \in Nat \X Nat
  <2>1. phrases[spot[i]] \in PhraseType
    BY <1>2a, ElementOfSeq
  <2> QED
    BY <1>2a, <2>1 DEF PhraseType
<1>4. list = <<head>> \o Chain(phrases, phrases[spot[i]].next)
  <2>1. <<phrases[spot[i]].offset, phrases[spot[i]].length>> = head
    BY <1>2a
  <2>2. PICK p : p = spot[i]
    OBVIOUS
  <2>3. p \in 1..Len(phrases)
    BY <1>2a, <2>2
  <2>4. Chain(phrases, p) = <<<<phrases[p].offset, phrases[p].length>>>> \o Chain(phrases, phrases[p].next)
    BY <2>3, ChainStep
  <2> HIDE DEF head
  <2> QED
    BY <2>1, <2>2, <2>4
<1>5. \A S \in SUBSET N : IsFiniteSet(S) /\ Cardinality(S) \in Nat
  BY FiniteUpTo
<1>6. \A m \in N : m \in Nat
  OBVIOUS
<1> HIDE DEF head
<1>7. CASE IsGreatest(N, i)
  <2>1. phrases[spot[i]].next = 0
    BY <1>2a, <1>7 DEF ListLinked
  <2>2. list = <<head>>
    <3>1. list = <<head>> \o << >>
      BY <1>4, <2>1, ChainStep
    <3> HIDE DEF list
    <3> QED
      BY <1>3, <3>1
  <2>3. {m \in N : i =< m} = {i} /\ \A j \in N : i =< j => j = i /\ {m \in N : i =< m /\ m =< j} = {i}
    BY <1>2a, <1>6, <1>7, GreatestAlone
  <2>4. Cardinality({i}) = 1
    BY FS_Singleton
  <2>5. ListFrom(N, tree, i, list)
    <3>1. <<head>> \in Seq(Nat \X Nat) /\ Len(<<head>>) = 1 /\ <<head>>[1] = head
      BY <1>3
    <3>2. \A j \in N : i =< j => list[Cardinality({m \in N : i =< m /\ m =< j})] = <<tree[j][3], tree[j][4]>>
      BY <2>2, <2>3, <2>4, <3>1 DEF head
    <3> HIDE DEF list
    <3> QED
      BY <2>2, <2>3, <2>4, <3>1, <3>2 DEF ListFrom
  <2> QED
    BY <1>2a, <2>5
<1>8. CASE ~IsGreatest(N, i)
  <2> DEFINE S == {m \in N : i < m}
  <2>1. S \in SUBSET Nat /\ S # {}
    <3>1. PICK m \in N : ~(m =< i)
      BY <1>2a, <1>8 DEF IsGreatest
    <3>2. m \in S
      BY <1>2a, <1>6, <3>1
    <3> QED
      BY <1>6, <3>2
  <2>2. PICK n \in S : \A m \in S : n =< m
    <3> HIDE DEF S
    <3> QED
      BY <2>1, LeastOf
  <2>3. n \in N /\ i < n /\ n \in Nat /\ i \in Nat /\ \A m \in N : m =< i \/ n =< m
    BY <1>2a, <1>6, <2>2
  <2>3a. IsNext(N, i, n)
    BY <1>2a, <2>3 DEF IsNext
  <2>4. phrases[spot[i]].next = spot[n]
    BY <1>2a, <2>3, <2>3a DEF ListLinked
  <2> DEFINE rest == Chain(phrases, spot[n])
  <2>6. ListFrom(N, tree, n, rest)
    BY <1>2b, <2>3
  <2>7. list = <<head>> \o rest
    BY <1>4, <2>4
  <2> HIDE DEF rest, list
  <2>8. <<head>> \in Seq(Nat \X Nat) /\ Len(<<head>>) = 1 /\ <<head>>[1] = head
    BY <1>3
  <2>9. rest \in Seq(Nat \X Nat) /\ Len(rest) \in Nat
    BY <2>6 DEF ListFrom
  <2>10. /\ list \in Seq(Nat \X Nat) /\ Len(list) = Len(rest) + 1 /\ list[1] = head
         /\ \A c \in 1..Len(rest) : list[c + 1] = rest[c]
    BY <2>7, <2>8, <2>9
  <2> DEFINE A(j) == {m \in N : j =< m}
             B(j, l) == {m \in N : j =< m /\ m =< l}
  <2>11. A(i) = A(n) \cup {i} /\ i \notin A(n) /\ A(n) \in SUBSET N
    <3>1. A(i) = A(n) \cup {i}
      BY <1>6, <2>3a, NextAdds
    <3> QED
      BY <1>6, <2>3, <3>1
  <2>12. Cardinality(A(i)) = Cardinality(A(n)) + 1
    <3> HIDE DEF A
    <3> QED
      BY <1>5, <2>11, FS_AddElement
  <2>13. Len(list) = Cardinality(A(i))
    BY <2>6, <2>10, <2>12 DEF ListFrom
  <2>14. ASSUME NEW j \in N, i =< j
         PROVE  list[Cardinality(B(i, j))] = <<tree[j][3], tree[j][4]>>
    <3>1. CASE j = i
      <4>1. B(i, j) = {i}
        <5>1. \A m \in N : m \in Nat /\ (i =< m /\ m =< i <=> m = i)
          BY <1>2a, <1>6
        <5> QED
          BY <1>2a, <3>1, <5>1
      <4>2. Cardinality({i}) = 1
        BY FS_Singleton
      <4> QED
        BY <2>10, <3>1, <4>1, <4>2 DEF head
    <3>2. CASE j # i
      <4>1. n =< j /\ j \in Nat
        BY <1>6, <2>3a, <2>14, <3>2, NextAdds
      <4>2. B(i, j) = B(n, j) \cup {i} /\ i \notin B(n, j) /\ B(n, j) \in SUBSET N
        <5>1. B(i, j) = B(n, j) \cup {i}
          BY <1>6, <2>3a, <2>14, <3>2, NextAdds
        <5> QED
          BY <1>6, <2>3, <5>1
      <4>3. n \in B(n, j) /\ B(n, j) \in SUBSET A(n) /\ A(n) \in SUBSET N
        BY <1>6, <2>3, <4>1
      <4>4. rest[Cardinality(B(n, j))] = <<tree[j][3], tree[j][4]>> /\ Len(rest) = Cardinality(A(n))
        BY <2>6, <4>1 DEF ListFrom
      <4> HIDE DEF A, B
      <4>5. Cardinality(B(i, j)) = Cardinality(B(n, j)) + 1
        BY <1>5, <4>2, FS_AddElement
      <4>6. Cardinality(B(n, j)) =< Cardinality(A(n))
        BY <1>5, <4>3, FS_Subset
      <4>7. Cardinality(B(n, j)) # 0
        BY <1>5, <4>2, <4>3, FS_EmptySet
      <4>8. PICK c : c = Cardinality(B(n, j))
        OBVIOUS
      <4>9. c \in 1..Len(rest)
        BY <1>5, <2>9, <4>2, <4>4, <4>6, <4>7, <4>8
      <4>10. list[c + 1] = rest[c]
        BY <2>10, <4>9
      <4> QED
        BY <4>4, <4>5, <4>8, <4>10
    <3> QED
      BY <3>1, <3>2
  <2>15. ListFrom(N, tree, i, list)
    BY <2>10, <2>13, <2>14 DEF ListFrom
  <2> QED
    BY <1>2a, <2>15 DEF list
<1> QED
  BY <1>7, <1>8

\* the lists that are made from one parse are those of its nodes, and as long as was counted
LEMMA ListsAreNodes ==
  ASSUME NEW tree \in Seq(NodeType), NEW E, NEW R, E \subseteq R, NEW l,
         LinkInv(tree, E, R, Len(tree), l), NEW r \in E
  PROVE  /\ Lists(Chain(l.phrases, l.rules[r].first), tree, r)
         /\ Len(Chain(l.phrases, l.rules[r].first)) = l.rules[r].count
<1> DEFINE k == Len(tree)
           N == NodesTo(tree, r, k)
<1>1. k \in Nat /\ N \in SUBSET (1..k) /\ N = Nodes(tree, r)
  BY DEF NodesTo, Nodes
<1>2. l.phrases \in Seq(PhraseType) /\ Forward(l.phrases)
  BY DEF LinkInv
<1>3. PICK spot : Spotted(tree, E, k, l, spot)
  BY DEF LinkInv
<1>4. ListLinked(N, l.rules[r], l.phrases, spot)
  BY <1>3 DEF Spotted
<1>5. N \subseteq Marked(tree, E, k)
  BY DEF NodesTo, Marked, Marks, IsPhraseOf
<1>6. \A i \in N : /\ spot[i] \in 1..Len(l.phrases)
                   /\ l.phrases[spot[i]].offset = tree[i][3] /\ l.phrases[spot[i]].length = tree[i][4]
  BY <1>3, <1>5 DEF Spotted
<1> HIDE DEF N, k
<1>7. l.rules[r].count = Cardinality(N) /\ (l.rules[r].first = 0 <=> N = {})
  BY <1>4 DEF ListLinked
<1>8. CASE N = {}
  <2>1. Chain(l.phrases, l.rules[r].first) = << >>
    BY <1>2, <1>7, <1>8, ChainStep
  <2>2. Cardinality(N) = 0
    BY <1>8, FS_EmptySet
  <2> QED
    BY <1>1, <1>7, <1>8, <2>1, <2>2 DEF Lists
<1>9. CASE N # {}
  <2>1. N \in SUBSET Nat
    BY <1>1
  <2>2. PICK i \in N : \A m \in N : i =< m
    BY <1>9, <2>1, LeastOf
  <2>3. l.rules[r].first = spot[i]
    BY <1>4, <2>2 DEF ListLinked, IsLeast
  <2>4. PICK ps : ps = l.phrases
    OBVIOUS
  <2>5. PICK rule : rule = l.rules[r]
    OBVIOUS
  <2>6. ListFrom(N, tree, i, Chain(ps, spot[i]))
    BY <1>1, <1>2, <1>4, <1>6, <2>4, <2>5, ListIsNodes
  <2>7. {m \in N : i =< m} = N /\ \A j \in N : i =< j /\ {m \in N : i =< m /\ m =< j} = {m \in N : m =< j}
    BY <2>2
  <2>8. /\ Len(Chain(ps, spot[i])) = Cardinality(N)
        /\ \A j \in N : Chain(ps, spot[i])[Cardinality({m \in N : m =< j})] = <<tree[j][3], tree[j][4]>>
    BY <2>6, <2>7 DEF ListFrom
  <2> QED
    BY <1>1, <1>7, <2>3, <2>4, <2>8 DEF Lists
<1> QED
  BY <1>8, <1>9

-----------------------------------------------------------------------------
(* The phrases of an execution.                                            *)

NodesReported ==
  sResult.found =>
    LET tree == MatchAt(pattern, call.source, sResult.beg, Rules).tree IN
    /\ astRecords = tree
    /\ sResult.uiRuleCount = Cardinality(bEnabled) => \A r \in bEnabled : Lists(sResult.rules[r], tree, r)

ListsClear == spRelRules = ClearedRules(Rules) /\ vpVecRelPhrases = << >> /\ astCallbacks = Rules

PhrasesGoOn ==
  call.op = "exec" =>
    /\ pc \in {"search", "attempt"} => ListsClear
    /\ pc \in {"search", "attempt", "found"} => ~threw
    /\ pc = "idle" /\ pattern # NoPattern /\ call.source # << >> => ~threw
    /\ pc = "found" \/ (pc = "idle" /\ ~threw) => NodesReported

PhrasesInv == bEnabled \subseteq Rules /\ PhrasesGoOn

LEMMA RulesAreFinite ==
  ASSUME NEW p \in Patterns
  PROVE  IsFiniteSet(RulesOf(p))
BY ApgexAssumption

LEMMA TreeIsTree ==
  ASSUME NEW p \in Patterns, NEW s \in Sources, NEW beg \in 0..(Len(s) - 1), NEW rules \in SUBSET RulesOf(p),
         MatchAt(p, s, beg, rules).ok
  PROVE  MatchAt(p, s, beg, rules).tree \in Seq(NodeType)
BY ApgexAssumption DEF NodeType

LEMMA PhrasesSetting ==
  ASSUME PhrasesInv, Setup
  PROVE  PhrasesInv'
<1>1. call' = SetUp
  BY DEF Setup, Pattern, EnableRules, SetLastIndex, NewSetting
<1>2. (bEnabled \subseteq Rules)'
  <2>1. CASE \E p \in Patterns, flags \in FlagStrings : Pattern(p, flags)
    BY <2>1 DEF Pattern
  <2>2. ASSUME NEW names \in NameLists, NEW enable \in BOOLEAN, EnableRules(names, enable)
        PROVE  (bEnabled \subseteq Rules)'
    <3>1. Rules' = Rules /\ bEnabled \subseteq Rules
      BY <2>2 DEF EnableRules, Rules, PhrasesInv
    <3>2. CASE UNCHANGED bEnabled
      BY <3>1, <3>2
    <3>3. CASE EnableAll(enable)
      BY <3>1, <3>3 DEF EnableAll
    <3>4. CASE EnableNames(names, enable)
      <4> DEFINE bad == {i \in DOMAIN names : names[i] \notin Rules}
                 named == {names[i] : i \in {i \in DOMAIN names : \A j \in bad : i < j}}
      <4>1. bEnabled' = IF enable THEN bEnabled \cup named ELSE bEnabled \ named
        BY <3>4 DEF EnableNames
      <4>2. named \subseteq Rules
        <5> SUFFICES ASSUME NEW i \in DOMAIN names, \A j \in bad : i < j
                     PROVE  names[i] \in Rules
          OBVIOUS
        <5>1. i \notin bad
          <6> SUFFICES ASSUME i \in bad
                       PROVE  FALSE
            OBVIOUS
          <6>1. i < i /\ i \in Nat
            BY Constants
          <6> QED
            BY <6>1
        <5> QED
          BY <5>1
      <4> HIDE DEF named
      <4> QED
        BY <3>1, <4>1, <4>2
    <3> QED
      BY <2>2, <3>2, <3>3, <3>4 DEF EnableRules
  <2>3. CASE \E i \in LastIndexes : SetLastIndex(i)
    BY <2>3 DEF SetLastIndex, PhrasesInv, Rules, object
  <2> QED
    BY <2>1, <2>2, <2>3 DEF Setup
<1> QED
  BY <1>1, <1>2 DEF PhrasesInv, PhrasesGoOn, SetUp

LEMMA PhrasesCall ==
  ASSUME PhrasesInv, Call
  PROVE  PhrasesInv'
<1>1. PICK src \in Sources :
        \/ Exec(src)
        \/ Test(src)
        \/ \E raw \in Replacements : Replace("replace", src, raw)
        \/ FuncPhrases # {} /\ Replace("func", src, << >>)
        \/ \E limit \in Limits : Split(src, limit)
  BY DEF Call
<1>2. ASSUME call'.op # "exec", UNCHANGED pattern, bEnabled' = bEnabled \/ bEnabled' = {}
      PROVE  PhrasesInv'
  BY <1>2 DEF PhrasesInv, PhrasesGoOn, Rules
<1>3. CASE Exec(src)
  <2>1. /\ call'.op = "exec" /\ call'.source = src /\ UNCHANGED <<pattern, bEnabled>> /\ Rules' = Rules
        /\ \/ pc' = "idle" /\ threw' = TRUE /\ (pattern = NoPattern \/ src = << >>)
           \/ /\ pc' = "search" /\ threw' = FALSE
              /\ spRelRules' = ClearedRules(Rules) /\ vpVecRelPhrases' = << >> /\ astCallbacks' = Rules
    BY <1>3 DEF Exec, Begin, Throws, ReturnTo, Searches, ClearForParse, object, Rules
  <2>2. pc' = "search" => ListsClear'
    BY <2>1 DEF ListsClear
  <2> QED
    BY <2>1, <2>2 DEF PhrasesInv, PhrasesGoOn
<1>4. CASE Test(src)
  BY <1>2, <1>4 DEF Test, Begin, Throws, object
<1>5. ASSUME NEW op \in {"replace", "func"}, NEW raw, Replace(op, src, raw)
      PROVE  PhrasesInv'
  <2>1. call'.op = op /\ UNCHANGED <<pattern, bEnabled>>
    BY <1>5 DEF Replace, Begin, Throws, object
  <2> QED
    BY <1>2, <2>1
<1>6. ASSUME NEW limit, Split(src, limit)
      PROVE  PhrasesInv'
  <2>1. call'.op = "split" /\ UNCHANGED pattern /\ (bEnabled' = bEnabled \/ bEnabled' = {})
    BY <1>6 DEF Split, Begin, Throws, object
  <2> QED
    BY <1>2, <2>1
<1> QED
  BY <1>1, <1>3, <1>4, <1>5, <1>6

\* vMatchResult: the lists are as long as was counted, and of the nodes of the match
LEMMA PhrasesMatch ==
  ASSUME SearchInv, PhrasesInv, pc = "attempt", call.op = "exec",
         NEW m, m = MatchAt(pattern, vpVecSource, uiSubStringBeg, astCallbacks),
         AttemptMatches(uiSubStringBeg, m), UNCHANGED <<object, source, call, vpVecSplitPhrases>>
  PROVE  PhrasesInv'
<1>1. /\ pattern \in Patterns /\ ListsClear /\ ~threw /\ bEnabled \subseteq Rules
  BY DEF SearchInv, Typed, PhrasesInv, PhrasesGoOn
<1>2. vpVecSource = call.source /\ uiSubStringBeg \in 0..(Len(call.source) - 1) /\ call.source \in Sources
  BY UnderAttempt, Underway DEF SearchInv, Looking
<1>3. Rules = RulesOf(pattern) /\ IsFiniteSet(Rules)
  BY <1>1, Constants, RulesAreFinite DEF Rules
<1>4. PICK tree : tree = m.tree
  OBVIOUS
<1>5. tree = MatchAt(pattern, call.source, uiSubStringBeg, Rules).tree
  BY <1>1, <1>2, <1>4 DEF ListsClear
<1>6. tree \in Seq(NodeType)
  <2>1. PICK s \in Sources : s = call.source
    BY <1>2
  <2>2. PICK rules \in SUBSET RulesOf(pattern) : rules = Rules
    BY <1>3
  <2>3. uiSubStringBeg \in 0..(Len(s) - 1)
    BY <1>2, <2>1
  <2>4. MatchAt(pattern, s, uiSubStringBeg, rules).ok
    BY <1>1, <1>2, <2>1, <2>2 DEF AttemptMatches, ListsClear
  <2>5. MatchAt(pattern, s, uiSubStringBeg, rules).tree \in Seq(NodeType)
    BY <1>1, <2>3, <2>4, TreeIsTree
  <2> QED
    BY <1>5, <2>1, <2>2, <2>5
<1>7. PICK l : l = Translate(tree)
  OBVIOUS
<1>8. LinkInv(tree, bEnabled, Rules, Len(tree), l)
  BY <1>1, <1>6, <1>7, TranslateLinks DEF ListsClear
<1>9. ASSUME NEW r \in bEnabled
      PROVE  /\ Lists(Chain(l.phrases, l.rules[r].first), tree, r)
             /\ Len(Chain(l.phrases, l.rules[r].first)) = l.rules[r].count
  <2>1. PICK E : E = bEnabled
    OBVIOUS
  <2>2. PICK R : R = Rules
    OBVIOUS
  <2>3. E \subseteq R /\ r \in E /\ LinkInv(tree, E, R, Len(tree), l)
    BY <1>1, <1>8, <2>1, <2>2
  <2> QED
    BY <1>6, <2>3, ListsAreNodes
<1> DEFINE list == [r \in bEnabled |-> Chain(l.phrases, l.rules[r].first)]
           sane == uiEnabledRuleCount = 0 \/ \A r \in bEnabled : Len(list[r]) = l.rules[r].count
<1>10. sane /\ \A r \in bEnabled : Lists(list[r], tree, r)
  BY <1>9
<1>11. MatchResult(uiSubStringBeg, m) /\ astRecords' = tree
  BY <1>4 DEF AttemptMatches
<1>12. /\ sResult'.found = TRUE /\ sResult'.beg = uiSubStringBeg
       /\ sResult'.uiRuleCount = uiEnabledRuleCount
       /\ sResult'.rules = (IF uiEnabledRuleCount = 0 THEN << >> ELSE list)
       /\ IF sane THEN pc' = "found" /\ UNCHANGED threw ELSE ReturnTo(TRUE)
  BY <1>4, <1>7, <1>11 DEF MatchResult
<1> HIDE DEF list, sane
<1>13. pc' = "found" /\ ~threw'
  BY <1>1, <1>10, <1>12
<1>14. UNCHANGED <<pattern, bEnabled, call>> /\ Rules' = Rules
  BY DEF object, Rules
<1>15. ASSUME uiEnabledRuleCount = Cardinality(bEnabled), NEW r \in bEnabled
       PROVE  Lists(sResult'.rules[r], tree, r)
  <2>1. uiEnabledRuleCount # 0
    <3>1. IsFiniteSet(bEnabled)
      BY <1>1, <1>3, FS_Subset
    <3> QED
      BY <1>15, <3>1, FS_EmptySet
  <2> QED
    BY <1>10, <1>12, <2>1
<1>16. NodesReported'
  <2>1. PICK b : b = uiSubStringBeg
    OBVIOUS
  <2>2. sResult'.beg = b /\ tree = MatchAt(pattern, call.source, b, Rules).tree
    BY <1>5, <1>12, <2>1
  <2>3. (MatchAt(pattern, call.source, sResult.beg, Rules).tree)' = tree
    BY <1>14, <2>2
  <2> QED
    BY <1>11, <1>12, <1>14, <1>15, <2>3 DEF NodesReported
<1> QED
  BY <1>1, <1>13, <1>14, <1>16 DEF PhrasesInv, PhrasesGoOn

LEMMA PhrasesStep ==
  ASSUME SearchInv, PhrasesInv, Step
  PROVE  PhrasesInv'
<1>1. UNCHANGED <<pattern, bEnabled>> /\ call'.op = call.op /\ call'.source = call.source /\ Rules' = Rules
  <2>1. PICK f, s, o, a, b, l : CallIs(f, s, o, a, b, l)
    BY DEF SearchInv, Typed, Step, Search, Attempt, ExecReturn, TestReturn, ReplaceStep, ReplaceReturn, SplitStep
  <2>2. call'.op = call.op /\ call'.source = call.source
    BY <2>1 DEF CallIs, Step, Search, Attempt, ExecReturn, TestReturn, ReplaceStep, ReplaceReturn, SplitStep
  <2> QED
    BY <2>2 DEF Step, Search, Attempt, ExecReturn, TestReturn, ReplaceStep, ReplaceReturn, SplitStep, object, Rules
<1>2. CASE call.op # "exec"
  BY <1>1, <1>2 DEF PhrasesInv, PhrasesGoOn
<1>3. CASE call.op = "exec"
  <2>1. CASE Search
    <3>1. /\ ListsClear /\ ~threw /\ sResult = NoResult
      BY <1>3, <2>1 DEF PhrasesInv, PhrasesGoOn, SearchInv, SearchGoesOn, Looking, Blank, Search
    <3>2. /\ UNCHANGED <<spRelRules, vpVecRelPhrases, astCallbacks, threw>> /\ sResult' = NoResult
          /\ pc' \in {"found", "exited", "attempt"}
      BY <2>1, <3>1 DEF Search, lists, ast
    <3>3. ListsClear' /\ NodesReported'
      BY <1>1, <3>1, <3>2 DEF ListsClear, NodesReported, NoResult
    <3> QED
      BY <1>1, <3>1, <3>2, <3>3 DEF PhrasesInv, PhrasesGoOn
  <2>2. CASE Attempt
    <3>1. PICK m : /\ m = MatchAt(pattern, vpVecSource, uiSubStringBeg, astCallbacks)
                   /\ AttemptMatches(uiSubStringBeg, m) \/ AttemptFails(uiSubStringBeg, m)
      BY <2>2 DEF Attempt
    <3>2. pc = "attempt" /\ UNCHANGED <<object, source, call, vpVecSplitPhrases>>
      BY <2>2 DEF Attempt
    <3>3. CASE AttemptMatches(uiSubStringBeg, m)
      BY <1>3, <3>1, <3>2, <3>3, PhrasesMatch
    <3>4. CASE AttemptFails(uiSubStringBeg, m)
      <4>1. ListsClear /\ ~threw /\ sResult = NoResult
        BY <1>3, <3>2 DEF PhrasesInv, PhrasesGoOn, SearchInv, SearchGoesOn, Looking, Blank
      <4>2. UNCHANGED <<spRelRules, vpVecRelPhrases, astCallbacks, threw, sResult>> /\ pc' \in {"attempt", "found"}
        BY <3>2, <3>4 DEF AttemptFails, lists
      <4>3. ListsClear' /\ NodesReported'
        BY <1>1, <4>1, <4>2 DEF ListsClear, NodesReported, NoResult
      <4> QED
        BY <1>1, <4>1, <4>2, <4>3 DEF PhrasesInv, PhrasesGoOn
    <3> QED
      BY <3>1, <3>3, <3>4
  <2>3. CASE ExecReturn
    <3>1. NodesReported
      BY <1>3, <2>3 DEF PhrasesInv, PhrasesGoOn, ExecReturn
    <3>2. UNCHANGED <<call, sResult, astRecords>> /\ pc' = "idle" /\ threw' = FALSE
      BY <2>3 DEF ExecReturn, ReturnTo
    <3>3. NodesReported'
      BY <1>1, <3>1, <3>2 DEF NodesReported
    <3> QED
      BY <1>1, <3>2, <3>3 DEF PhrasesInv, PhrasesGoOn
  <2> QED
    BY <1>3, <2>1, <2>2, <2>3 DEF Step, TestReturn, ReplaceStep, ReplaceReturn, SplitStep
<1> QED
  BY <1>2, <1>3

LEMMA PhrasesInvInit ==
  Init => PhrasesInv
BY DEF Init, PhrasesInv, PhrasesGoOn, SetUp

LEMMA PhrasesInvNext ==
  ASSUME SearchInv, PhrasesInv, [Next]_vars
  PROVE  PhrasesInv'
<1>1. CASE Setup
  BY <1>1, PhrasesSetting
<1>2. CASE Call
  BY <1>2, PhrasesCall
<1>3. CASE Step
  BY <1>3, PhrasesStep
<1>4. CASE UNCHANGED vars
  <2>1. /\ UNCHANGED <<pattern, bEnabled, pc, call, sResult, threw, spRelRules, vpVecRelPhrases>>
        /\ UNCHANGED <<astCallbacks, astRecords>> /\ Rules' = Rules
    BY <1>4 DEF vars, object, lists, ast, Rules
  <2>2. ListsClear' = ListsClear
    BY <2>1 DEF ListsClear
  <2>3. NodesReported' = NodesReported
    BY <2>1 DEF NodesReported
  <2> QED
    BY <2>1, <2>2, <2>3 DEF PhrasesInv, PhrasesGoOn
<1> QED
  BY <1>1, <1>2, <1>3, <1>4 DEF Next

\* What sApgexExec returns for the rules that are enabled: the phrases of each are those of its
\* nodes in the syntax tree of the match, each at its place, and vMatchResult's check of the lists
\* against the counts never throws. For every pattern, source and choice of rules.
THEOREM PhrasesInOrder ==
  ASSUME LengthsAreNumbers
  PROVE  Spec => []PhrasesAreNodes
<1>1. SearchInv /\ PhrasesInv /\ [Next]_vars => SearchInv' /\ PhrasesInv'
  BY SearchInvNext, PhrasesInvNext
<1>2. PhrasesInv => PhrasesAreNodes
  BY DEF PhrasesInv, PhrasesGoOn, PhrasesAreNodes, NodesReported, Returned
<1> QED
  BY SearchInvInit, PhrasesInvInit, <1>1, <1>2, PTL DEF Spec

-----------------------------------------------------------------------------
(* The list of the matches.                                                *)

\* a set of numbers that has all from some number on, and each below if it has all above
LEMMA FromAbove ==
  ASSUME NEW S, NEW n \in Nat, \A i \in Nat : i >= n => i \in S,
         \A i \in Nat : (\A j \in Nat : j > i => j \in S) => i \in S
  PROVE  \A i \in Nat : i \in S
<1> DEFINE D == {d \in Nat : d =< n /\ n - d \notin S}
<1>1. D = {}
  <2> SUFFICES ASSUME D # {} PROVE FALSE
    OBVIOUS
  <2>1. PICK d \in D : \A e \in D : d =< e
    <3>1. D \in SUBSET Nat
      OBVIOUS
    <3> HIDE DEF D
    <3> QED
      BY <3>1, LeastOf
  <2>2. d \in Nat /\ d =< n /\ n - d \notin S /\ n - d \in Nat
    OBVIOUS
  <2>3. ASSUME NEW j \in Nat, j > n - d, j \notin S PROVE FALSE
    <3>1. j < n
      BY <2>3
    <3>2. n - j \in D
      BY <2>3, <3>1
    <3> QED
      BY <2>1, <2>2, <2>3, <3>2
  <2> QED
    BY <2>2, <2>3
<1>2. ASSUME NEW i \in Nat, i \notin S PROVE FALSE
  <2>1. i < n
    BY <1>2
  <2>2. n - i \in D
    BY <1>2, <2>1
  <2> QED
    BY <1>1, <2>2
<1> QED
  BY <1>2

\* a set of numbers that has the least of an interval, and with each the next
LEMMA FromBelow ==
  ASSUME NEW S, NEW n \in Nat, 0 \in S, \A k \in Nat : k < n /\ k \in S => k + 1 \in S
  PROVE  \A k \in 0..n : k \in S
<1> DEFINE D == {k \in 0..n : k \notin S}
<1>1. D = {}
  <2> SUFFICES ASSUME D # {} PROVE FALSE
    OBVIOUS
  <2>1. PICK k \in D : \A e \in D : k =< e
    <3>1. D \in SUBSET Nat
      OBVIOUS
    <3> HIDE DEF D
    <3> QED
      BY <3>1, LeastOf
  <2>2. k \in Nat /\ k # 0 /\ k - 1 \in Nat /\ k - 1 < n /\ (k - 1) + 1 = k /\ k \notin S
    OBVIOUS
  <2>3. k - 1 \notin D
    BY <2>1, <2>2
  <2>4. k - 1 \in S
    BY <2>2, <2>3
  <2>5. (k - 1) + 1 \in S
    BY <2>2, <2>4
  <2> QED
    BY <2>2, <2>5
<1> QED
  BY <1>1

Pair == Nat \X Nat

\* a match has a length
Measured == \A b \in 0..(Len(call.source) - 1) : M(b).ok => M(b).len \in Nat

\* where the search for the match after the k-th begins
At(all, from, k) == IF k = 0 THEN from ELSE Advance(all[k][1], all[k][2])

IsList(all, from, how) ==
  /\ all \in Seq(Pair)
  /\ \A k \in 0..(Len(all) - 1) :
       /\ First(At(all, from, k), how) = {all[k + 1][1]}
       /\ all[k + 1][1] \in 0..(Len(call.source) - 1) /\ At(all, from, k) =< all[k + 1][1]
       /\ all[k + 1][2] = M(all[k + 1][1]).len
  /\ First(At(all, from, Len(all)), how) = {} \/ (how = "default" /\ Len(all) = 1)

LEMMA FirstOne ==
  ASSUME NEW from \in Nat, NEW how, Len(call.source) \in Nat, First(from, how) # {}
  PROVE  \E b \in 0..(Len(call.source) - 1) :
           /\ First(from, how) = {b} /\ from =< b /\ M(b).ok
           /\ \A c \in from..(b - 1) : ~M(c).ok
           /\ how = "sticky" => b = from
<1>1. PICK b \in Matching(from) : (how = "sticky" => b = from) /\ \A c \in Matching(from) : b =< c
  BY DEF First
<1>2. b \in from..(Len(call.source) - 1) /\ M(b).ok
  BY <1>1 DEF Matching
<1>3. b \in 0..(Len(call.source) - 1) /\ from =< b
  BY <1>2
<1>4. \A c \in from..(b - 1) : ~M(c).ok
  <2> TAKE c \in from..(b - 1)
  <2>1. c \in from..(Len(call.source) - 1) /\ ~(b =< c)
    BY <1>3
  <2> QED
    BY <1>1, <2>1 DEF Matching
<1>5. \A c \in First(from, how) : c = b
  <2> TAKE c \in First(from, how)
  <2>1. c \in Matching(from) /\ c =< b /\ b =< c
    BY <1>1 DEF First
  <2>2. c \in Nat
    BY <2>1 DEF Matching
  <2> QED
    BY <1>3, <2>1, <2>2
<1>6. b \in First(from, how)
  BY <1>1 DEF First
<1>7. First(from, how) = {b}
  BY <1>5, <1>6
<1> QED
  BY <1>1, <1>2, <1>3, <1>4, <1>7

\* the recursion of MatchList
ListBody(f, i, how) ==
  IF First(i, how) = {} THEN << >>
  ELSE LET b == CHOOSE b \in First(i, how) : TRUE
           rest == IF how = "default" THEN << >> ELSE f[Advance(b, M(b).len)]
       IN <<<<b, M(b).len>>>> \o rest

Listing(f, how) == f = [i \in Nat |-> ListBody(f, i, how)]

LEMMA ListIs ==
  ASSUME NEW from, NEW how
  PROVE  MatchList(from, how) = (CHOOSE f : Listing(f, how))[from]
BY DEF MatchList, Listing, ListBody

\* it goes on further to the right
LEMMA BodyAbove ==
  ASSUME NEW f, NEW g, NEW i \in Nat, NEW how, Len(call.source) \in Nat, Measured,
         \A j \in Nat : j > i => f[j] = g[j]
  PROVE  ListBody(f, i, how) = ListBody(g, i, how)
<1>1. CASE First(i, how) = {}
  BY <1>1 DEF ListBody
<1>2. CASE First(i, how) # {}
  <2>1. PICK b \in 0..(Len(call.source) - 1) : First(i, how) = {b} /\ i =< b /\ M(b).ok
    BY <1>2, FirstOne
  <2>2. M(b).len \in Nat
    BY <2>1 DEF Measured
  <2>3. Advance(b, M(b).len) \in Nat /\ Advance(b, M(b).len) > i
    BY <2>1, <2>2 DEF Advance
  <2>4. f[Advance(b, M(b).len)] = g[Advance(b, M(b).len)]
    BY <2>3
  <2>5. (CHOOSE c \in First(i, how) : TRUE) = b
    BY <2>1
  <2> QED
    BY <1>2, <2>4, <2>5 DEF ListBody
<1> QED
  BY <1>1, <1>2

LEMMA NoneBeyond ==
  ASSUME NEW i \in Nat, NEW how, Len(call.source) \in Nat, i >= Len(call.source)
  PROVE  First(i, how) = {}
<1>1. i..(Len(call.source) - 1) = {}
  OBVIOUS
<1> QED
  BY <1>1 DEF First, Matching

LEMMA ListExists ==
  ASSUME NEW how, Len(call.source) \in Nat, Measured
  PROVE  \E f : Listing(f, how)
<1> DEFINE n == Len(call.source)
           Right(m) == \E f : /\ f = [i \in Nat |-> f[i]]
                              /\ \A i \in Nat : i >= n - m => f[i] = ListBody(f, i, how)
           S == {m \in Nat : Right(m)}
<1>1. 0 \in S
  <2> DEFINE f == [i \in Nat |-> << >>]
  <2>1. \A i \in Nat : i >= n - 0 => f[i] = ListBody(f, i, how)
    <3> TAKE i \in Nat
    <3> HAVE i >= n - 0
    <3>1. First(i, how) = {}
      BY NoneBeyond
    <3> QED
      BY <3>1 DEF ListBody
  <2>2. f = [i \in Nat |-> f[i]]
    OBVIOUS
  <2> HIDE DEF f
  <2> QED
    BY <2>1, <2>2
<1>2. ASSUME NEW m \in Nat, m < n, m \in S PROVE m + 1 \in S
  <2>1. PICK f : /\ f = [i \in Nat |-> f[i]]
                 /\ \A i \in Nat : i >= n - m => f[i] = ListBody(f, i, how)
    BY <1>2
  <2> DEFINE i0 == n - (m + 1)
             g == [j \in Nat |-> IF j = i0 THEN ListBody(f, i0, how) ELSE f[j]]
  <2>2. i0 \in Nat
    BY <1>2
  <2>3. g[i0] = ListBody(f, i0, how) /\ \A j \in Nat : j > i0 => g[j] = f[j]
    <3> HIDE DEF i0
    <3> QED
      BY <2>2
  <2>4. g = [i \in Nat |-> g[i]]
    OBVIOUS
  <2> HIDE DEF g
  <2>5. \A i \in Nat : i >= n - (m + 1) => g[i] = ListBody(g, i, how)
    <3> TAKE i \in Nat
    <3> HAVE i >= n - (m + 1)
    <3>1. \A j \in Nat : j > i => g[j] = f[j]
      BY <2>3
    <3>2. ListBody(g, i, how) = ListBody(f, i, how)
      BY <3>1, BodyAbove
    <3>3. CASE i = i0
      BY <2>3, <3>2, <3>3
    <3>4. CASE i # i0
      <4>1. i > i0 /\ i >= n - m
        BY <3>4
      <4> QED
        BY <2>1, <2>3, <3>2, <4>1
    <3> QED
      BY <3>3, <3>4
  <2> QED
    BY <2>4, <2>5
<1>3. n \in S
  <2>1. \A k \in 0..n : k \in S
    <3> HIDE DEF S
    <3> QED
      BY <1>1, <1>2, FromBelow
  <2> HIDE DEF S
  <2> QED
    BY <2>1
<1>4. PICK f : /\ f = [i \in Nat |-> f[i]]
               /\ \A i \in Nat : i >= n - n => f[i] = ListBody(f, i, how)
  BY <1>3
<1>5. \A i \in Nat : f[i] = ListBody(f, i, how)
  BY <1>4
<1>6. [i \in Nat |-> f[i]] = [i \in Nat |-> ListBody(f, i, how)]
  BY <1>5
<1> QED
  BY <1>4, <1>6 DEF Listing

LEMMA ListStep ==
  ASSUME NEW from \in Nat, NEW how, Len(call.source) \in Nat, Measured
  PROVE  /\ First(from, how) = {} => MatchList(from, how) = << >>
         /\ First(from, how) # {} =>
              \E b \in 0..(Len(call.source) - 1) :
                /\ First(from, how) = {b} /\ from =< b /\ M(b).len \in Nat
                /\ Advance(b, M(b).len) \in Nat /\ Advance(b, M(b).len) > from
                /\ MatchList(from, how) =
                     <<<<b, M(b).len>>>> \o
                       (IF how = "default" THEN << >> ELSE MatchList(Advance(b, M(b).len), how))
<1>1. PICK f : f = CHOOSE h : Listing(h, how)
  OBVIOUS
<1>2. Listing(f, how)
  BY <1>1, ListExists
<1>3. \A i \in Nat : f[i] = ListBody(f, i, how)
  BY <1>2 DEF Listing
<1>4. \A i : MatchList(i, how) = f[i]
  BY <1>1, ListIs
<1>5. CASE First(from, how) = {}
  BY <1>3, <1>4, <1>5 DEF ListBody
<1>6. CASE First(from, how) # {}
  <2>1. PICK b \in 0..(Len(call.source) - 1) : First(from, how) = {b} /\ from =< b /\ M(b).ok
    BY <1>6, FirstOne
  <2>2. M(b).len \in Nat
    BY <2>1 DEF Measured
  <2>3. Advance(b, M(b).len) \in Nat /\ Advance(b, M(b).len) > from
    BY <2>1, <2>2 DEF Advance
  <2>4. (CHOOSE c \in First(from, how) : TRUE) = b
    BY <2>1
  <2>5. f[from] = <<<<b, M(b).len>>>> \o (IF how = "default" THEN << >> ELSE f[Advance(b, M(b).len)])
    BY <1>3, <1>6, <2>4 DEF ListBody
  <2> QED
    BY <1>4, <2>1, <2>2, <2>3, <2>5
<1> QED
  BY <1>5, <1>6

LEMMA ListPrefix ==
  ASSUME NEW how, how # "default", Len(call.source) \in Nat, NEW from \in Nat,
         NEW b \in 0..(Len(call.source) - 1), First(from, how) = {b}, from =< b, M(b).len \in Nat,
         NEW j \in Nat, j = Advance(b, M(b).len), NEW rest, IsList(rest, j, how)
  PROVE  IsList(<<<<b, M(b).len>>>> \o rest, from, how)
<1> DEFINE x == <<b, M(b).len>>
           all == <<x>> \o rest
           n == Len(rest)
<1>1. x \in Pair /\ rest \in Seq(Pair) /\ n \in Nat /\ <<x>> \in Seq(Pair) /\ Len(<<x>>) = 1
  BY DEF Pair, IsList
<1>2. /\ all \in Seq(Pair) /\ Len(all) = n + 1 /\ all[1] = x
      /\ \A k \in 1..n : all[k + 1] = rest[k]
  <2>1. /\ <<x>> \o rest \in Seq(Pair)
        /\ Len(<<x>> \o rest) = Len(<<x>>) + Len(rest)
        /\ \A i \in 1 .. Len(<<x>>) + Len(rest) :
             (<<x>> \o rest)[i] = IF i =< Len(<<x>>) THEN <<x>>[i] ELSE rest[i - Len(<<x>>)]
    <3> HIDE DEF x
    <3> QED
      BY <1>1, ConcatProperties
  <2>2. \A i \in 1..(n + 1) : all[i] = IF i =< 1 THEN <<x>>[i] ELSE rest[i - 1]
    BY <1>1, <2>1
  <2>3. <<x>>[1] = x
    OBVIOUS
  <2>4. all \in Seq(Pair) /\ Len(all) = n + 1
    BY <1>1, <2>1
  <2> HIDE DEF all, x
  <2> QED
    BY <1>1, <2>2, <2>3, <2>4
<1>3. At(all, from, 0) = from /\ \A k \in 0..n : At(all, from, k + 1) = At(rest, j, k)
  <2>1. x[1] = b /\ x[2] = M(b).len
    OBVIOUS
  <2> HIDE DEF all, x
  <2>2. At(all, from, 0) = from
    BY DEF At
  <2>3. ASSUME NEW k \in 0..n PROVE At(all, from, k + 1) = At(rest, j, k)
    <3>1. CASE k = 0
      BY <1>2, <2>1, <3>1 DEF At
    <3>2. CASE k # 0
      <4>1. k \in 1..n /\ k + 1 # 0
        BY <1>1, <3>2
      <4> QED
        BY <1>2, <3>2, <4>1 DEF At
    <3> QED
      BY <3>1, <3>2
  <2> QED
    BY <2>2, <2>3
<1>4. ASSUME NEW k \in 0..n
      PROVE  /\ First(At(all, from, k), how) = {all[k + 1][1]}
             /\ all[k + 1][1] \in 0..(Len(call.source) - 1) /\ At(all, from, k) =< all[k + 1][1]
             /\ all[k + 1][2] = M(all[k + 1][1]).len
  <2>1. CASE k = 0
    <3>1. x[1] = b /\ x[2] = M(b).len
      OBVIOUS
    <3>2. all[k + 1] = x
      BY <1>2, <2>1
    <3>3. all[k + 1][1] = b /\ all[k + 1][2] = M(b).len
      BY <3>1, <3>2
    <3>4. At(all, from, k) = from
      BY <1>3, <2>1
    <3> HIDE DEF all, x
    <3> QED
      BY <3>3, <3>4
  <2>2. CASE k # 0
    <3>1. PICK i \in 0..(n - 1) : k = i + 1
      <4>1. k - 1 \in 0..(n - 1) /\ k = (k - 1) + 1
        BY <1>1, <2>2
      <4> QED
        BY <4>1
    <3>2. i + 1 \in 1..n /\ i \in 0..n
      BY <1>1
    <3> HIDE DEF all, x
    <3>3. all[k + 1] = rest[i + 1] /\ At(all, from, k) = At(rest, j, i)
      BY <1>2, <1>3, <3>1, <3>2
    <3>4. /\ First(At(rest, j, i), how) = {rest[i + 1][1]}
          /\ rest[i + 1][1] \in 0..(Len(call.source) - 1) /\ At(rest, j, i) =< rest[i + 1][1]
          /\ rest[i + 1][2] = M(rest[i + 1][1]).len
      BY DEF IsList
    <3> QED
      BY <3>3, <3>4
  <2> QED
    BY <2>1, <2>2
<1>5. First(At(all, from, Len(all)), how) = {} \/ (how = "default" /\ Len(all) = 1)
  <2> HIDE DEF all, x
  <2>1. At(all, from, Len(all)) = At(rest, j, n)
    BY <1>1, <1>2, <1>3
  <2> QED
    BY <2>1 DEF IsList
<1> HIDE DEF all, n
<1>6. IsList(all, from, how)
  <2>1. Len(all) - 1 = n
    BY <1>1, <1>2
  <2> QED
    BY <1>2, <1>4, <1>5, <2>1 DEF IsList
<1> QED
  BY <1>6 DEF all

\* MatchList lists the matches: each is the first at or after the end of the one before
LEMMA ListOfMatches ==
  ASSUME NEW from \in Nat, NEW how, Len(call.source) \in Nat, Measured
  PROVE  IsList(MatchList(from, how), from, how)
<1> DEFINE S == {i \in Nat : IsList(MatchList(i, how), i, how)}
<1>1. ASSUME NEW i \in Nat, First(i, how) = {} PROVE i \in S
  <2>1. MatchList(i, how) = << >>
    BY <1>1, ListStep
  <2>2. << >> \in Seq(Pair) /\ Len(<< >>) = 0
    BY EmptySeq
  <2>3. IsList(<< >>, i, how)
    BY <1>1, <2>2 DEF IsList, At
  <2> QED
    BY <2>1, <2>3
<1>2. \A i \in Nat : i >= Len(call.source) => i \in S
  <2> HIDE DEF S
  <2> QED
    BY <1>1, NoneBeyond
<1>3. ASSUME NEW i \in Nat, \A j \in Nat : j > i => j \in S PROVE i \in S
  <2>1. CASE First(i, how) # {}
    <3>1. PICK b \in 0..(Len(call.source) - 1) :
            /\ First(i, how) = {b} /\ i =< b /\ M(b).len \in Nat
            /\ Advance(b, M(b).len) \in Nat /\ Advance(b, M(b).len) > i
            /\ MatchList(i, how) = <<<<b, M(b).len>>>> \o
                 (IF how = "default" THEN << >> ELSE MatchList(Advance(b, M(b).len), how))
      BY <2>1, ListStep
    <3>2. CASE how = "default"
      <4>1. PICK x : x = <<b, M(b).len>>
        OBVIOUS
      <4>2. x \in Pair /\ x[1] = b /\ x[2] = M(b).len
        BY <3>1, <4>1 DEF Pair
      <4>3. <<x>> \in Seq(Pair) /\ Len(<<x>>) = 1 /\ <<x>>[1] = x
        BY <4>2
      <4>4. MatchList(i, how) = <<x>>
        <5>1. <<x>> \o << >> = <<x>>
          BY <4>3, ConcatEmptySeq
        <5> QED
          BY <3>1, <3>2, <4>1, <5>1
      <4>5. \A k \in 0..(Len(<<x>>) - 1) : k = 0 /\ k + 1 = 1
        BY <4>3
      <4>6. At(<<x>>, i, 0) = i
        BY DEF At
      <4>7. IsList(<<x>>, i, how)
        BY <3>1, <3>2, <4>2, <4>3, <4>5, <4>6 DEF IsList
      <4> QED
        BY <4>4, <4>7
    <3>3. CASE how # "default"
      <4>1. PICK j \in Nat : j = Advance(b, M(b).len)
        BY <3>1
      <4>2. IsList(MatchList(j, how), j, how)
        BY <1>3, <3>1, <4>1
      <4>3. MatchList(i, how) = <<<<b, M(b).len>>>> \o MatchList(j, how)
        BY <3>1, <3>3, <4>1
      <4>4. IsList(<<<<b, M(b).len>>>> \o MatchList(j, how), i, how)
        BY <3>1, <3>3, <4>1, <4>2, ListPrefix
      <4> QED
        BY <4>3, <4>4
    <3> QED
      BY <3>2, <3>3
  <2> HIDE DEF S
  <2> QED
    BY <1>1, <2>1
<1>4. \A i \in Nat : i \in S
  <2> HIDE DEF S
  <2> QED
    BY <1>2, <1>3, FromAbove
<1> QED
  BY <1>4

\* each match begins at or after the end of the one before, and moves the search on
LEMMA ListRises ==
  ASSUME NEW from \in Nat, NEW how, Len(call.source) \in Nat, Measured, NEW all, IsList(all, from, how)
  PROVE  /\ Len(all) \in Nat
         /\ \A k \in 0..Len(all) : At(all, from, k) \in Nat
         /\ \A k \in 1..Len(all) : all[k][1] \in Nat /\ all[k][2] \in Nat
         /\ \A k \in 0..Len(all) : \A j \in 0..(Len(all) - k) : At(all, from, k) + j =< At(all, from, k + j)
<1>1. Len(all) \in Nat /\ all \in Seq(Pair)
  BY DEF IsList
<1>2. \A k \in 1..Len(all) : all[k][1] \in Nat /\ all[k][2] \in Nat
  <2> TAKE k \in 1..Len(all)
  <2>1. all[k] \in Pair
    BY <1>1, ElementOfSeq
  <2> QED
    BY <2>1 DEF Pair
<1>3. \A k \in 0..Len(all) : At(all, from, k) \in Nat
  BY <1>1, <1>2 DEF At, Advance
<1>4. \A k \in 0..(Len(all) - 1) : At(all, from, k) + 1 =< At(all, from, k + 1)
  <2> TAKE k \in 0..(Len(all) - 1)
  <2>1. At(all, from, k) =< all[k + 1][1]
    BY DEF IsList
  <2>2. k + 1 \in 1..Len(all) /\ k + 1 # 0 /\ k \in 0..Len(all)
    BY <1>1
  <2>3. At(all, from, k + 1) = Advance(all[k + 1][1], all[k + 1][2])
    BY <2>2 DEF At
  <2>4. all[k + 1][1] \in Nat /\ all[k + 1][2] \in Nat /\ At(all, from, k) \in Nat
    BY <1>2, <1>3, <2>2
  <2>5. PICK b \in Nat : b = all[k + 1][1]
    BY <2>4
  <2>6. PICK len \in Nat : len = all[k + 1][2]
    BY <2>4
  <2>7. b + 1 =< Advance(b, len) /\ Advance(b, len) \in Nat
    BY DEF Advance
  <2>8. At(all, from, k) =< b /\ At(all, from, k + 1) = Advance(b, len)
    BY <2>1, <2>3, <2>5, <2>6
  <2> HIDE DEF At
  <2> QED
    BY <2>4, <2>7, <2>8
<1>5. ASSUME NEW k \in 0..Len(all)
      PROVE  \A j \in 0..(Len(all) - k) : At(all, from, k) + j =< At(all, from, k + j)
  <2> DEFINE S == {j \in Nat : j =< Len(all) - k => At(all, from, k) + j =< At(all, from, k + j)}
  <2>1. 0 \in S
    <3>1. At(all, from, k) \in Nat /\ k + 0 = k
      BY <1>3
    <3> QED
      BY <3>1
  <2>2. ASSUME NEW j \in Nat, j < Len(all) - k, j \in S PROVE j + 1 \in S
    <3>1. At(all, from, k) + j =< At(all, from, k + j)
      BY <1>1, <2>2
    <3>2. k + j \in 0..(Len(all) - 1) /\ (k + j) + 1 = k + (j + 1) /\ k + j \in 0..Len(all) /\ k + (j + 1) \in 0..Len(all)
      BY <1>1, <2>2
    <3>3. At(all, from, k + j) + 1 =< At(all, from, k + (j + 1))
      BY <1>4, <3>2
    <3>4. At(all, from, k) \in Nat /\ At(all, from, k + j) \in Nat /\ At(all, from, k + (j + 1)) \in Nat
      BY <1>3, <3>2
    <3> QED
      BY <3>1, <3>3, <3>4
  <2>3. Len(all) - k \in Nat
    BY <1>1
  <2>4. \A j \in 0..(Len(all) - k) : j \in S
    <3> HIDE DEF S
    <3> QED
      BY <2>1, <2>2, <2>3, FromBelow
  <2> QED
    BY <1>1, <2>4
<1> QED
  BY <1>1, <1>2, <1>3, <1>5

\* no more matches than characters
LEMMA ListFits ==
  ASSUME NEW how, Len(call.source) \in Nat, Measured, NEW all, IsList(all, 0, how)
  PROVE  Len(all) =< Len(call.source)
<1>1. Len(all) \in Nat /\ \A k \in 0..Len(all) : At(all, 0, k) \in Nat
  BY ListRises
<1> SUFFICES ASSUME Len(all) # 0 PROVE Len(all) =< Len(call.source)
  OBVIOUS
<1>2. PICK n \in Nat : n = Len(all) - 1
  <2>1. Len(all) - 1 \in Nat
    BY <1>1
  <2> QED
    BY <2>1
<1>3. n \in 0..(Len(all) - 1) /\ n + 1 = Len(all) /\ 0 \in 0..Len(all) /\ n \in 0..(Len(all) - 0) /\ 0 + n = n
      /\ n \in 0..Len(all)
  BY <1>1, <1>2
<1>4. At(all, 0, 0) + n =< At(all, 0, 0 + n)
  BY <1>3, ListRises
<1>5. At(all, 0, n) =< all[n + 1][1] /\ all[n + 1][1] \in 0..(Len(call.source) - 1)
  BY <1>3 DEF IsList
<1>6. At(all, 0, 0) = 0
  BY DEF At
<1> QED
  BY <1>1, <1>3, <1>4, <1>5, <1>6

\* a pattern that matches nothing at every character
LEMMA ListOfCharacters ==
  ASSUME NEW how, Len(call.source) \in Nat, Measured, NEW all, IsList(all, 0, how),
         Len(all) = Len(call.source), \A k \in DOMAIN all : all[k][2] = 0
  PROVE  \A k \in 0..Len(all) : At(all, 0, k) = k
<1>1. Len(all) \in Nat /\ all \in Seq(Pair) /\ DOMAIN all = 1..Len(all)
  BY DEF IsList
<1>2. PICK n \in Nat : n = Len(all)
  BY <1>1
<1>3. At(all, 0, n) =< n
  <2>1. CASE n = 0
    BY <2>1 DEF At
  <2>2. CASE n # 0
    <3>1. PICK m \in Nat : n = m + 1
      <4>1. n - 1 \in Nat /\ n = (n - 1) + 1
        BY <2>2
      <4> QED
        BY <4>1
    <3>2. m \in 0..(Len(all) - 1) /\ n \in DOMAIN all
      BY <1>1, <1>2, <3>1
    <3>3. all[n][1] \in 0..(n - 1) /\ all[n][2] = 0
      BY <1>2, <3>1, <3>2 DEF IsList
    <3>4. At(all, 0, n) = Advance(all[n][1], all[n][2])
      BY <2>2 DEF At
    <3> QED
      BY <3>3, <3>4 DEF Advance
  <2> QED
    BY <2>1, <2>2
<1>4. ASSUME NEW k \in 0..n PROVE At(all, 0, k) = k
  <2>1. At(all, 0, 0) = 0
    BY DEF At
  <2>2. 0 \in 0..Len(all) /\ k \in 0..(Len(all) - 0) /\ k \in 0..Len(all) /\ n - k \in 0..(Len(all) - k) /\ n \in 0..Len(all)
    BY <1>2
  <2>3. /\ At(all, 0, 0) + k =< At(all, 0, 0 + k)
        /\ At(all, 0, k) + (n - k) =< At(all, 0, k + (n - k))
        /\ At(all, 0, k) \in Nat /\ At(all, 0, n) \in Nat
    BY <2>2, ListRises
  <2>4. 0 + k = k /\ k + (n - k) = n
    OBVIOUS
  <2> HIDE DEF At
  <2> QED
    BY <1>3, <2>1, <2>3, <2>4
<1> QED
  BY <1>2, <1>4

-----------------------------------------------------------------------------
(* Sequences put together.                                                 *)

Flattening(f, s) == f = [i \in 1..Len(s) |-> IF i = 1 THEN s[i] ELSE f[i - 1] \o s[i]]

LEMMA FlattenIs ==
  ASSUME NEW s
  PROVE  FlattenSeq(s) = IF Len(s) = 0 THEN s ELSE (CHOOSE f : Flattening(f, s))[Len(s)]
BY DEF FlattenSeq, Flattening

LEMMA FlattenExists ==
  ASSUME NEW T, NEW s \in Seq(T)
  PROVE  \E f : Flattening(f, s)
<1> DEFINE n == Len(s)
           Upto(f, m) == f = [i \in 1..m |-> IF i = 1 THEN s[i] ELSE f[i - 1] \o s[i]]
           S == {m \in Nat : \E f : Upto(f, m)}
<1>1. 0 \in S
  <2>1. Upto([i \in 1..0 |-> s[i]], 0)
    OBVIOUS
  <2> QED
    BY <2>1
<1>2. ASSUME NEW m \in Nat, m \in S PROVE m + 1 \in S
  <2>1. PICK f : Upto(f, m)
    BY <1>2
  <2> DEFINE g == [i \in 1..(m + 1) |-> IF i = m + 1 THEN (IF i = 1 THEN s[i] ELSE f[i - 1] \o s[i]) ELSE f[i]]
  <2>2. \A i \in 1..m : g[i] = f[i]
    OBVIOUS
  <2>3. \A i \in 1..(m + 1) : g[i] = IF i = 1 THEN s[i] ELSE g[i - 1] \o s[i]
    <3> TAKE i \in 1..(m + 1)
    <3>1. i # 1 => i - 1 \in 1..m
      OBVIOUS
    <3>2. i # 1 => g[i - 1] = f[i - 1]
      BY <2>2, <3>1
    <3>3. CASE i = m + 1
      <4>1. g[i] = IF i = 1 THEN s[i] ELSE f[i - 1] \o s[i]
        BY <3>3
      <4> HIDE DEF g
      <4> QED
        BY <3>2, <4>1
    <3>4. CASE i # m + 1
      <4>1. i \in 1..m
        BY <3>4
      <4>2. f[i] = IF i = 1 THEN s[i] ELSE f[i - 1] \o s[i]
        BY <2>1, <4>1
      <4>3. g[i] = f[i]
        BY <2>2, <4>1
      <4> HIDE DEF g
      <4> QED
        BY <3>2, <4>2, <4>3
    <3> QED
      BY <3>3, <3>4
  <2>4. g = [i \in 1..(m + 1) |-> g[i]]
    OBVIOUS
  <2> HIDE DEF g
  <2>5. [i \in 1..(m + 1) |-> g[i]] = [i \in 1..(m + 1) |-> IF i = 1 THEN s[i] ELSE g[i - 1] \o s[i]]
    BY <2>3
  <2>6. Upto(g, m + 1)
    BY <2>4, <2>5
  <2> HIDE DEF Upto
  <2> QED
    BY <2>6
<1>3. n \in Nat
  OBVIOUS
<1>4. \A m \in 0..n : m \in S
  <2> HIDE DEF S
  <2> QED
    BY <1>1, <1>2, <1>3, FromBelow
<1>5. n \in S
  <2> HIDE DEF S
  <2> QED
    BY <1>3, <1>4
<1> QED
  BY <1>5 DEF Flattening

\* two sequences begin with the same n parts
Agree(n, s, t) ==
  /\ n \in Nat /\ Len(s) \in Nat /\ Len(t) \in Nat /\ n =< Len(s) /\ n =< Len(t)
  /\ \A i \in 1..n : s[i] = t[i]

\* what two sequences have in common is put together in the same way
LEMMA FlattenPrefix ==
  ASSUME NEW n, NEW s, NEW t, Agree(n, s, t), NEW f, NEW g, Flattening(f, s), Flattening(g, t)
  PROVE  \A i \in 1..n : f[i] = g[i]
<1> DEFINE S == {k \in Nat : k \in 1..n => f[k] = g[k]}
<1>1. /\ \A i \in 1..Len(s) : f[i] = IF i = 1 THEN s[i] ELSE f[i - 1] \o s[i]
      /\ \A i \in 1..Len(t) : g[i] = IF i = 1 THEN t[i] ELSE g[i - 1] \o t[i]
  BY DEF Flattening
<1>2. 0 \in S
  BY DEF Agree
<1>3. ASSUME NEW k \in Nat, k < n, k \in S PROVE k + 1 \in S
  <2> USE DEF Agree
  <2>1. k + 1 \in 1..n /\ k + 1 \in 1..Len(s) /\ k + 1 \in 1..Len(t) /\ (k + 1) - 1 = k
    BY <1>3
  <2>2. /\ f[k + 1] = IF k + 1 = 1 THEN s[k + 1] ELSE f[k] \o s[k + 1]
        /\ g[k + 1] = IF k + 1 = 1 THEN t[k + 1] ELSE g[k] \o t[k + 1]
    BY <1>1, <2>1
  <2>3. s[k + 1] = t[k + 1]
    BY <2>1
  <2>4. k + 1 # 1 => f[k] = g[k]
    BY <1>3
  <2>5. f[k + 1] = g[k + 1]
    BY <2>2, <2>3, <2>4
  <2> QED
    BY <2>5
<1>4. \A k \in 0..n : k \in S
  <2> HIDE DEF S
  <2> QED
    BY <1>2, <1>3, FromBelow DEF Agree
<1>5. \A i \in 1..n : i \in S
  <2> HIDE DEF S
  <2> QED
    BY <1>4 DEF Agree
<1> QED
  BY <1>5

LEMMA FlattenLonger ==
  ASSUME NEW T, NEW s \in Seq(Seq(T)), NEW t \in Seq(Seq(T)), Len(t) = Len(s) + 1,
         \A i \in 1..Len(s) : t[i] = s[i]
  PROVE  FlattenSeq(t) = FlattenSeq(s) \o t[Len(t)]
<1>1. PICK n \in Nat : n = Len(s)
  OBVIOUS
<1>2. PICK f : f = CHOOSE h : Flattening(h, s)
  OBVIOUS
<1>3. PICK g : g = CHOOSE h : Flattening(h, t)
  OBVIOUS
<1>4. Flattening(f, s) /\ Flattening(g, t)
  BY <1>2, <1>3, FlattenExists
<1>5. FlattenSeq(t) = g[n + 1]
  <2>1. Len(t) = n + 1 /\ Len(t) # 0
    BY <1>1
  <2> QED
    BY <1>3, <2>1, FlattenIs
<1>6. t[n + 1] \in Seq(T)
  <2>1. n + 1 \in 1..Len(t)
    BY <1>1
  <2> QED
    BY <2>1, ElementOfSeq
<1>7. g[n + 1] = IF n + 1 = 1 THEN t[n + 1] ELSE g[(n + 1) - 1] \o t[n + 1]
  <2>1. n + 1 \in 1..Len(t)
    BY <1>1
  <2> QED
    BY <1>4, <2>1 DEF Flattening
<1>8. CASE n = 0
  <2>1. FlattenSeq(s) = << >>
    <3>1. s = << >>
      BY <1>1, <1>8, EmptySeq
    <3> QED
      BY <1>1, <1>8, <3>1, FlattenIs
  <2>2. << >> \o t[n + 1] = t[n + 1]
    BY <1>6, ConcatEmptySeq
  <2> QED
    BY <1>1, <1>5, <1>7, <1>8, <2>1, <2>2
<1>9. CASE n # 0
  <2>1. FlattenSeq(s) = f[n]
    BY <1>1, <1>2, <1>9, FlattenIs
  <2>2. f[n] = g[n]
    <3>1. Agree(n, s, t) /\ n \in 1..n
      BY <1>1, <1>9 DEF Agree
    <3>2. \A i \in 1..n : f[i] = g[i]
      BY ONLY <1>4, <3>1, FlattenPrefix
    <3> QED
      BY <3>1, <3>2
  <2>3. (n + 1) - 1 = n /\ n + 1 # 1
    BY <1>9
  <2> QED
    BY <1>1, <1>5, <1>7, <2>1, <2>2, <2>3
<1> QED
  BY <1>8, <1>9

Piece == Nat \X Int

LEMMA AppendNonEmpty ==
  ASSUME NEW v \in Seq(Piece), NEW p \in Piece
  PROVE  /\ (IF p[2] = 0 THEN v ELSE Append(v, p)) = v \o NonEmpty(p)
         /\ (IF p[2] = 0 THEN v ELSE Append(v, p)) \in Seq(Piece)
<1>1. v \o << >> = v
  BY ConcatEmptySeq
<1>2. Append(v, p) = v \o <<p>> /\ Append(v, p) \in Seq(Piece)
  <2> DEFINE a == Append(v, p)
             c == v \o <<p>>
  <2>1. <<p>> \in Seq(Piece) /\ Len(<<p>>) = 1 /\ <<p>>[1] = p
    OBVIOUS
  <2>2. a \in Seq(Piece) /\ Len(a) = Len(v) + 1 /\ Len(v) \in Nat
        /\ a[Len(v) + 1] = p
        /\ \A i \in 1..Len(v) : a[i] = v[i]
    OBVIOUS
  <2>3. c \in Seq(Piece) /\ Len(c) = Len(v) + 1
        /\ \A i \in 1..(Len(v) + 1) : c[i] = IF i =< Len(v) THEN v[i] ELSE <<p>>[i - Len(v)]
    <3>1. /\ v \o <<p>> \in Seq(Piece)
          /\ Len(v \o <<p>>) = Len(v) + Len(<<p>>)
          /\ \A i \in 1..(Len(v) + Len(<<p>>)) :
               (v \o <<p>>)[i] = IF i =< Len(v) THEN v[i] ELSE <<p>>[i - Len(v)]
      BY ONLY <2>1, ConcatProperties, v \in Seq(Piece)
    <3> QED
      BY <2>1, <3>1
  <2> HIDE DEF a, c
  <2>4. \A i \in 1..(Len(v) + 1) : a[i] = c[i]
    <3> TAKE i \in 1..(Len(v) + 1)
    <3>1. CASE i =< Len(v)
      BY <2>2, <2>3, <3>1
    <3>2. CASE ~(i =< Len(v))
      <4>1. i = Len(v) + 1 /\ i - Len(v) = 1
        BY <2>2, <3>2
      <4> QED
        BY <2>1, <2>2, <2>3, <3>2, <4>1
    <3> QED
      BY <3>1, <3>2
  <2>5. a = c
    BY <2>2, <2>3, <2>4, SeqEqual
  <2> QED
    BY <2>2, <2>5 DEF a, c
<1> QED
  BY <1>1, <1>2 DEF NonEmpty

LEMMA GapsGrow ==
  ASSUME NEW how, Len(call.source) \in Nat, Measured, NEW all, IsList(all, 0, how)
  PROVE  /\ GapsTo(all, 0) = << >>
         /\ \A k \in 0..(Len(all) - 1) : GapsTo(all, k + 1) = GapsTo(all, k) \o NonEmpty(Between(all, k))
<1> DEFINE n == Len(all)
           part(k) == NonEmpty(Between(all, k - 1))
           s(m) == [k \in 1..m |-> part(k)]
<1>1. n \in Nat /\ \A k \in 1..n : all[k][1] \in Nat /\ all[k][2] \in Nat
  BY ListRises
<1>2. \A k \in 1..n : part(k) \in Seq(Piece)
  <2> TAKE k \in 1..n
  <2>1. PICK j \in Nat : j = k - 1
    OBVIOUS
  <2>2. EndOf(all, j) \in Nat
    <3>1. j # 0 => j \in 1..n
      BY <1>1, <2>1
    <3> QED
      BY <1>1, <3>1 DEF EndOf
  <2>3. j + 1 = k /\ all[k][1] \in Nat
    BY <1>1, <2>1
  <2>4. Between(all, j) \in Piece
    BY <2>2, <2>3 DEF Between, Piece
  <2>5. << >> \in Seq(Piece) /\ <<Between(all, j)>> \in Seq(Piece)
    BY <2>4
  <2> QED
    BY <2>1, <2>5 DEF NonEmpty
<1> HIDE DEF part
<1>3. \A m \in 0..n : /\ s(m) \in Seq(Seq(Piece)) /\ Len(s(m)) = m
                      /\ \A k \in 1..m : s(m)[k] = part(k)
  <2> TAKE m \in 0..n
  <2>1. \A k \in 1..m : part(k) \in Seq(Piece)
    BY <1>1, <1>2
  <2>2. m \in Nat
    OBVIOUS
  <2> QED
    BY <2>1, <2>2
<1>4. \A m : GapsTo(all, m) = FlattenSeq(s(m))
  BY DEF GapsTo, part
<1>5. GapsTo(all, 0) = << >>
  <2>1. s(0) = << >>
    OBVIOUS
  <2>2. FlattenSeq(<< >>) = << >>
    BY FlattenIs
  <2> QED
    BY <1>4, <2>1, <2>2
<1>6. ASSUME NEW k \in 0..(n - 1)
      PROVE  GapsTo(all, k + 1) = GapsTo(all, k) \o NonEmpty(Between(all, k))
  <2>1. k \in 0..n /\ k + 1 \in 0..n /\ k + 1 \in 1..(k + 1) /\ (k + 1) - 1 = k
    BY <1>1
  <2>2. PICK u : u = s(k)
    OBVIOUS
  <2>3. PICK t : t = s(k + 1)
    OBVIOUS
  <2>4. /\ u \in Seq(Seq(Piece)) /\ t \in Seq(Seq(Piece)) /\ Len(u) = k /\ Len(t) = k + 1
        /\ t[k + 1] = part(k + 1)
    BY <1>3, <2>1, <2>2, <2>3
  <2>5. \A i \in 1..Len(u) : t[i] = u[i]
    <3> TAKE i \in 1..Len(u)
    <3>1. i \in 1..k /\ i \in 1..(k + 1)
      BY <2>4
    <3> QED
      BY <1>3, <2>1, <2>2, <2>3, <3>1
  <2>6. FlattenSeq(t) = FlattenSeq(u) \o part(k + 1)
    <3>1. Len(t) = Len(u) + 1
      BY <2>4
    <3> QED
      BY <2>4, <2>5, <3>1, FlattenLonger
  <2>7. part(k + 1) = NonEmpty(Between(all, k))
    BY <2>1 DEF part
  <2> HIDE DEF s
  <2> QED
    BY <1>4, <2>2, <2>3, <2>6, <2>7
<1> QED
  BY <1>5, <1>6

-----------------------------------------------------------------------------
(* A split.                                                                *)

LimitOf(arg) == IF arg = 0 THEN APG_MAX_AINT ELSE arg

\* what the first k matches leave
PiecesTo(all, n, k, pieces) ==
  /\ pieces \in Seq(Piece)
  /\ (\A j \in DOMAIN all : all[j][2] # 0) => pieces = GapsTo(all, k)
  /\ (Len(all) = n /\ \A j \in DOMAIN all : all[j][2] = 0) => pieces = [j \in 1..k |-> <<j - 1, 1>>]

Split1(all, n, arg, k, begin, limit, pieces) ==
  /\ k \in 0..Len(all) /\ begin = At(all, 0, k)
  /\ limit = LimitOf(arg) - k /\ limit > 0
  /\ PiecesTo(all, n, k, pieces)

\* k matches have been found, and the search for the next begins, or has begun, at begin
SplitAt(k, begin) ==
  Split1(MatchList(0, "global"), Len(call.source), call.arg, k, begin, call.uiLimit, vpVecSplitPhrases)

SplitFresh ==
  uiLastIndex = 0 /\ vpVecSplitPhrases = << >> /\ call.uiLimit = LimitOf(call.arg) /\ sResult = NoResult

\* the caller has the match after the k-th, or there is none
FoundNext(all, k, r, index) ==
  IF r.found THEN k < Len(all) /\ r.beg = all[k + 1][1] /\ r.length = all[k + 1][2] /\ index = At(all, 0, k + 1)
             ELSE k = Len(all)

SplitGoesOn ==
  call.op = "split" =>
    /\ pc \in {"search", "attempt", "found"} => vpVecSource = call.source /\ call.arg \in Nat
    /\ pc = "search" => SplitFresh \/ (pattern # NoPattern /\ \E k : SplitAt(k, uiLastIndex))
    /\ pc = "attempt" =>
         /\ sResult = NoResult
         /\ uiSubStringBeg \in call.begin..(Len(call.source) - 1)
         /\ \A b \in call.begin..(uiSubStringBeg - 1) : ~M(b).ok
         /\ \E k : SplitAt(k, call.begin)
    /\ pc = "found" =>
         /\ pattern # NoPattern
         /\ \E k : SplitAt(k, call.begin) /\ FoundNext(MatchList(0, "global"), k, sResult, uiLastIndex)
    /\ pc = "idle" /\ ~threw => SplitIsGaps

LEMMA SplitMeasured ==
  ASSUME Typed, pc \in {"search", "attempt", "found"}, pattern # NoPattern
  PROVE  /\ Measured /\ Len(call.source) \in Nat \ {0} /\ pattern \in Patterns
         /\ IsList(MatchList(0, "global"), 0, "global")
<1>1. /\ call.source \in Sources /\ Len(call.source) \in Nat /\ call.source \in Seq(Nat) /\ call.source # << >>
  BY Underway
<1>2. pattern \in Patterns
  BY DEF Typed
<1>3. Measured
  <2>1. ASSUME NEW b \in 0..(Len(call.source) - 1), M(b).ok PROVE M(b).len \in Nat
    <3>1. PICK s : s = call.source
      OBVIOUS
    <3>2. \A rules \in SUBSET RulesOf(pattern) :
            MatchAt(pattern, s, b, rules).ok => MatchAt(pattern, s, b, {}).len \in Nat
      <4>1. s \in Sources /\ b \in 0..(Len(s) - 1)
        BY <1>1, <3>1
      <4> QED
        BY <1>2, <4>1, ApgexAssumption
    <3>3. {} \in SUBSET RulesOf(pattern)
      OBVIOUS
    <3> QED
      BY <2>1, <3>1, <3>2, <3>3 DEF M
  <2> QED
    BY <2>1 DEF Measured
<1>4. Len(call.source) # 0
  BY <1>1, EmptySeq
<1> QED
  BY <1>1, <1>2, <1>3, <1>4, ListOfMatches

\* a step that keeps pattern and source keeps the list
LEMMA ListStays ==
  ASSUME pattern' = pattern, call'.source = call.source
  PROVE  /\ \A i, how : MatchList(i, how)' = MatchList(i, how)
         /\ \A b : M(b)' = M(b)
         /\ \A i, how : First(i, how)' = First(i, how)
<1>1. \A b : M(b)' = M(b)
  BY DEF M
<1>2. \A i, how : First(i, how)' = First(i, how)
  BY DEF First, Matching, M
<1>3. ASSUME NEW i, NEW how
      PROVE  MatchList(i, how)' = MatchList(i, how)
  <2>1. \A f : Listing(f, how)' <=> Listing(f, how)
    BY <1>1, <1>2, ZenonT(90) DEF Listing, ListBody
  <2>2. MatchList(i, how)' = (CHOOSE f : Listing(f, how)')[i]
    BY DEF MatchList, Listing, ListBody
  <2>3. (CHOOSE f : Listing(f, how)') = (CHOOSE f : Listing(f, how))
    BY <2>1, Zenon
  <2> QED
    BY <2>2, <2>3, ListIs
<1> QED
  BY <1>1, <1>2, <1>3

LEMMA SplitFreshIs ==
  ASSUME Typed, pc = "search", pattern # NoPattern, SplitsAreBounded, call.arg \in Nat, SplitFresh
  PROVE  SplitAt(0, 0)
<1>1. /\ Measured /\ Len(call.source) \in Nat /\ IsList(MatchList(0, "global"), 0, "global")
  BY SplitMeasured
<1>2. PICK all : all = MatchList(0, "global")
  OBVIOUS
<1>3. Len(all) \in Nat /\ GapsTo(all, 0) = << >>
  BY <1>1, <1>2, ListRises, GapsGrow
<1>4. << >> \in Seq(Piece) /\ [j \in 1..0 |-> <<j - 1, 1>>] = << >>
  OBVIOUS
<1>5. LimitOf(call.arg) - 0 = LimitOf(call.arg) /\ LimitOf(call.arg) > 0
  <2>1. Len(call.source) < APG_MAX_AINT /\ APG_MAX_AINT \in Nat
    BY Underway DEF SplitsAreBounded
  <2> QED
    BY <1>1, <2>1 DEF LimitOf
<1>6. PiecesTo(all, Len(call.source), 0, << >>)
  BY <1>3, <1>4 DEF PiecesTo
<1>7. At(all, 0, 0) = 0 /\ 0 \in 0..Len(all)
  BY <1>3 DEF At
<1> QED
  BY <1>2, <1>5, <1>6, <1>7 DEF SplitAt, Split1, SplitFresh


\* the call of a split under way, and what the invariant says of its matches
LEMMA SplitCall ==
  ASSUME Typed, SplitGoesOn, call.op = "split", pc \in {"search", "attempt", "found"}, pattern # NoPattern
  PROVE  /\ vpVecSource = call.source /\ call.arg \in Nat
         /\ call.source \in Seq(Nat) /\ Len(call.source) \in Nat \ {0}
         /\ Measured /\ IsList(MatchList(0, "global"), 0, "global")
BY SplitMeasured, Underway DEF SplitGoesOn

LEMMA SplitSearch ==
  ASSUME SplitsAreBounded, Typed, SplitGoesOn, Search, call.op = "split"
  PROVE  SplitGoesOn'
<1>1. PICK f \in Nat, s \in Sources : s # << >> /\ \E o, a, b, l : CallIs(f, s, o, a, b, l)
  BY DEF Typed, Search
<1>2. PICK o, a, b, l : CallIs(f, s, o, a, b, l)
  BY <1>1
<1>3. PICK i : i = uiLastIndex
  OBVIOUS
<1>4. CallIs(f, s, o, a, i, l)'
  BY <1>2, <1>3 DEF CallIs, Search
<1>5. /\ call.source = s /\ call.op = o /\ call.arg = a /\ call.uiLimit = l
      /\ call'.source = s /\ call'.op = o /\ call'.arg = a /\ call'.uiLimit = l /\ call'.begin = i
  BY <1>2, <1>4 DEF CallIs
<1>6. UNCHANGED <<pattern, uiLastIndex, vpVecSource, vpVecSplitPhrases>>
  BY DEF Search, object, source, ast
<1>7. pc = "search" /\ vpVecSource = s /\ a \in Nat /\ s # << >> /\ s \in Seq(Nat) /\ Len(s) \in Nat /\ i \in Nat
  BY <1>1, <1>3, <1>5, Underway DEF Search, SplitGoesOn, Typed
<1>8. CASE pattern = NoPattern
  <2>1. i = 0
    BY <1>3, <1>7, <1>8 DEF SplitGoesOn, SplitFresh
  <2>2. ~(i >= Len(s))
    BY <1>7, <2>1, EmptySeq
  <2>3. pc' = "exited"
    BY <1>3, <1>7, <1>8, <2>2 DEF Search
  <2> QED
    BY <2>3 DEF SplitGoesOn
<1>9. CASE pattern # NoPattern
  <2>1. Measured /\ IsList(MatchList(0, "global"), 0, "global")
    BY <1>7, <1>9, SplitMeasured
  <2>2. PICK k : SplitAt(k, i)
    <3>1. CASE SplitFresh
      <4>1. SplitAt(0, 0) /\ i = 0
        BY <1>3, <1>5, <1>7, <1>9, <3>1, SplitFreshIs DEF SplitFresh
      <4> QED
        BY <4>1
    <3>2. CASE ~SplitFresh
      BY <1>3, <1>7, <3>2 DEF SplitGoesOn
    <3> QED
      BY <3>1, <3>2
  <2>3. PICK all : all = MatchList(0, "global")
    OBVIOUS
  <2>4. Split1(all, Len(s), a, k, i, l, vpVecSplitPhrases)
    BY <1>5, <2>2, <2>3 DEF SplitAt
  <2>5. MatchList(0, "global")' = all /\ \A j : First(j, "global")' = First(j, "global")
    BY <1>5, <1>6, <2>3, ListStays
  <2>6. SplitAt(k, call.begin)'
    BY <1>5, <1>6, <2>4, <2>5 DEF SplitAt
  <2>7. sResult' = NoResult
    BY DEF Search
  <2>8. CASE i >= Len(s)
    <3>1. pc' = "found"
      BY <1>3, <1>7, <2>8 DEF Search
    <3>2. First(i, "global") = {}
      <4>1. i..(Len(s) - 1) = {}
        BY <1>7, <2>8
      <4> QED
        BY <1>5, <4>1, FirstNowhere
    <3>3. k = Len(all)
      <4>1. k \in 0..Len(all) /\ i = At(all, 0, k)
        BY <2>4 DEF Split1
      <4>2. Len(all) \in Nat
        BY <2>1, <2>3 DEF IsList
      <4>3. k \in 0..(Len(all) - 1) => First(At(all, 0, k), "global") # {}
        BY <2>1, <2>3 DEF IsList
      <4> QED
        BY <3>2, <4>1, <4>2, <4>3
    <3>4. FoundNext(all, k, NoResult, uiLastIndex')
      BY <3>3 DEF FoundNext, NoResult
    <3> QED
      BY <1>5, <1>6, <1>7, <1>9, <2>5, <2>6, <2>7, <3>1, <3>4 DEF SplitGoesOn
  <2>9. CASE ~(i >= Len(s))
    <3>1. pc' = "attempt" /\ uiSubStringBeg' = i
      BY <1>3, <1>7, <1>9, <2>9 DEF Search
    <3>2. i \in i..(Len(s) - 1) /\ i..(i - 1) = {}
      BY <1>7, <2>9
    <3> QED
      BY <1>5, <1>6, <1>7, <2>6, <2>7, <3>1, <3>2 DEF SplitGoesOn
  <2> QED
    BY <2>8, <2>9
<1> QED
  BY <1>8, <1>9

\* what is parsed is what the meaning speaks of: the rules recorded make no difference
LEMMA AttemptIsMatch ==
  ASSUME Typed, pc = "attempt", vpVecSource = call.source, uiSubStringBeg \in 0..(Len(call.source) - 1)
  PROVE  LET m == MatchAt(pattern, vpVecSource, uiSubStringBeg, astCallbacks) IN
         /\ M(uiSubStringBeg).ok = m.ok
         /\ m.ok => M(uiSubStringBeg).len = m.len
<1>1. pattern \in Patterns /\ astCallbacks \subseteq Rules /\ pattern # NoPattern
  BY Constants DEF Typed
<1>2. PICK s \in Sources : s = call.source
  BY Underway
<1>3. PICK cb \in SUBSET RulesOf(pattern) : cb = astCallbacks
  BY <1>1 DEF Rules
<1>4. PICK b \in 0..(Len(s) - 1) : b = uiSubStringBeg
  BY <1>2
<1>5. /\ MatchAt(pattern, s, b, cb).ok = MatchAt(pattern, s, b, {}).ok
      /\ MatchAt(pattern, s, b, cb).ok => MatchAt(pattern, s, b, cb).len = MatchAt(pattern, s, b, {}).len
  BY <1>1, SameMatches
<1> QED
  BY <1>2, <1>3, <1>4, <1>5 DEF M

\* an attempt of a split
LEMMA UnderSplit ==
  ASSUME Typed, SplitGoesOn, call.op = "split", pc = "attempt"
  PROVE  /\ pattern # NoPattern /\ sResult = NoResult /\ SearchMode = "global"
         /\ call.begin \in Nat
         /\ uiSubStringBeg \in call.begin..(Len(call.source) - 1)
         /\ uiSubStringBeg \in 0..(Len(call.source) - 1)
         /\ \A b \in call.begin..(uiSubStringBeg - 1) : ~M(b).ok
         /\ \E k : SplitAt(k, call.begin)
<1>1. pattern # NoPattern
  BY Constants DEF Typed
<1>2. PICK k : SplitAt(k, call.begin)
  BY DEF SplitGoesOn
<1>3. PICK all : all = MatchList(0, "global")
  OBVIOUS
<1>4. k \in 0..Len(all) /\ call.begin = At(all, 0, k)
  BY <1>2, <1>3 DEF SplitAt, Split1
<1>5. Len(call.source) \in Nat /\ Measured /\ IsList(all, 0, "global")
  BY <1>1, <1>3, SplitCall
<1>6. \A j \in 0..Len(all) : At(all, 0, j) \in Nat
  BY <1>5, ListRises
<1>7. call.begin \in Nat
  BY <1>4, <1>6
<1>8. /\ uiSubStringBeg \in call.begin..(Len(call.source) - 1)
      /\ sResult = NoResult
      /\ \A b \in call.begin..(uiSubStringBeg - 1) : ~M(b).ok
  BY DEF SplitGoesOn
<1>9. uiSubStringBeg \in 0..(Len(call.source) - 1)
  BY <1>5, <1>7, <1>8
<1> QED
  BY <1>1, <1>2, <1>7, <1>8, <1>9 DEF SearchMode

LEMMA SplitMatches ==
  ASSUME LengthsAreNumbers, Typed, SplitGoesOn, call.op = "split", pc = "attempt",
         NEW m, m = MatchAt(pattern, vpVecSource, uiSubStringBeg, astCallbacks),
         AttemptMatches(uiSubStringBeg, m), UNCHANGED <<object, source, call, vpVecSplitPhrases>>
  PROVE  SplitGoesOn'
<1>1. /\ pattern # NoPattern /\ SearchMode = "global" /\ call.begin \in Nat
      /\ uiSubStringBeg \in call.begin..(Len(call.source) - 1)
      /\ uiSubStringBeg \in 0..(Len(call.source) - 1)
      /\ \A b \in call.begin..(uiSubStringBeg - 1) : ~M(b).ok
  BY UnderSplit
<1>2. /\ vpVecSource = call.source /\ call.arg \in Nat /\ call.source \in Seq(Nat) /\ Len(call.source) \in Nat
      /\ Measured /\ IsList(MatchList(0, "global"), 0, "global")
  BY <1>1, SplitCall
<1>3. UNCHANGED <<pattern, vpVecSource, call, vpVecSplitPhrases>>
  BY DEF object, source
<1>4. M(uiSubStringBeg).ok /\ M(uiSubStringBeg).len = m.len
  BY <1>1, <1>2, AttemptIsMatch DEF AttemptMatches
<1>5. First(call.begin, "global") = {uiSubStringBeg}
  <2>1. PICK from \in Nat : from = call.begin
    BY <1>1
  <2>2. PICK beg \in from..(Len(call.source) - 1) : beg = uiSubStringBeg
    BY <1>1, <2>1
  <2>3. M(beg).ok /\ \A b \in from..(beg - 1) : ~M(b).ok
    BY <1>1, <1>4, <2>1, <2>2
  <2>4. First(from, "global") = {beg}
    BY <1>2, <2>3, FirstHere
  <2> QED
    BY <2>1, <2>2, <2>4
<1>6. PICK k : SplitAt(k, call.begin)
  BY UnderSplit
<1>7. PICK all : all = MatchList(0, "global")
  OBVIOUS
<1>8. Split1(all, Len(call.source), call.arg, k, call.begin, call.uiLimit, vpVecSplitPhrases)
  BY <1>6, <1>7 DEF SplitAt
<1>9. k \in 0..Len(all) /\ call.begin = At(all, 0, k)
  BY <1>8 DEF Split1
<1>10. Len(all) \in Nat
  BY <1>2, <1>7 DEF IsList
<1>11. k # Len(all)
  BY <1>2, <1>5, <1>7, <1>9 DEF IsList
<1>12. k \in 0..(Len(all) - 1) /\ k < Len(all) /\ k + 1 # 0 /\ k + 1 \in Nat
  BY <1>9, <1>10, <1>11
<1>13. all[k + 1][1] = uiSubStringBeg /\ all[k + 1][2] = m.len
  <2>1. First(At(all, 0, k), "global") = {all[k + 1][1]} /\ all[k + 1][2] = M(all[k + 1][1]).len
    BY <1>2, <1>7, <1>12 DEF IsList
  <2>2. all[k + 1][1] = uiSubStringBeg
    BY <1>5, <1>9, <2>1
  <2> QED
    BY <1>4, <2>1, <2>2
<1>14. uiLastIndex' = At(all, 0, k + 1)
  <2>1. uiLastIndex' = Advance(uiSubStringBeg, m.len)
    BY <1>1 DEF AttemptMatches
  <2> QED
    BY <1>12, <1>13, <2>1 DEF At
<1>15. MatchList(0, "global")' = all
  BY <1>3, <1>7, ListStays
<1>16. SplitAt(k, call.begin)'
  BY <1>3, <1>8, <1>15 DEF SplitAt
<1>17. PICK b0 : b0 = uiSubStringBeg
  OBVIOUS
<1>18. sResult'.found = TRUE /\ sResult'.beg = b0 /\ sResult'.length = m.len
  BY SMTT(40), <1>17 DEF AttemptMatches, MatchResult
<1>19. pc' = "found" \/ (pc' = "idle" /\ threw' = TRUE)
  BY DEF AttemptMatches, MatchResult, ReturnTo
<1>20. FoundNext(all, k, sResult', uiLastIndex')
  BY <1>12, <1>13, <1>14, <1>17, <1>18 DEF FoundNext
<1> QED
  BY <1>1, <1>2, <1>3, <1>15, <1>16, <1>19, <1>20 DEF SplitGoesOn

LEMMA SplitFails ==
  ASSUME Typed, SplitGoesOn, call.op = "split", pc = "attempt",
         NEW m, m = MatchAt(pattern, vpVecSource, uiSubStringBeg, astCallbacks),
         AttemptFails(uiSubStringBeg, m), UNCHANGED <<object, source, call, vpVecSplitPhrases>>
  PROVE  SplitGoesOn'
<1>1. /\ pattern # NoPattern /\ SearchMode = "global" /\ call.begin \in Nat /\ sResult = NoResult
      /\ uiSubStringBeg \in call.begin..(Len(call.source) - 1)
      /\ uiSubStringBeg \in 0..(Len(call.source) - 1)
      /\ \A b \in call.begin..(uiSubStringBeg - 1) : ~M(b).ok
  BY UnderSplit
<1>2. /\ vpVecSource = call.source /\ call.arg \in Nat /\ call.source \in Seq(Nat) /\ Len(call.source) \in Nat
      /\ Measured /\ IsList(MatchList(0, "global"), 0, "global")
  BY <1>1, SplitCall
<1>3. UNCHANGED <<pattern, vpVecSource, call, vpVecSplitPhrases, sResult, threw>>
  BY DEF object, source, AttemptFails
<1>4. ~M(uiSubStringBeg).ok
  BY <1>1, <1>2, AttemptIsMatch DEF AttemptFails
<1>5. \A b \in call.begin..uiSubStringBeg : ~M(b).ok
  <2>1. \A b \in call.begin..uiSubStringBeg : b = uiSubStringBeg \/ b \in call.begin..(uiSubStringBeg - 1)
    BY <1>1
  <2> QED
    BY <1>1, <1>4, <2>1
<1>6. PICK k : SplitAt(k, call.begin)
  BY UnderSplit
<1>7. PICK all : all = MatchList(0, "global")
  OBVIOUS
<1>8. Split1(all, Len(call.source), call.arg, k, call.begin, call.uiLimit, vpVecSplitPhrases)
  BY <1>6, <1>7 DEF SplitAt
<1>9. MatchList(0, "global")' = all /\ \A b : M(b)' = M(b)
  BY <1>3, <1>7, ListStays
<1>10. SplitAt(k, call.begin)'
  BY <1>3, <1>8, <1>9 DEF SplitAt
<1>11. CASE OneMore(uiSubStringBeg)
  <2>1. uiSubStringBeg + 1 < Len(call.source)
    BY <1>2, <1>11 DEF OneMore
  <2>2. PICK b0 : b0 = uiSubStringBeg + 1
    OBVIOUS
  <2>3. uiSubStringBeg' = b0 /\ pc' = "attempt"
    BY <1>11, <2>2 DEF AttemptFails, NextAttempt
  <2>4. b0 \in call.begin..(Len(call.source) - 1) /\ call.begin..(b0 - 1) = call.begin..uiSubStringBeg
    BY <1>1, <1>2, <2>1, <2>2
  <2>5. \A b \in call.begin..(b0 - 1) : ~M(b)'.ok
    BY <1>5, <1>9, <2>4
  <2> QED
    BY <1>1, <1>2, <1>3, <1>10, <2>3, <2>4, <2>5 DEF SplitGoesOn
<1>12. CASE ~OneMore(uiSubStringBeg)
  <2>1. ~(uiSubStringBeg + 1 < Len(call.source))
    BY <1>1, <1>2, <1>12 DEF OneMore
  <2>2. \A b \in call.begin..(Len(call.source) - 1) : ~M(b).ok
    <3>1. call.begin..(Len(call.source) - 1) = call.begin..uiSubStringBeg
      BY <1>1, <1>2, <2>1
    <3> QED
      BY <1>5, <3>1
  <2>3. First(call.begin, "global") = {}
    BY <2>2, FirstNowhere
  <2>4. k = Len(all)
    <3>1. k \in 0..Len(all) /\ call.begin = At(all, 0, k)
      BY <1>8 DEF Split1
    <3>2. Len(all) \in Nat
      BY <1>2, <1>7 DEF IsList
    <3>3. k \in 0..(Len(all) - 1) => First(At(all, 0, k), "global") # {}
      BY <1>2, <1>7 DEF IsList
    <3> QED
      BY <2>3, <3>1, <3>2, <3>3
  <2>5. pc' = "found"
    BY <1>12 DEF AttemptFails
  <2>6. FoundNext(all, k, sResult', uiLastIndex')
    BY <1>1, <1>3, <2>4 DEF FoundNext, NoResult
  <2> QED
    BY <1>1, <1>2, <1>3, <1>9, <1>10, <2>5, <2>6 DEF SplitGoesOn
<1> QED
  BY <1>11, <1>12

LEMMA SplitAttempt ==
  ASSUME LengthsAreNumbers, Typed, SplitGoesOn, call.op = "split", Attempt
  PROVE  SplitGoesOn'
<1>1. PICK m : /\ m = MatchAt(pattern, vpVecSource, uiSubStringBeg, astCallbacks)
               /\ AttemptMatches(uiSubStringBeg, m) \/ AttemptFails(uiSubStringBeg, m)
  BY DEF Attempt
<1>2. pc = "attempt" /\ UNCHANGED <<object, source, call, vpVecSplitPhrases>>
  BY DEF Attempt
<1>3. CASE AttemptMatches(uiSubStringBeg, m)
  BY <1>1, <1>2, <1>3, SplitMatches
<1>4. CASE AttemptFails(uiSubStringBeg, m)
  BY <1>1, <1>2, <1>4, SplitFails
<1> QED
  BY <1>1, <1>3, <1>4

\* the sub-phrase before the match after the k-th is added
LEMMA PieceBefore ==
  ASSUME NEW all, NEW k \in 0..(Len(all) - 1), NEW pieces, Len(call.source) \in Nat, Measured,
         IsList(all, 0, "global"), PiecesTo(all, Len(call.source), k, pieces), NEW piece,
         piece = IF all[k + 1][2] = 0 THEN <<At(all, 0, k), 1>>
                 ELSE <<At(all, 0, k), all[k + 1][1] - At(all, 0, k)>>
  PROVE  PiecesTo(all, Len(call.source), k + 1, IF piece[2] = 0 THEN pieces ELSE Append(pieces, piece))
<1>1. /\ Len(all) \in Nat /\ all \in Seq(Pair) /\ k \in 0..Len(all) /\ k + 1 \in 1..Len(all) /\ DOMAIN all = 1..Len(all)
      /\ k \in Nat
  BY DEF IsList
<1>2. At(all, 0, k) \in Nat /\ \A j \in 1..Len(all) : all[j][1] \in Nat /\ all[j][2] \in Nat
  BY <1>1, ListRises
<1>3. piece \in Piece
  BY <1>1, <1>2 DEF Piece
<1>4. pieces \in Seq(Piece)
  BY DEF PiecesTo
<1>5. PICK then : then = IF piece[2] = 0 THEN pieces ELSE Append(pieces, piece)
  OBVIOUS
<1>6. then = pieces \o NonEmpty(piece) /\ then \in Seq(Piece)
  BY <1>3, <1>4, <1>5, AppendNonEmpty
<1>7. ASSUME \A j \in DOMAIN all : all[j][2] # 0
      PROVE  then = GapsTo(all, k + 1)
  <2>1. EndOf(all, k) = At(all, 0, k)
    <3>1. k # 0 => k \in DOMAIN all
      BY <1>1
    <3> QED
      BY <1>7, <3>1 DEF EndOf, At, Advance
  <2>2. piece = Between(all, k)
    BY <1>1, <1>7, <2>1 DEF Between
  <2>3. pieces = GapsTo(all, k)
    BY <1>7 DEF PiecesTo
  <2>4. GapsTo(all, k + 1) = GapsTo(all, k) \o NonEmpty(Between(all, k))
    BY GapsGrow
  <2> QED
    BY <1>6, <2>2, <2>3, <2>4
<1>8. ASSUME Len(all) = Len(call.source), \A j \in DOMAIN all : all[j][2] = 0
      PROVE  then = [j \in 1..(k + 1) |-> <<j - 1, 1>>]
  <2>1. At(all, 0, k) = k
    BY <1>1, <1>8, ListOfCharacters
  <2>2. piece = <<k, 1>>
    BY <1>1, <1>8, <2>1
  <2>3. pieces = [j \in 1..k |-> <<j - 1, 1>>]
    BY <1>8 DEF PiecesTo
  <2>4. then = Append(pieces, piece)
    BY <1>5, <2>2
  <2>5. Len(pieces) = k
    BY <1>1, <2>3
  <2>6. /\ then \in Seq(Piece) /\ Len(then) = k + 1 /\ then[k + 1] = piece
        /\ \A i \in 1..k : then[i] = pieces[i]
    BY <1>3, <1>4, <2>4, <2>5
  <2>7. PICK chars : chars = [j \in 1..(k + 1) |-> <<j - 1, 1>>]
    OBVIOUS
  <2>8. chars \in Seq(Piece) /\ Len(chars) = k + 1 /\ \A j \in 1..(k + 1) : chars[j] = <<j - 1, 1>>
    BY <1>1, <2>7 DEF Piece
  <2>9. \A i \in 1..(k + 1) : then[i] = chars[i]
    <3> TAKE i \in 1..(k + 1)
    <3>1. CASE i = k + 1
      <4>1. chars[i] = <<k, 1>>
        BY <1>1, <2>8, <3>1
      <4> QED
        BY <2>2, <2>6, <3>1, <4>1
    <3>2. CASE i # k + 1
      <4>1. i \in 1..k
        BY <1>1, <3>2
      <4> QED
        BY <2>3, <2>6, <2>8, <4>1
    <3> QED
      BY <3>1, <3>2
  <2>10. then = chars
    BY ONLY <2>6, <2>8, <2>9, <1>1, SeqEqual
  <2> QED
    BY <2>7, <2>10
<1> QED
  BY <1>5, <1>6, <1>7, <1>8 DEF PiecesTo

\* what SplitIsGaps asks for, of a list and the sub-phrases
Gapped(all, n, arg, pieces) ==
  LET tail == arg = 0 \/ arg > Len(all)
      m == IF tail THEN Len(all) ELSE arg
  IN /\ (\A k \in DOMAIN all : all[k][2] # 0) =>
          pieces = GapsTo(all, m) \o (IF tail THEN NonEmpty(<<EndOf(all, m), n - EndOf(all, m)>>) ELSE << >>)
     /\ (Len(all) = n /\ \A k \in DOMAIN all : all[k][2] = 0) => pieces = [k \in 1..m |-> <<k - 1, 1>>]

LEMMA GappedIs ==
  SplitIsGaps <=> (Returned("split") =>
    Gapped(MatchList(0, "global"), Len(call.source), call.arg, vpVecSplitPhrases))
BY DEF SplitIsGaps, Gapped, After

\* the limit is reached
LEMMA LastBefore ==
  ASSUME NEW all, NEW k \in 0..(Len(all) - 1), NEW pieces, NEW arg \in Nat, Len(all) \in Nat,
         k + 1 = arg, pieces \in Seq(Piece), PiecesTo(all, Len(call.source), arg, pieces)
  PROVE  Gapped(all, Len(call.source), arg, pieces)
<1>1. ~(arg = 0 \/ arg > Len(all))
  OBVIOUS
<1>2. pieces \o << >> = pieces
  BY ConcatEmptySeq
<1> QED
  BY <1>1, <1>2 DEF Gapped, PiecesTo

\* there is no match left, and the rest of the source is added
LEMMA LastAfter ==
  ASSUME NEW all, NEW pieces, NEW arg \in Nat, Len(call.source) \in Nat, Measured, IsList(all, 0, "global"),
         PiecesTo(all, Len(call.source), Len(all), pieces), arg = 0 \/ arg > Len(all), NEW piece,
         piece = <<At(all, 0, Len(all)), Len(call.source) - At(all, 0, Len(all))>>
  PROVE  Gapped(all, Len(call.source), arg, IF piece[2] = 0 THEN pieces ELSE Append(pieces, piece))
<1>1. Len(all) \in Nat /\ DOMAIN all = 1..Len(all) /\ Len(all) \in 0..Len(all)
  BY DEF IsList
<1>2. At(all, 0, Len(all)) \in Nat
  BY <1>1, ListRises
<1>3. piece \in Piece
  BY <1>2 DEF Piece
<1>4. pieces \in Seq(Piece)
  BY DEF PiecesTo
<1>5. PICK then : then = IF piece[2] = 0 THEN pieces ELSE Append(pieces, piece)
  OBVIOUS
<1>6. then = pieces \o NonEmpty(piece)
  BY <1>3, <1>4, <1>5, AppendNonEmpty
<1>7. ASSUME \A j \in DOMAIN all : all[j][2] # 0
      PROVE  then = GapsTo(all, Len(all)) \o NonEmpty(<<EndOf(all, Len(all)), Len(call.source) - EndOf(all, Len(all))>>)
  <2>1. EndOf(all, Len(all)) = At(all, 0, Len(all))
    <3>1. Len(all) # 0 => Len(all) \in DOMAIN all
      BY <1>1
    <3> QED
      BY <1>7, <3>1 DEF EndOf, At, Advance
  <2>2. pieces = GapsTo(all, Len(all))
    BY <1>7 DEF PiecesTo
  <2> QED
    BY <1>6, <2>1, <2>2
<1>8. ASSUME Len(all) = Len(call.source), \A j \in DOMAIN all : all[j][2] = 0
      PROVE  then = [j \in 1..Len(all) |-> <<j - 1, 1>>]
  <2>1. At(all, 0, Len(all)) = Len(all)
    BY <1>1, <1>8, ListOfCharacters
  <2>2. piece[2] = 0
    BY <1>1, <1>8, <2>1
  <2> QED
    BY <1>5, <1>8, <2>2 DEF PiecesTo
<1> QED
  BY <1>5, <1>7, <1>8 DEF Gapped

LEMMA SplitAdds ==
  ASSUME SplitsAreBounded, Typed, SplitGoesOn, SplitStep
  PROVE  SplitGoesOn'
<1>1. PICK f \in Nat, s \in Sources : s # << >> /\ \E o, a, b, l : CallIs(f, s, o, a, b, l)
  BY DEF Typed, SplitStep
<1>2. PICK o, a, b, l : CallIs(f, s, o, a, b, l)
  BY <1>1
<1>3. PICK l1 : l1 = l - 1
  OBVIOUS
<1>4. CallIs(f, s, o, a, b, l1)'
  BY <1>2, <1>3 DEF CallIs, SplitStep
<1>5. /\ call.source = s /\ call.op = o /\ call.arg = a /\ call.begin = b /\ call.uiLimit = l
      /\ call'.source = s /\ call'.op = o /\ call'.arg = a /\ call'.begin = b /\ call'.uiLimit = l1
  BY <1>2, <1>4 DEF CallIs
<1>6. /\ o = "split" /\ pc = "found" /\ pattern # NoPattern
      /\ UNCHANGED <<pattern, uiLastIndex, vpVecSource, sResult>>
  BY <1>5 DEF SplitStep, SplitGoesOn, object, source
<1>7. /\ vpVecSource = s /\ a \in Nat /\ Len(s) \in Nat \ {0} /\ Len(call.source) \in Nat
      /\ Measured /\ IsList(MatchList(0, "global"), 0, "global")
  BY <1>5, <1>6, SplitCall
<1>8. PICK all : all = MatchList(0, "global")
  OBVIOUS
<1>9. MatchList(0, "global")' = all
  BY <1>5, <1>6, <1>8, ListStays
<1>10. PICK k : SplitAt(k, b) /\ FoundNext(all, k, sResult, uiLastIndex)
  BY <1>5, <1>6, <1>8 DEF SplitGoesOn
<1>11. /\ k \in 0..Len(all) /\ b = At(all, 0, k)
       /\ l = LimitOf(a) - k /\ l > 0
       /\ PiecesTo(all, Len(s), k, vpVecSplitPhrases)
  BY <1>5, <1>8, <1>10 DEF SplitAt, Split1
<1>12. Len(all) \in Nat /\ Len(all) =< Len(s)
  <2>1. Len(all) =< Len(call.source)
    BY <1>7, <1>8, ListFits
  <2> QED
    BY <1>5, <1>7, <1>8, <2>1 DEF IsList
<1>13. APG_MAX_AINT \in Nat /\ Len(s) < APG_MAX_AINT /\ LimitOf(a) \in Nat /\ k \in Nat /\ l \in Nat
  <2>1. APG_MAX_AINT \in Nat /\ Len(s) < APG_MAX_AINT
    BY DEF SplitsAreBounded
  <2>2. LimitOf(a) \in Nat
    BY <1>7, <2>1 DEF LimitOf
  <2> QED
    BY <1>11, <1>12, <2>1, <2>2
<1>14. PICK piece : piece = SubPhrase(b)
  OBVIOUS
<1>15. PICK then : then = IF piece[2] = 0 THEN vpVecSplitPhrases ELSE Append(vpVecSplitPhrases, piece)
  OBVIOUS
<1>16. vpVecSplitPhrases' = then
  BY <1>5, <1>14, <1>15 DEF SplitStep
<1>17. Gapped(all, Len(s), a, then) => SplitIsGaps'
  BY <1>5, <1>9, <1>16, GappedIs DEF SplitIsGaps, Gapped, After
<1>18. CASE ~sResult.found
  <2>1. k = Len(all)
    BY <1>10, <1>18 DEF FoundNext
  <2>2. piece = <<At(all, 0, Len(all)), Len(call.source) - At(all, 0, Len(all))>>
    BY <1>5, <1>7, <1>11, <1>14, <1>18, <2>1 DEF SubPhrase
  <2>3. a = 0 \/ a > Len(all)
    BY <1>7, <1>11, <1>12, <1>13, <2>1 DEF LimitOf
  <2>4. Gapped(all, Len(s), a, then)
    BY <1>5, <1>7, <1>8, <1>11, <1>15, <2>1, <2>2, <2>3, LastAfter
  <2>5. pc' = "idle"
    BY <1>18 DEF SplitStep, ReturnTo
  <2> QED
    BY <1>17, <2>4, <2>5 DEF SplitGoesOn
<1>19. CASE sResult.found
  <2>1. /\ k < Len(all) /\ sResult.beg = all[k + 1][1] /\ sResult.length = all[k + 1][2]
        /\ uiLastIndex = At(all, 0, k + 1)
    BY <1>10, <1>19 DEF FoundNext
  <2>2. k \in 0..(Len(all) - 1) /\ k + 1 \in 0..Len(all)
    BY <1>11, <1>12, <1>13, <2>1
  <2>3. piece = IF all[k + 1][2] = 0 THEN <<At(all, 0, k), 1>>
                ELSE <<At(all, 0, k), all[k + 1][1] - At(all, 0, k)>>
    BY <1>11, <1>14, <1>19, <2>1 DEF SubPhrase
  <2>4. PiecesTo(all, Len(s), k + 1, then)
    BY <1>5, <1>7, <1>8, <1>11, <1>15, <2>2, <2>3, PieceBefore
  <2>5. CASE l > 1
    <3>1. pc' = "search"
      BY <1>5, <1>19, <2>5 DEF SplitStep
    <3>2. l1 = LimitOf(a) - (k + 1) /\ l1 > 0
      BY <1>3, <1>11, <1>13, <2>5
    <3>3. Split1(all, Len(s), a, k + 1, uiLastIndex, l1, then)
      BY <2>1, <2>2, <2>4, <3>2 DEF Split1
    <3>4. SplitAt(k + 1, uiLastIndex)'
      BY <1>5, <1>6, <1>9, <1>16, <3>3 DEF SplitAt
    <3>5. \E j : SplitAt(j, uiLastIndex)'
      BY <3>4
    <3> QED
      BY <1>5, <1>6, <1>7, <3>1, <3>5 DEF SplitGoesOn
  <2>6. CASE ~(l > 1)
    <3>1. pc' = "idle"
      BY <1>5, <2>6 DEF SplitStep, ReturnTo
    <3>2. k + 1 = a
      BY <1>7, <1>11, <1>12, <1>13, <2>1, <2>6 DEF LimitOf
    <3>3. Gapped(all, Len(s), a, then)
      <4>1. PiecesTo(all, Len(call.source), a, then)
        BY <1>5, <2>4, <3>2
      <4>2. then \in Seq(Piece)
        BY <4>1 DEF PiecesTo
      <4>3. Gapped(all, Len(call.source), a, then)
        BY <1>7, <1>12, <2>2, <3>2, <4>1, <4>2, LastBefore
      <4> QED
        BY <1>5, <4>3
    <3> QED
      BY <1>17, <3>1, <3>3 DEF SplitGoesOn
  <2> QED
    BY <2>5, <2>6
<1> QED
  BY <1>18, <1>19

LEMMA SplitBegins ==
  ASSUME SplitsAreBounded, Call
  PROVE  SplitGoesOn'
<1>1. PICK src \in Sources :
        \/ Exec(src) \/ Test(src)
        \/ \E raw \in Replacements : Replace("replace", src, raw)
        \/ FuncPhrases # {} /\ Replace("func", src, << >>)
        \/ \E limit \in Limits : Split(src, limit)
  BY DEF Call
<1>2. CASE Exec(src) \/ Test(src) \/ \E op \in {"replace", "func"} : \E raw : Replace(op, src, raw)
  <2>1. \E op \in {"exec", "test", "replace", "func"} : \E arg : call' = Begin(op, src, arg)
    BY <1>2 DEF Exec, Test, Replace
  <2>2. \A op, arg : Begin(op, src, arg).op = op
    BY DEF Begin
  <2>3. call'.op # "split"
    BY <2>1, <2>2
  <2> QED
    BY <2>3 DEF SplitGoesOn
<1>3. CASE \E limit \in Limits : Split(src, limit)
  <2>1. PICK limit \in Limits : Split(src, limit)
    BY <1>3
  <2>2. limit \in Nat
    BY DEF SplitsAreBounded
  <2>3. call'.source = src /\ call'.arg = limit /\ call'.uiLimit = LimitOf(limit)
    BY <2>1 DEF Split, Begin, LimitOf
  <2>4. CASE src = << >>
    <3>1. pc' = "idle" /\ threw' = TRUE
      BY <2>1, <2>4 DEF Split, Throws, ReturnTo
    <3> QED
      BY <3>1 DEF SplitGoesOn
  <2>5. CASE src # << >>
    <3>1. /\ pc' = "search" /\ vpVecSource' = src /\ uiLastIndex' = 0 /\ vpVecSplitPhrases' = << >>
          /\ sResult' = NoResult
      BY <2>1, <2>5 DEF Split, ClearForParse, Searches
    <3>2. SplitFresh'
      BY <2>3, <3>1 DEF SplitFresh
    <3> QED
      BY <2>2, <2>3, <3>1, <3>2 DEF SplitGoesOn
  <2> QED
    BY <2>4, <2>5
<1> QED
  BY <1>1, <1>2, <1>3

LEMMA SplitRests ==
  ASSUME SplitGoesOn, UNCHANGED vars
  PROVE  SplitGoesOn'
<1>1. UNCHANGED <<pattern, pc, call, uiLastIndex, uiSubStringBeg, vpVecSource, sResult, threw, vpVecSplitPhrases>>
  BY DEF vars, object, source
<1>2. /\ MatchList(0, "global")' = MatchList(0, "global")
      /\ \A b : M(b)' = M(b)
  BY <1>1, ListStays
<1>3. \A k : SplitAt(k, uiLastIndex)' <=> SplitAt(k, uiLastIndex)
  BY <1>1, <1>2 DEF SplitAt
<1>4. \A k : SplitAt(k, call.begin)' <=> SplitAt(k, call.begin)
  BY <1>1, <1>2 DEF SplitAt
<1>5. SplitIsGaps' <=> SplitIsGaps
  BY <1>1, <1>2 DEF SplitIsGaps, Returned, After
<1>6. SplitFresh' <=> SplitFresh
  BY <1>1 DEF SplitFresh
<1> QED
  BY <1>1, <1>2, <1>3, <1>4, <1>5, <1>6 DEF SplitGoesOn

LEMMA SplitInvNext ==
  ASSUME LengthsAreNumbers, SplitsAreBounded, SearchInv, SplitGoesOn, [Next]_vars
  PROVE  SplitGoesOn'
<1>1. Typed
  BY DEF SearchInv
<1>2. CASE Setup
  <2>1. call' = SetUp
    BY <1>2 DEF Setup, Pattern, EnableRules, SetLastIndex, NewSetting
  <2>2. call'.op # "split"
    BY <2>1 DEF SetUp
  <2> QED
    BY <2>2 DEF SplitGoesOn
<1>3. CASE Call
  BY <1>3, SplitBegins
<1>4. CASE Step
  <2>1. CASE call.op # "split"
    <3>1. ~SplitStep
      BY <2>1 DEF SplitStep
    <3>2. CASE Search
      <4>1. PICK o, f, s, a, b, l : CallIs(f, s, o, a, b, l)
        BY <1>1, <3>2 DEF Typed, Search
      <4>2. PICK i : i = uiLastIndex
        OBVIOUS
      <4>3. CallIs(f, s, o, a, i, l)'
        BY <3>2, <4>1, <4>2 DEF CallIs, Search
      <4>4. call'.op # "split"
        BY <2>1, <4>1, <4>3 DEF CallIs
      <4> QED
        BY <4>4 DEF SplitGoesOn
    <3>3. CASE call' = call
      BY <2>1, <3>3 DEF SplitGoesOn
    <3> QED
      BY <1>4, <3>1, <3>2, <3>3 DEF Step, Attempt, ExecReturn, TestReturn, ReplaceStep, ReplaceReturn
  <2>2. CASE call.op = "split"
    <3>1. ~(ExecReturn \/ TestReturn \/ ReplaceStep \/ ReplaceReturn)
      BY <2>2 DEF ExecReturn, TestReturn, ReplaceStep, ReplaceReturn
    <3>2. CASE Search
      BY <1>1, <2>2, <3>2, SplitSearch
    <3>3. CASE Attempt
      BY <1>1, <2>2, <3>3, SplitAttempt
    <3>4. CASE SplitStep
      BY <1>1, <3>4, SplitAdds
    <3> QED
      BY <1>4, <3>1, <3>2, <3>3, <3>4 DEF Step
  <2> QED
    BY <2>1, <2>2
<1>5. CASE UNCHANGED vars
  BY <1>5, SplitRests
<1> QED
  BY <1>2, <1>3, <1>4, <1>5 DEF Next

\* What spApgexSplit returns: the sub-phrases between the matches of a global search, whatever the
\* mode of the object, with the rest of the source when the limit leaves room for it; and the
\* characters of the source, one by one, when the pattern matches nothing everywhere. For every
\* pattern, source and limit, whatever was set, matched, replaced or split on the object before.
THEOREM SplitLeavesGaps ==
  ASSUME LengthsAreNumbers, SplitsAreBounded
  PROVE  Spec => []SplitIsGaps
<1>1. Init => SearchInv /\ SplitGoesOn
  <2>1. Init => SplitGoesOn
    BY DEF Init, SplitGoesOn, SetUp
  <2> QED
    BY <2>1, SearchInvInit
<1>2. (SearchInv /\ SplitGoesOn) /\ [Next]_vars => (SearchInv /\ SplitGoesOn)'
  BY SearchInvNext, SplitInvNext
<1>3. SearchInv /\ SplitGoesOn => SplitIsGaps
  BY DEF SplitGoesOn, SplitIsGaps, Returned
<1> QED
  BY <1>1, <1>2, <1>3, PTL DEF Spec

-----------------------------------------------------------------------------
(* A source rewritten.                                                     *)

\* a slice that is in the source
LEMMA SliceIs ==
  ASSUME NEW s \in Seq(Nat), NEW o \in Nat, NEW n \in Nat, o + n =< Len(s)
  PROVE  /\ Slice(s, o, n) \in Seq(Nat) /\ Len(Slice(s, o, n)) = n
         /\ \A i \in 1..n : Slice(s, o, n)[i] = s[o + i]
<1>1. Len(s) \in Nat /\ \A i \in 1..Len(s) : s[i] \in Nat
  OBVIOUS
<1>2. \A i \in 1..n : o + i =< Len(s) /\ o + i \in 1..Len(s)
  BY <1>1
<1>3. Slice(s, o, n) = [i \in 1..n |-> s[o + i]]
  BY <1>2 DEF Slice
<1>4. \A i \in 1..n : s[o + i] \in Nat
  BY <1>1, <1>2
<1> QED
  BY <1>3, <1>4

\* any slice is a phrase when what is past the end of a source is a character
LEMMA SliceType ==
  ASSUME Junk \in Nat, NEW s \in Seq(Nat), NEW o \in Nat, NEW n \in Nat
  PROVE  Slice(s, o, n) \in Seq(Nat)
<1>1. Len(s) \in Nat /\ \A i \in 1..Len(s) : s[i] \in Nat
  OBVIOUS
<1>2. \A i \in 1..n : (IF o + i =< Len(s) THEN s[o + i] ELSE Junk) \in Nat
  <2> TAKE i \in 1..n
  <2>1. o + i =< Len(s) => o + i \in 1..Len(s)
    BY <1>1
  <2> QED
    BY <1>1, <2>1
<1> QED
  BY <1>2 DEF Slice

\* what phrases put together make is a phrase
LEMMA FlattenType ==
  ASSUME NEW T, NEW s \in Seq(Seq(T))
  PROVE  FlattenSeq(s) \in Seq(T)
<1>1. PICK n \in Nat : n = Len(s)
  OBVIOUS
<1>2. PICK f : f = CHOOSE h : Flattening(h, s)
  OBVIOUS
<1>3. Flattening(f, s)
  BY <1>2, FlattenExists
<1>4. \A i \in 1..n : f[i] = IF i = 1 THEN s[i] ELSE f[i - 1] \o s[i]
  BY <1>1, <1>3 DEF Flattening
<1> DEFINE S == {k \in Nat : k # 0 => f[k] \in Seq(T)}
<1>5. 0 \in S
  OBVIOUS
<1>6. ASSUME NEW k \in Nat, k < n, k \in S PROVE k + 1 \in S
  <2>1. k + 1 \in 1..n /\ (k + 1) - 1 = k
    BY <1>6
  <2>2. s[k + 1] \in Seq(T)
    BY <1>1, <2>1, ElementOfSeq
  <2>3. f[k + 1] = IF k + 1 = 1 THEN s[k + 1] ELSE f[k] \o s[k + 1]
    BY <1>4, <2>1
  <2>4. f[k + 1] \in Seq(T)
    <3>1. CASE k = 0
      BY <2>2, <2>3, <3>1
    <3>2. CASE k # 0
      <4>1. f[k] \in Seq(T) /\ f[k + 1] = f[k] \o s[k + 1]
        <5>1. f[k] \in Seq(T)
          BY <1>6, <3>2
        <5>2. k + 1 # 1
          BY <3>2
        <5> QED
          BY <2>3, <5>1, <5>2, Zenon
      <4>2. PICK a : a = f[k]
        OBVIOUS
      <4>3. PICK c : c = s[k + 1]
        OBVIOUS
      <4>4. a \in Seq(T) /\ c \in Seq(T)
        BY <2>2, <4>1, <4>2, <4>3
      <4>5. a \o c \in Seq(T)
        BY ONLY <4>4, ConcatProperties
      <4> QED
        BY <4>1, <4>2, <4>3, <4>5
    <3> QED
      BY <3>1, <3>2
  <2> QED
    BY <2>4
<1>7. \A k \in 0..n : k \in S
  <2> HIDE DEF S
  <2> QED
    BY <1>5, <1>6, FromBelow
<1>8. CASE n = 0
  <2>1. s = << >>
    BY <1>1, <1>8, EmptySeq
  <2>2. FlattenSeq(s) = << >>
    BY <1>1, <1>8, <2>1, FlattenIs
  <2> QED
    BY <2>2, EmptySeq
<1>9. CASE n # 0
  <2>1. FlattenSeq(s) = f[n]
    BY <1>1, <1>2, <1>9, FlattenIs
  <2>2. n \in S
    BY <1>7
  <2> QED
    BY <1>9, <2>1, <2>2
<1> QED
  BY <1>8, <1>9

\* a source in which the first part, up to e, has been rewritten to d
IsRewriting(v, s, d, e) ==
  s \in Seq(Nat) /\ d \in Seq(Nat) /\ e \in Nat /\ e =< Len(s) /\ v = d \o Slice(s, e, Len(s) - e)

LEMMA Rewriting ==
  ASSUME NEW s, NEW d, NEW e, NEW v, IsRewriting(v, s, d, e)
  PROVE  /\ v \in Seq(Nat) /\ Len(v) = Len(d) + (Len(s) - e)
         /\ \A i \in 1..Len(d) : v[i] = d[i]
         /\ \A i \in 1..(Len(s) - e) : v[Len(d) + i] = s[e + i]
<1> USE DEF IsRewriting
<1>1. PICK n \in Nat : n = Len(s) - e
  <2>1. Len(s) - e \in Nat
    OBVIOUS
  <2> QED
    BY <2>1
<1>2. PICK r : r = Slice(s, e, n)
  OBVIOUS
<1>3. r \in Seq(Nat) /\ Len(r) = n /\ \A i \in 1..n : r[i] = s[e + i]
  <2>1. e + n =< Len(s)
    BY <1>1
  <2> QED
    BY <1>2, <2>1, SliceIs
<1>4. v = d \o r
  BY <1>1, <1>2
<1>5. PICK m \in Nat : m = Len(d)
  OBVIOUS
<1>6. /\ v \in Seq(Nat) /\ Len(v) = m + n
      /\ \A i \in 1..(m + n) : v[i] = IF i =< m THEN d[i] ELSE r[i - m]
  <2>1. /\ d \o r \in Seq(Nat)
        /\ Len(d \o r) = Len(d) + Len(r)
        /\ \A i \in 1..(Len(d) + Len(r)) : (d \o r)[i] = IF i =< Len(d) THEN d[i] ELSE r[i - Len(d)]
    BY ONLY <1>3, d \in Seq(Nat), ConcatProperties
  <2> QED
    BY <1>3, <1>4, <1>5, <2>1
<1>7. \A i \in 1..m : v[i] = d[i]
  BY <1>6
<1>8. ASSUME NEW i \in 1..n PROVE v[m + i] = s[e + i]
  <2>1. m + i \in 1..(m + n) /\ ~(m + i =< m) /\ (m + i) - m = i
    OBVIOUS
  <2> QED
    BY <1>3, <1>6, <2>1
<1> QED
  BY <1>1, <1>5, <1>6, <1>7, <1>8

\* what follows an offset of the source follows it where it is now
LEMMA AheadOf ==
  ASSUME NEW s, NEW d, NEW e, NEW v, IsRewriting(v, s, d, e),
         NEW b \in Nat, e =< b, b =< Len(s), NEW c, c = b + (Len(d) - e)
  PROVE  c \in Nat /\ Len(v) - c = Len(s) - b /\ SameAhead(v, c, s, b)
<1> s \in Seq(Nat) /\ d \in Seq(Nat) /\ e \in Nat /\ e =< Len(s)
  BY DEF IsRewriting
<1>1. PICK m \in Nat : m = Len(d)
  OBVIOUS
<1>2. PICK l \in Nat : l = Len(s)
  OBVIOUS
<1>3. /\ v \in Seq(Nat) /\ Len(v) = m + (l - e)
      /\ \A i \in 1..(l - e) : v[m + i] = s[e + i]
  <2>1. /\ v \in Seq(Nat) /\ Len(v) = Len(d) + (Len(s) - e)
        /\ \A i \in 1..(Len(s) - e) : v[Len(d) + i] = s[e + i]
    BY ONLY IsRewriting(v, s, d, e), Rewriting
  <2> QED
    BY <1>1, <1>2, <2>1
<1>4. c = b + (m - e) /\ c \in Nat /\ e =< l /\ b =< l /\ Len(v) - c = l - b
  BY <1>1, <1>2, <1>3
<1>5. ASSUME NEW i \in 1..(Len(v) - c) PROVE v[c + i] = s[b + i]
  <2>1. PICK j : j = (b - e) + i
    OBVIOUS
  <2>2. i \in 1..(l - b)
    BY <1>4
  <2>3. j \in 1..(l - e) /\ m + j = c + i /\ e + j = b + i
    BY ONLY <1>4, <2>1, <2>2, e =< b, e \in Nat, b \in Nat, m \in Nat, l \in Nat
  <2>4. v[m + j] = s[e + j]
    BY <1>3, <2>3
  <2> QED
    BY <2>3, <2>4
<1> QED
  BY <1>2, <1>4, <1>5 DEF SameAhead

\* what of the source follows can be cut out where it is now
LEMMA CutAhead ==
  ASSUME NEW s \in Seq(Nat), NEW v \in Seq(Nat), NEW b \in Nat, NEW c \in Nat, SameAhead(v, c, s, b),
         NEW o \in Nat, NEW n \in Nat, b + o + n =< Len(s)
  PROVE  Slice(v, c + o, n) = Slice(s, b + o, n)
<1>1. Len(v) - c = Len(s) - b /\ \A i \in 1..(Len(v) - c) : v[c + i] = s[b + i]
  BY DEF SameAhead
<1>2. PICK l \in Nat : l = Len(s)
  OBVIOUS
<1>3. PICK k \in Nat : k = Len(v)
  OBVIOUS
<1>4. c + o \in Nat /\ b + o \in Nat /\ (c + o) + n =< k /\ (b + o) + n =< l
  BY <1>1, <1>2, <1>3
<1>5. PICK p \in Nat : p = c + o
  BY <1>4
<1>6. PICK q \in Nat : q = b + o
  BY <1>4
<1>7. PICK x : x = Slice(v, p, n)
  OBVIOUS
<1>8. PICK y : y = Slice(s, q, n)
  OBVIOUS
<1>9. x \in Seq(Nat) /\ Len(x) = n /\ \A i \in 1..n : x[i] = v[p + i]
  <2>1. p + n =< Len(v)
    BY <1>3, <1>4, <1>5
  <2> QED
    <3>1. /\ Slice(v, p, n) \in Seq(Nat) /\ Len(Slice(v, p, n)) = n
          /\ \A i \in 1..n : Slice(v, p, n)[i] = v[p + i]
      BY ONLY <2>1, v \in Seq(Nat), p \in Nat, n \in Nat, SliceIs
    <3> QED
      BY ONLY <1>7, <3>1
<1>10. y \in Seq(Nat) /\ Len(y) = n /\ \A i \in 1..n : y[i] = s[q + i]
  <2>1. q + n =< Len(s)
    BY <1>2, <1>4, <1>6
  <2> QED
    <3>1. /\ Slice(s, q, n) \in Seq(Nat) /\ Len(Slice(s, q, n)) = n
          /\ \A i \in 1..n : Slice(s, q, n)[i] = s[q + i]
      BY ONLY <2>1, s \in Seq(Nat), q \in Nat, n \in Nat, SliceIs
    <3> QED
      BY ONLY <1>8, <3>1
<1>11. ASSUME NEW i \in 1..n PROVE x[i] = y[i]
  <2>1. PICK j : j = o + i
    OBVIOUS
  <2>2. j \in 1..(k - c) /\ p + i = c + j /\ q + i = b + j
    BY <1>4, <1>5, <1>6, <2>1
  <2>3. v[c + j] = s[b + j]
    BY <1>1, <1>3, <2>2
  <2> QED
    BY <1>9, <1>10, <2>2, <2>3
<1>12. x = y
  BY ONLY <1>9, <1>10, <1>11, SeqEqual
<1> QED
  BY <1>5, <1>6, <1>7, <1>8, <1>12

\* what is left of a match: what was rewritten, and the source up to the match
LEMMA CutBefore ==
  ASSUME NEW s, NEW d, NEW e, NEW v, IsRewriting(v, s, d, e),
         NEW b \in Nat, e =< b, b =< Len(s), NEW c, c = b + (Len(d) - e)
  PROVE  Slice(v, 0, c) = d \o Slice(s, e, b - e)
<1> s \in Seq(Nat) /\ d \in Seq(Nat) /\ e \in Nat /\ e =< Len(s)
  BY DEF IsRewriting
<1>1. PICK m \in Nat : m = Len(d)
  OBVIOUS
<1>2. PICK l \in Nat : l = Len(s)
  OBVIOUS
<1>3. PICK n \in Nat : n = b - e
  <2>1. b - e \in Nat
    OBVIOUS
  <2> QED
    BY <2>1
<1>4. /\ v \in Seq(Nat) /\ Len(v) = m + (l - e)
      /\ \A i \in 1..m : v[i] = d[i]
      /\ \A i \in 1..(l - e) : v[m + i] = s[e + i]
  <2>1. /\ v \in Seq(Nat) /\ Len(v) = Len(d) + (Len(s) - e)
        /\ \A i \in 1..Len(d) : v[i] = d[i]
        /\ \A i \in 1..(Len(s) - e) : v[Len(d) + i] = s[e + i]
    BY ONLY IsRewriting(v, s, d, e), Rewriting
  <2> QED
    BY <1>1, <1>2, <2>1
<1>5. c = m + n /\ c \in Nat /\ 0 + c =< Len(v) /\ e + n =< l /\ n =< l - e
  BY <1>1, <1>2, <1>3, <1>4
<1>6. PICK x : x = Slice(v, 0, c)
  OBVIOUS
<1>7. PICK r : r = Slice(s, e, n)
  OBVIOUS
<1>8. PICK y : y = d \o r
  OBVIOUS
<1>9. x \in Seq(Nat) /\ Len(x) = c /\ \A i \in 1..c : x[i] = v[0 + i]
  <2>1. v \in Seq(Nat) /\ 0 \in Nat /\ c \in Nat /\ 0 + c =< Len(v)
    BY <1>4, <1>5
  <2> QED
    <3>1. /\ Slice(v, 0, c) \in Seq(Nat) /\ Len(Slice(v, 0, c)) = c
          /\ \A i \in 1..c : Slice(v, 0, c)[i] = v[0 + i]
      BY ONLY <2>1, SliceIs
    <3> QED
      BY ONLY <1>6, <3>1
<1>10. r \in Seq(Nat) /\ Len(r) = n /\ \A i \in 1..n : r[i] = s[e + i]
  <2>1. e + n =< Len(s)
    BY <1>2, <1>5
  <2>2. /\ Slice(s, e, n) \in Seq(Nat) /\ Len(Slice(s, e, n)) = n
        /\ \A i \in 1..n : Slice(s, e, n)[i] = s[e + i]
    BY ONLY <2>1, s \in Seq(Nat), e \in Nat, n \in Nat, SliceIs
  <2> QED
    BY ONLY <1>7, <2>2
<1>11. /\ y \in Seq(Nat) /\ Len(y) = m + n
       /\ \A i \in 1..(m + n) : y[i] = IF i =< m THEN d[i] ELSE r[i - m]
  <2>1. /\ d \o r \in Seq(Nat)
        /\ Len(d \o r) = Len(d) + Len(r)
        /\ \A i \in 1..(Len(d) + Len(r)) : (d \o r)[i] = IF i =< Len(d) THEN d[i] ELSE r[i - Len(d)]
    BY ONLY <1>10, d \in Seq(Nat), ConcatProperties
  <2> QED
    BY <1>1, <1>8, <1>10, <2>1
<1>12. ASSUME NEW i \in 1..c PROVE x[i] = y[i]
  <2>1. i \in 1..(m + n) /\ 0 + i = i
    BY <1>5
  <2>2. CASE i =< m
    <3>1. i \in 1..m
      BY <2>2
    <3> QED
      BY <1>4, <1>9, <1>11, <2>1, <2>2, <3>1
  <2>3. CASE ~(i =< m)
    <3>1. PICK j : j = i - m
      OBVIOUS
    <3>2. j \in 1..n /\ j \in 1..(l - e) /\ m + j = i
      BY <1>5, <2>1, <2>3, <3>1
    <3>3. v[m + j] = s[e + j] /\ r[j] = s[e + j]
      BY <1>4, <1>10, <3>2
    <3>4. y[i] = r[j]
      BY <1>11, <2>1, <2>3, <3>1
    <3>5. x[i] = v[m + j]
      BY <1>9, <2>1, <3>2
    <3> QED
      BY <3>3, <3>4, <3>5
  <2> QED
    BY <2>2, <2>3
<1>13. x = y
  <2>1. Len(x) = Len(y) /\ \A i \in 1..Len(x) : x[i] = y[i]
    BY <1>5, <1>9, <1>11, <1>12
  <2> QED
    BY ONLY <1>9, <1>11, <2>1, SeqEqual
<1> QED
  BY <1>3, <1>6, <1>7, <1>8, <1>13

\* matches of a source, none overlapping the one before
InOrder(s, all) ==
  /\ s \in Seq(Nat) /\ all \in Seq(Pair)
  /\ \A k \in 0..(Len(all) - 1) : EndOf(all, k) =< all[k + 1][1] /\ all[k + 1][1] + all[k + 1][2] =< Len(s)

LEMMA EndsInside ==
  ASSUME NEW s, NEW all, InOrder(s, all), NEW k \in 0..Len(all)
  PROVE  EndOf(all, k) \in Nat /\ EndOf(all, k) =< Len(s)
<1>1. s \in Seq(Nat) /\ all \in Seq(Pair) /\ Len(all) \in Nat /\ Len(s) \in Nat
  BY DEF InOrder
<1>2. CASE k = 0
  BY <1>1, <1>2 DEF EndOf
<1>3. CASE k # 0
  <2>1. PICK j : j = k - 1
    OBVIOUS
  <2>2. j \in 0..(Len(all) - 1) /\ j + 1 = k /\ k \in 1..Len(all)
    BY <1>1, <1>3, <2>1
  <2>3. all[k][1] + all[k][2] =< Len(s)
    BY <2>2 DEF InOrder
  <2>4. all[k] \in Pair
    BY <1>1, <2>2, ElementOfSeq
  <2>5. all[k][1] \in Nat /\ all[k][2] \in Nat
    BY <2>4 DEF Pair
  <2> QED
    BY <1>3, <2>3, <2>5 DEF EndOf
<1> QED
  BY <1>2, <1>3

\* the texts of the first n matches are phrases
Written(texts, n) == \A j \in 1..n : texts[j] \in Seq(Nat)

\* the text of one match more
GrowsAt(s, all, texts, k) ==
  RewriteTo(s, all, texts, k + 1) =
    RewriteTo(s, all, texts, k) \o (Slice(s, EndOf(all, k), all[k + 1][1] - EndOf(all, k)) \o texts[k + 1])

LEMMA RewriteGrows ==
  ASSUME NEW s, NEW all, InOrder(s, all), NEW texts, NEW n \in 0..Len(all), Written(texts, n)
  PROVE  /\ RewriteTo(s, all, texts, 0) = << >>
         /\ RewriteTo(s, all, texts, n) \in Seq(Nat)
         /\ \A k \in 0..(n - 1) : GrowsAt(s, all, texts, k)
<1> DEFINE part(k) == Slice(s, Between(all, k - 1)[1], Between(all, k - 1)[2]) \o texts[k]
           q(m) == [k \in 1..m |-> part(k)]
<1>1. s \in Seq(Nat) /\ all \in Seq(Pair) /\ Len(all) \in Nat /\ n \in Nat
  BY DEF InOrder
<1>2. \A k \in 1..n : part(k) \in Seq(Nat)
  <2> TAKE k \in 1..n
  <2>1. PICK j : j = k - 1
    OBVIOUS
  <2>2. j \in 0..(Len(all) - 1) /\ j \in 0..Len(all) /\ j + 1 = k /\ k \in 1..Len(all)
    BY <1>1, <2>1
  <2>3. all[k] \in Pair
    BY <1>1, <2>2, ElementOfSeq
  <2>4. PICK b \in Nat : b = all[k][1]
    BY <2>3 DEF Pair
  <2>5. all[k][2] \in Nat
    BY <2>3 DEF Pair
  <2>6. PICK e \in Nat : e = EndOf(all, j)
    BY <2>2, EndsInside
  <2>7. e =< b /\ b =< Len(s)
    <3>1. EndOf(all, j) =< all[j + 1][1] /\ all[j + 1][1] + all[j + 1][2] =< Len(s)
      BY <2>2 DEF InOrder
    <3> QED
      BY <1>1, <2>2, <2>4, <2>5, <2>6, <3>1
  <2>8. PICK l : l = b - e
    OBVIOUS
  <2>9. l \in Nat /\ e + l =< Len(s)
    BY <1>1, <2>7, <2>8
  <2>10. Slice(s, e, l) \in Seq(Nat)
    BY ONLY <1>1, <2>9, e \in Nat, SliceIs
  <2>11. Between(all, j)[1] = e /\ Between(all, j)[2] = l
    BY <2>2, <2>4, <2>6, <2>8 DEF Between
  <2>12. texts[k] \in Seq(Nat)
    BY DEF Written
  <2>13. PICK x : x = Slice(s, e, l)
    OBVIOUS
  <2>14. PICK y : y = texts[k]
    OBVIOUS
  <2>15. x \o y \in Seq(Nat)
    <3>1. x \in Seq(Nat) /\ y \in Seq(Nat)
      BY <2>10, <2>12, <2>13, <2>14
    <3> QED
      BY ONLY <3>1, ConcatProperties
  <2> QED
    BY <2>1, <2>11, <2>13, <2>14, <2>15
<1> HIDE DEF part
<1>3. \A m \in 0..n : /\ q(m) \in Seq(Seq(Nat)) /\ Len(q(m)) = m
                      /\ \A k \in 1..m : q(m)[k] = part(k)
  <2> TAKE m \in 0..n
  <2>1. \A k \in 1..m : part(k) \in Seq(Nat)
    BY <1>1, <1>2
  <2>2. m \in Nat
    OBVIOUS
  <2> QED
    BY <2>1, <2>2
<1>4. \A m : RewriteTo(s, all, texts, m) = FlattenSeq(q(m))
  BY DEF RewriteTo, part
<1>5. RewriteTo(s, all, texts, 0) = << >>
  <2>1. q(0) = << >>
    OBVIOUS
  <2>2. FlattenSeq(<< >>) = << >>
    BY FlattenIs
  <2> QED
    BY <1>4, <2>1, <2>2
<1>6. RewriteTo(s, all, texts, n) \in Seq(Nat)
  <2>1. PICK t : t = q(n)
    OBVIOUS
  <2>2. t \in Seq(Seq(Nat))
    <3>1. n \in 0..n
      BY <1>1
    <3> HIDE DEF q
    <3> QED
      BY <1>3, <2>1, <3>1
  <2>3. FlattenSeq(t) \in Seq(Nat)
    BY <2>2, FlattenType
  <2> HIDE DEF q
  <2> QED
    BY <1>4, <2>1, <2>3
<1>7. ASSUME NEW k \in 0..(n - 1)
      PROVE  RewriteTo(s, all, texts, k + 1) = RewriteTo(s, all, texts, k) \o part(k + 1)
  <2>1. k \in 0..n /\ k + 1 \in 0..n /\ k + 1 \in 1..(k + 1)
    BY <1>1
  <2>2. PICK u : u = q(k)
    OBVIOUS
  <2>3. PICK t : t = q(k + 1)
    OBVIOUS
  <2>4. /\ u \in Seq(Seq(Nat)) /\ t \in Seq(Seq(Nat)) /\ Len(u) = k /\ Len(t) = k + 1
        /\ t[k + 1] = part(k + 1)
    BY <1>3, <2>1, <2>2, <2>3
  <2>5. \A i \in 1..Len(u) : t[i] = u[i]
    <3> TAKE i \in 1..Len(u)
    <3>1. i \in 1..k /\ i \in 1..(k + 1)
      BY <2>4
    <3> QED
      BY <1>3, <2>1, <2>2, <2>3, <3>1
  <2>6. FlattenSeq(t) = FlattenSeq(u) \o part(k + 1)
    <3>1. Len(t) = Len(u) + 1
      BY <2>4
    <3> QED
      BY <2>4, <2>5, <3>1, FlattenLonger
  <2> HIDE DEF q
  <2> QED
    BY <1>4, <2>2, <2>3, <2>6
<1>8. \A k \in 0..(n - 1) :
        part(k + 1) = Slice(s, EndOf(all, k), all[k + 1][1] - EndOf(all, k)) \o texts[k + 1]
  <2> TAKE k \in 0..(n - 1)
  <2>1. (k + 1) - 1 = k
    BY <1>1
  <2>2. Between(all, k)[1] = EndOf(all, k) /\ Between(all, k)[2] = all[k + 1][1] - EndOf(all, k)
    BY DEF Between
  <2> QED
    BY <2>1, <2>2 DEF part
<1> QED
  BY <1>5, <1>6, <1>7, <1>8 DEF GrowsAt

\* how far the rest of the source has moved
Moved(s, all, texts, k) == Len(RewriteTo(s, all, texts, k)) - EndOf(all, k)

LEMMA RewritingIs ==
  ASSUME NEW s, NEW all, InOrder(s, all), NEW texts, NEW k \in 0..Len(all), Written(texts, k)
  PROVE  /\ IsRewriting(RewrittenTo(s, all, texts, k), s, RewriteTo(s, all, texts, k), EndOf(all, k))
         /\ Moved(s, all, texts, k) \in Int
<1>1. s \in Seq(Nat)
  BY DEF InOrder
<1>2. RewriteTo(s, all, texts, k) \in Seq(Nat)
  BY RewriteGrows
<1>3. EndOf(all, k) \in Nat /\ EndOf(all, k) =< Len(s)
  BY EndsInside
<1>4. After(s, all, k)[1] = EndOf(all, k) /\ After(s, all, k)[2] = Len(s) - EndOf(all, k)
  BY DEF After
<1>5. Len(RewriteTo(s, all, texts, k)) \in Nat
  BY <1>2
<1> QED
  BY <1>1, <1>2, <1>3, <1>4, <1>5 DEF IsRewriting, RewrittenTo, Moved

LEMMA NoneReplaced ==
  ASSUME NEW s \in Seq(Nat), NEW all, NEW texts
  PROVE  RewrittenTo(s, all, texts, 0) = s /\ Moved(s, all, texts, 0) = 0
<1>1. s \in Seq(Nat) /\ Len(s) \in Nat
  OBVIOUS
<1>2. RewriteTo(s, all, texts, 0) = << >>
  <2> DEFINE part(k) == Slice(s, Between(all, k - 1)[1], Between(all, k - 1)[2]) \o texts[k]
  <2>1. RewriteTo(s, all, texts, 0) = FlattenSeq([k \in 1..0 |-> part(k)])
    BY DEF RewriteTo
  <2> HIDE DEF part
  <2>2. [k \in 1..0 |-> part(k)] = << >>
    OBVIOUS
  <2>3. FlattenSeq(<< >>) = << >>
    BY FlattenIs
  <2> QED
    BY <2>1, <2>2, <2>3
<1>3. PICK x : x = Slice(s, 0, Len(s))
  OBVIOUS
<1>4. x \in Seq(Nat) /\ Len(x) = Len(s) /\ \A i \in 1..Len(s) : x[i] = s[0 + i]
  <2>1. 0 \in Nat /\ 0 + Len(s) =< Len(s)
    BY <1>1
  <2> QED
    BY ONLY <1>1, <1>3, <2>1, SliceIs
<1>5. x = s
  <2>1. \A i \in 1..Len(s) : x[i] = s[i]
    BY <1>1, <1>4
  <2> QED
    BY ONLY <1>1, <1>4, <2>1, SeqEqual
<1>6. EndOf(all, 0) = 0 /\ After(s, all, 0)[1] = 0 /\ After(s, all, 0)[2] = Len(s)
  BY <1>1 DEF EndOf, After
<1>7. << >> \o x = x
  BY <1>4, ConcatEmptySeq
<1>8. RewrittenTo(s, all, texts, 0) = << >> \o x
  BY <1>2, <1>3, <1>6, Zenon DEF RewrittenTo
<1>9. Moved(s, all, texts, 0) = 0
  BY <1>2, <1>6 DEF Moved
<1> QED
  BY <1>5, <1>7, <1>8, <1>9

\* the match that is next, where it is now, and its text
NextIs(s, all, texts, k, v, c, len, new) ==
  /\ v = RewrittenTo(s, all, texts, k) /\ c = all[k + 1][1] + Moved(s, all, texts, k)
  /\ len = all[k + 1][2] /\ new = texts[k + 1]

PutIn(s, all, texts, k, v, c, len, new) ==
  /\ Slice(v, 0, c) \o new \o Slice(v, c + len, Len(v) - (c + len)) = RewrittenTo(s, all, texts, k + 1)
  /\ Moved(s, all, texts, k + 1) = Moved(s, all, texts, k) + Len(new) - len

LEMMA ConcatRegroups ==
  ASSUME NEW a \in Seq(Nat), NEW b \in Seq(Nat), NEW c \in Seq(Nat)
  PROVE  (a \o b) \o c = a \o (b \o c)
BY ConcatAssociative

LEMMA SumRegroups ==
  ASSUME NEW l \in Nat, NEW m \in Nat, NEW j \in Nat, NEW b \in Nat, NEW e \in Nat, NEW n \in Nat, m = b - e
  PROVE  (l + (m + j)) - (b + n) = ((l - e) + j) - n
OBVIOUS

\* vReplace: the source is cut before the match that is next, the text put in, and what follows added
LEMMA ReplacesOne ==
  ASSUME NEW s, NEW all, InOrder(s, all), NEW texts, NEW k \in 0..(Len(all) - 1),
         Written(texts, k + 1), NEW v, NEW c, NEW len, NEW new, NextIs(s, all, texts, k, v, c, len, new)
  PROVE  PutIn(s, all, texts, k, v, c, len, new)
<1> /\ v = RewrittenTo(s, all, texts, k) /\ c = all[k + 1][1] + Moved(s, all, texts, k)
    /\ len = all[k + 1][2] /\ new = texts[k + 1]
  BY DEF NextIs
<1>1. /\ s \in Seq(Nat) /\ Len(s) \in Nat /\ Len(all) \in Nat /\ k \in 0..Len(all) /\ k + 1 \in 0..Len(all)
      /\ k + 1 \in 1..Len(all) /\ k + 1 # 0
  BY DEF InOrder
<1>2. PICK d : d = RewriteTo(s, all, texts, k)
  OBVIOUS
<1>3. PICK e : e = EndOf(all, k)
  OBVIOUS
<1>4. IsRewriting(v, s, d, e)
  <2>1. Written(texts, k)
    BY <1>1 DEF Written
  <2> QED
    BY <1>1, <1>2, <1>3, <2>1, RewritingIs
<1>5. d \in Seq(Nat) /\ Len(d) \in Nat /\ e \in Nat
  BY <1>4 DEF IsRewriting
<1>6. PICK b \in Nat : b = all[k + 1][1]
  <2>1. all \in Seq(Pair)
    BY DEF InOrder
  <2>2. all[k + 1] \in Pair
    BY <1>1, <2>1, ElementOfSeq
  <2> QED
    BY <2>2 DEF Pair
<1>7. len \in Nat
  <2>1. all \in Seq(Pair)
    BY DEF InOrder
  <2>2. all[k + 1] \in Pair
    BY <1>1, <2>1, ElementOfSeq
  <2> QED
    BY <2>2 DEF Pair
<1>8. e =< b /\ b + len =< Len(s) /\ b =< Len(s)
  <2>1. EndOf(all, k) =< all[k + 1][1] /\ all[k + 1][1] + all[k + 1][2] =< Len(s)
    BY DEF InOrder
  <2>2. e =< b /\ b + len =< Len(s)
    BY <1>3, <1>6, <2>1
  <2> QED
    BY <1>1, <1>7, <2>2
<1>9. c = b + (Len(d) - e)
  BY <1>2, <1>3, <1>6 DEF Moved
<1>10. c \in Nat /\ Len(v) - c = Len(s) - b /\ SameAhead(v, c, s, b)
  BY ONLY <1>4, <1>8, <1>9, b \in Nat, AheadOf
<1>11. v \in Seq(Nat) /\ Len(v) \in Nat
  BY ONLY <1>4, Rewriting
<1>12. Slice(v, 0, c) = d \o Slice(s, e, b - e)
  BY ONLY <1>4, <1>8, <1>9, b \in Nat, CutBefore
<1>13. PICK n \in Nat : n = Len(s) - (b + len)
  <2>1. Len(s) - (b + len) \in Nat
    BY <1>1, <1>7, <1>8
  <2> QED
    BY <2>1
<1>14. Len(v) - (c + len) = n
  BY ONLY <1>1, <1>7, <1>10, <1>11, <1>13, b \in Nat, n \in Nat
<1>15. PICK r : r = Slice(s, b + len, n)
  OBVIOUS
<1>16. Slice(v, c + len, Len(v) - (c + len)) = r
  <2>1. b + len + n =< Len(s)
    BY <1>1, <1>7, <1>13
  <2>2. Slice(v, c + len, n) = Slice(s, b + len, n)
    BY ONLY <1>1, <1>7, <1>10, <1>11, <2>1, b \in Nat, n \in Nat, CutAhead
  <2> QED
    BY <1>14, <1>15, <2>2
<1>17. r \in Seq(Nat)
  <2>1. b + len \in Nat /\ (b + len) + n =< Len(s)
    BY ONLY <1>1, <1>7, <1>13, b \in Nat, n \in Nat
  <2>2. PICK o : o = b + len
    OBVIOUS
  <2>3. o \in Nat /\ o + n =< Len(s)
    BY <2>1, <2>2
  <2>4. Slice(s, o, n) \in Seq(Nat)
    BY ONLY <1>1, <2>3, n \in Nat, SliceIs
  <2> QED
    BY <1>15, <2>2, <2>4
<1>18. PICK m \in Nat : m = b - e
  <2>1. b - e \in Nat
    BY <1>5, <1>8
  <2> QED
    BY <2>1
<1>19. PICK x : x = Slice(s, e, m)
  OBVIOUS
<1>20. x \in Seq(Nat) /\ Len(x) = m
  <2>1. e + m =< Len(s)
    BY <1>5, <1>8, <1>18
  <2> QED
    BY ONLY <1>1, <1>5, <1>19, <2>1, m \in Nat, SliceIs
<1>21. new \in Seq(Nat) /\ Len(new) \in Nat
  <2>1. k + 1 \in 1..(k + 1)
    BY <1>1
  <2>2. texts[k + 1] \in Seq(Nat)
    BY <2>1 DEF Written
  <2> QED
    BY <2>2
<1>22. RewriteTo(s, all, texts, k + 1) = d \o (x \o new)
  <2>1. k \in 0..((k + 1) - 1)
    BY <1>1
  <2>2. PICK n1 \in 0..Len(all) : n1 = k + 1
    BY <1>1
  <2>3. Written(texts, n1)
    BY <2>2
  <2>4. \A i \in 0..(n1 - 1) : GrowsAt(s, all, texts, i)
    BY ONLY <2>3, InOrder(s, all), n1 \in 0..Len(all), RewriteGrows
  <2>5. RewriteTo(s, all, texts, k + 1) =
          RewriteTo(s, all, texts, k)
            \o (Slice(s, EndOf(all, k), all[k + 1][1] - EndOf(all, k)) \o texts[k + 1])
    BY <2>1, <2>2, <2>4 DEF GrowsAt
  <2> QED
    BY <1>2, <1>3, <1>6, <1>18, <1>19, <2>5
<1>23. (d \o x) \o new = d \o (x \o new)
  <2>1. d \in Seq(Nat) /\ x \in Seq(Nat) /\ new \in Seq(Nat)
    BY <1>5, <1>20, <1>21
  <2> QED
    BY ONLY <2>1, ConcatRegroups
<1>24. EndOf(all, k + 1) = b + len
  BY <1>1, <1>6 DEF EndOf
<1>25. RewrittenTo(s, all, texts, k + 1) = (d \o (x \o new)) \o r
  <2>1. After(s, all, k + 1)[1] = b + len /\ After(s, all, k + 1)[2] = n
    BY <1>13, <1>24 DEF After
  <2> QED
    BY <1>15, <1>22, <2>1 DEF RewrittenTo
<1>26. Len(d \o (x \o new)) = Len(d) + (m + Len(new))
  <2>1. PICK y : y = x \o new
    OBVIOUS
  <2>2. y \in Seq(Nat) /\ Len(y) = m + Len(new)
    <3>1. x \o new \in Seq(Nat) /\ Len(x \o new) = Len(x) + Len(new)
      BY ONLY <1>20, <1>21, ConcatProperties
    <3> QED
      BY <1>20, <2>1, <3>1
  <2>3. Len(d \o y) = Len(d) + Len(y)
    BY ONLY <1>5, <2>2, ConcatProperties
  <2> QED
    BY <2>1, <2>2, <2>3
<1>27. Moved(s, all, texts, k + 1) = Moved(s, all, texts, k) + Len(new) - len
  <2>1. Moved(s, all, texts, k + 1) = (Len(d) + (m + Len(new))) - (b + len)
    BY <1>22, <1>24, <1>26 DEF Moved
  <2>2. Moved(s, all, texts, k) = Len(d) - e
    BY <1>2, <1>3 DEF Moved
  <2>3. PICK l \in Nat : l = Len(d)
    BY <1>5
  <2>4. PICK j \in Nat : j = Len(new)
    BY <1>21
  <2>5. Moved(s, all, texts, k + 1) = (l + (m + j)) - (b + len) /\ Moved(s, all, texts, k) = l - e
    BY ONLY <2>1, <2>2, <2>3, <2>4
  <2>6. (l + (m + j)) - (b + len) = ((l - e) + j) - len
    BY ONLY <1>5, <1>7, <1>18, l \in Nat, j \in Nat, m \in Nat, b \in Nat, SumRegroups
  <2>7. Moved(s, all, texts, k + 1) = ((l - e) + j) - len
    BY ONLY <2>5, <2>6, Zenon
  <2>8. Moved(s, all, texts, k) = l - e
    BY ONLY <2>5, Zenon
  <2> QED
    BY ONLY <1>5, <1>7, l \in Nat, j \in Nat, <2>4, <2>7, <2>8
<1> QED
  BY <1>12, <1>16, <1>18, <1>19, <1>23, <1>25, <1>27 DEF PutIn

-----------------------------------------------------------------------------
(* A replacement: its list of matches and their texts.                     *)

Texts(raw, all) == [k \in DOMAIN all |-> Expanded(raw, all[k])]

\* the matches of the call under way, and what they are replaced by
Plan(all, from, texts) == all = MatchList(call.from, mode) /\ from = call.from /\ texts = Texts(call.arg, all)

Bound(all) == LooksRight(pattern) /\ Regular(call.arg, all)

LEMMA StandsStays ==
  ASSUME UNCHANGED <<pattern, bEnabled>>, call'.source = call.source
  PROVE  /\ \A t, m : Stands(t, m)' = Stands(t, m)
         /\ \A raw, m : Expanded(raw, m)' = Expanded(raw, m)
         /\ \A raw, all : Texts(raw, all)' = Texts(raw, all)
<1>1. \A r, m : FirstPhrase(r, m)' = FirstPhrase(r, m)
  BY DEF FirstPhrase, Rules
<1>2. \A t, m : Stands(t, m)' = Stands(t, m)
  BY <1>1 DEF Stands
<1>3. \A raw, m : Expanded(raw, m)' = Expanded(raw, m)
  BY <1>2 DEF Expanded
<1>4. \A raw, all : Texts(raw, all)' = Texts(raw, all)
  BY <1>3 DEF Texts
<1> QED
  BY <1>2, <1>3, <1>4

\* a step that keeps what the call was made with keeps its plan
LEMMA PlanStays ==
  ASSUME UNCHANGED <<pattern, bEnabled, mode>>,
         call'.source = call.source, call'.from = call.from, call'.arg = call.arg
  PROVE  /\ \A all, from, texts : Plan(all, from, texts)' <=> Plan(all, from, texts)
         /\ \A all : Bound(all)' <=> Bound(all)
<1>1. \A i, how : MatchList(i, how)' = MatchList(i, how)
  BY ListStays
<1>2. \A raw, all : Texts(raw, all)' = Texts(raw, all)
  BY StandsStays
<1>3. PICK f : f = call.from
  OBVIOUS
<1>4. PICK how : how = mode
  OBVIOUS
<1>5. PICK raw : raw = call.arg
  OBVIOUS
<1>6. call'.from = f /\ mode' = how /\ call'.arg = raw
  BY <1>3, <1>4, <1>5
<1>7. MatchList(call.from, mode)' = MatchList(f, how)
  <2>1. MatchList(call.from, mode)' = MatchList(f, how)'
    BY <1>6
  <2> QED
    BY <1>1, <2>1
<1>8. ASSUME NEW all
      PROVE  Texts(call.arg, all)' = Texts(raw, all)
  <2>1. Texts(call.arg, all)' = Texts(raw, all)'
    BY <1>6
  <2> QED
    BY <1>2, <2>1
<1>9. \A all, from, texts : Plan(all, from, texts)' <=> Plan(all, from, texts)
  BY <1>3, <1>4, <1>5, <1>6, <1>7, <1>8 DEF Plan
<1>10. \A all : Bound(all)' <=> Bound(all)
  BY DEF Bound, Regular
<1> QED
  BY <1>9, <1>10

\* what ParsesRight says of two places
LEMMA RightParses ==
  ASSUME ParsesRight(Seq(Nat)), NEW p \in Patterns, LooksRight(p), NEW s \in Seq(Nat), NEW t \in Seq(Nat),
         NEW b \in 0..(Len(s) - 1), NEW c \in 0..(Len(t) - 1), SameAhead(s, b, t, c),
         NEW rules \in SUBSET RulesOf(p)
  PROVE  ParsedAlike(p, s, b, rules, t, c)
BY DEF ParsesRight

\* a match of a pattern that looks only right ends in the source
Inside == \A b \in 0..(Len(call.source) - 1) : M(b).ok => M(b).len \in 0..(Len(call.source) - b)

LEMMA RightIsInside ==
  ASSUME ParsesRight(Seq(Nat)), pattern \in Patterns, LooksRight(pattern), call.source \in Seq(Nat)
  PROVE  Inside
<1>1. PICK s \in Seq(Nat) : s = call.source
  OBVIOUS
<1>2. PICK p \in Patterns : p = pattern
  OBVIOUS
<1>3. ASSUME NEW b \in 0..(Len(s) - 1), MatchAt(p, s, b, {}).ok
      PROVE  MatchAt(p, s, b, {}).len \in 0..(Len(s) - b)
  <2>1. SameAhead(s, b, s, b)
    BY DEF SameAhead
  <2>2. {} \in SUBSET RulesOf(p) /\ LooksRight(p)
    BY <1>2
  <2>3. ParsedAlike(p, s, b, {}, s, b)
    BY <2>1, <2>2, RightParses
  <2> QED
    BY <1>3, <2>3 DEF ParsedAlike
<1> QED
  BY <1>1, <1>2, <1>3 DEF Inside, M

\* the search for the next match begins where the last has ended, or later
LEMMA EndBeforeNext ==
  ASSUME NEW from \in Nat, NEW how, Len(call.source) \in Nat, Measured, NEW all, IsList(all, from, how),
         NEW k \in 0..Len(all)
  PROVE  EndOf(all, k) =< At(all, from, k)
<1>1. CASE k = 0
  BY <1>1 DEF EndOf, At
<1>2. CASE k # 0
  <2>1. k \in 1..Len(all)
    BY <1>2 DEF IsList
  <2>2. all[k][1] \in Nat /\ all[k][2] \in Nat
    BY <2>1, ListRises
  <2>3. PICK x \in Nat : x = all[k][1]
    BY <2>2
  <2>4. PICK y \in Nat : y = all[k][2]
    BY <2>2
  <2>5. EndOf(all, k) = x + y /\ At(all, from, k) = Advance(x, y)
    BY <1>2, <2>3, <2>4 DEF EndOf, At
  <2>6. x + y =< Advance(x, y)
    BY DEF Advance
  <2> QED
    BY <2>5, <2>6
<1> QED
  BY <1>1, <1>2

LEMMA ListInOrder ==
  ASSUME call.source \in Seq(Nat), Measured, Inside, NEW how, NEW from \in Nat, NEW all, IsList(all, from, how)
  PROVE  InOrder(call.source, all)
<1>1. all \in Seq(Pair) /\ Len(all) \in Nat /\ Len(call.source) \in Nat
  BY DEF IsList
<1>2. /\ \A k \in 0..Len(all) : At(all, from, k) \in Nat
      /\ \A k \in 1..Len(all) : all[k][1] \in Nat /\ all[k][2] \in Nat
  BY <1>1, ListRises
<1>3. ASSUME NEW k \in 0..(Len(all) - 1)
      PROVE  EndOf(all, k) =< all[k + 1][1] /\ all[k + 1][1] + all[k + 1][2] =< Len(call.source)
  <2>1. /\ First(At(all, from, k), how) = {all[k + 1][1]}
        /\ all[k + 1][1] \in 0..(Len(call.source) - 1) /\ At(all, from, k) =< all[k + 1][1]
        /\ all[k + 1][2] = M(all[k + 1][1]).len
    BY DEF IsList
  <2>2. PICK b \in 0..(Len(call.source) - 1) : b = all[k + 1][1]
    BY <2>1
  <2>3. M(b).ok
    <3>1. b \in First(At(all, from, k), how)
      BY <2>1, <2>2
    <3> QED
      BY <3>1 DEF First, Matching
  <2>4. M(b).len \in 0..(Len(call.source) - b)
    BY <2>3 DEF Inside
  <2>5. all[k + 1][1] + all[k + 1][2] =< Len(call.source)
    BY <1>1, <2>1, <2>2, <2>4
  <2>6. EndOf(all, k) =< At(all, from, k)
    BY <1>1, EndBeforeNext
  <2>7. EndOf(all, k) \in Nat /\ At(all, from, k) \in Nat /\ all[k + 1][1] \in Nat
    <3>1. PICK n \in Nat : n = Len(all)
      BY <1>1
    <3>2. k \in 0..(n - 1)
      BY <1>1, <3>1
    <3>3. (k # 0 => k \in 1..n) /\ k \in 0..n /\ k + 1 \in 1..n
      BY ONLY <3>2, n \in Nat
    <3>4. At(all, from, k) \in Nat /\ all[k + 1][1] \in Nat
      BY <1>2, <3>1, <3>3
    <3>5. CASE k = 0
      BY <3>4, <3>5 DEF EndOf
    <3>6. CASE k # 0
      <4>1. all[k][1] \in Nat /\ all[k][2] \in Nat
        BY <1>2, <3>1, <3>3, <3>6
      <4>2. EndOf(all, k) = all[k][1] + all[k][2]
        BY ONLY <3>6 DEF EndOf
      <4> QED
        <5>1. \A x, y \in Nat : x + y \in Nat
          OBVIOUS
        <5> QED
          BY ONLY <3>4, <4>1, <4>2, <5>1
    <3> QED
      BY ONLY <3>5, <3>6
  <2>8. EndOf(all, k) =< all[k + 1][1]
    <3> HIDE DEF At, EndOf
    <3> QED
      BY <2>1, <2>6, <2>7
  <2> QED
    BY <2>5, <2>8
<1> QED
  BY <1>1, <1>3 DEF InOrder

\* what holds of the plan of a replacement under way
LEMMA PlanIs ==
  ASSUME ParsesRight(Seq(Nat)), Typed, pc \in {"search", "attempt", "found"}, pattern \in Patterns,
         LooksRight(pattern), NEW all, NEW from, NEW texts, Plan(all, from, texts)
  PROVE  /\ call.source \in Seq(Nat) /\ Len(call.source) \in Nat /\ Measured /\ from \in Nat
         /\ IsList(all, from, mode) /\ InOrder(call.source, all) /\ Len(all) \in Nat
         /\ \A k \in 0..Len(all) : At(all, from, k) \in Nat
<1>1. call.source \in Seq(Nat) /\ Len(call.source) \in Nat /\ call.from \in Nat
  BY Underway
<1>2. pattern # NoPattern
  BY Constants
<1>3. Measured
  BY <1>2, SplitMeasured
<1>4. PICK f \in Nat : f = call.from
  BY <1>1
<1>5. PICK how : how = mode
  OBVIOUS
<1>6. IsList(all, f, how)
  <2>1. all = MatchList(f, how)
    BY <1>4, <1>5 DEF Plan
  <2>2. IsList(MatchList(f, how), f, how)
    BY <1>1, <1>3, ListOfMatches
  <2> QED
    BY <2>1, <2>2
<1>7. InOrder(call.source, all)
  <2>1. Inside
    BY <1>1, RightIsInside
  <2> QED
    BY <1>1, <1>3, <1>6, <2>1, ListInOrder
<1>8. Len(all) \in Nat /\ \A k \in 0..Len(all) : At(all, f, k) \in Nat
  BY <1>1, <1>3, <1>6, ListRises
<1>9. from = f
  BY <1>4 DEF Plan
<1> QED
  BY <1>1, <1>3, <1>5, <1>6, <1>7, <1>8, <1>9

\* what a token stands for is a text
LEMMA StandsType ==
  ASSUME Junk \in Nat, pattern \in Patterns, NEW s \in Sources, s = call.source, NEW b \in 0..(Len(s) - 1),
         NEW len \in Nat, b + len =< Len(s), M(b).ok, NEW m, m[1] = b, m[2] = len,
         NEW t \in TokenType, t.id # "BAD"
  PROVE  Stands(t, m) \in Seq(Nat)
<1>1. s \in Seq(Nat) /\ Len(s) \in Nat
  BY Constants
<1>2. CASE t.id = "LIT" \/ t.id = "DOLLAR"
  <2>1. t.value \in Nat /\ Dollar \in Nat
    BY DEF TokenType, Dollar
  <2>2. <<t.value>> \in Seq(Nat) /\ <<Dollar>> \in Seq(Nat)
    BY <2>1
  <2> HIDE DEF Dollar
  <2> QED
    BY <1>2, <2>2 DEF Stands
<1>3. CASE t.id = "SOURCE"
  BY <1>1, <1>3 DEF Stands
<1>4. CASE t.id = "MATCH"
  <2>1. Slice(s, b, len) \in Seq(Nat)
    BY <1>1, SliceType
  <2> QED
    BY <1>4, <2>1 DEF Stands
<1>5. CASE t.id = "LEFT" \/ t.id = "RIGHT"
  <2>1. \A i \in 1..Len(s) : s[i] \in Nat
    BY ONLY <1>1
  <2>2. SubSeq(s, 1, b) \in Seq(Nat)
    <3>1. \A i \in 1..b : i \in 1..Len(s)
      BY ONLY <1>1, b \in 0..(Len(s) - 1)
    <3> QED
      BY ONLY <2>1, <3>1, b \in 0..(Len(s) - 1), <1>1, SubSeqProperties
  <2>3. SubSeq(s, b + len + 1, Len(s)) \in Seq(Nat)
    <3>1. \A i \in (b + len + 1)..Len(s) : i \in 1..Len(s)
      BY ONLY <1>1, b \in 0..(Len(s) - 1), len \in Nat
    <3>2. \A i \in (b + len + 1)..Len(s) : s[i] \in Nat
      BY ONLY <2>1, <3>1
    <3>3. PICK n \in Int : n = Len(s)
      BY <1>1
    <3>4. PICK o \in Int : o = b + len + 1
      OBVIOUS
    <3>5. \A i \in o..n : s[i] \in Nat
      BY <3>2, <3>3, <3>4
    <3>6. SubSeq(s, o, n) \in Seq(Nat)
      BY ONLY <3>5, o \in Int, n \in Int, SubSeqProperties
    <3> QED
      BY <3>3, <3>4, <3>6
  <2> QED
    BY <1>5, <2>2, <2>3 DEF Stands
<1>6. CASE t.id = "NAME"
  <2>1. PICK p \in Patterns : p = pattern
    OBVIOUS
  <2>2. PICK rules \in SUBSET RulesOf(p) : rules = Rules
    BY <2>1, Constants DEF Rules
  <2>3. MatchAt(p, s, b, rules).ok
    BY <2>1, SameMatches DEF M
  <2>4. PICK tree : tree = MatchAt(p, s, b, rules).tree
    OBVIOUS
  <2>5. tree \in Seq(NodeType)
    BY <2>3, <2>4, TreeIsTree
  <2>6. ASSUME NEW i \in Nodes(tree, t.value) PROVE Slice(s, tree[i][3], tree[i][4]) \in Seq(Nat)
    <3>1. i \in 1..Len(tree)
      BY <2>5 DEF Nodes
    <3>2. tree[i] \in NodeType
      BY <2>5, <3>1, ElementOfSeq
    <3>3. PICK o \in Nat : o = tree[i][3]
      BY <3>2 DEF NodeType
    <3>4. PICK n \in Nat : n = tree[i][4]
      BY <3>2 DEF NodeType
    <3>5. Slice(s, o, n) \in Seq(Nat)
      BY <1>1, SliceType
    <3> QED
      BY <3>3, <3>4, <3>5
  <2>7. Nodes(tree, t.value) # {} =>
          (CHOOSE i \in Nodes(tree, t.value) : \A j \in Nodes(tree, t.value) : i =< j) \in Nodes(tree, t.value)
    <3>1. PICK nodes : nodes = Nodes(tree, t.value)
      OBVIOUS
    <3>2. nodes \in SUBSET Nat
      BY <2>5, <3>1 DEF Nodes
    <3>3. nodes # {} => \E i \in nodes : \A j \in nodes : i =< j
      BY <3>2, LeastOf
    <3> QED
      BY <3>1, <3>3
  <2>8. tree = MatchAt(pattern, call.source, m[1], Rules).tree
    BY <2>1, <2>2, <2>4
  <2>9. FirstPhrase(t.value, m) \in Seq(Nat)
    <3>1. << >> \in Seq(Nat)
      BY EmptySeq
    <3> HIDE DEF Nodes
    <3> QED
      BY <2>6, <2>7, <2>8, <3>1 DEF FirstPhrase
  <2> QED
    BY <1>6, <2>9 DEF Stands
<1> QED
  BY <1>2, <1>3, <1>4, <1>5, <1>6 DEF TokenType

\* the text of a match is a phrase
LEMMA ExpandedType ==
  ASSUME Junk \in Nat, pattern \in Patterns, NEW s \in Sources, s = call.source, NEW b \in 0..(Len(s) - 1),
         NEW len \in Nat, b + len =< Len(s), M(b).ok, NEW m, m[1] = b, m[2] = len,
         NEW raw \in Seq(TokenType), ~Malformed(raw)
  PROVE  Expanded(raw, m) \in Seq(Nat)
<1> DEFINE stands == [i \in DOMAIN raw |-> Stands(raw[i], m)]
<1>1. \A i \in DOMAIN raw : Stands(raw[i], m) \in Seq(Nat)
  <2> TAKE i \in DOMAIN raw
  <2>1. raw[i] \in TokenType
    BY ElementOfSeq
  <2>2. raw[i].id # "BAD"
    BY DEF Malformed
  <2>3. PICK t \in TokenType : t = raw[i]
    BY <2>1
  <2>4. Stands(t, m) \in Seq(Nat)
    BY <2>2, <2>3, StandsType
  <2> QED
    BY <2>3, <2>4
<1>2. stands \in Seq(Seq(Nat))
  <2>1. DOMAIN raw = 1..Len(raw) /\ Len(raw) \in Nat
    OBVIOUS
  <2> QED
    BY <1>1, <2>1
<1>3. Expanded(raw, m) = FlattenSeq(stands)
  BY DEF Expanded
<1> HIDE DEF stands
<1> QED
  BY <1>2, <1>3, FlattenType

\* a slice that is in the source is a part of it
LEMMA SliceIsPart ==
  ASSUME NEW s \in Seq(Nat), NEW o \in Nat, NEW n \in Nat, o + n =< Len(s)
  PROVE  Slice(s, o, n) = SubSeq(s, o + 1, o + n)
<1>1. PICK x : x = Slice(s, o, n)
  OBVIOUS
<1>2. x \in Seq(Nat) /\ Len(x) = n /\ \A i \in 1..n : x[i] = s[o + i]
  BY <1>1, SliceIs
<1>3. PICK f \in Nat : f = o + 1
  OBVIOUS
<1>4. PICK l \in Nat : l = o + n
  OBVIOUS
<1>5. PICK y : y = SubSeq(s, f, l)
  OBVIOUS
<1>6. y \in Seq(Nat) /\ Len(y) = n /\ \A i \in 1..n : y[i] = s[f + i - 1]
  <2>1. \A i \in f..l : s[i] \in Nat
    <3>1. \A i \in f..l : i \in 1..Len(s)
      BY <1>3, <1>4
    <3> QED
      BY <3>1, ElementOfSeq
  <2>2. /\ SubSeq(s, f, l) \in Seq(Nat)
        /\ Len(SubSeq(s, f, l)) = IF f =< l THEN l - f + 1 ELSE 0
        /\ \A i \in 1..(l - f + 1) : SubSeq(s, f, l)[i] = s[f + i - 1]
    BY ONLY <2>1, f \in Int, l \in Int, SubSeqProperties
  <2>3. l - f + 1 = n /\ (IF f =< l THEN l - f + 1 ELSE 0) = n
    BY <1>3, <1>4
  <2> QED
    BY <1>5, <2>2, <2>3
<1>7. \A i \in 1..n : f + i - 1 = o + i
  BY <1>3
<1>8. \A i \in 1..n : x[i] = y[i]
  BY <1>2, <1>6, <1>7
<1>9. x = y
  BY ONLY <1>2, <1>6, <1>8, SeqEqual
<1> QED
  BY <1>1, <1>3, <1>4, <1>5, <1>9

\* what vReplacement writes for a token is what the token stands for
LEMMA ExpandIsStands ==
  ASSUME NEW s \in Seq(Nat), s = call.source, vpVecOriginalSource = s, NEW v \in Seq(Nat), v = vpVecSource,
         NEW b \in Nat, NEW len \in Nat, b + len =< Len(s), NEW c \in Nat, SameAhead(v, c, s, b),
         sResult.beg = c, sResult.length = len, sResult.right = Len(v) - (c + len),
         NEW m, m[1] = b, m[2] = len, NEW t \in TokenType, t.id # "BAD", t.id = "SOURCE" => len # 0,
         t.id \in {"NAME", "LEFT"} => v = s /\ c = b /\ \A r : NamePhrase(r) = FirstPhrase(r, m)
  PROVE  Expand(t) = Stands(t, m)
<1>1. CASE t.id = "LIT"
  BY <1>1 DEF Expand, Stands
<1>2. CASE t.id = "DOLLAR"
  BY <1>2 DEF Expand, Stands
<1>3. CASE t.id = "SOURCE"
  BY <1>3 DEF Expand, Stands
<1>4. CASE t.id = "MATCH"
  <2>1. PICK o \in Nat : o = 0
    OBVIOUS
  <2>2. b + o + len =< Len(s)
    BY <2>1
  <2>3. Slice(v, c + o, len) = Slice(s, b + o, len)
    BY ONLY <2>2, s \in Seq(Nat), v \in Seq(Nat), b \in Nat, c \in Nat, SameAhead(v, c, s, b), len \in Nat, o \in Nat,
            CutAhead
  <2>4. c + o = c /\ b + o = b
    BY <2>1
  <2> QED
    BY <1>4, <2>3, <2>4 DEF Expand, Stands
<1>5. CASE t.id = "LEFT"
  <2>1. Slice(s, 0, b) = SubSeq(s, 0 + 1, 0 + b)
    <3>1. 0 + b =< Len(s)
      OBVIOUS
    <3> QED
      BY <3>1, SliceIsPart
  <2>2. 0 + 1 = 1 /\ 0 + b = b
    OBVIOUS
  <2> QED
    BY <1>5, <2>1, <2>2 DEF Expand, Stands
<1>6. CASE t.id = "RIGHT"
  <2>1. PICK l \in Nat : l = Len(s)
    OBVIOUS
  <2>2. PICK o \in Nat : o = b + len
    OBVIOUS
  <2>3. PICK n \in Nat : n = l - o
    <3>1. l - o \in Nat
      BY <2>1, <2>2
    <3> QED
      BY <3>1
  <2>4. o + n =< Len(s) /\ o + n = Len(s) /\ b + len + n =< Len(s) /\ Len(v) - (c + len) = n
    <3>1. PICK k \in Nat : k = Len(v)
      OBVIOUS
    <3>2. l - b = k - c
      BY <2>1, <3>1 DEF SameAhead
    <3>3. o + n = l /\ k - (c + len) = n
      BY ONLY <2>2, <2>3, <3>2, k \in Nat, l \in Nat, c \in Nat, b \in Nat, len \in Nat, o \in Nat, n \in Nat
    <3> QED
      BY <2>1, <2>2, <3>1, <3>3
  <2>5. Slice(v, c + len, n) = Slice(s, b + len, n)
    BY <2>4, CutAhead
  <2>6. Slice(s, o, n) = SubSeq(s, o + 1, o + n)
    BY ONLY <2>4, s \in Seq(Nat), o \in Nat, n \in Nat, SliceIsPart
  <2>7. Slice(s, b + len, n) = SubSeq(s, b + len + 1, Len(s))
    BY <2>2, <2>4, <2>6
  <2> QED
    BY <1>6, <2>4, <2>5, <2>7 DEF Expand, Stands
<1>7. CASE t.id = "NAME"
  BY <1>7 DEF Expand, Stands
<1> QED
  BY <1>1, <1>2, <1>3, <1>4, <1>5, <1>6, <1>7 DEF TokenType

\* the result of a match at b, which is now at c
ResultAt(s, v, b, len, c) ==
  /\ b + len =< Len(s) /\ SameAhead(v, c, s, b)
  /\ sResult.beg = c /\ sResult.length = len /\ sResult.right = Len(v) - (c + len)

\* what Regular says of a replacement, at one match
Fits(raw, s, v, b, len, c, m) ==
  /\ ~OneCharacter(raw)
  /\ \A i \in DOMAIN raw : raw[i].id = "SOURCE" => len # 0
  /\ \A i \in DOMAIN raw : raw[i].id \in {"NAME", "LEFT"} =>
       v = s /\ c = b /\ \A r : NamePhrase(r) = FirstPhrase(r, m)

LEMMA ReplacementIs ==
  ASSUME NEW s \in Seq(Nat), s = call.source, vpVecOriginalSource = s, NEW v \in Seq(Nat), v = vpVecSource,
         NEW b \in Nat, NEW len \in Nat, NEW c \in Nat, ResultAt(s, v, b, len, c),
         NEW m, m[1] = b, m[2] = len, NEW raw \in Seq(TokenType), ~Malformed(raw),
         Fits(raw, s, v, b, len, c, m)
  PROVE  Replacement(raw) = Expanded(raw, m)
<1> /\ b + len =< Len(s) /\ SameAhead(v, c, s, b)
    /\ sResult.beg = c /\ sResult.length = len /\ sResult.right = Len(v) - (c + len)
  BY DEF ResultAt
<1> USE DEF Fits
<1>1. ASSUME NEW i \in DOMAIN raw PROVE Expand(raw[i]) = Stands(raw[i], m)
  <2>1. raw[i].id # "BAD"
    BY DEF Malformed
  <2>2. PICK t \in TokenType : t = raw[i]
    BY ElementOfSeq
  <2>3. /\ t.id # "BAD" /\ (t.id = "SOURCE" => len # 0)
        /\ t.id \in {"NAME", "LEFT"} => v = s /\ c = b /\ \A r : NamePhrase(r) = FirstPhrase(r, m)
    BY <2>1, <2>2
  <2>4. Expand(t) = Stands(t, m)
    BY <2>3, ExpandIsStands
  <2> QED
    BY <2>2, <2>4
<1>2. [i \in DOMAIN raw |-> Expand(raw[i])] = [i \in DOMAIN raw |-> Stands(raw[i], m)]
  BY <1>1
<1> QED
  BY <1>2 DEF Replacement, Expanded

\* the list of a rule begins with the phrase of its first node
FirstLinked(tree, r, first, phrases) ==
  /\ first = 0 <=> Nodes(tree, r) = {}
  /\ \A i \in Nodes(tree, r) : (\A j \in Nodes(tree, r) : i =< j) =>
       phrases[first].offset = tree[i][3] /\ phrases[first].length = tree[i][4]

\* the first phrase that is linked to a rule is that of its first node
LEMMA FirstOfList ==
  ASSUME NEW tree \in Seq(NodeType), NEW E, NEW R, E \subseteq R, NEW l,
         LinkInv(tree, E, R, Len(tree), l), NEW r \in E, NEW x, NEW y, NEW z
  PROVE  FirstLinked(tree, r, l.rules[r].first, l.phrases \o <<x, y, z>>)
<1> DEFINE k == Len(tree)
           N == NodesTo(tree, r, k)
<1>1. k \in Nat /\ N \in SUBSET (1..k) /\ N = Nodes(tree, r)
  BY DEF NodesTo, Nodes
<1>2. l.phrases \in Seq(PhraseType)
  BY DEF LinkInv
<1>3. PICK spot : Spotted(tree, E, k, l, spot)
  BY DEF LinkInv
<1>4. ListLinked(N, l.rules[r], l.phrases, spot)
  BY <1>3 DEF Spotted
<1>5. N \subseteq Marked(tree, E, k)
  BY DEF NodesTo, Marked, Marks, IsPhraseOf
<1>6. \A i \in N : /\ spot[i] \in 1..Len(l.phrases)
                   /\ l.phrases[spot[i]].offset = tree[i][3] /\ l.phrases[spot[i]].length = tree[i][4]
  BY <1>3, <1>5 DEF Spotted
<1> HIDE DEF N, k
<1>7. l.rules[r].first = 0 <=> N = {}
  BY <1>4 DEF ListLinked
<1>8. PICK ps : ps = l.phrases
  OBVIOUS
<1>9. \A q \in 1..Len(ps) : (ps \o <<x, y, z>>)[q] = ps[q]
  <2>1. PICK T : T = PhraseType \cup {x, y, z}
    OBVIOUS
  <2>2. <<x, y, z>> \in Seq(T) /\ ps \in Seq(T)
    BY <1>2, <1>8, <2>1
  <2> QED
    BY <2>2
<1>10. ASSUME NEW i \in N, \A j \in N : i =< j
       PROVE  /\ (l.phrases \o <<x, y, z>>)[l.rules[r].first].offset = tree[i][3]
              /\ (l.phrases \o <<x, y, z>>)[l.rules[r].first].length = tree[i][4]
  <2>1. l.rules[r].first = spot[i]
    BY <1>4, <1>10 DEF ListLinked, IsLeast
  <2>2. spot[i] \in 1..Len(ps) /\ ps[spot[i]].offset = tree[i][3] /\ ps[spot[i]].length = tree[i][4]
    BY <1>6, <1>8
  <2>3. (ps \o <<x, y, z>>)[spot[i]] = ps[spot[i]]
    BY <1>9, <2>2
  <2> QED
    BY <1>8, <2>1, <2>2, <2>3
<1> QED
  BY <1>1, <1>7, <1>10 DEF FirstLinked

\* after a match on the source that was passed, vNamePhrase finds the phrases of its nodes
LEMMA NamesFound ==
  ASSUME pattern \in Patterns, bEnabled \subseteq Rules, ListsClear, NEW s \in Sources, s = call.source,
         s = vpVecSource, NEW b \in 0..(Len(s) - 1), NEW m, m = MatchAt(pattern, s, b, Rules), m.ok,
         MatchResult(b, m), UNCHANGED <<object, source, call>>, NEW mm, mm[1] = b
  PROVE  \A r : NamePhrase(r)' = FirstPhrase(r, mm)
<1>1. PICK tree : tree = m.tree
  OBVIOUS
<1>2. tree \in Seq(NodeType)
  <2>1. PICK p \in Patterns : p = pattern
    OBVIOUS
  <2>2. PICK rules \in SUBSET RulesOf(p) : rules = Rules
    BY <2>1, Constants DEF Rules
  <2> QED
    BY <1>1, <2>1, <2>2, TreeIsTree
<1>3. PICK l : l = Translate(tree)
  OBVIOUS
<1>4. LinkInv(tree, bEnabled, Rules, Len(tree), l)
  BY <1>2, <1>3, TranslateLinks DEF ListsClear
<1>5. PICK x, y, z : spRelRules' = l.rules /\ vpVecRelPhrases' = l.phrases \o <<x, y, z>>
  BY <1>1, <1>3 DEF MatchResult
<1>6. bEnabled' = bEnabled /\ vpVecSource' = s
  BY DEF object, source
<1>7. tree = MatchAt(pattern, call.source, mm[1], Rules).tree
  BY <1>1
<1>8. ASSUME NEW r, r \in bEnabled
      PROVE  FirstLinked(tree, r, l.rules[r].first, l.phrases \o <<x, y, z>>)
  <2>1. PICK E : E = bEnabled
    OBVIOUS
  <2>2. PICK R : R = Rules
    OBVIOUS
  <2>3. E \subseteq R /\ r \in E /\ LinkInv(tree, E, R, Len(tree), l)
    BY <1>4, <1>8, <2>1, <2>2
  <2> QED
    BY <1>2, <2>3, FirstOfList
<1>9. ASSUME NEW r PROVE NamePhrase(r)' = FirstPhrase(r, mm)
  <2>1. CASE r \notin bEnabled
    BY <1>6, <2>1 DEF NamePhrase, FirstPhrase
  <2>2. CASE r \in bEnabled
    <3>1. PICK nodes : nodes = Nodes(tree, r)
      OBVIOUS
    <3>2. CASE nodes = {}
      BY <1>5, <1>6, <1>7, <1>8, <2>2, <3>1, <3>2 DEF NamePhrase, FirstPhrase, FirstLinked
    <3>3. CASE nodes # {}
      <4>1. nodes \in SUBSET Nat
        BY <1>2, <3>1 DEF Nodes
      <4>2. PICK i : i = CHOOSE h \in nodes : \A j \in nodes : h =< j
        OBVIOUS
      <4>3. i \in nodes /\ \A j \in nodes : i =< j
        <5>1. \E h \in nodes : \A j \in nodes : h =< j
          BY <3>3, <4>1, LeastOf
        <5> QED
          BY <4>2, <5>1
      <4>4. PICK p : p = (l.phrases \o <<x, y, z>>)[l.rules[r].first]
        OBVIOUS
      <4>5. p.offset = tree[i][3] /\ p.length = tree[i][4] /\ l.rules[r].first # 0
        BY <1>8, <2>2, <3>1, <3>3, <4>3, <4>4 DEF FirstLinked
      <4>6. NamePhrase(r)' = Slice(s, p.offset, p.length)
        <5>1. NamePhrase(r)' = LET q == vpVecRelPhrases'[spRelRules'[r].first]
                               IN Slice(vpVecSource', q.offset, q.length)
          BY <1>5, <1>6, <2>2, <4>5 DEF NamePhrase, Slice
        <5> QED
          BY <1>5, <1>6, <4>4, <5>1
      <4>7. FirstPhrase(r, mm) = Slice(s, tree[i][3], tree[i][4])
        BY <1>7, <2>2, <3>1, <3>3, <4>2 DEF FirstPhrase
      <4> QED
        BY <4>5, <4>6, <4>7
    <3> QED
      BY <3>2, <3>3
  <2> QED
    BY <2>1, <2>2
<1> QED
  BY <1>9

-----------------------------------------------------------------------------
(* The inductive invariant of a replacement.                               *)

\* the first k matches have been replaced, and what follows them has moved by d
SourceAt(all, texts, k, d) ==
  /\ k \in 0..Len(all) /\ Written(texts, k)
  /\ vpVecSource = RewrittenTo(call.source, all, texts, k)
  /\ d = Moved(call.source, all, texts, k)

\* the names of a replacement need the lists of the parse that is next: there is only one
Clear(k) == mode = "default" => k = 0 /\ ListsClear

ReplaceFresh ==
  vpVecSource = call.source /\ uiLastIndex = call.from /\ sResult = NoResult /\ ListsClear

Searching(all, from, texts) ==
  \E k, d :
    /\ SourceAt(all, texts, k, d) /\ uiLastIndex = At(all, from, k) + d
    /\ (k = 0 => sResult = NoResult) /\ Clear(k)

Trying(all, from, texts) ==
  \E k, d, b :
    /\ SourceAt(all, texts, k, d) /\ Clear(k) /\ sResult = NoResult
    /\ b \in At(all, from, k)..(Len(call.source) - 1)
    /\ uiSubStringBeg = b + d /\ uiLastIndex = b + d
    /\ \A a \in At(all, from, k)..(b - 1) : ~M(a).ok
    /\ mode = "sticky" => b = At(all, from, k)

\* the phrases that the names of a replacement stand for
Named(m) == \A r : NamePhrase(r) = FirstPhrase(r, m)

Matched(all, from, texts) ==
  \E k, d :
    /\ SourceAt(all, texts, k, d) /\ k < Len(all)
    /\ sResult.beg = all[k + 1][1] + d /\ sResult.length = all[k + 1][2]
    /\ sResult.right = Len(vpVecSource) - (sResult.beg + sResult.length)
    /\ mode # "default" => uiLastIndex = At(all, from, k + 1) + d
    /\ mode = "default" => k = 0 /\ Named(all[k + 1])

AllReplaced(all, texts) == vpVecSource = RewrittenTo(call.source, all, texts, Len(all))

Progress(all, from, texts) ==
  /\ pc = "search" => ReplaceFresh \/ Searching(all, from, texts)
  /\ pc = "attempt" => Trying(all, from, texts)
  /\ pc = "found" => IF sResult.found THEN Matched(all, from, texts) ELSE AllReplaced(all, texts)
  /\ pc = "idle" /\ ~threw => AllReplaced(all, texts)

ReplaceGoesOn ==
  call.op = "replace" =>
    /\ pc \in {"search", "attempt", "found"} =>
         vpVecOriginalSource = call.source /\ call.arg \in Replacements /\ pattern \in Patterns
    /\ pc = "idle" /\ ~threw => uiLastIndex = 0
    /\ \A all, from, texts : Plan(all, from, texts) /\ Bound(all) => Progress(all, from, texts)

\* the source in which the first k matches have been replaced
LEMMA SourceIs ==
  ASSUME NEW s, s = call.source, NEW all, InOrder(s, all), NEW texts, NEW k, NEW d, SourceAt(all, texts, k, d)
  PROVE  /\ s \in Seq(Nat) /\ Len(s) \in Nat /\ d \in Int
         /\ vpVecSource \in Seq(Nat) /\ Len(vpVecSource) = Len(s) + d
<1>1. /\ k \in 0..Len(all) /\ Written(texts, k) /\ d = Moved(s, all, texts, k)
  BY DEF SourceAt
<1>2. PICK v : v = vpVecSource
  OBVIOUS
<1>3. v = RewrittenTo(s, all, texts, k)
  BY <1>2 DEF SourceAt
<1>4. PICK h : h = RewriteTo(s, all, texts, k)
  OBVIOUS
<1>5. PICK e : e = EndOf(all, k)
  OBVIOUS
<1>6. IsRewriting(v, s, h, e) /\ d \in Int
  BY <1>1, <1>3, <1>4, <1>5, RewritingIs
<1>7. v \in Seq(Nat) /\ Len(v) = Len(h) + (Len(s) - e)
  BY ONLY <1>6, Rewriting
<1>8. s \in Seq(Nat) /\ h \in Seq(Nat) /\ e \in Nat
  BY <1>6 DEF IsRewriting
<1>9. d = Len(h) - e
  BY <1>1, <1>4, <1>5 DEF Moved
<1>10. Len(v) = Len(s) + d /\ Len(s) \in Nat
  <2>1. PICK x \in Nat : x = Len(h)
    BY <1>8
  <2>2. PICK y \in Nat : y = Len(s)
    BY <1>8
  <2> QED
    BY <1>7, <1>8, <1>9, <2>1, <2>2
<1> QED
  BY <1>2, <1>6, <1>7, <1>8, <1>10

\* what follows an offset that the search has not passed is what follows it in the source passed
LEMMA SourceAhead ==
  ASSUME NEW s, s = call.source, NEW all, InOrder(s, all), NEW texts, NEW k, NEW d, SourceAt(all, texts, k, d),
         NEW b \in Nat, EndOf(all, k) =< b, b =< Len(s), NEW c, c = b + d, NEW v, v = vpVecSource
  PROVE  c \in Nat /\ v \in Seq(Nat) /\ Len(v) - c = Len(s) - b /\ SameAhead(v, c, s, b)
<1>1. k \in 0..Len(all) /\ Written(texts, k) /\ d = Moved(s, all, texts, k) /\ v = RewrittenTo(s, all, texts, k)
  BY DEF SourceAt
<1>2. PICK h : h = RewriteTo(s, all, texts, k)
  OBVIOUS
<1>3. PICK e : e = EndOf(all, k)
  OBVIOUS
<1>4. IsRewriting(v, s, h, e)
  BY <1>1, <1>2, <1>3, RewritingIs
<1>5. c = b + (Len(h) - e)
  BY <1>1, <1>2, <1>3 DEF Moved
<1>6. c \in Nat /\ Len(v) - c = Len(s) - b /\ SameAhead(v, c, s, b)
  BY ONLY <1>3, <1>4, <1>5, b \in Nat, EndOf(all, k) =< b, b =< Len(s), AheadOf
<1>7. v \in Seq(Nat)
  BY SourceIs
<1> QED
  BY <1>6, <1>7

LEMMA DefaultIsOne ==
  ASSUME NEW from \in Nat, Len(call.source) \in Nat, Measured
  PROVE  Len(MatchList(from, "default")) \in {0, 1}
<1>1. CASE First(from, "default") = {}
  BY <1>1, ListStep
<1>2. CASE First(from, "default") # {}
  <2>1. PICK b : MatchList(from, "default") = <<<<b, M(b).len>>>> \o << >>
    BY <1>2, ListStep
  <2>2. \A x : <<x>> \o << >> = <<x>>
    OBVIOUS
  <2> QED
    BY <2>1, <2>2
<1> QED
  BY <1>1, <1>2

\* a call that begins has replaced nothing
LEMMA FreshIsSearching ==
  ASSUME call.source \in Seq(Nat), NEW all, Len(all) \in Nat, NEW from \in Nat, NEW texts,
         Plan(all, from, texts), ReplaceFresh
  PROVE  Searching(all, from, texts)
<1>1. PICK s \in Seq(Nat) : s = call.source
  OBVIOUS
<1>2. RewrittenTo(s, all, texts, 0) = s /\ Moved(s, all, texts, 0) = 0
  BY NoneReplaced
<1>3. SourceAt(all, texts, 0, 0)
  BY <1>1, <1>2 DEF SourceAt, Written, ReplaceFresh
<1>4. uiLastIndex = At(all, from, 0) + 0
  BY DEF ReplaceFresh, Plan, At
<1>5. sResult = NoResult /\ Clear(0)
  BY DEF ReplaceFresh, Clear
<1> QED
  BY <1>3, <1>4, <1>5 DEF Searching

\* the call of a replacement under way, and what the invariant says of it
LEMMA ReplaceCall ==
  ASSUME Typed, ReplaceGoesOn, call.op = "replace", pc \in {"search", "attempt", "found"}
  PROVE  /\ vpVecOriginalSource = call.source /\ call.arg \in Replacements /\ pattern \in Patterns
         /\ pattern # NoPattern /\ call.source \in Sources /\ call.source \in Seq(Nat)
BY Underway, Constants DEF ReplaceGoesOn

\* when the search for the next match finds none, there is none
LEMMA NoneLeft ==
  ASSUME NEW all, NEW from, NEW k \in 0..Len(all), IsList(all, from, mode), Len(all) \in Nat,
         First(At(all, from, k), mode) = {}
  PROVE  k = Len(all)
<1>1. k \in 0..(Len(all) - 1) => First(At(all, from, k), mode) # {}
  BY DEF IsList
<1> QED
  BY <1>1

\* the index of a search that goes on is in the source
LEMMA IndexInside ==
  ASSUME NEW all, NEW from, NEW k \in 0..Len(all), k # 0, IsList(all, from, mode),
         mode # "default", Regular(call.arg, all)
  PROVE  At(all, from, k) < Len(call.source)
<1>1. k \in DOMAIN all
  BY DEF IsList
<1> QED
  BY <1>1 DEF Regular, At

LEMMA ReplaceSearch ==
  ASSUME ParsesRight(Seq(Nat)), Typed, ReplaceGoesOn, Search, call.op = "replace"
  PROVE  ReplaceGoesOn'
<1>1. PICK f \in Nat, s \in Sources : s # << >> /\ \E o, a, b, l : CallIs(f, s, o, a, b, l)
  BY DEF Typed, Search
<1>2. PICK o, a, b, l : CallIs(f, s, o, a, b, l)
  BY <1>1
<1>3. PICK i : i = uiLastIndex
  OBVIOUS
<1>4. CallIs(f, s, o, a, i, l)'
  BY <1>2, <1>3 DEF CallIs, Search
<1>5. /\ call.source = s /\ call.op = o /\ call.arg = a /\ call.from = f
      /\ call'.source = s /\ call'.op = o /\ call'.arg = a /\ call'.from = f
  BY <1>2, <1>4 DEF CallIs
<1>6. /\ UNCHANGED <<pattern, mode, bEnabled, uiLastIndex, vpVecSource, vpVecOriginalSource>>
      /\ UNCHANGED <<spRelRules, vpVecRelPhrases, astCallbacks, threw>>
  BY DEF Search, object, source, ast, lists
<1>7. pc = "search" /\ pattern \in Patterns /\ pattern # NoPattern
  BY ReplaceCall DEF Search
<1>8. /\ pc' = IF i >= Len(vpVecSource) THEN "found" ELSE "attempt"
      /\ uiSubStringBeg' = IF i >= Len(vpVecSource) THEN 0 ELSE i
      /\ sResult' = IF i >= Len(vpVecSource) THEN sResult ELSE NoResult
  BY <1>3, <1>7 DEF Search
<1>9. ASSUME NEW all, NEW from, NEW texts, Plan(all, from, texts)', Bound(all)'
      PROVE  Progress(all, from, texts)'
  <2>1. Plan(all, from, texts) /\ Bound(all)
    BY <1>5, <1>6, <1>9, PlanStays
  <2>2. LooksRight(pattern) /\ Regular(call.arg, all)
    BY <2>1 DEF Bound
  <2>3. /\ call.source \in Seq(Nat) /\ Len(call.source) \in Nat /\ Measured /\ from \in Nat
        /\ IsList(all, from, mode) /\ InOrder(call.source, all) /\ Len(all) \in Nat
        /\ \A k \in 0..Len(all) : At(all, from, k) \in Nat
    BY <1>7, <2>1, <2>2, PlanIs
  <2>4. Searching(all, from, texts)
    <3>1. ReplaceFresh \/ Searching(all, from, texts)
      BY <1>7, <2>1 DEF ReplaceGoesOn, Progress
    <3> QED
      BY <2>1, <2>3, <3>1, FreshIsSearching
  <2>5. PICK k, d : /\ SourceAt(all, texts, k, d) /\ i = At(all, from, k) + d
                    /\ (k = 0 => sResult = NoResult) /\ Clear(k)
    BY <1>3, <2>4 DEF Searching
  <2>6. Len(vpVecSource) = Len(s) + d /\ d \in Int /\ k \in 0..Len(all)
    <3>1. k \in 0..Len(all)
      BY <2>5 DEF SourceAt
    <3> QED
      BY <1>5, <2>3, <2>5, <3>1, SourceIs
  <2>7. SourceAt(all, texts, k, d)'
    BY <1>5, <1>6, <2>5 DEF SourceAt
  <2>8. PICK at \in Nat : at = At(all, from, k)
    BY <2>3, <2>6
  <2>9. Len(s) \in Nat /\ (i >= Len(vpVecSource) <=> at >= Len(s))
    BY <1>5, <2>3, <2>5, <2>6, <2>8
  <2>10. CASE at >= Len(s)
    <3>1. First(at, mode) = {}
      <4>1. at..(Len(s) - 1) = {}
        BY <2>9, <2>10
      <4> QED
        BY <1>5, <4>1, FirstNowhere
    <3>2. k = Len(all)
      BY <2>3, <2>6, <2>8, <3>1, NoneLeft
    <3>3. k = 0
      <4>1. mode = "default" => k = 0
        BY <2>5 DEF Clear
      <4>2. ASSUME k # 0, mode # "default" PROVE FALSE
        <5>1. at < Len(s)
          BY <1>5, <2>2, <2>3, <2>6, <2>8, <4>2, IndexInside
        <5> QED
          BY <2>9, <2>10, <5>1
      <4> QED
        BY <4>1, <4>2
    <3>4. pc' = "found" /\ sResult' = NoResult
      BY <1>8, <2>5, <2>9, <2>10, <3>3
    <3>5. AllReplaced(all, texts)'
      BY <2>7, <3>2 DEF SourceAt, AllReplaced
    <3> QED
      BY <3>4, <3>5 DEF Progress, NoResult
  <2>11. CASE ~(at >= Len(s))
    <3>1. pc' = "attempt" /\ sResult' = NoResult /\ uiSubStringBeg' = i
      BY <1>8, <2>9, <2>11
    <3>2. at \in at..(Len(s) - 1) /\ at..(at - 1) = {} /\ i = at + d
      BY <2>5, <2>8, <2>9, <2>11
    <3>3. Clear(k)'
      BY <1>6, <2>5 DEF Clear, ListsClear, Rules
    <3>4. Trying(all, from, texts)'
      BY <1>3, <1>5, <1>6, <2>7, <2>8, <3>1, <3>2, <3>3 DEF Trying
    <3> QED
      BY <3>1, <3>4 DEF Progress
  <2> QED
    BY <2>10, <2>11
<1> QED
  BY <1>5, <1>6, <1>7, <1>8, <1>9, ReplaceCall DEF ReplaceGoesOn

\* an attempt of a replacement: k matches have been replaced, and the parse begins at b, now at c
UnderReplace(all, from, texts, k, d, b) ==
  /\ SourceAt(all, texts, k, d) /\ Clear(k) /\ k \in 0..Len(all) /\ At(all, from, k) \in Nat
  /\ b \in At(all, from, k)..(Len(call.source) - 1) /\ b \in 0..(Len(call.source) - 1)
  /\ uiSubStringBeg = b + d /\ uiLastIndex = b + d /\ b + d \in Nat
  /\ \A a \in At(all, from, k)..(b - 1) : ~M(a).ok
  /\ mode = "sticky" => b = At(all, from, k)
  /\ vpVecSource \in Seq(Nat) /\ Len(vpVecSource) - (b + d) = Len(call.source) - b
  /\ SameAhead(vpVecSource, b + d, call.source, b)

LEMMA AttemptOfReplace ==
  ASSUME ParsesRight(Seq(Nat)), Typed, ReplaceGoesOn, call.op = "replace", pc = "attempt",
         NEW all, NEW from, NEW texts, Plan(all, from, texts), Bound(all)
  PROVE  /\ call.source \in Seq(Nat) /\ Len(call.source) \in Nat /\ from \in Nat
         /\ IsList(all, from, mode) /\ InOrder(call.source, all) /\ Len(all) \in Nat
         /\ sResult = NoResult
         /\ \E k, d, b : UnderReplace(all, from, texts, k, d, b)
<1>1. pattern \in Patterns /\ LooksRight(pattern)
  BY ReplaceCall DEF Bound
<1>2. /\ call.source \in Seq(Nat) /\ Len(call.source) \in Nat /\ Measured /\ from \in Nat
      /\ IsList(all, from, mode) /\ InOrder(call.source, all) /\ Len(all) \in Nat
      /\ \A k \in 0..Len(all) : At(all, from, k) \in Nat
  BY <1>1, PlanIs
<1>3. Trying(all, from, texts)
  BY DEF ReplaceGoesOn, Progress
<1>4. PICK k, d, b :
        /\ SourceAt(all, texts, k, d) /\ Clear(k) /\ sResult = NoResult
        /\ b \in At(all, from, k)..(Len(call.source) - 1)
        /\ uiSubStringBeg = b + d /\ uiLastIndex = b + d
        /\ \A a \in At(all, from, k)..(b - 1) : ~M(a).ok
        /\ mode = "sticky" => b = At(all, from, k)
  BY <1>3 DEF Trying
<1>5. k \in 0..Len(all)
  BY <1>4 DEF SourceAt
<1>6. PICK s : s = call.source
  OBVIOUS
<1>7. At(all, from, k) \in Nat /\ b \in Nat /\ b \in 0..(Len(s) - 1) /\ At(all, from, k) =< b /\ b =< Len(s)
  BY <1>2, <1>4, <1>5, <1>6
<1>8. EndOf(all, k) =< b
  <2>1. EndOf(all, k) =< At(all, from, k)
    BY <1>2, <1>5, EndBeforeNext
  <2>2. EndOf(all, k) \in Nat
    BY <1>2, <1>5, EndsInside
  <2> QED
    BY <1>7, <2>1, <2>2
<1>9. PICK c : c = b + d
  OBVIOUS
<1>10. PICK v : v = vpVecSource
  OBVIOUS
<1>11. c \in Nat /\ v \in Seq(Nat) /\ Len(v) - c = Len(s) - b /\ SameAhead(v, c, s, b)
  BY <1>2, <1>4, <1>6, <1>7, <1>8, <1>9, <1>10, SourceAhead
<1>12. UnderReplace(all, from, texts, k, d, b)
  BY <1>4, <1>5, <1>6, <1>7, <1>9, <1>10, <1>11 DEF UnderReplace
<1> QED
  BY <1>2, <1>4, <1>12

\* what an attempt finds, the meaning finds where it is in the source passed
LEMMA ReplaceFinds ==
  ASSUME ParsesRight(Seq(Nat)), pattern \in Patterns, LooksRight(pattern), astCallbacks \subseteq Rules,
         call.source \in Seq(Nat), NEW all, NEW from, NEW texts, NEW k, NEW d, NEW b,
         UnderReplace(all, from, texts, k, d, b),
         NEW m, m = MatchAt(pattern, vpVecSource, uiSubStringBeg, astCallbacks)
  PROVE  M(b).ok = m.ok /\ (m.ok => M(b).len = m.len)
<1>1. PICK s \in Seq(Nat) : s = call.source
  OBVIOUS
<1>2. PICK v \in Seq(Nat) : v = vpVecSource
  BY DEF UnderReplace
<1>3. PICK c \in Nat : c = b + d
  BY DEF UnderReplace
<1>4. b \in 0..(Len(s) - 1) /\ SameAhead(v, c, s, b) /\ uiSubStringBeg = c /\ Len(v) - c = Len(s) - b
  BY <1>1, <1>2, <1>3 DEF UnderReplace
<1>5. PICK p \in Patterns : p = pattern
  OBVIOUS
<1>6. PICK cb \in SUBSET RulesOf(p) : cb = astCallbacks
  BY <1>5, Constants DEF Rules
<1>7. m = MatchAt(p, v, c, cb)
  BY <1>2, <1>4, <1>5, <1>6
<1>8. c \in 0..(Len(v) - 1)
  BY <1>4
<1>9. LooksRight(p)
  BY <1>5
<1>10. ParsedAlike(p, v, c, cb, s, b)
  BY ONLY ParsesRight(Seq(Nat)), <1>4, <1>8, <1>9, p \in Patterns, s \in Seq(Nat), v \in Seq(Nat),
          cb \in SUBSET RulesOf(p), RightParses
<1>11. M(b) = MatchAt(p, s, b, {})
  BY <1>1, <1>5 DEF M
<1> QED
  BY ONLY <1>7, <1>10, <1>11 DEF ParsedAlike

LEMMA ReplaceFails ==
  ASSUME ParsesRight(Seq(Nat)), Typed, ReplaceGoesOn, call.op = "replace", pc = "attempt",
         NEW m, m = MatchAt(pattern, vpVecSource, uiSubStringBeg, astCallbacks),
         AttemptFails(uiSubStringBeg, m), UNCHANGED <<object, source, call, vpVecSplitPhrases>>
  PROVE  ReplaceGoesOn'
<1>1. /\ UNCHANGED <<pattern, mode, bEnabled, vpVecSource, vpVecOriginalSource, call, sResult>>
      /\ UNCHANGED <<spRelRules, vpVecRelPhrases, astCallbacks>> /\ ~m.ok /\ pc' \in {"attempt", "found"}
  BY DEF object, source, lists, AttemptFails
<1>2. astCallbacks \subseteq Rules /\ pattern \in Patterns
  BY DEF Typed
<1>3. ASSUME NEW all, NEW from, NEW texts, Plan(all, from, texts)', Bound(all)'
      PROVE  Progress(all, from, texts)'
  <2>1. Plan(all, from, texts) /\ Bound(all)
    BY <1>1, <1>3, PlanStays
  <2>2. /\ call.source \in Seq(Nat) /\ Len(call.source) \in Nat /\ from \in Nat
        /\ IsList(all, from, mode) /\ InOrder(call.source, all) /\ Len(all) \in Nat
        /\ sResult = NoResult
    BY <2>1, AttemptOfReplace
  <2>3. PICK k, d, b : UnderReplace(all, from, texts, k, d, b)
    BY <2>1, AttemptOfReplace
  <2>4. /\ SourceAt(all, texts, k, d) /\ Clear(k) /\ k \in 0..Len(all)
        /\ uiSubStringBeg = b + d /\ uiLastIndex = b + d /\ b + d \in Nat
        /\ \A a \in At(all, from, k)..(b - 1) : ~M(a).ok
        /\ mode = "sticky" => b = At(all, from, k)
    BY <2>3 DEF UnderReplace
  <2>5. PICK at \in Nat : at = At(all, from, k)
    BY <2>3 DEF UnderReplace
  <2>6. PICK n \in Nat : n = Len(call.source)
    BY <2>2
  <2>7. b \in at..(n - 1) /\ b \in Nat
    BY <2>3, <2>5, <2>6 DEF UnderReplace
  <2>8. ~M(b).ok
    BY <1>1, <1>2, <2>1, <2>2, <2>3, ReplaceFinds DEF Bound
  <2>9. \A a \in at..b : ~M(a).ok
    <3>1. \A a \in at..b : a = b \/ a \in at..(b - 1)
      BY <2>7
    <3> QED
      BY <2>4, <2>5, <2>8, <3>1
  <2>10. SourceAt(all, texts, k, d)' /\ Clear(k)' /\ \A a : M(a)' = M(a)
    BY <1>1, <2>4 DEF SourceAt, Clear, ListsClear, Rules, M
  <2>11. PICK c \in Nat : c = b + d
    BY <2>4
  <2>12. d \in Int /\ (c + 1 < Len(vpVecSource) <=> b + 1 < n)
    <3>1. d \in Int /\ Len(vpVecSource) = Len(call.source) + d
      BY <2>2, <2>4, SourceIs
    <3> QED
      BY <2>6, <2>7, <2>11, <3>1
  <2>13. SearchMode = mode /\ uiSubStringBeg = c /\ uiLastIndex = c
    BY <2>4, <2>11 DEF SearchMode
  <2>14. CASE OneMore(uiSubStringBeg)
    <3>1. mode # "sticky" /\ b + 1 < n
      BY <2>12, <2>13, <2>14 DEF OneMore
    <3>2. PICK b1 \in Nat : b1 = b + 1
      BY <2>7
    <3>3. uiSubStringBeg' = b1 + d /\ uiLastIndex' = b1 + d /\ pc' = "attempt"
      <4>1. b1 + d = c + 1
        BY <2>7, <2>11, <2>12, <3>2
      <4>2. uiSubStringBeg' = c + 1 /\ uiLastIndex' = c + 1 /\ pc' = "attempt"
        BY <2>13, <2>14 DEF AttemptFails, NextAttempt
      <4> QED
        BY <4>1, <4>2
    <3>4. b1 \in at..(n - 1) /\ at..(b1 - 1) = at..b
      BY <2>7, <3>1, <3>2
    <3>5. \A a \in at..(b1 - 1) : ~M(a)'.ok
      BY <2>9, <2>10, <3>4
    <3>6. Trying(all, from, texts)'
      BY <1>1, <2>2, <2>5, <2>6, <2>10, <3>1, <3>3, <3>4, <3>5 DEF Trying
    <3> QED
      BY <3>3, <3>6 DEF Progress
  <2>15. CASE ~OneMore(uiSubStringBeg)
    <3>1. mode = "sticky" \/ ~(b + 1 < n)
      BY <2>12, <2>13, <2>15 DEF OneMore
    <3>2. First(at, mode) = {}
      <4>1. CASE mode = "sticky"
        <5>1. b = at
          BY <2>4, <2>5, <4>1
        <5> QED
          BY <2>8, <4>1, <5>1, FirstNowhere
      <4>2. CASE ~(b + 1 < n)
        <5>1. at..(n - 1) = at..b
          BY <2>7, <4>2
        <5> QED
          BY <2>6, <2>9, <5>1, FirstNowhere
      <4> QED
        BY <3>1, <4>1, <4>2
    <3>3. k = Len(all)
      BY <2>2, <2>4, <2>5, <3>2, NoneLeft
    <3>4. pc' = "found"
      BY <2>15 DEF AttemptFails
    <3>5. AllReplaced(all, texts)'
      BY <2>10, <3>3 DEF SourceAt, AllReplaced
    <3> QED
      BY <1>1, <2>2, <3>4, <3>5 DEF Progress, NoResult
  <2> QED
    BY <2>14, <2>15
<1> QED
  BY <1>1, <1>3, ReplaceCall DEF ReplaceGoesOn

LEMMA ReplaceMatches ==
  ASSUME LengthsAreNumbers, ParsesRight(Seq(Nat)), Typed, bEnabled \subseteq Rules, ReplaceGoesOn,
         call.op = "replace", pc = "attempt",
         NEW m, m = MatchAt(pattern, vpVecSource, uiSubStringBeg, astCallbacks),
         AttemptMatches(uiSubStringBeg, m), UNCHANGED <<object, source, call, vpVecSplitPhrases>>
  PROVE  ReplaceGoesOn'
<1>1. UNCHANGED <<pattern, mode, bEnabled, vpVecSource, vpVecOriginalSource, call>> /\ m.ok
  BY DEF object, source, AttemptMatches
<1>2. astCallbacks \subseteq Rules /\ pattern \in Patterns
  BY DEF Typed
<1>3. PICK c : c = uiSubStringBeg
  OBVIOUS
<1>4. MatchResult(c, m) /\ uiLastIndex' = IF mode = "default" THEN 0 ELSE Advance(c, m.len)
  BY <1>3 DEF AttemptMatches, SearchMode
<1>5. /\ sResult'.found = TRUE /\ sResult'.beg = c /\ sResult'.length = m.len
      /\ sResult'.right = Len(vpVecSource) - (c + m.len)
  BY <1>4 DEF MatchResult, RightLength
<1>6. pc' = "found" \/ (pc' = "idle" /\ threw' = TRUE)
  BY <1>4 DEF MatchResult, ReturnTo
<1>7. ASSUME NEW all, NEW from, NEW texts, Plan(all, from, texts)', Bound(all)'
      PROVE  Progress(all, from, texts)'
  <2>1. Plan(all, from, texts) /\ Bound(all)
    BY <1>1, <1>7, PlanStays
  <2>2. /\ call.source \in Seq(Nat) /\ Len(call.source) \in Nat /\ from \in Nat
        /\ IsList(all, from, mode) /\ InOrder(call.source, all) /\ Len(all) \in Nat
    BY <2>1, AttemptOfReplace
  <2>3. PICK k, d, b : UnderReplace(all, from, texts, k, d, b)
    BY <2>1, AttemptOfReplace
  <2>4. /\ SourceAt(all, texts, k, d) /\ Clear(k) /\ k \in 0..Len(all)
        /\ c = b + d /\ c \in Nat
        /\ \A a \in At(all, from, k)..(b - 1) : ~M(a).ok
        /\ mode = "sticky" => b = At(all, from, k)
    BY <1>3, <2>3 DEF UnderReplace
  <2>5. PICK at \in Nat : at = At(all, from, k)
    BY <2>3 DEF UnderReplace
  <2>6. PICK s \in Seq(Nat) : s = call.source
    BY <2>2
  <2>7. b \in at..(Len(s) - 1) /\ b \in Nat /\ b \in 0..(Len(s) - 1)
    BY <2>3, <2>5, <2>6 DEF UnderReplace
  <2>8. M(b).ok /\ M(b).len = m.len
    BY <1>1, <1>2, <2>1, <2>2, <2>3, ReplaceFinds DEF Bound
  <2>9. First(at, mode) = {b}
    <3>1. PICK how : how = mode
      OBVIOUS
    <3>2. First(at, how) = {b}
      BY <2>4, <2>5, <2>6, <2>7, <2>8, <3>1, FirstHere
    <3> QED
      BY <3>1, <3>2
  <2>10. k # Len(all)
    <3>1. SUFFICES ASSUME k = Len(all) PROVE FALSE
      OBVIOUS
    <3>2. mode = "default" /\ Len(all) = 1
      BY <2>2, <2>5, <2>9, <3>1 DEF IsList
    <3> QED
      BY <2>4, <3>1, <3>2 DEF Clear
  <2>11. k \in 0..(Len(all) - 1) /\ k < Len(all) /\ k + 1 # 0 /\ k + 1 \in 1..Len(all)
    BY <2>2, <2>4, <2>10
  <2>12. all[k + 1][1] = b /\ all[k + 1][2] = m.len
    <3>1. First(At(all, from, k), mode) = {all[k + 1][1]} /\ all[k + 1][2] = M(all[k + 1][1]).len
      BY <2>2, <2>11 DEF IsList
    <3>2. all[k + 1][1] = b
      BY <2>5, <2>9, <3>1
    <3> QED
      BY <2>8, <3>1, <3>2
  <2>13. SourceAt(all, texts, k, d)'
    BY <1>1, <2>4 DEF SourceAt
  <2>14. mode # "default" => uiLastIndex' = At(all, from, k + 1) + d
    <3>1. PICK n \in Nat : n = m.len
      <4>1. MatchAt(pattern, vpVecSource, uiSubStringBeg, astCallbacks).len \in Nat
        BY <1>1, <1>2 DEF LengthsAreNumbers
      <4> QED
        BY <4>1
    <3>2. d \in Int
      BY <2>2, <2>4, SourceIs
    <3>3. Advance(c, n) = Advance(b, n) + d
      BY <2>4, <2>7, <3>2 DEF Advance
    <3>4. At(all, from, k + 1) = Advance(b, n)
      BY <2>11, <2>12, <3>1 DEF At
    <3> QED
      BY <1>4, <3>1, <3>3, <3>4
  <2>15. mode = "default" => k = 0 /\ Named(all[k + 1])'
    <3>1. SUFFICES ASSUME mode = "default" PROVE k = 0 /\ Named(all[k + 1])'
      OBVIOUS
    <3>2. k = 0 /\ ListsClear
      BY <2>4, <3>1 DEF Clear
    <3>3. s = vpVecSource /\ d = 0
      <4>1. vpVecSource = RewrittenTo(s, all, texts, 0) /\ d = Moved(s, all, texts, 0)
        BY <2>4, <2>6, <3>2 DEF SourceAt
      <4> QED
        BY <4>1, NoneReplaced
    <3>4. c = b /\ s \in Sources /\ all[k + 1][1] = c
      BY <2>4, <2>6, <2>7, <2>12, <3>3, ReplaceCall
    <3>5. m = MatchAt(pattern, s, c, Rules)
      BY <1>3, <3>2, <3>3 DEF ListsClear
    <3>6. PICK mm : mm = all[k + 1]
      OBVIOUS
    <3>7. \A r : NamePhrase(r)' = FirstPhrase(r, mm)
      <4>1. c \in 0..(Len(s) - 1) /\ mm[1] = c
        BY <2>7, <3>4, <3>6
      <4>2. UNCHANGED <<object, source, call>>
        OBVIOUS
      <4> QED
        BY ONLY <1>1, <1>2, <1>4, <2>6, <3>2, <3>3, <3>4, <3>5, <4>1, <4>2, bEnabled \subseteq Rules, NamesFound
    <3>8. \A r : FirstPhrase(r, mm)' = FirstPhrase(r, mm)
      BY <1>1 DEF FirstPhrase, Rules
    <3>9. Named(mm)'
      BY <3>7, <3>8 DEF Named
    <3> QED
      BY <3>2, <3>6, <3>9
  <2>16. Matched(all, from, texts)'
    <3>1. sResult'.beg = all[k + 1][1] + d /\ sResult'.length = all[k + 1][2]
      BY <1>5, <2>4, <2>12
    <3>2. sResult'.right = Len(vpVecSource') - (sResult'.beg + sResult'.length)
      BY <1>1, <1>5
    <3> QED
      BY <1>1, <2>11, <2>13, <2>14, <2>15, <3>1, <3>2 DEF Matched
  <2> QED
    BY <1>5, <1>6, <2>16 DEF Progress
<1> QED
  BY <1>1, <1>6, <1>7, ReplaceCall DEF ReplaceGoesOn

\* the match after the k-th, where it is now: k matches have been replaced
AtMatch(all, from, texts, k, d, s, b, len, c, v) ==
  /\ SourceAt(all, texts, k, d) /\ k \in 0..(Len(all) - 1)
  /\ s = call.source /\ v = vpVecSource
  /\ b = all[k + 1][1] /\ len = all[k + 1][2] /\ b \in 0..(Len(s) - 1) /\ len \in Nat
  /\ b + len =< Len(s) /\ M(b).ok
  /\ c = b + d /\ c \in Nat /\ SameAhead(v, c, s, b)
  /\ sResult.beg = c /\ sResult.length = len /\ sResult.right = Len(v) - (c + len)

LEMMA MatchOfReplace ==
  ASSUME ParsesRight(Seq(Nat)), Typed, ReplaceGoesOn, call.op = "replace", pc = "found", sResult.found,
         NEW all, NEW from, NEW texts, Plan(all, from, texts), Bound(all)
  PROVE  /\ call.source \in Seq(Nat) /\ vpVecSource \in Seq(Nat) /\ from \in Nat /\ Measured
         /\ Len(call.source) \in Nat
         /\ IsList(all, from, mode) /\ InOrder(call.source, all) /\ Len(all) \in Nat
         /\ \E k, d, s, b, len, c, v :
              /\ AtMatch(all, from, texts, k, d, s, b, len, c, v)
              /\ mode # "default" => uiLastIndex = At(all, from, k + 1) + d
              /\ mode = "default" => k = 0 /\ Named(all[k + 1])
<1>1. pattern \in Patterns /\ LooksRight(pattern)
  BY ReplaceCall DEF Bound
<1>2. /\ call.source \in Seq(Nat) /\ Len(call.source) \in Nat /\ Measured /\ from \in Nat
      /\ IsList(all, from, mode) /\ InOrder(call.source, all) /\ Len(all) \in Nat
  BY <1>1, PlanIs
<1>3. Matched(all, from, texts)
  BY DEF ReplaceGoesOn, Progress
<1>4. PICK k, d :
        /\ SourceAt(all, texts, k, d) /\ k < Len(all)
        /\ sResult.beg = all[k + 1][1] + d /\ sResult.length = all[k + 1][2]
        /\ sResult.right = Len(vpVecSource) - (sResult.beg + sResult.length)
        /\ mode # "default" => uiLastIndex = At(all, from, k + 1) + d
        /\ mode = "default" => k = 0 /\ Named(all[k + 1])
  BY <1>3 DEF Matched
<1>5. k \in 0..Len(all)
  BY <1>4 DEF SourceAt
<1>6. k \in 0..(Len(all) - 1) /\ k + 1 \in 1..Len(all)
  BY <1>2, <1>4, <1>5
<1>7. PICK s : s = call.source
  OBVIOUS
<1>8. PICK v : v = vpVecSource
  OBVIOUS
<1>9. PICK b : b = all[k + 1][1]
  OBVIOUS
<1>10. PICK len : len = all[k + 1][2]
  OBVIOUS
<1>11. /\ First(At(all, from, k), mode) = {b} /\ b \in 0..(Len(s) - 1)
       /\ EndOf(all, k) =< b /\ b + len =< Len(s)
  BY <1>2, <1>6, <1>7, <1>9, <1>10 DEF IsList, InOrder
<1>12. M(b).ok
  <2>1. b \in First(At(all, from, k), mode)
    BY <1>11
  <2> QED
    BY <2>1 DEF First, Matching
<1>13. len \in Nat
  BY <1>2, <1>6, <1>10, ListRises
<1>14. b \in Nat /\ b =< Len(s) /\ EndOf(all, k) =< b
  BY <1>2, <1>7, <1>11
<1>15. PICK c : c = b + d
  OBVIOUS
<1>16. c \in Nat /\ v \in Seq(Nat) /\ Len(v) - c = Len(s) - b /\ SameAhead(v, c, s, b)
  <2>1. InOrder(s, all) /\ SourceAt(all, texts, k, d)
    BY <1>2, <1>4, <1>7
  <2> QED
    BY ONLY <1>7, <1>8, <1>14, <1>15, <2>1, SourceAhead
<1>17. AtMatch(all, from, texts, k, d, s, b, len, c, v)
  BY <1>4, <1>6, <1>7, <1>8, <1>9, <1>10, <1>11, <1>12, <1>13, <1>15, <1>16 DEF AtMatch
<1> QED
  BY <1>2, <1>4, <1>8, <1>16, <1>17

\* what vReplacement makes of the match is its text
LEMMA TextOfMatch ==
  ASSUME Junk \in Nat, pattern \in Patterns, call.source \in Sources, call.source \in Seq(Nat),
         vpVecOriginalSource = call.source, vpVecSource \in Seq(Nat),
         NEW raw \in Seq(TokenType), raw = call.arg, ~Malformed(raw),
         NEW all, Regular(raw, all), NEW from, NEW texts, Plan(all, from, texts), InOrder(call.source, all),
         NEW k, NEW d, NEW s, NEW b, NEW len, NEW c, NEW v, AtMatch(all, from, texts, k, d, s, b, len, c, v),
         mode = "default" => k = 0 /\ Named(all[k + 1])
  PROVE  Replacement(raw) = texts[k + 1] /\ Written(texts, k + 1)
<1>1. /\ s = call.source /\ s \in Seq(Nat) /\ s \in Sources /\ v = vpVecSource /\ v \in Seq(Nat)
      /\ b \in 0..(Len(s) - 1) /\ b \in Nat /\ len \in Nat /\ b + len =< Len(s) /\ M(b).ok
      /\ c = b + d /\ c \in Nat /\ SameAhead(v, c, s, b)
      /\ sResult.beg = c /\ sResult.length = len /\ sResult.right = Len(v) - (c + len)
  BY DEF AtMatch
<1>2. SourceAt(all, texts, k, d) /\ k \in 0..(Len(all) - 1) /\ all[k + 1][1] = b /\ all[k + 1][2] = len
  BY DEF AtMatch
<1>3. Len(all) \in Nat /\ DOMAIN all = 1..Len(all)
  BY DEF InOrder
<1>4. k + 1 \in DOMAIN all /\ k \in Nat
  BY <1>2, <1>3
<1>5. PICK m : m = all[k + 1]
  OBVIOUS
<1>6. m[1] = b /\ m[2] = len
  BY <1>2, <1>5
<1>7. texts[k + 1] = Expanded(raw, m)
  BY <1>4, <1>5 DEF Plan, Texts
<1>8. Expanded(raw, m) \in Seq(Nat)
  BY <1>1, <1>6, ExpandedType
<1>9. Written(texts, k + 1)
  <2>1. Written(texts, k)
    BY <1>2 DEF SourceAt
  <2>2. \A j \in 1..(k + 1) : j = k + 1 \/ j \in 1..k
    BY <1>4
  <2> QED
    BY <1>7, <1>8, <2>1, <2>2 DEF Written
<1>10. mode = "default" => v = s /\ c = b /\ Named(m)
  <2>1. SUFFICES ASSUME mode = "default" PROVE v = s /\ c = b /\ Named(m)
    OBVIOUS
  <2>2. k = 0 /\ Named(m)
    BY <1>5, <2>1
  <2>3. v = RewrittenTo(s, all, texts, 0) /\ d = Moved(s, all, texts, 0)
    BY <1>1, <1>2, <2>2 DEF SourceAt
  <2>4. v = s /\ d = 0
    BY <1>1, <2>3, NoneReplaced
  <2> QED
    BY <1>1, <2>2, <2>4
<1>11. /\ ~OneCharacter(raw)
       /\ \A i \in DOMAIN raw : raw[i].id = "SOURCE" => len # 0
       /\ \A i \in DOMAIN raw : raw[i].id \in {"NAME", "LEFT"} =>
            v = s /\ c = b /\ \A r : NamePhrase(r) = FirstPhrase(r, m)
  <2>1. ~OneCharacter(raw)
    BY DEF Regular
  <2>2. \A i \in DOMAIN raw : raw[i].id = "SOURCE" => len # 0
    BY <1>2, <1>4 DEF Regular
  <2>3. \A i \in DOMAIN raw : raw[i].id \in {"NAME", "LEFT"} => mode = "default"
    BY DEF Regular
  <2> QED
    BY <1>10, <2>1, <2>2, <2>3 DEF Named
<1>12. Replacement(raw) = Expanded(raw, m)
  <2>1. s = call.source /\ vpVecOriginalSource = s
    BY <1>1
  <2>2. ResultAt(s, v, b, len, c)
    BY <1>1 DEF ResultAt
  <2>3. Fits(raw, s, v, b, len, c, m)
    BY <1>11 DEF Fits
  <2>4. s \in Seq(Nat) /\ v \in Seq(Nat) /\ v = vpVecSource /\ b \in Nat /\ len \in Nat /\ c \in Nat
    BY <1>1
  <2> QED
    BY ONLY <1>6, <2>1, <2>2, <2>3, <2>4, raw \in Seq(TokenType), ~Malformed(raw), ReplacementIs
<1> QED
  BY <1>7, <1>9, <1>12

LEMMA ReplaceAdds ==
  ASSUME ParsesRight(Seq(Nat)), Replacements \subseteq Seq(TokenType), Junk \in Nat, Typed, ReplaceGoesOn,
         call.op = "replace", ReplaceStep
  PROVE  ReplaceGoesOn'
<1>1. /\ UNCHANGED <<pattern, mode, bEnabled, call, vpVecOriginalSource, sResult>>
      /\ UNCHANGED <<spRelRules, vpVecRelPhrases>> /\ pc = "found" /\ sResult.found
  BY DEF ReplaceStep, object, lists
<1>2. /\ vpVecOriginalSource = call.source /\ call.arg \in Replacements /\ pattern \in Patterns
      /\ call.source \in Sources /\ call.source \in Seq(Nat)
  BY <1>1, ReplaceCall
<1>3. PICK raw \in Seq(TokenType) : raw = call.arg
  BY <1>2
<1>4. CASE pc' = "exited" \/ (pc' = "idle" /\ threw' = TRUE)
  BY <1>4 DEF ReplaceGoesOn, Progress
<1>5. CASE ~(pc' = "exited" \/ (pc' = "idle" /\ threw' = TRUE))
  <2>1. ~Malformed(raw) /\ ReplaceMatch(Replacement(raw))
    BY <1>3, <1>5 DEF ReplaceStep, ReturnTo
  <2>2. PICK new : new = Replacement(raw)
    OBVIOUS
  <2>3. ReplaceMatch(new)
    BY <2>1, <2>2
  <2>4. IF mode = "default" THEN pc' = "idle" /\ threw' = FALSE /\ uiLastIndex' = 0
        ELSE pc' = "search" /\ uiLastIndex' = uiLastIndex + Len(new) - sResult.length
    BY <2>3 DEF ReplaceMatch, ReturnTo, NextIndex
  <2>5. ASSUME NEW all, NEW from, NEW texts, Plan(all, from, texts)', Bound(all)'
        PROVE  Progress(all, from, texts)'
    <3>1. Plan(all, from, texts) /\ Bound(all)
      BY <1>1, <2>5, PlanStays
    <3>2. /\ vpVecSource \in Seq(Nat) /\ from \in Nat /\ Measured /\ Len(call.source) \in Nat
          /\ IsList(all, from, mode) /\ InOrder(call.source, all) /\ Len(all) \in Nat
      BY <1>1, <3>1, MatchOfReplace
    <3>3. PICK k, d, s, b, len, c, v :
            /\ AtMatch(all, from, texts, k, d, s, b, len, c, v)
            /\ mode # "default" => uiLastIndex = At(all, from, k + 1) + d
            /\ mode = "default" => k = 0 /\ Named(all[k + 1])
      BY <1>1, <3>1, MatchOfReplace
    <3>4. new = texts[k + 1] /\ Written(texts, k + 1)
      <4>1. Regular(raw, all)
        BY <1>3, <3>1 DEF Bound
      <4> QED
        BY <1>2, <1>3, <2>1, <2>2, <3>1, <3>2, <3>3, <4>1, TextOfMatch
    <3>5. /\ SourceAt(all, texts, k, d) /\ k \in 0..(Len(all) - 1)
          /\ s = call.source /\ v = vpVecSource /\ c = b + d
          /\ b = all[k + 1][1] /\ len = all[k + 1][2] /\ len \in Nat
          /\ sResult.beg = c /\ sResult.length = len /\ sResult.right = Len(v) - (c + len)
      BY <3>3 DEF AtMatch
    <3>6. v = RewrittenTo(s, all, texts, k) /\ d = Moved(s, all, texts, k)
      BY <3>5 DEF SourceAt
    <3>7. PICK x : x = Slice(v, 0, c) \o new \o Slice(v, c + len, Len(v) - (c + len))
      OBVIOUS
    <3>8. x = RewrittenTo(s, all, texts, k + 1) /\ Moved(s, all, texts, k + 1) = d + Len(new) - len
      <4>1. InOrder(s, all) /\ k \in 0..(Len(all) - 1) /\ c = all[k + 1][1] + Moved(s, all, texts, k)
        BY <3>2, <3>5, <3>6
      <4>2. NextIs(s, all, texts, k, v, c, len, new)
        BY <3>4, <3>5, <3>6, <4>1 DEF NextIs
      <4>3. PutIn(s, all, texts, k, v, c, len, new)
        BY ONLY <3>4, <4>1, <4>2, ReplacesOne
      <4> QED
        BY <3>6, <3>7, <4>3 DEF PutIn
    <3>9. vpVecSource' = x
      BY <2>3, <3>5, <3>7 DEF ReplaceMatch
    <3>10. PICK e : e = Moved(s, all, texts, k + 1)
      OBVIOUS
    <3>11. SourceAt(all, texts, k + 1, e)'
      <4>1. k + 1 \in 0..Len(all)
        BY <3>2, <3>5
      <4> QED
        BY <1>1, <3>4, <3>5, <3>8, <3>9, <3>10, <4>1 DEF SourceAt
    <3>12. CASE mode = "default"
      <4>1. pc' = "idle" /\ threw' = FALSE
        BY <2>4, <3>12
      <4>2. k + 1 = Len(all)
        <5>1. Len(MatchList(from, "default")) \in {0, 1}
          BY <3>2, DefaultIsOne
        <5>2. Len(all) \in {0, 1}
          BY <3>1, <3>12, <5>1 DEF Plan
        <5>3. PICK n \in Nat : n = Len(all)
          BY <3>2
        <5>4. k \in 0..(n - 1) /\ n \in {0, 1}
          BY <3>5, <5>2, <5>3
        <5> QED
          BY ONLY <5>3, <5>4
      <4>3. AllReplaced(all, texts)'
        BY <3>11, <4>2 DEF SourceAt, AllReplaced
      <4> QED
        BY <4>1, <4>3 DEF Progress
    <3>13. CASE mode # "default"
      <4>1. pc' = "search" /\ uiLastIndex' = uiLastIndex + Len(new) - len
        BY <2>4, <3>5, <3>13
      <4>2. uiLastIndex' = At(all, from, k + 1) + e
        <5>1. At(all, from, k + 1) \in Nat
          <6>1. k + 1 \in 0..Len(all)
            BY <3>2, <3>5
          <6> QED
            BY <3>2, <6>1, ListRises
        <5>2. PICK at \in Nat : at = At(all, from, k + 1)
          BY <5>1
        <5>3. PICK n \in Nat : n = Len(new)
          <6>1. new \in Seq(Nat)
            <7>1. k + 1 \in 1..(k + 1)
              BY <3>5
            <7> QED
              BY <3>4, <7>1 DEF Written
          <6> QED
            BY <6>1
        <5>4. d \in Int
          BY <3>2, <3>5, SourceIs
        <5>5. uiLastIndex' = at + d + n - len /\ e = d + n - len
          BY <3>3, <3>8, <3>10, <3>13, <4>1, <5>2, <5>3
        <5>6. len \in Nat
          BY <3>5
        <5>7. uiLastIndex' = at + e
          BY ONLY <5>4, <5>5, <5>6, at \in Nat, n \in Nat
        <5> QED
          BY <5>2, <5>7
      <4>3. k + 1 # 0
        BY <3>5
      <4>4. Clear(k + 1)'
        BY <1>1, <3>13 DEF Clear
      <4>5. Searching(all, from, texts)'
        BY <3>11, <4>2, <4>3, <4>4 DEF Searching
      <4> QED
        BY <4>1, <4>5 DEF Progress
    <3> QED
      BY <3>12, <3>13
  <2> QED
    BY <1>1, <1>2, <2>4, <2>5 DEF ReplaceGoesOn
<1> QED
  BY <1>4, <1>5

\* sApgexReplace ends when no match is found
LEMMA ReplaceEndsSo ==
  ASSUME Typed, ReplaceGoesOn, call.op = "replace", ReplaceReturn
  PROVE  ReplaceGoesOn'
<1>1. /\ UNCHANGED <<pattern, mode, bEnabled, call, vpVecSource>>
      /\ pc = "found" /\ ~sResult.found /\ pc' = "idle" /\ uiLastIndex' = 0
  BY DEF ReplaceReturn, ReturnTo, object, source
<1>2. ASSUME NEW all, NEW from, NEW texts, Plan(all, from, texts)', Bound(all)'
      PROVE  Progress(all, from, texts)'
  <2>1. Plan(all, from, texts) /\ Bound(all)
    BY <1>1, <1>2, PlanStays
  <2>2. AllReplaced(all, texts)
    BY <1>1, <2>1 DEF ReplaceGoesOn, Progress
  <2>3. AllReplaced(all, texts)'
    BY <1>1, <2>2 DEF AllReplaced
  <2> QED
    BY <1>1, <2>3 DEF Progress
<1> QED
  BY <1>1, <1>2 DEF ReplaceGoesOn

LEMMA ReplaceBegins ==
  ASSUME Typed, Call
  PROVE  ReplaceGoesOn'
<1>1. PICK src \in Sources :
        \/ Exec(src) \/ Test(src)
        \/ \E raw \in Replacements : Replace("replace", src, raw)
        \/ FuncPhrases # {} /\ Replace("func", src, << >>)
        \/ \E limit \in Limits : Split(src, limit)
  BY DEF Call
<1>2. CASE Exec(src) \/ Test(src) \/ Replace("func", src, << >>)
  <2>1. \E op \in {"exec", "test", "func"} : \E arg : call' = Begin(op, src, arg)
    BY <1>2 DEF Exec, Test, Replace
  <2>2. \A op, arg : Begin(op, src, arg).op = op
    BY DEF Begin
  <2>3. call'.op # "replace"
    BY <2>1, <2>2
  <2> QED
    BY <2>3 DEF ReplaceGoesOn
<1>3. CASE \E limit \in Limits : Split(src, limit)
  <2>1. call'.op # "replace"
    BY <1>3 DEF Split, Begin
  <2> QED
    BY <2>1 DEF ReplaceGoesOn
<1>4. CASE \E raw \in Replacements : Replace("replace", src, raw)
  <2>1. PICK raw \in Replacements : Replace("replace", src, raw)
    BY <1>4
  <2>2. call'.source = src /\ call'.arg = raw /\ call'.from = uiLastIndex
    BY <2>1 DEF Replace, Begin
  <2>3. CASE src = << >> \/ pattern = NoPattern
    <3>1. pc' = "idle" /\ threw' = TRUE
      BY <2>1, <2>3 DEF Replace, Throws, ReturnTo
    <3> QED
      BY <3>1 DEF ReplaceGoesOn, Progress
  <2>4. CASE ~(src = << >> \/ pattern = NoPattern)
    <3>1. /\ vpVecSource' = src /\ vpVecOriginalSource' = src /\ pc' = "search" /\ sResult' = NoResult
          /\ spRelRules' = ClearedRules(Rules) /\ vpVecRelPhrases' = << >> /\ astCallbacks' = Rules
          /\ UNCHANGED <<pattern, uiLastIndex>>
      BY <2>1, <2>4 DEF Replace, ClearForParse, Searches, object
    <3>2. ListsClear'
      BY <3>1 DEF ListsClear, Rules
    <3>3. ReplaceFresh'
      BY <2>2, <3>1, <3>2 DEF ReplaceFresh
    <3>4. pattern' \in Patterns
      BY <2>4, <3>1 DEF Typed
    <3> QED
      BY <2>2, <3>1, <3>3, <3>4 DEF ReplaceGoesOn, Progress
  <2> QED
    BY <2>3, <2>4
<1> QED
  BY <1>1, <1>2, <1>3, <1>4

LEMMA ReplaceRests ==
  ASSUME ReplaceGoesOn, UNCHANGED vars
  PROVE  ReplaceGoesOn'
<1>1. /\ UNCHANGED <<pattern, mode, bEnabled, pc, call, uiLastIndex, uiSubStringBeg, vpVecSource>>
      /\ UNCHANGED <<vpVecOriginalSource, sResult, threw, spRelRules, vpVecRelPhrases, astCallbacks>>
  BY DEF vars, object, source, lists, ast
<1>2. /\ \A all, from, texts : Plan(all, from, texts)' <=> Plan(all, from, texts)
      /\ \A all : Bound(all)' <=> Bound(all)
  BY <1>1, PlanStays
<1>3. \A k : Clear(k)' <=> Clear(k)
  BY <1>1 DEF Clear, ListsClear, Rules
<1>4. \A all, texts, k, d : SourceAt(all, texts, k, d)' <=> SourceAt(all, texts, k, d)
  BY <1>1 DEF SourceAt
<1>5. \A m : Named(m)' <=> Named(m)
  <2>1. \A r, m : FirstPhrase(r, m)' = FirstPhrase(r, m)
    BY <1>1 DEF FirstPhrase, Rules
  <2>2. \A r : NamePhrase(r)' = NamePhrase(r)
    BY <1>1 DEF NamePhrase
  <2> QED
    BY <2>1, <2>2 DEF Named
<1>6. \A a : M(a)' = M(a)
  BY <1>1 DEF M
<1>7. ASSUME NEW all, NEW from, NEW texts
      PROVE  Progress(all, from, texts)' <=> Progress(all, from, texts)
  <2>1. Searching(all, from, texts)' <=> Searching(all, from, texts)
    BY <1>1, <1>3, <1>4 DEF Searching
  <2>2. Trying(all, from, texts)' <=> Trying(all, from, texts)
    BY <1>1, <1>3, <1>4, <1>6 DEF Trying
  <2>3. Matched(all, from, texts)' <=> Matched(all, from, texts)
    BY <1>1, <1>4, <1>5 DEF Matched
  <2>4. AllReplaced(all, texts)' <=> AllReplaced(all, texts)
    BY <1>1 DEF AllReplaced
  <2>5. ReplaceFresh' <=> ReplaceFresh
    BY <1>1 DEF ReplaceFresh, ListsClear, Rules
  <2> QED
    BY <1>1, <2>1, <2>2, <2>3, <2>4, <2>5 DEF Progress
<1> QED
  BY <1>1, <1>2, <1>7 DEF ReplaceGoesOn

LEMMA ReplaceInvNext ==
  ASSUME LengthsAreNumbers, ParsesRight(Seq(Nat)), Replacements \subseteq Seq(TokenType), Junk \in Nat,
         SearchInv, bEnabled \subseteq Rules, ReplaceGoesOn, [Next]_vars
  PROVE  ReplaceGoesOn'
<1>1. Typed
  BY DEF SearchInv
<1>2. CASE Setup
  <2>1. call' = SetUp
    BY <1>2 DEF Setup, Pattern, EnableRules, SetLastIndex, NewSetting
  <2>2. call'.op # "replace"
    BY <2>1 DEF SetUp
  <2> QED
    BY <2>2 DEF ReplaceGoesOn
<1>3. CASE Call
  BY <1>1, <1>3, ReplaceBegins
<1>4. CASE Step
  <2>1. CASE call.op # "replace"
    <3>1. call'.op = call.op
      <4>1. PICK f, s, o, a, b, l : CallIs(f, s, o, a, b, l)
        BY <1>1, <1>4 DEF Typed, Step, Search, Attempt, ExecReturn, TestReturn, ReplaceStep, ReplaceReturn, SplitStep
      <4> QED
        BY <1>4, <4>1 DEF CallIs, Step, Search, Attempt, ExecReturn, TestReturn, ReplaceStep, ReplaceReturn, SplitStep
    <3> QED
      BY <2>1, <3>1 DEF ReplaceGoesOn
  <2>2. CASE call.op = "replace"
    <3>1. ~(ExecReturn \/ TestReturn \/ SplitStep)
      BY <2>2 DEF ExecReturn, TestReturn, SplitStep
    <3>2. CASE Search
      BY <1>1, <2>2, <3>2, ReplaceSearch
    <3>3. CASE Attempt
      <4>1. PICK m : /\ m = MatchAt(pattern, vpVecSource, uiSubStringBeg, astCallbacks)
                     /\ AttemptMatches(uiSubStringBeg, m) \/ AttemptFails(uiSubStringBeg, m)
        BY <3>3 DEF Attempt
      <4>2. pc = "attempt" /\ UNCHANGED <<object, source, call, vpVecSplitPhrases>>
        BY <3>3 DEF Attempt
      <4>3. CASE AttemptMatches(uiSubStringBeg, m)
        BY <1>1, <2>2, <4>1, <4>2, <4>3, ReplaceMatches
      <4>4. CASE AttemptFails(uiSubStringBeg, m)
        BY <1>1, <2>2, <4>1, <4>2, <4>4, ReplaceFails
      <4> QED
        BY <4>1, <4>3, <4>4
    <3>4. CASE ReplaceStep
      BY <1>1, <2>2, <3>4, ReplaceAdds
    <3>5. CASE ReplaceReturn
      BY <1>1, <2>2, <3>5, ReplaceEndsSo
    <3> QED
      BY <1>4, <3>1, <3>2, <3>3, <3>4, <3>5 DEF Step
  <2> QED
    BY <2>1, <2>2
<1>5. CASE UNCHANGED vars
  BY <1>5, ReplaceRests
<1> QED
  BY <1>2, <1>3, <1>4, <1>5 DEF Next

\* What sApgexReplace returns: the source passed with every match of the mode replaced, as if all
\* had been found before the first was replaced, though the search goes on in the source that is
\* being rewritten; the index is 0. For every source and every pattern that looks only right of
\* where it begins, and every replacement that Regular admits, whatever was set, matched, replaced
\* or split on the object before. The pattern finds the same where the same follows, the tokens of
\* a replacement are those vReplacement knows, and what is past the end of a source is a character.
THEOREM ReplaceRewrites ==
  ASSUME LengthsAreNumbers, ParsesRight(Seq(Nat)), Replacements \subseteq Seq(TokenType), Junk \in Nat
  PROVE  Spec => []ReplaceIsRewrite
<1>1. Init => SearchInv /\ PhrasesInv /\ ReplaceGoesOn
  <2>1. Init => ReplaceGoesOn
    BY DEF Init, ReplaceGoesOn, SetUp
  <2> QED
    BY <2>1, SearchInvInit, PhrasesInvInit
<1>2. (SearchInv /\ PhrasesInv /\ ReplaceGoesOn) /\ [Next]_vars => (SearchInv /\ PhrasesInv /\ ReplaceGoesOn)'
  <2>1. PhrasesInv => bEnabled \subseteq Rules
    BY DEF PhrasesInv
  <2> QED
    BY <2>1, SearchInvNext, PhrasesInvNext, ReplaceInvNext
<1>3. SearchInv /\ PhrasesInv /\ ReplaceGoesOn => ReplaceIsRewrite
  <2>1. SUFFICES ASSUME ReplaceGoesOn, pc = "idle", ~threw, call.op = "replace"
                 PROVE  ReplaceIsRewrite
    BY DEF ReplaceIsRewrite, Returned
  <2>2. PICK all : all = MatchList(call.from, mode)
    OBVIOUS
  <2>3. PICK texts : texts = Texts(call.arg, all)
    OBVIOUS
  <2>4. Plan(all, call.from, texts)
    BY <2>2, <2>3 DEF Plan
  <2>5. uiLastIndex = 0 /\ (Bound(all) => Progress(all, call.from, texts))
    BY <2>1, <2>4 DEF ReplaceGoesOn
  <2>6. Bound(all) => vpVecSource = Replaced(call.arg, all)
    BY <2>1, <2>3, <2>5 DEF Progress, AllReplaced, Replaced, Texts
  <2> QED
    BY <2>2, <2>5, <2>6 DEF ReplaceIsRewrite, Bound
<1> QED
  BY <1>1, <1>2, <1>3, PTL DEF Spec
=============================================================================
