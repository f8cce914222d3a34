----------------------------- MODULE JsonReader -----------------------------
(***************************************************************************)
(* Reading JSON (json/json.c, json/parser-callbacks.c): the grammar of     *)
(* json/json.abnf over tokens, and the rule callbacks that collect the     *)
(* values while it is parsed. Besides the tokens that are written there    *)
(* are "bad", a string with a character that is refused, and "junk", what  *)
(* no rule matches; and in a number that has an exponent and no fraction   *)
(* the e is one of the digits. An exponent with a sign is left out.        *)
(*                                                                         *)
(* The context j is the part of the json object that a read works on. An   *)
(* index into a vector counts from 1, and 0 is APG_UNDEFINED or NULL.      *)
(* For checking only: the definitions are recursive.                       *)
(***************************************************************************)
EXTENDS JsonValues

CONSTANTS
  FrameReserve,  \* the elements vpVecFrames is constructed for
  UintMod,       \* the numbers a uint64_t holds
  IntMax         \* the largest int64_t

ValueR(key) == [uiId |-> "none", uiKey |-> key, uiChildCount |-> 0, uiChildListOffset |-> 0,
                uiString |-> 0, number |-> NoData]

\* vpJsonCtor, as far as a read works on it
NewReader ==
  [text |-> << >>, pos |-> 1, ok |-> TRUE, threw |-> FALSE, undefined |-> FALSE,
   uiReserved |-> FrameReserve, spCurrentFrame |-> 0,
   vpVecFrames |-> << >>, vpVecValuesr |-> << >>, vpVecStringsr |-> << >>, vpVecChildIndexes |-> << >>]

Tok(j) == IF j.pos > Len(j.text) THEN "end" ELSE j.text[j.pos].t
Data(j) == j.text[j.pos].d
Ok(j)  == [j EXCEPT !.ok = TRUE]
Fails(j) == [j EXCEPT !.ok = FALSE]
Throw(j) == [j EXCEPT !.threw = TRUE]
Past(j) == [j EXCEPT !.pos = @ + 1, !.ok = TRUE]

-----------------------------------------------------------------------------
(* Numbers.                                                                *)

Failure == -1

\* bMultiplyUint and bSumUint, and one more digit
MultiplyUint(l, r) == LET a == (l * r) % UintMod IN IF l = 0 \/ a \div r = l THEN a ELSE Failure
SumUint(l, r) == LET a == (l + r) % UintMod IN IF a < r THEN Failure ELSE a
UintDigit(n, digit) ==
  IF n = Failure THEN Failure
  ELSE LET tens == MultiplyUint(n, 10) IN IF tens = Failure THEN Failure ELSE SumUint(tens, digit)

StringToUint(digits) == FoldLeft(UintDigit, Head(digits), Tail(digits))

(***************************************************************************)
(* bStringToInt looks for a sum or product below 0. The overflow of an     *)
(* int64_t is undefined: it wraps here, and the test is there or, when the *)
(* compiler has removed it, not.                                           *)
(***************************************************************************)
Wrap(n) == LET m == n % UintMod IN IF m > IntMax THEN m - UintMod ELSE m
StringToInt(digits, tested) ==
  LET Tested(n) == IF tested /\ n < 0 THEN Failure ELSE n
      IntDigit(n, digit) ==
        IF n = Failure THEN Failure
        ELSE LET tens == Tested(Wrap(n * 10)) IN
             IF tens = Failure THEN Failure ELSE Tested(Wrap(tens + digit))
  IN FoldLeft(IntDigit, Head(digits), Tail(digits))

DecimalDigits(digits) == FoldLeft(LAMBDA n, digit : n * 10 + digit, 0, digits)

-----------------------------------------------------------------------------
(* The callbacks.                                                          *)

\* the key that vPushFrameAndValue takes from the frame below, after the push: the frames may
\* have moved, and then the pointer to the frame below is to what was freed
KeyBelow(j) ==
  IF j.spCurrentFrame \in DOMAIN j.vpVecFrames THEN j.vpVecFrames[j.spCurrentFrame].uiNextKey ELSE 0

ValueActive(j) ==
  LET full == Len(j.vpVecFrames) = j.uiReserved IN
  [j EXCEPT !.vpVecFrames = Append(@, [uiNextKey |-> 0, uiValue |-> Len(j.vpVecValuesr) + 1, vpVecIndexes |-> << >>]),
            !.uiReserved = IF full THEN 2 * @ ELSE @,
            !.undefined = @ \/ (full /\ j.spCurrentFrame # 0),
            !.vpVecValuesr = Append(@, ValueR(KeyBelow(j))),
            !.spCurrentFrame = Len(j.vpVecFrames) + 1]

Frame(j) == j.vpVecFrames[j.spCurrentFrame]

\* vPopFrame: its sanity check compares the popped frame with the current one
PopFrame(j) ==
  IF j.spCurrentFrame = 0 THEN j
  ELSE IF j.spCurrentFrame # Len(j.vpVecFrames) THEN Throw(j)
  ELSE [j EXCEPT !.vpVecFrames = Front(@), !.spCurrentFrame = Len(j.vpVecFrames) - 1]

\* the value that is complete is a child of the frame below
Reported(frame, value) == [frame EXCEPT !.vpVecIndexes = Append(@, value)]

ValueMatch(j) ==
  LET frame == Frame(j)
      children == Len(frame.vpVecIndexes)
      offset == IF children = 0 THEN 0 ELSE Len(j.vpVecChildIndexes) + 1
      kept == [j EXCEPT !.vpVecValuesr[frame.uiValue].uiChildCount = children,
                        !.vpVecValuesr[frame.uiValue].uiChildListOffset = offset,
                        !.vpVecChildIndexes = @ \o frame.vpVecIndexes]
      popped == PopFrame(kept)
  IN IF popped.threw \/ popped.spCurrentFrame = 0 THEN popped
     ELSE [popped EXCEPT !.vpVecFrames[popped.spCurrentFrame] = Reported(@, frame.uiValue)]

ValueNomatch(j) ==
  LET popped == PopFrame(j) IN IF popped.threw THEN popped ELSE [popped EXCEPT !.vpVecValuesr = Front(@)]

\* vTrue, vFalse, vNull, vObjectBegin, vArrayBegin
IsOf(j, id) == [j EXCEPT !.vpVecValuesr[Frame(j).uiValue].uiId = id]

\* vKeyBegin, vStringBegin, with the characters of vChar and vStringContent
KeyBegin(j) ==
  [j EXCEPT !.vpVecFrames[j.spCurrentFrame].uiNextKey = Len(j.vpVecStringsr) + 1,
            !.vpVecStringsr = Append(@, Data(j))]
StringBegin(j) ==
  [IsOf(j, "STRING") EXCEPT !.vpVecValuesr[Frame(j).uiValue].uiString = Len(j.vpVecStringsr) + 1,
                            !.vpVecStringsr = Append(@, Data(j))]

\* vNumber
NumberMatch(j, tested) ==
  LET n == CASE Tok(j) = "float" -> DecimalDigits(Data(j))
             [] Tok(j) = "neg"   -> StringToInt(Data(j), tested)
             [] Tok(j) = "num"   -> StringToUint(Data(j))
      number == CASE Tok(j) = "float" -> Number("FLOAT", n)
                  [] Tok(j) = "neg"   -> Number("SIGNED", -n)
                  [] Tok(j) = "num"   -> Number("UNSIGNED", n)
  IN IF n = Failure THEN Throw(j)
     ELSE [IsOf(j, "NUMBER") EXCEPT !.vpVecValuesr[Frame(j).uiValue].number = number]

-----------------------------------------------------------------------------
(* The grammar. A rule leaves ok and the position after what it matched,   *)
(* or the position where it began.                                         *)

RECURSIVE Value(_, _), Items(_, _, _)

\* a member of an object, with its key, or a value of an array; a missing ":" throws
Item(j, tested, id) ==
  IF id = "ARRAY" THEN Value(j, tested)
  ELSE IF Tok(j) = "bad" THEN Throw(j)
  ELSE IF Tok(j) # "str" THEN Fails(j)
  ELSE LET named == Past(KeyBegin(j)) IN
       IF Tok(named) # ":" THEN Throw(named)
       ELSE LET value == Value(Past(named), tested) IN
            IF value.threw \/ value.ok THEN value ELSE [value EXCEPT !.pos = j.pos]

\* the items after the first; a comma that none follows throws
Items(j, tested, id) ==
  IF Tok(j) # "," THEN Ok(j)
  ELSE LET next == Item(Past(j), tested, id) IN
       IF next.threw THEN next ELSE IF next.ok THEN Items(next, tested, id) ELSE Throw(next)

Container(j, tested, id, close) ==
  LET first == Item(Past(IsOf(j, id)), tested, id)
      items == IF first.threw \/ ~first.ok THEN first ELSE Items(first, tested, id)
  IN IF items.threw THEN items ELSE IF Tok(items) = close THEN Past(items) ELSE Throw(items)

Literal == [t \in {"true", "false", "null"} |-> CASE t = "true" -> "TRUE" [] t = "false" -> "FALSE" [] t = "null" -> "NULL"]

Value(j, tested) ==
  LET active == ValueActive(j)
      t == Tok(active)
      tried == CASE t \in DOMAIN Literal           -> Past(IsOf(active, Literal[t]))
                 [] t = "{"                        -> Container(active, tested, "OBJECT", "}")
                 [] t = "["                        -> Container(active, tested, "ARRAY", "]")
                 [] t \in {"num", "neg", "float"}  -> Past(NumberMatch(active, tested))
                 [] t = "str"                      -> Past(StringBegin(active))
                 [] t = "bad"                      -> Throw(active)
                 [] OTHER                          -> Fails(active)
  IN IF tried.threw THEN tried ELSE IF tried.ok THEN ValueMatch(tried) ELSE ValueNomatch(tried)

RestartedKeeps(j, text) ==                                                      \* mutant
  [NewReader EXCEPT !.text = text, !.uiReserved = j.uiReserved, !.vpVecValuesr = j.vpVecValuesr]
\* vParseInput before the parse, and vJsonText when it is active: the vectors keep their buffers
Restarted(j, text) == [NewReader EXCEPT !.text = text, !.uiReserved = j.uiReserved]

(***************************************************************************)
(* vJsonText at the end. It throws when the text goes on, and, because     *)
(* vpVecPushn does not push 0 elements, when there is no child or no       *)
(* string in it.                                                           *)
(***************************************************************************)
TextEnds(j) ==
  IF j.threw THEN j
  ELSE IF ~j.ok \/ Tok(j) # "end" \/ j.vpVecChildIndexes = << >> \/ j.vpVecStringsr = << >> THEN Throw(j)
  ELSE j

\* vParseInput
Parsed(j, text, tested) == TextEnds(Value(Restarted(j, text), tested))

\* the json_value's that vJsonText makes of the values; children are positions in the list
ValuesOf(j) ==
  [i \in DOMAIN j.vpVecValuesr |->
     LET v == j.vpVecValuesr[i] IN
     [id |-> v.uiId,
      key |-> IF v.uiKey = 0 THEN NoKey ELSE {j.vpVecStringsr[v.uiKey]},
      data |-> IF v.uiId = "STRING" THEN Text(j.vpVecStringsr[v.uiString]) ELSE v.number,
      kids |-> [k \in 1..v.uiChildCount |-> j.vpVecChildIndexes[v.uiChildListOffset + k - 1]]]]
=============================================================================
