------------------------------- MODULE MCJson -------------------------------
(***************************************************************************)
(* A json object over small values: the integers have 6 bits. The texts    *)
(* from elsewhere are some JSON texts and what is one token away from one. *)
(***************************************************************************)
EXTENDS JsonMeaning

str(c) == Token("str", <<c>>)
Num(digits) == Token("num", digits)
Open == Sign("[")
Close == Sign("]")
OpenObject == Sign("{")
CloseObject == Sign("}")
Comma == Sign(",")
Colon == Sign(":")

JsonTexts == {
  <<Open, str(97), Comma, Num(<<6, 3>>), Comma, Token("float", <<1, 5>>), Close>>,
  <<OpenObject, str(97), Colon, Sign("true"), Comma, str(98), Colon, Open, str(97), Close, CloseObject>>,
  <<Open, Open, Close, Comma, OpenObject, str(98), Colon, Sign("null"), CloseObject, Comma, Sign("false"), Close>>,
  <<OpenObject, str(97), Colon, OpenObject, str(97), Colon, Open, Open, Token("neg", <<3, 1>>), Close, Close,
    CloseObject, CloseObject>>}

Others == {Comma, Colon, Open, CloseObject, str(98), Sign("bad"), Sign("junk"), Num(<<6, 4>>),
           Num(<<1, 53, 2>>), Token("neg", <<7, 0>>)}

Edits(s) ==
  {[s EXCEPT ![i] = t] : i \in DOMAIN s, t \in Others}
    \cup {RemoveAt(s, i) : i \in DOMAIN s}
    \cup {InsertAt(s, i, t) : i \in DOMAIN s, t \in {Comma, Close}}

MCTexts == JsonTexts \cup {<< >>, <<str(97)>>} \cup UNION {Edits(s) : s \in JsonTexts}

MCScalars == {<<"NUMBER", Number("SIGNED", -5)>>}
MCStrings == {<<97>>}
=============================================================================
