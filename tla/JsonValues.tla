----------------------------- MODULE JsonValues -----------------------------
(***************************************************************************)
(* Lists of json_value's (json/json.c): what a read or a build leaves, the *)
(* iterators over them and how they are written. A json_value is a record  *)
(* [id, key, data, kids]; its children are positions in the list, which    *)
(* stand for pointers and count from 1. A string or key is a sequence of   *)
(* code points, a key a set of at most one string.                         *)
(*                                                                         *)
(* What is written is a sequence of tokens [t, d]: t one of the six signs  *)
(* of the grammar, "true", "false", "null", a string "str" with its code   *)
(* points d, or a number "num", "neg" or "float" with the digits d of what *)
(* follows the minus; the last digit of a float is its fraction. White     *)
(* space and the escapes of characters are left out.                       *)
(* For checking only: the definitions are recursive.                       *)
(***************************************************************************)
EXTENDS Integers, Sequences, FiniteSets, SequencesExt

NoData == [type |-> "none", chars |-> << >>, n |-> 0]
Text(s) == [type |-> "text", chars |-> s, n |-> 0]
Number(type, n) == [type |-> type, chars |-> << >>, n |-> n]
NoKey == {}

Token(t, d) == [t |-> t, d |-> d]
Sign(t) == Token(t, << >>)

-----------------------------------------------------------------------------
(* Iterators. The values a function returns an iterator over.              *)

SumOver(f) == FoldLeft(LAMBDA a, b : a + b, 0, f)

RECURSIVE WalkCount(_, _)
WalkCount(list, i) ==
  1 + SumOver([k \in DOMAIN list[i].kids |-> WalkCount(list, list[i].kids[k])])

ValuesBelow(list, i) == [k \in 1..(Len(list[i].kids) + 1) |-> i + k - 1]   \* mutant
\* vpJsonTree: as many as are in the tree, from the value on
TreeValues(list, i) == [k \in 1..WalkCount(list, i) |-> i + k - 1]

\* vpJsonChildren
ChildValues(list, i) == list[i].kids

\* vFindKeyValues
RECURSIVE KeyValues(_, _, _)
KeyValues(list, key, i) ==
  (IF list[i].key = {key} THEN <<i>> ELSE << >>)
    \o FlattenSeq([k \in DOMAIN list[i].kids |-> KeyValues(list, key, list[i].kids[k])])

-----------------------------------------------------------------------------
(* Writing.                                                                *)

RECURSIVE Digits(_)
Digits(n) == IF n < 10 THEN <<n>> ELSE Append(Digits(n \div 10), n % 10)

\* vPushNumber; a float here is one that "%.16G" gives a fraction
PushNumber(number) ==
  CASE number.type = "FLOAT"    -> Token("float", Digits(number.n))
    [] number.type = "UNSIGNED" -> Token("num", Digits(number.n))
    [] number.type = "SIGNED"   -> IF number.n < 0 THEN Token("neg", Digits(-number.n))
                                   ELSE Token("num", Digits(number.n))

LiteralOf == [id \in {"TRUE", "FALSE", "NULL"} |-> CASE id = "TRUE" -> "true" [] id = "FALSE" -> "false" [] id = "NULL" -> "null"]

PushKey(list, i) ==
  IF list[i].key = NoKey THEN << >> ELSE <<Token("str", CHOOSE key \in list[i].key : TRUE), Sign(":")>>

\* vPushValue and vPushObject below the first value
RECURSIVE PushValue(_, _)
PushValue(list, i) ==
  LET v == list[i]
      Kid(k) == (IF k = 1 THEN << >> ELSE <<Sign(",")>>)
                  \o PushKey(list, v.kids[k]) \o PushValue(list, v.kids[k])
      kids == FlattenSeq([k \in DOMAIN v.kids |-> Kid(k)])
  IN CASE v.id = "OBJECT" -> <<Sign("{")>> \o kids \o <<Sign("}")>>
       [] v.id = "ARRAY"  -> <<Sign("[")>> \o kids \o <<Sign("]")>>
       [] v.id = "STRING" -> <<Token("str", v.data.chars)>>
       [] v.id = "NUMBER" -> <<PushNumber(v.data)>>
       [] OTHER           -> <<Sign(LiteralOf[v.id])>>

WrittenWithKey(list, i) == PushKey(list, i) \o PushValue(list, i)     \* mutant
\* ucpJsonWrite: the first value is written without its key
Written(list, i) == PushValue(list, i)
=============================================================================
