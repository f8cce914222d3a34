---------------------------- MODULE JsonMeaning ----------------------------
(***************************************************************************)
(* What a json object promises, stated over trees of JSON values and the   *)
(* texts that mean them. For checking only: the definitions are recursive. *)
(***************************************************************************)
EXTENDS Json

\* the tree that a list holds at a position
RECURSIVE TreeAt(_, _)
TreeAt(list, i) == [list[i] EXCEPT !.kids = [k \in DOMAIN list[i].kids |-> TreeAt(list, list[i].kids[k])]]

\* the positions of a tree, depth first
RECURSIVE DepthFirst(_, _)
DepthFirst(list, i) ==
  <<i>> \o FlattenSeq([k \in DOMAIN list[i].kids |-> DepthFirst(list, list[i].kids[k])])

RECURSIVE Nodes(_)
Nodes(t) == {t} \cup UNION {Nodes(t.kids[k]) : k \in DOMAIN t.kids}

-----------------------------------------------------------------------------
(* The trees a text means: one, or none when it is no JSON text (RFC 8259).*)

ScalarOf(token) ==
  CASE token.t = "true"  -> Tree("TRUE", NoData)
    [] token.t = "false" -> Tree("FALSE", NoData)
    [] token.t = "null"  -> Tree("NULL", NoData)
    [] token.t = "str"   -> Tree("STRING", Text(token.d))
    [] token.t = "float" -> Tree("NUMBER", Number("FLOAT", DecimalDigits(token.d)))
    [] token.t = "neg"   -> Tree("NUMBER", Number("SIGNED", -DecimalDigits(token.d)))
    [] token.t = "num"   -> Tree("NUMBER", Number("UNSIGNED", DecimalDigits(token.d)))

IsScalar(token) == token.t \in {"true", "false", "null", "str", "float", "neg", "num"}
Encloses(s, open, close) == Len(s) >= 2 /\ Head(s).t = open /\ Last(s).t = close
Inside(s) == SubSeq(s, 2, Len(s) - 1)
From(s, k) == SubSeq(s, k, Len(s))

RECURSIVE Trees(_), Members(_, _)

\* a value, or a member with its key
ItemTrees(s, id) ==
  IF id = "ARRAY" THEN Trees(s)
  ELSE IF Len(s) < 3 \/ s[1].t # "str" \/ s[2].t # ":" THEN {}
  ELSE {[t EXCEPT !.key = {s[1].d}] : t \in Trees(From(s, 3))}

\* the lists of members that a text without its brackets means
Members(s, id) ==
  {<<t>> : t \in ItemTrees(s, id)} \cup
  UNION {{<<t>> \o rest : t \in ItemTrees(SubSeq(s, 1, k - 1), id), rest \in Members(From(s, k + 1), id)}
         : k \in {k \in DOMAIN s : s[k].t = ","}}

Trees(s) ==
  IF Len(s) = 1 /\ IsScalar(s[1]) THEN {ScalarOf(s[1])}
  ELSE LET id == IF Encloses(s, "[", "]") THEN "ARRAY" ELSE IF Encloses(s, "{", "}") THEN "OBJECT" ELSE "none"
           lists == IF id = "none" THEN {} ELSE IF Inside(s) = << >> THEN {<< >>} ELSE Members(Inside(s), id)
       IN {[Tree(id, NoData) EXCEPT !.kids = kids] : kids \in lists}

\* a number that the integer types of the code hold
Fits(data) ==
  CASE data.type = "UNSIGNED" -> data.n < UintMod
    [] data.type = "SIGNED"   -> -data.n =< IntMax
    [] OTHER                  -> TRUE

\* a text without a string or without a value in another is not read: vJsonText pushes as many
\* elements on vectors as there are strings and children, and pushing none throws
Pushes(t) == t.kids # << >> /\ \E n \in Nodes(t) : n.id = "STRING" \/ n.key # NoKey

\* the code and the builds agree on the value of every number of a text
Exact(text) ==
  \A i \in DOMAIN text :
    /\ text[i].t = "neg" => DecimalDigits(text[i].d) =< IntMax
    /\ \A k \in DOMAIN text[i].d : text[i].t \in {"num", "neg"} => text[i].d[k] < 10

-----------------------------------------------------------------------------
(* The builder.                                                            *)

\* What vpJsonBuild leaves is the value that the calls described: with the members of each
\* container in the order in which they were added, each as it was when it was added, whatever
\* was added in between, to whom, and built before; unless a value was added to after it was
\* built.
BuiltIsSaid ==
  (call.op = "build" /\ ~threw /\ ~regrown) => TreeAt(spValues, 1) = said[call.at]

\* vpJsonBuild does not throw for an application that completes each container before it uses
\* it, and adds to an array no array that ends in a container with members.
BuildReturns == (call.op = "build" /\ threw) => careless

-----------------------------------------------------------------------------
(* Reading and writing.                                                    *)

\* A read returns the tree that the text means, its values in depth-first order, and throws
\* when the text means none, or a number is too large, whatever was read before and however the
\* read before ended. The exceptions are those of Pushes and Exact.
ReadIsText ==
  (call.op = "read" /\ ~undefined /\ Exact(call.text)) =>
    LET trees == {t \in Trees(call.text) : Pushes(t) /\ \A n \in Nodes(t) : Fits(n.data)} IN
    IF trees = {} THEN threw
    ELSE /\ ~threw
         /\ TreeAt(parsed, 1) \in trees
         /\ DepthFirst(parsed, 1) = [k \in DOMAIN parsed |-> k]

\* What ucpJsonWrite writes is a JSON text that means the value, without its key.
WrittenIsText ==
  call.op = "write" =>
    Trees(call.text) = {[TreeAt(List(call.list), call.at) EXCEPT !.key = NoKey]}

\* The iterators over the list of a read or a build go over the right values: that of vpJsonTree
\* takes the values of a sub-tree to follow its root in the list; that of vpJsonFindKey has
\* those of them that have the key, in the same order; that of vpJsonChildren the members.
QueriesAreTree ==
  \A list \in {parsed, spValues} : \A i \in DOMAIN list :
    LET below == DepthFirst(list, i) IN
    /\ TreeValues(list, i) = below
    /\ \A key \in UNION {list[j].key : j \in DOMAIN list} :
         KeyValues(list, key, i) = SelectSeq(below, LAMBDA j : list[j].key = {key})
    /\ ChildValues(list, i) = SelectSeq(below, LAMBDA j : \E k \in DOMAIN list[i].kids : list[i].kids[k] = j)
=============================================================================
