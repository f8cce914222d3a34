----------------------------- MODULE JsonBuilder -----------------------------
(***************************************************************************)
(* The builder of JSON values (json/builder.c). The application makes      *)
(* values, adds copies of them to objects and arrays, and has a value      *)
(* built into a tree of json_value's.                                      *)
(*                                                                         *)
(* vpVecb is a function on 0..n-1, its element 0 the dummy value. uiNext   *)
(* of a bvalue that is a parent is its last child, of one that is a child  *)
(* the next child of its parent; an added value is a child and may be a    *)
(* parent. Strings are kept with the values that refer to them. A pointer  *)
(* into a list of json_value's is a position, counted from 1.              *)
(* For checking only: the definitions are recursive.                       *)
(***************************************************************************)
EXTENDS JsonValues

CONSTANTS
  Reserve,       \* the elements vpVecb is constructed for
  Scalars,       \* the literals and numbers <<uiId, data>> and
  Strings,       \*   the strings an application may make values of
  MaxValues      \* bound on the elements of vpVecb

VARIABLES
  vpVecb, uiReserved,
  spValues,      \* the list of json_value's of the last build
  made,          \* the indexes that Make functions have returned
  said,          \* the value that an index stands for, by the calls made so far
  added, roots,  \* the values that were added, and those that were built
  careless,      \* the application has done what Careful excludes
  regrown,       \*   and has added to a value after that was built
  undefined      \* a call has written through a pointer to a freed buffer

history == <<made, said, added, roots, careless, regrown>>
builder == <<vpVecb, uiReserved, spValues, history, undefined>>

BValue(id, data) ==
  [uiId |-> id, data |-> data, key |-> NoKey, uiChildOffset |-> 0, uiChildCount |-> 0, uiNext |-> 0]
Dummy == BValue("none", NoData)

\* a JSON value, with its members
Tree(id, data) == [id |-> id, key |-> NoKey, data |-> data, kids |-> << >>]

uiVecLen == Cardinality(DOMAIN vpVecb)

Cleared ==
  /\ vpVecb' = [i \in {0} |-> Dummy]
  /\ spValues' = << >>
  /\ made' = {} /\ said' = << >> /\ added' = {} /\ roots' = {} /\ careless' = FALSE /\ regrown' = FALSE

\* vpJsonBuildCtor
BuilderInit ==
  /\ vpVecb = [i \in {0} |-> Dummy] /\ uiReserved = Reserve
  /\ spValues = << >>
  /\ made = {} /\ said = << >> /\ added = {} /\ roots = {} /\ careless = FALSE /\ regrown = FALSE
  /\ undefined = FALSE

\* vJsonBuildClear: the vector keeps its buffer
BuildClear == Cleared /\ UNCHANGED <<uiReserved, undefined>>

-----------------------------------------------------------------------------
(* Making values. vpVecPush moves the buffer when it is full.              *)

Full == uiVecLen = uiReserved
Grows == uiReserved' = IF Full THEN 2 * uiReserved ELSE uiReserved
Extended(f, v) == [i \in DOMAIN f \cup {uiVecLen} |-> IF i = uiVecLen THEN v ELSE f[i]]

\* a Make function pushes a value and returns its index
Make(id, data) ==
  /\ uiVecLen < MaxValues
  /\ vpVecb' = Extended(vpVecb, BValue(id, data)) /\ Grows
  /\ made' = made \cup {uiVecLen}
  /\ said' = Extended(said, Tree(id, data))
  /\ UNCHANGED <<spValues, added, roots, careless, regrown, undefined>>

\* bound: one value of each literal, number and string, and one that is refused
Once(id, data) == \A i \in DOMAIN vpVecb \ {0} : <<vpVecb[i].uiId, vpVecb[i].data>> # <<id, data>> \/ i \notin made

\* uiMakeSimple, uiJsonBuildMakeNumberF, S and U
MakeScalar(s) == Once(s[1], s[2]) /\ Make(s[1], s[2])
MakeContainer(id) == Make(id, NoData)

\* uiJsonBuildMakeStringU and A
MakeString(s) == Once("STRING", Text(s)) /\ Make("STRING", Text(s))

\* a string that is refused leaves a value of no type behind
MakeStringThrows ==
  /\ uiVecLen < MaxValues /\ DOMAIN vpVecb \ {0} = DOMAIN said
  /\ vpVecb' = Extended(vpVecb, Dummy) /\ Grows
  /\ UNCHANGED <<spValues, history, undefined>>

-----------------------------------------------------------------------------
(* Adding: the new element is linked after the last child of its parent,   *)
(* and only then takes the contents of the value that is added.            *)

LinkedFirst(vec, parent, this) ==                                    \* mutant
  [vec EXCEPT ![parent].uiChildOffset = this, ![parent].uiNext = this, ![parent].uiChildCount = @ + 1]
Linked(vec, parent, this) ==
  LET p == vec[parent]
      child == IF p.uiChildOffset = 0 THEN [vec EXCEPT ![parent].uiChildOffset = this]
               ELSE [vec EXCEPT ![p.uiNext].uiNext = this]
  IN [child EXCEPT ![parent].uiNext = this, ![parent].uiChildCount = @ + 1]

EndsFull(t) == t.id = "ARRAY" /\ t.kids # << >> /\ Last(t.kids).kids # << >>

(***************************************************************************)
(* A careful application completes a container before it adds or builds    *)
(* it, adds what a Make function has returned, and adds to an array no     *)
(* array that ends in a container with members. The documentation asks for *)
(* none of this, only that the parent is one a Make function returned.     *)
(***************************************************************************)
Careful(parent, add) ==
  /\ parent \notin added \cup roots
  /\ add \in made
  /\ said[parent].id = "ARRAY" => ~ EndsFull(said[add])

\* what the call says: the parent gets one more member, the value as it is now
Says(parent, add, key) ==
  LET member == [said[add] EXCEPT !.key = key]
      now == [said EXCEPT ![parent].kids = Append(@, member)]
  IN /\ said' = Extended(now, member)
     /\ added' = added \cup {add}
     /\ careless' = (careless \/ ~ Careful(parent, add))
     /\ regrown' = (regrown \/ parent \in roots)
     /\ UNCHANGED <<made, roots>>

\* the arguments that the Add functions and vpJsonBuild do not refuse with an exception
IsValue(i) == i \in DOMAIN vpVecb \ {0}
IsOfType(i, id) == IsValue(i) /\ vpVecb[i].uiId = id
ObjectTakes(object, key, add) == IsOfType(object, "OBJECT") /\ IsValue(add) /\ IsOfType(key, "STRING")
ArrayTakes(array, add) == IsOfType(array, "ARRAY") /\ IsValue(add)

\* of these an application passes what it got from Make or Add functions, and no value to itself
MayAdd(parent, add) == uiVecLen < MaxValues /\ parent \in made /\ add \in DOMAIN said \ {parent}

ObjectCopy(vec, add, string) == [vec[add] EXCEPT !.uiNext = 0, !.key = {string}]

\* uiJsonBuildAddToObject takes its pointers again after the push
AddToObject(object, key, add) ==
  /\ ObjectTakes(object, key, add) /\ MayAdd(object, add) /\ key \in DOMAIN said
  /\ LET linked == Linked(Extended(vpVecb, Dummy), object, uiVecLen) IN
     vpVecb' = [linked EXCEPT ![uiVecLen] = ObjectCopy(linked, add, vpVecb[key].data.chars)]
  /\ Grows
  /\ Says(object, add, {vpVecb[key].data.chars})
  /\ UNCHANGED <<spValues, undefined>>

(***************************************************************************)
(* uiJsonBuildAddToArray does not: when the push moves the buffer, the     *)
(* parent is written where it was. Nor does it reset uiNext of the copy.   *)
(***************************************************************************)
AddToArray(array, add) ==
  /\ ArrayTakes(array, add) /\ MayAdd(array, add)
  /\ \/ /\ LET linked == Linked(Extended(vpVecb, Dummy), array, uiVecLen) IN
             vpVecb' = [linked EXCEPT ![uiVecLen] = [linked[add] EXCEPT !.key = NoKey]]
        /\ Grows
        /\ Says(array, add, NoKey)
        /\ UNCHANGED undefined
     \/ /\ Full /\ undefined' = TRUE
        /\ UNCHANGED <<vpVecb, uiReserved, history>>
  /\ UNCHANGED spValues

-----------------------------------------------------------------------------
(* Building.                                                               *)

\* the children of a value, found along uiNext, and where the walk is after the last
Chain(vec, i) ==
  LET v == vec[i]
      at[k \in 1..(v.uiChildCount + 1)] == IF k = 1 THEN v.uiChildOffset ELSE vec[at[k - 1]].uiNext
  IN at
Kids(vec, i) == [k \in 1..vec[i].uiChildCount |-> Chain(vec, i)[k]]

BeyondLast(vec, kid) == vec[kid].uiNext                             \* mutant
\* what the sanity check of vCountWalk looks at: uiNext of where the walk is after the last child
Beyond(vec, kid) == vec[vec[kid].uiNext].uiNext

\* vCountWalk throws
RECURSIVE CountThrows(_, _)
CountThrows(vec, i) ==
  LET kids == Kids(vec, i) IN
  \/ vec[i].uiId = "none"
  \/ \E k \in DOMAIN kids : CountThrows(vec, kids[k])
  \/ kids # << >> /\ Beyond(vec, Last(kids)) # 0

\* spBuildWalk: the json_value's of a value and those below it, the first of them at a position
RECURSIVE BuildWalk(_, _, _)
BuildWalk(vec, i, at) ==
  LET below == FoldLeft(LAMBDA acc, kid :
                          [values |-> acc.values \o BuildWalk(vec, kid, at + 1 + Len(acc.values)),
                           kids |-> Append(acc.kids, at + 1 + Len(acc.values))],
                        [values |-> << >>, kids |-> << >>], Kids(vec, i))
  IN <<[id |-> vec[i].uiId, key |-> vec[i].key, data |-> vec[i].data, kids |-> below.kids]>> \o below.values

Cut(root) == [vpVecb EXCEPT ![root].uiNext = 0]

(***************************************************************************)
(* vpJsonBuild of a root that a Make function returned. It ends the list   *)
(* of siblings of the root, which for a parent is the link to its last     *)
(* child. A walk that throws leaves the tree of the last build.            *)
(***************************************************************************)
BuildThrows(root) == CountThrows(Cut(root), root)
Build(root) ==
  /\ root \in made
  /\ vpVecb' = Cut(root)
  /\ spValues' = IF BuildThrows(root) THEN spValues ELSE BuildWalk(Cut(root), root, 1)
  /\ roots' = roots \cup {root}
  /\ UNCHANGED <<uiReserved, made, said, added, careless, regrown, undefined>>
=============================================================================
