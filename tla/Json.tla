-------------------------------- MODULE Json --------------------------------
(***************************************************************************)
(* A json object (json/json.c) with one builder: the application reads     *)
(* texts, builds trees of values, and writes values of either and reads    *)
(* what was written. An exception leaves the object as it is, to be used   *)
(* again.                                                                  *)
(***************************************************************************)
EXTENDS JsonReader, JsonBuilder

CONSTANT Texts       \* the texts an application may have from elsewhere

VARIABLES
  reader,            \* what a read works on and leaves
  parsed,            \* spJson->spValues, empty after a read that threw
  call,              \* the last call: [op, at, text, list]
  threw              \* it threw

vars == <<builder, reader, parsed, call, threw>>

List(name) == IF name = "parsed" THEN parsed ELSE spValues

Called(op, at, text, list) == call' = [op |-> op, at |-> at, text |-> text, list |-> list]
CalledBuilder(op, at) == Called(op, at, << >>, "built")

Init ==
  /\ BuilderInit
  /\ reader = NewReader /\ parsed = << >>
  /\ call = [op |-> "set", at |-> 0, text |-> << >>, list |-> "built"] /\ threw = FALSE

\* bound: what is read or written comes after what is built
Builds == call.op \in {"set", "build"} /\ ~undefined

\* The calls of the builder. One that is refused changes nothing and is left out.
Construct ==
  /\ Builds
  /\ \/ BuildClear /\ threw' = FALSE
     \/ \E s \in Scalars : MakeScalar(s) /\ threw' = FALSE
     \/ \E s \in Strings : MakeString(s) /\ threw' = FALSE
     \/ MakeStringThrows /\ threw' = TRUE
     \/ \E id \in {"OBJECT", "ARRAY"} : MakeContainer(id) /\ threw' = FALSE
     \/ \E object, key, add \in DOMAIN said : AddToObject(object, key, add) /\ threw' = FALSE
     \/ \E array, add \in DOMAIN said : AddToArray(array, add) /\ threw' = FALSE
  /\ CalledBuilder("set", 0)
  /\ UNCHANGED <<reader, parsed>>

BuildTree ==
  /\ Builds
  /\ \E root \in made :
       /\ threw' = BuildThrows(root)
       /\ Build(root)
       /\ CalledBuilder("build", root)
  /\ UNCHANGED <<reader, parsed>>

(***************************************************************************)
(* vpJsonReadArray, vpJsonReadFile. An empty text throws before anything   *)
(* of the read before is cleared.                                          *)
(***************************************************************************)
Read(text) ==
  /\ ~undefined
  /\ IF text = << >> THEN threw' = TRUE /\ UNCHANGED <<reader, parsed, undefined>>
     ELSE \E tested \in BOOLEAN : \E j \in {Parsed(reader, text, tested)} :
            /\ reader' = j
            /\ threw' = j.threw
            /\ parsed' = IF j.threw THEN << >> ELSE ValuesOf(j)
            /\ undefined' = j.undefined
  /\ Called("read", 0, text, "parsed")
  /\ UNCHANGED <<vpVecb, uiReserved, spValues, history>>

\* bound: texts from elsewhere are read when nothing was built
ReadText == made = {} /\ \E text \in Texts : Read(text)
ReadWritten == call.op = "write" /\ Read(call.text)

\* ucpJsonWrite of a value of the tree that was built or read last
Write ==
  /\ call.op \in {"build", "read"} /\ ~threw /\ ~undefined
  /\ \E at \in DOMAIN List(call.list) : Called("write", at, Written(List(call.list), at), call.list)
  /\ UNCHANGED <<builder, reader, parsed, threw>>

Next == Construct \/ BuildTree \/ ReadText \/ ReadWritten \/ Write

Spec == Init /\ [][Next]_vars
=============================================================================
