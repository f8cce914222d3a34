------------------------------- MODULE Vector -------------------------------
(***************************************************************************)
(* The vector (library/vector.c): a growing array on a block of the        *)
(* memory component. The context's own block is left out; the blocks here  *)
(* are data buffers. A pointer into a buffer is a record [block, index],   *)
(* the index counted in elements from 0.                                   *)
(*                                                                         *)
(* block[b] holds the elements that fit in the bytes b was allocated with; *)
(* Junk stands for memory no one has written. The aint arithmetic wraps at *)
(* AintSize. To read or write outside an allocated block is undefined      *)
(* behaviour: the step that does so sets fault and the model stops.        *)
(***************************************************************************)
EXTENDS Integers, Sequences

CONSTANTS
  Blocks,         \* the addresses the memory component may return
  NULL,
  Values, Junk,
  AintSize,       \* 2 to the number of bits of an aint
  ElementSizes,   \* the element sizes and
  InitialAllocs,  \*   the initial allocations an application asks for
  MaxUsed,        \* bound: the application never holds more elements than this
  MaxCount        \* bound: nor pushes or pops more than this with one call

ASSUME VectorAssumption ==
  /\ NULL \notin Blocks /\ Junk \notin Values
  /\ AintSize \in Nat /\ MaxUsed \in Nat /\ MaxCount \in Nat \ {0}
  /\ ElementSizes \subseteq Nat /\ InitialAllocs \subseteq Nat

(***************************************************************************)
(* The sizes an application may reach before the product in vGrow wraps.   *)
(***************************************************************************)
ASSUME SizesAssumption ==
  \A size \in ElementSizes :
    /\ size * (4 * MaxUsed) < AintSize
    /\ \A n \in InitialAllocs : size * n < AintSize

VARIABLES
  live,                         \* vpValidate is the magic number
  cpData, uiElementSize, uiReserved, uiUsed,
  block, heap,
  fault,
  answer,                       \* the last call, and what it returned or threw
  popped                        \* the pointer of the last pop, until the next push

vector == <<live, cpData, uiElementSize, uiReserved, uiUsed>>
vars   == <<vector, block, heap, fault, answer, popped>>

Elements == Values \cup {Junk}
Pointer  == [block: Blocks, index: Nat]
NoPointer == [block |-> NULL, index |-> 0]

Returned(call, pointer) == [call |-> call, threw |-> FALSE, pointer |-> pointer]
Threw(call)             == [call |-> call, threw |-> TRUE, pointer |-> NoPointer]

TypeOK ==
  /\ live \in BOOLEAN
  /\ cpData \in Blocks \cup {NULL}
  /\ uiElementSize \in Nat /\ uiReserved \in Nat /\ uiUsed \in Nat
  /\ block \in [Blocks -> Seq(Elements)]
  /\ heap \in SUBSET Blocks
  /\ fault \in BOOLEAN
  /\ answer \in [call: {"none", "ctor", "dtor", "push", "pop", "get", "clear"}, threw: BOOLEAN,
                 pointer: Pointer \cup {NoPointer}]
  /\ popped \in [pointer: Pointer \cup {NoPointer}, value: Elements]

NoPopped == [pointer |-> NoPointer, value |-> Junk]

Init ==
  /\ live = FALSE /\ cpData = NULL
  /\ uiElementSize = 0 /\ uiReserved = 0 /\ uiUsed = 0
  /\ block = [b \in Blocks |-> << >>] /\ heap = {}
  /\ fault = FALSE
  /\ answer = Returned("none", NoPointer)
  /\ popped = NoPopped

-----------------------------------------------------------------------------
(* Buffers.                                                                *)

\* the elements of a size that fit in a number of bytes
Room(bytes, size) == IF size = 0 THEN 0 ELSE bytes \div size

Fresh(room) == [i \in 1..room |-> Junk]

CopiedShort(old, room) == [i \in 1..room |-> IF i < Len(old) THEN old[i] ELSE Junk]   \* mutant
\* what vpMemRealloc copies: all of the old block, as far as the new one reaches
Copied(old, room) == [i \in 1..room |-> IF i =< Len(old) THEN old[i] ELSE Junk]

At(i) == [block |-> cpData, index |-> i]

-----------------------------------------------------------------------------
(* The life of a vector.                                                   *)

\* vpVecCtor
VecCtor(size, n) ==
  /\ ~live /\ ~fault
  /\ \/ /\ answer' = Threw("ctor")           \* an argument is 0, or there is no memory
        /\ UNCHANGED <<vector, block, heap>>
     \/ /\ size # 0 /\ n # 0
        /\ \E b \in Blocks \ heap :
             /\ heap' = heap \cup {b}
             /\ block' = [block EXCEPT ![b] = Fresh(Room((size * n) % AintSize, size))]
             /\ cpData' = b
        /\ live' = TRUE
        /\ uiElementSize' = size /\ uiReserved' = n /\ uiUsed' = 0
        /\ answer' = Returned("ctor", NoPointer)
  /\ popped' = NoPopped
  /\ UNCHANGED fault

\* vVecDtor
VecDtor ==
  /\ live /\ ~fault
  /\ heap' = heap \ {cpData}
  /\ block' = [block EXCEPT ![cpData] = << >>]
  /\ live' = FALSE /\ cpData' = NULL
  /\ uiElementSize' = 0 /\ uiReserved' = 0 /\ uiUsed' = 0
  /\ answer' = Returned("dtor", NoPointer)
  /\ popped' = NoPopped
  /\ UNCHANGED fault

-----------------------------------------------------------------------------
(* Pushing. vGrow replaces the buffer, then memcpy fills the new elements; *)
(* without a source they are what the memory holds.                        *)

Buffer(data, contents, allocated, reserved) ==
  [data |-> data, block |-> contents, heap |-> allocated, reserved |-> reserved]

NewReservedOld(n) == (2 * uiReserved) % AintSize                  \* mutant
NewReserved(n) == (2 * (uiReserved + n)) % AintSize

Moved(b, reserved) ==
  [block EXCEPT ![b] = Copied(block[cpData], Room((uiElementSize * reserved) % AintSize, uiElementSize)),
                ![cpData] = << >>]

\* the buffers vGrow may leave; none when the memory is exhausted
GrowInPlace(n) ==                                                 \* mutant
  {Buffer(cpData, Moved(b, NewReserved(n)), (heap \ {cpData}) \cup {b}, NewReserved(n)) : b \in Blocks \ heap}
Grow(n) ==
  {Buffer(b, Moved(b, NewReserved(n)), (heap \ {cpData}) \cup {b}, NewReserved(n)) : b \in Blocks \ heap}

BuffersFor(full, n) == IF full THEN Grow(n) ELSE {Buffer(cpData, block, heap, uiReserved)}

\* memcpy to the first unused element
Filled(buf, source) ==
  [buf.block EXCEPT ![buf.data] =
     [i \in 1..Len(@) |-> IF i - uiUsed \in DOMAIN source THEN source[i - uiUsed] ELSE @[i]]]

Fits(buf, source) ==
  source # << >> => buf.data \in buf.heap /\ uiUsed + Len(source) =< Len(buf.block[buf.data])

Pushed(full, source, n) ==
  \E buf \in BuffersFor(full, n) :
    IF Fits(buf, source)
    THEN /\ cpData' = buf.data /\ heap' = buf.heap /\ uiReserved' = buf.reserved
         /\ block' = Filled(buf, source)
         /\ uiUsed' = (uiUsed + n) % AintSize
         /\ answer' = Returned("push", [block |-> buf.data, index |-> uiUsed])
         /\ popped' = NoPopped
         /\ UNCHANGED <<live, uiElementSize, fault>>
    ELSE fault' = TRUE /\ UNCHANGED <<vector, block, heap, answer, popped>>

\* vpMemRealloc finds no memory
PushThrows == answer' = Threw("push") /\ UNCHANGED <<vector, block, heap, fault, popped>>

\* vpVecPush: source is a sequence of one element, or empty for NULL
VecPush(source) ==
  /\ live /\ ~fault
  /\ uiUsed < MaxUsed
  /\ \/ Pushed(uiUsed >= uiReserved, source, 1)
     \/ uiUsed >= uiReserved /\ PushThrows

\* vpVecPushn
VecPushn(source, n) ==
  LET full == (uiUsed + n) % AintSize > uiReserved IN
  /\ live /\ ~fault
  /\ uiUsed + n =< MaxUsed
  /\ \/ n # 0 /\ Pushed(full, source, n)
     \/ (n = 0 \/ full) /\ PushThrows

-----------------------------------------------------------------------------
(* Popping.                                                                *)

\* uiUsed becomes used, and the first element beyond it is returned
PoppedTo(used) ==
  /\ uiUsed' = used
  /\ answer' = Returned("pop", At(used))
  /\ popped' = [pointer |-> At(used),
                value |-> IF used < Len(block[cpData]) THEN block[cpData][used + 1] ELSE Junk]
  /\ UNCHANGED <<live, cpData, uiElementSize, uiReserved, block, heap, fault>>

PopsNothing ==
  answer' = Returned("pop", NoPointer) /\ UNCHANGED <<vector, block, heap, fault, popped>>

\* vpVecPop
VecPop ==
  /\ live /\ ~fault
  /\ IF uiUsed # 0 THEN PoppedTo(uiUsed - 1) ELSE PopsNothing

\* vpVecPopn
VecPopn(n) ==
  /\ live /\ ~fault
  /\ IF n > 0 /\ uiUsed > 0 THEN PoppedTo(IF uiUsed > n THEN uiUsed - n ELSE 0) ELSE PopsNothing

\* vpVecPopi
VecPopi(i) ==
  /\ live /\ ~fault
  /\ IF i < uiUsed THEN PoppedTo(i) ELSE PopsNothing

VecClearReleases ==                                               \* mutant
  /\ live /\ ~fault
  /\ uiUsed' = 0
  /\ block' = [block EXCEPT ![cpData] = Fresh(Len(@))]
  /\ answer' = Returned("clear", NoPointer)
  /\ UNCHANGED <<live, cpData, uiElementSize, uiReserved, heap, fault, popped>>
\* vVecClear
VecClear ==
  /\ live /\ ~fault
  /\ uiUsed' = 0
  /\ answer' = Returned("clear", NoPointer)
  /\ UNCHANGED <<live, cpData, uiElementSize, uiReserved, block, heap, fault, popped>>

-----------------------------------------------------------------------------
(* Looking up.                                                             *)

Looked(found, i) ==
  /\ live /\ ~fault
  /\ answer' = Returned("get", IF found THEN At(i) ELSE NoPointer)
  /\ UNCHANGED <<vector, block, heap, fault, popped>>

\* vpVecFirst, vpVecLast, vpVecAt
VecFirst == Looked(uiUsed # 0, 0)
VecLast == Looked(uiUsed # 0, uiUsed - 1)
VecAt(i) == Looked(uiUsed # 0 /\ (i = 0 \/ i < uiUsed), i)

(***************************************************************************)
(* The application writes through the pointer the last call returned, as   *)
(* the parser's components do with the elements they push and look up. It  *)
(* never keeps a pointer longer ("only valid until the next member         *)
(* function call", vector.c:37-38).                                        *)
(***************************************************************************)
Store(value) ==
  LET p == answer.pointer IN
  /\ live /\ ~fault
  /\ answer.call \in {"push", "get"} /\ p # NoPointer
  /\ IF p.block \in heap /\ p.index < Len(block[p.block])
     THEN block' = [block EXCEPT ![p.block][p.index + 1] = value] /\ UNCHANGED fault
     ELSE fault' = TRUE /\ UNCHANGED block
  /\ UNCHANGED <<vector, heap, answer, popped>>

Sources(n) == [1..n -> Values] \cup {<< >>}

Next ==
  \/ \E size \in ElementSizes, n \in InitialAllocs : VecCtor(size, n)
  \/ \E source \in Sources(1) : VecPush(source)
  \/ \E n \in 0..MaxCount : \E source \in Sources(n) : VecPushn(source, n)
  \/ VecPop \/ VecClear \/ VecFirst \/ VecLast \/ VecDtor
  \/ \E n \in 0..MaxCount : VecPopn(n)
  \/ \E i \in 0..MaxUsed : VecPopi(i) \/ VecAt(i)
  \/ \E value \in Values : Store(value)

Spec == Init /\ [][Next]_vars

-----------------------------------------------------------------------------
(* Properties.                                                             *)

(***************************************************************************)
(* No call writes, and no pointer it returned leads, outside the buffer    *)
(* that is allocated at the time (the memcpys of vpVecPush and vpVecPushn, *)
(* the elements that ast.c or backrefu.c fill in after a push).            *)
(***************************************************************************)
NoStrayWrite == ~fault

(***************************************************************************)
(* The reserve of the vector (the bound every push compares with) is what  *)
(* the buffer really has room for: the byte count passed to vpMemRealloc   *)
(* has not wrapped, and no throw left the fields half updated.             *)
(***************************************************************************)
ReserveBacked ==
  live => /\ uiUsed =< uiReserved
          /\ heap = {cpData}
          /\ Len(block[cpData]) = uiReserved

(***************************************************************************)
(* A popped element "remains valid until the next call to vpVecPush() or   *)
(* vpVecPushn()" (vector.c:248,269,298), through pops, look-ups, stores    *)
(* and clears.                                                             *)
(***************************************************************************)
PoppedStays ==
  LET p == popped.pointer IN
  p # NoPointer => /\ p.block \in heap /\ p.index < Len(block[p.block])
                   /\ block[p.block][p.index + 1] = popped.value

(***************************************************************************)
(* However the buffer is moved, the application sees a stack: every call   *)
(* of vector.c is a step of VectorApi.                                     *)
(***************************************************************************)
Content == IF live THEN SubSeq(block[cpData], 1, uiUsed) ELSE << >>
Position == IF answer.pointer = NoPointer THEN 0 ELSE answer.pointer.index + 1

Api == INSTANCE VectorApi WITH
         elements <- Content,
         call     <- answer.call,
         threw    <- answer.threw,
         position <- Position

VectorImplementsApi == Api!Spec
=============================================================================
