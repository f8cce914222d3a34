---------------------------- MODULE Vector_proofs ----------------------------
(***************************************************************************)
(* Proofs about the vector: for every set of addresses, every element size *)
(* and every sequence of calls whose sizes stay below the wrap of an aint  *)
(* (SizesAssumption), the reserve is backed by the buffer, no call writes  *)
(* outside it, and a popped element stays until the next push.             *)
(***************************************************************************)
EXTENDS Vector, SequenceTheorems, TLAPS

(***************************************************************************)
(* The inductive invariant adds where the pointers that are still good     *)
(* lead: into the current buffer, below the first unused element or, for a *)
(* popped element, not below it.                                           *)
(***************************************************************************)
Sized == live => /\ uiElementSize \in ElementSizes \ {0}
                 /\ cpData \in Blocks
                 /\ uiUsed =< MaxUsed

Dead == ~live => heap = {} /\ popped = NoPopped

LastGood ==
  (live /\ answer.call \in {"push", "get"} /\ answer.pointer # NoPointer) =>
    answer.pointer.block = cpData /\ answer.pointer.index < uiReserved

PoppedBeyond ==
  (popped.pointer # NoPointer) =>
    popped.pointer.block = cpData /\ uiUsed =< popped.pointer.index /\ popped.pointer.index < uiReserved

LastUsed ==
  (live /\ answer.call \in {"push", "get"} /\ answer.pointer # NoPointer) =>
    answer.pointer.index < uiUsed

IInv == /\ TypeOK /\ NoStrayWrite /\ ReserveBacked /\ PoppedStays
        /\ Sized /\ Dead /\ LastGood /\ LastUsed /\ PoppedBeyond

-----------------------------------------------------------------------------
(* Arithmetic of sizes.                                                    *)

LEMMA Product ==
  ASSUME NEW s \in Nat \ {0}, NEW n \in Nat, s * n < AintSize
  PROVE  Room((s * n) % AintSize, s) = n
<1>1. s * n \in Nat /\ AintSize \in Nat
  BY VectorAssumption
<1>2. (s * n) % AintSize = s * n
  BY <1>1
<1>3. (s * n) \div s = n
  OBVIOUS
<1> QED
  BY <1>2, <1>3 DEF Room

LEMMA Monotone ==
  ASSUME NEW s \in Nat \ {0}, NEW m \in Nat, NEW n \in Nat, m =< n
  PROVE  s * m =< s * n /\ m =< s * m /\ s * m \in Nat
OBVIOUS

(***************************************************************************)
(* What a push may count on: a sum of counts does not wrap, and growth     *)
(* leaves a buffer with room for exactly the new reserve.                  *)
(***************************************************************************)
LEMMA NoWrap ==
  ASSUME IInv, live, NEW n \in Nat, uiUsed + n =< MaxUsed
  PROVE  (uiUsed + n) % AintSize = uiUsed + n
<1>1. MaxUsed \in Nat /\ 4 * MaxUsed \in Nat /\ AintSize \in Nat
  BY VectorAssumption
<1>2. uiElementSize \in Nat \ {0} /\ uiElementSize * (4 * MaxUsed) < AintSize
  BY SizesAssumption, VectorAssumption DEF IInv, Sized
<1>3. 4 * MaxUsed =< uiElementSize * (4 * MaxUsed) /\ uiElementSize * (4 * MaxUsed) \in Nat
  BY <1>1, <1>2, Monotone
<1>4. MaxUsed < AintSize
  BY <1>1, <1>2, <1>3
<1>5. uiUsed \in Nat
  BY DEF IInv, TypeOK
<1> QED
  BY <1>1, <1>4, <1>5

LEMMA GrownSize ==
  ASSUME IInv, live, NEW n \in Nat, uiUsed + n =< MaxUsed, uiReserved < uiUsed + n
  PROVE  /\ NewReserved(n) \in Nat /\ uiUsed + n =< NewReserved(n)
         /\ Room((uiElementSize * NewReserved(n)) % AintSize, uiElementSize) = NewReserved(n)
<1>1. MaxUsed \in Nat /\ 4 * MaxUsed \in Nat /\ AintSize \in Nat
  BY VectorAssumption
<1>2. uiElementSize \in Nat \ {0} /\ uiElementSize * (4 * MaxUsed) < AintSize
  BY SizesAssumption, VectorAssumption DEF IInv, Sized
<1>3. uiUsed \in Nat /\ uiReserved \in Nat /\ uiUsed =< uiReserved
  BY DEF IInv, TypeOK, ReserveBacked
<1> DEFINE r == 2 * (uiReserved + n)
<1>4. r \in Nat /\ r =< 4 * MaxUsed /\ uiUsed + n =< r
  BY <1>1, <1>3
<1>5. uiElementSize * r =< uiElementSize * (4 * MaxUsed) /\ r =< uiElementSize * r
        /\ uiElementSize * r \in Nat
  BY <1>1, <1>2, <1>4, Monotone
<1>6. uiElementSize * (4 * MaxUsed) \in Nat
  BY <1>1, <1>2, Monotone
<1>7. uiElementSize * r < AintSize
  BY <1>1, <1>2, <1>5, <1>6
<1>8. r < AintSize
  BY <1>1, <1>4, <1>5, <1>7
<1>9. NewReserved(n) = r
  BY <1>1, <1>4, <1>8 DEF NewReserved
<1>10. Room((uiElementSize * r) % AintSize, uiElementSize) = r
  <2> HIDE DEF r
  <2> QED BY <1>2, <1>4, <1>7, Product
<1> HIDE DEF r
<1> QED
  BY <1>4, <1>9, <1>10

(***************************************************************************)
(* vpMemRealloc: the new buffer begins with the old elements.              *)
(***************************************************************************)
LEMMA CopiedSeq ==
  ASSUME NEW old \in Seq(Elements), NEW room \in Nat
  PROVE  Copied(old, room) \in Seq(Elements) /\ Len(Copied(old, room)) = room
<1>1. \A i \in 1..room : (IF i =< Len(old) THEN old[i] ELSE Junk) \in Elements
  BY DEF Elements
<1> QED
  BY <1>1 DEF Copied

LEMMA FreshSeq ==
  ASSUME NEW room \in Nat
  PROVE  Fresh(room) \in Seq(Elements) /\ Len(Fresh(room)) = room
BY DEF Fresh, Elements

-----------------------------------------------------------------------------
(* The buffers a push may write to.                                        *)

GoodBuffer(buf, n) ==
  /\ buf.data \in Blocks /\ buf.heap = {buf.data}
  /\ buf.block \in [Blocks -> Seq(Elements)]
  /\ buf.reserved \in Nat /\ uiUsed + n =< buf.reserved
  /\ Len(buf.block[buf.data]) = buf.reserved

LEMMA BufferKept ==
  ASSUME IInv, live, NEW n \in Nat, uiUsed + n =< uiReserved
  PROVE  GoodBuffer(Buffer(cpData, block, heap, uiReserved), n)
BY DEF IInv, TypeOK, ReserveBacked, Sized, GoodBuffer, Buffer

LEMMA BufferGrown ==
  ASSUME IInv, live, NEW n \in Nat, uiUsed + n =< MaxUsed, uiReserved < uiUsed + n,
         NEW buf \in Grow(n)
  PROVE  GoodBuffer(buf, n)
<1>1. PICK b \in Blocks \ heap :
        buf = Buffer(b, Moved(b, NewReserved(n)), (heap \ {cpData}) \cup {b}, NewReserved(n))
  BY DEF Grow
<1>2. heap = {cpData} /\ cpData \in Blocks /\ b # cpData
        /\ block \in [Blocks -> Seq(Elements)]
  BY DEF IInv, TypeOK, ReserveBacked, Sized
<1>3. /\ NewReserved(n) \in Nat /\ uiUsed + n =< NewReserved(n)
      /\ Room((uiElementSize * NewReserved(n)) % AintSize, uiElementSize) = NewReserved(n)
  BY GrownSize
<1> DEFINE copy == Copied(block[cpData], NewReserved(n))
<1>4. copy \in Seq(Elements) /\ Len(copy) = NewReserved(n)
  BY <1>2, <1>3, CopiedSeq
<1>5. Moved(b, NewReserved(n)) = [block EXCEPT ![b] = copy, ![cpData] = << >>]
  BY <1>3 DEF Moved
<1> HIDE DEF copy
<1>6. << >> \in Seq(Elements)
  OBVIOUS
<1>7. Moved(b, NewReserved(n)) \in [Blocks -> Seq(Elements)] /\ Moved(b, NewReserved(n))[b] = copy
  BY <1>2, <1>4, <1>5, <1>6
<1> QED
  BY <1>1, <1>2, <1>3, <1>4, <1>7 DEF GoodBuffer, Buffer

LEMMA FilledGood ==
  ASSUME IInv, NEW n \in Nat, NEW buf, GoodBuffer(buf, n),
         NEW source, source = << >> \/ source \in [1..n -> Values]
  PROVE  /\ Filled(buf, source) \in [Blocks -> Seq(Elements)]
         /\ Len(Filled(buf, source)[buf.data]) = buf.reserved
         /\ Fits(buf, source)
<1> DEFINE old == buf.block[buf.data]
           new == [i \in 1..Len(old) |-> IF i - uiUsed \in DOMAIN source THEN source[i - uiUsed] ELSE old[i]]
<1>1. old \in Seq(Elements) /\ Len(old) = buf.reserved /\ buf.reserved \in Nat
  BY DEF GoodBuffer
<1>2. \A i \in 1..Len(old) : i - uiUsed \in DOMAIN source => source[i - uiUsed] \in Elements
  <2>1. CASE source = << >>
    BY <2>1
  <2>2. CASE source \in [1..n -> Values]
    BY <2>2 DEF Elements
  <2> QED
    BY <2>1, <2>2
<1>3. \A i \in 1..Len(old) :
        (IF i - uiUsed \in DOMAIN source THEN source[i - uiUsed] ELSE old[i]) \in Elements
  BY <1>1, <1>2
<1>4. new \in Seq(Elements) /\ Len(new) = buf.reserved
  <2>1. new \in [1..Len(old) -> Elements]
    BY <1>3
  <2>2. Len(old) \in Nat
    BY <1>1
  <2> HIDE DEF new, old
  <2> QED
    BY <1>1, <2>1, <2>2
<1>5. Filled(buf, source) = [buf.block EXCEPT ![buf.data] = new]
  BY DEF Filled, GoodBuffer
<1>6. Fits(buf, source)
  <2>1. CASE source = << >>
    BY <2>1 DEF Fits
  <2>2. CASE source \in [1..n -> Values]
    <3>1. Len(source) = n
      BY <2>2
    <3> QED
      BY <3>1 DEF Fits, GoodBuffer
  <2> QED
    BY <2>1, <2>2
<1> HIDE DEF new, old
<1> QED
  BY <1>4, <1>5, <1>6 DEF GoodBuffer

-----------------------------------------------------------------------------
(* Each call keeps the invariant.                                          *)

LEMMA InitIInv == Init => IInv
<1> SUFFICES ASSUME Init PROVE IInv
  OBVIOUS
<1>1. TypeOK
  <2>1. << >> \in Seq(Elements)
    OBVIOUS
  <2>2. block \in [Blocks -> Seq(Elements)]
    BY <2>1 DEF Init
  <2>3. popped \in [pointer: Pointer \cup {NoPointer}, value: Elements]
    BY DEF Init, NoPopped, Elements
  <2> QED
    BY <2>2, <2>3 DEF Init, TypeOK, Returned
<1> QED
  BY <1>1 DEF Init, IInv, NoStrayWrite, ReserveBacked, PoppedStays, Sized, Dead, LastGood, LastUsed,
     PoppedBeyond, NoPopped, NoPointer, Returned

LEMMA VecCtorStep ==
  ASSUME IInv, NEW size \in ElementSizes, NEW n \in InitialAllocs, VecCtor(size, n)
  PROVE  IInv'
<1>1. size \in Nat /\ n \in Nat /\ size * n < AintSize /\ MaxUsed \in Nat
  BY VectorAssumption, SizesAssumption
<1>2. CASE answer' = Threw("ctor") /\ UNCHANGED <<vector, block, heap>>
  <2>1. TypeOK'
    BY <1>2 DEF VecCtor, IInv, TypeOK, vector, Threw, NoPopped, NoPointer, Elements
  <2> QED
    BY <1>2, <2>1 DEF VecCtor, IInv, vector, Threw, NoStrayWrite, ReserveBacked, PoppedStays, Sized,
       Dead, LastGood, LastUsed, PoppedBeyond, NoPopped
<1>3. CASE /\ size # 0 /\ n # 0
           /\ \E b \in Blocks \ heap :
                /\ heap' = heap \cup {b}
                /\ block' = [block EXCEPT ![b] = Fresh(Room((size * n) % AintSize, size))]
                /\ cpData' = b
           /\ live' = TRUE
           /\ uiElementSize' = size /\ uiReserved' = n /\ uiUsed' = 0
           /\ answer' = Returned("ctor", NoPointer)
  <2>1. PICK b \in Blocks \ heap :
           /\ heap' = heap \cup {b}
           /\ block' = [block EXCEPT ![b] = Fresh(Room((size * n) % AintSize, size))]
           /\ cpData' = b
    BY <1>3
  <2>2. Room((size * n) % AintSize, size) = n
    BY <1>1, <1>3, Product
  <2>3. Fresh(n) \in Seq(Elements) /\ Len(Fresh(n)) = n
    BY <1>1, FreshSeq
  <2>4. block' = [block EXCEPT ![b] = Fresh(n)] /\ block \in [Blocks -> Seq(Elements)] /\ heap = {}
    BY <2>1, <2>2 DEF IInv, TypeOK, VecCtor, Dead
  <2>5. block' \in [Blocks -> Seq(Elements)] /\ block'[b] = Fresh(n)
    BY <2>3, <2>4
  <2>6. TypeOK'
    BY <1>1, <1>3, <2>1, <2>4, <2>5 DEF VecCtor, IInv, TypeOK, Returned, NoPopped, NoPointer, Elements
  <2> QED
    BY <1>1, <1>3, <2>1, <2>3, <2>4, <2>5, <2>6 DEF VecCtor, IInv, Returned, NoStrayWrite, ReserveBacked,
       PoppedStays, Sized, Dead, LastGood, LastUsed, PoppedBeyond, NoPopped, NoPointer
<1> QED
  BY <1>2, <1>3 DEF VecCtor

LEMMA VecDtorStep ==
  ASSUME IInv, VecDtor
  PROVE  IInv'
<1>1. block' \in [Blocks -> Seq(Elements)]
  <2>1. << >> \in Seq(Elements)
    OBVIOUS
  <2> QED
    BY <2>1 DEF VecDtor, IInv, TypeOK
<1>2. heap' = {}
  BY DEF VecDtor, IInv, ReserveBacked
<1>3. TypeOK'
  BY <1>1, <1>2 DEF VecDtor, IInv, TypeOK, Returned, NoPopped, NoPointer, Elements
<1> QED
  BY <1>2, <1>3 DEF VecDtor, IInv, Returned, NoStrayWrite, ReserveBacked, PoppedStays, Sized, Dead,
     LastGood, LastUsed, PoppedBeyond, NoPopped, NoPointer

LEMMA PushedStep ==
  ASSUME IInv, live, NEW full \in BOOLEAN, NEW n \in Nat, n # 0, uiUsed + n =< MaxUsed,
         full <=> uiReserved < uiUsed + n,
         NEW source, source = << >> \/ source \in [1..n -> Values],
         Pushed(full, source, n)
  PROVE  IInv'
<1>1. PICK buf \in BuffersFor(full, n) :
        IF Fits(buf, source)
        THEN /\ cpData' = buf.data /\ heap' = buf.heap /\ uiReserved' = buf.reserved
             /\ block' = Filled(buf, source)
             /\ uiUsed' = (uiUsed + n) % AintSize
             /\ answer' = Returned("push", [block |-> buf.data, index |-> uiUsed])
             /\ popped' = NoPopped
             /\ UNCHANGED <<live, uiElementSize, fault>>
        ELSE fault' = TRUE /\ UNCHANGED <<vector, block, heap, answer, popped>>
  BY DEF Pushed
<1>2. uiUsed \in Nat /\ uiReserved \in Nat
  BY DEF IInv, TypeOK
<1>3. GoodBuffer(buf, n)
  <2>1. CASE full
    <3>1. buf \in Grow(n) /\ uiReserved < uiUsed + n
      BY <2>1 DEF BuffersFor
    <3> QED
      BY <3>1, BufferGrown
  <2>2. CASE ~full
    <3>1. buf = Buffer(cpData, block, heap, uiReserved) /\ uiUsed + n =< uiReserved
      BY <1>2, <2>2 DEF BuffersFor
    <3> QED
      BY <3>1, BufferKept
  <2> QED
    BY <2>1, <2>2
<1>4. /\ Filled(buf, source) \in [Blocks -> Seq(Elements)]
      /\ Len(Filled(buf, source)[buf.data]) = buf.reserved
      /\ Fits(buf, source)
  BY <1>3, FilledGood
<1>5. /\ cpData' = buf.data /\ heap' = buf.heap /\ uiReserved' = buf.reserved
      /\ block' = Filled(buf, source)
      /\ answer' = Returned("push", [block |-> buf.data, index |-> uiUsed])
      /\ popped' = NoPopped
      /\ UNCHANGED <<live, uiElementSize, fault>>
  BY <1>1, <1>4
<1>6. uiUsed' = uiUsed + n
  BY <1>1, <1>4, NoWrap
<1>7. MaxUsed \in Nat
  BY VectorAssumption
<1>8. TypeOK'
  <2>1. popped' \in [pointer: Pointer \cup {NoPointer}, value: Elements]
    BY <1>5 DEF NoPopped, Elements
  <2>2. [block |-> buf.data, index |-> uiUsed] \in Pointer
    BY <1>2, <1>3 DEF GoodBuffer, Pointer
  <2>3. answer' \in [call: {"none", "ctor", "dtor", "push", "pop", "get", "clear"}, threw: BOOLEAN,
                     pointer: Pointer \cup {NoPointer}]
    BY <1>5, <2>2 DEF Returned
  <2> QED
    BY <1>2, <1>3, <1>4, <1>5, <1>6, <2>1, <2>3 DEF IInv, TypeOK, GoodBuffer
<1> QED
  BY <1>2, <1>3, <1>4, <1>5, <1>6, <1>7, <1>8 DEF IInv, GoodBuffer, Returned, NoStrayWrite,
     ReserveBacked, PoppedStays, Sized, Dead, LastGood, LastUsed, PoppedBeyond, NoPopped, NoPointer

LEMMA PushThrowsStep ==
  ASSUME IInv, PushThrows
  PROVE  IInv'
<1>1. TypeOK'
  BY DEF PushThrows, IInv, TypeOK, vector, Threw, NoPointer
<1> QED
  BY <1>1 DEF PushThrows, IInv, vector, Threw, NoStrayWrite, ReserveBacked, PoppedStays, Sized,
     Dead, LastGood, LastUsed, PoppedBeyond

LEMMA VecPushStep ==
  ASSUME IInv, NEW source \in Sources(1), VecPush(source)
  PROVE  IInv'
<1>1. uiUsed \in Nat /\ uiReserved \in Nat /\ MaxUsed \in Nat /\ live /\ uiUsed < MaxUsed
  BY VectorAssumption DEF IInv, TypeOK, VecPush
<1>2. CASE Pushed(uiUsed >= uiReserved, source, 1)
  <2>1. source = << >> \/ source \in [1..1 -> Values]
    BY DEF Sources
  <2>2. (uiUsed >= uiReserved) <=> uiReserved < uiUsed + 1
    BY <1>1
  <2>3. (uiUsed >= uiReserved) \in BOOLEAN /\ 1 \in Nat /\ 1 # 0 /\ uiUsed + 1 =< MaxUsed
    BY <1>1
  <2> QED
    BY <1>1, <1>2, <2>1, <2>2, <2>3, PushedStep
<1>3. CASE PushThrows
  BY <1>3, PushThrowsStep
<1> QED
  BY <1>2, <1>3 DEF VecPush

LEMMA VecPushnStep ==
  ASSUME IInv, NEW n \in 0..MaxCount, NEW source \in Sources(n), VecPushn(source, n)
  PROVE  IInv'
<1>1. uiUsed \in Nat /\ uiReserved \in Nat /\ n \in Nat /\ live /\ uiUsed + n =< MaxUsed
  BY VectorAssumption DEF IInv, TypeOK, VecPushn
<1> DEFINE full == (uiUsed + n) % AintSize > uiReserved
<1>2. CASE n # 0 /\ Pushed(full, source, n)
  <2>1. source = << >> \/ source \in [1..n -> Values]
    BY DEF Sources
  <2>2. (uiUsed + n) % AintSize = uiUsed + n
    BY <1>1, NoWrap
  <2>3. full \in BOOLEAN /\ (full <=> uiReserved < uiUsed + n)
    BY <1>1, <2>2
  <2> HIDE DEF full
  <2> QED
    BY <1>1, <1>2, <2>1, <2>3, PushedStep
<1>3. CASE PushThrows
  BY <1>3, PushThrowsStep
<1> QED
  BY <1>2, <1>3 DEF VecPushn

LEMMA PoppedToStep ==
  ASSUME IInv, live, ~fault, NEW used \in Nat, used < uiUsed, PoppedTo(used)
  PROVE  IInv'
<1>1. uiUsed \in Nat /\ uiReserved \in Nat /\ cpData \in Blocks /\ MaxUsed \in Nat
        /\ block[cpData] \in Seq(Elements)
  BY VectorAssumption DEF IInv, TypeOK, Sized
<1>2. used < Len(block[cpData]) /\ used < uiReserved /\ uiUsed =< MaxUsed /\ heap = {cpData}
  BY <1>1 DEF IInv, ReserveBacked, Sized
<1>3. block[cpData][used + 1] \in Elements
  BY <1>1, <1>2
<1>4. popped' = [pointer |-> [block |-> cpData, index |-> used], value |-> block[cpData][used + 1]]
  BY <1>2 DEF PoppedTo, At
<1>5. TypeOK'
  BY <1>1, <1>3, <1>4 DEF PoppedTo, IInv, TypeOK, Returned, At, Pointer
<1> QED
  BY <1>1, <1>2, <1>4, <1>5 DEF PoppedTo, IInv, Returned, At, NoStrayWrite,
     ReserveBacked, PoppedStays, Sized, Dead, LastGood, LastUsed, PoppedBeyond, NoPointer

LEMMA PopsNothingStep ==
  ASSUME IInv, PopsNothing
  PROVE  IInv'
<1>1. TypeOK'
  BY DEF PopsNothing, IInv, TypeOK, vector, Returned, NoPointer
<1> QED
  BY <1>1 DEF PopsNothing, IInv, vector, Returned, NoStrayWrite, ReserveBacked, PoppedStays, Sized,
     Dead, LastGood, LastUsed, PoppedBeyond

\* a pop returns nothing, or moves the top of the stack down
LEMMA PopCases ==
  ASSUME IInv,
         VecPop \/ (\E n \in 0..MaxCount : VecPopn(n)) \/ (\E i \in 0..MaxUsed : VecPopi(i))
  PROVE  live /\ ~fault /\ (PopsNothing \/ \E used \in Nat : used < uiUsed /\ PoppedTo(used))
<1>0. uiUsed \in Nat /\ MaxCount \in Nat /\ MaxUsed \in Nat
  BY VectorAssumption DEF IInv, TypeOK
<1>1. CASE VecPop
  <2>1. CASE uiUsed # 0
    <3>1. uiUsed - 1 \in Nat /\ uiUsed - 1 < uiUsed /\ PoppedTo(uiUsed - 1)
      BY <1>0, <1>1, <2>1 DEF VecPop
    <3> QED
      BY <1>1, <3>1 DEF VecPop
  <2>2. CASE uiUsed = 0
    BY <1>1, <2>2 DEF VecPop
  <2> QED
    BY <2>1, <2>2
<1>2. CASE \E n \in 0..MaxCount : VecPopn(n)
  <2>1. PICK n \in 0..MaxCount : VecPopn(n)
    BY <1>2
  <2>2. CASE n > 0 /\ uiUsed > 0
    <3> DEFINE used == IF uiUsed > n THEN uiUsed - n ELSE 0
    <3>1. used \in Nat /\ used < uiUsed
      BY <1>0, <2>2
    <3>2. PoppedTo(used)
      BY <2>1, <2>2 DEF VecPopn
    <3> HIDE DEF used
    <3> QED
      BY <2>1, <3>1, <3>2 DEF VecPopn
  <2>3. CASE ~(n > 0 /\ uiUsed > 0)
    BY <2>1, <2>3 DEF VecPopn
  <2> QED
    BY <2>2, <2>3
<1>3. CASE \E i \in 0..MaxUsed : VecPopi(i)
  <2>1. PICK i \in 0..MaxUsed : VecPopi(i)
    BY <1>3
  <2> QED
    BY <1>0, <2>1 DEF VecPopi
<1> QED
  BY <1>1, <1>2, <1>3

LEMMA PopSteps ==
  ASSUME IInv,
         VecPop \/ (\E n \in 0..MaxCount : VecPopn(n)) \/ (\E i \in 0..MaxUsed : VecPopi(i))
  PROVE  IInv'
<1>1. CASE PopsNothing
  BY <1>1, PopsNothingStep
<1>2. CASE \E used \in Nat : used < uiUsed /\ PoppedTo(used)
  BY <1>2, PopCases, PoppedToStep
<1> QED
  BY <1>1, <1>2, PopCases

LEMMA VecClearStep ==
  ASSUME IInv, VecClear
  PROVE  IInv'
<1>1. TypeOK'
  BY DEF VecClear, IInv, TypeOK, Returned, NoPointer
<1>2. uiUsed \in Nat /\ uiReserved \in Nat /\ MaxUsed \in Nat
  BY VectorAssumption DEF IInv, TypeOK
<1>3. popped.pointer # NoPointer => popped.pointer \in Pointer
  BY DEF IInv, TypeOK
<1> QED
  BY <1>1, <1>2, <1>3 DEF VecClear, IInv, Returned, NoStrayWrite, ReserveBacked, PoppedStays, Sized,
     Dead, LastGood, LastUsed, PoppedBeyond, Pointer

LEMMA LookedStep ==
  ASSUME IInv, NEW found \in BOOLEAN, NEW i \in Int, found => i \in Nat /\ i < uiUsed,
         Looked(found, i)
  PROVE  IInv'
<1>1. uiUsed \in Nat /\ uiReserved \in Nat /\ live /\ cpData \in Blocks /\ uiUsed =< uiReserved
  BY DEF IInv, TypeOK, Looked, Sized, ReserveBacked
<1>2. TypeOK'
  BY <1>1 DEF Looked, IInv, TypeOK, vector, Returned, At, Pointer, NoPointer
<1> QED
  BY <1>1, <1>2 DEF Looked, IInv, vector, Returned, At, NoStrayWrite, ReserveBacked, PoppedStays,
     Sized, Dead, LastGood, LastUsed, PoppedBeyond, NoPointer

\* a look-up finds an element below the top of the stack, or nothing
LEMMA LookCases ==
  ASSUME IInv, VecFirst \/ VecLast \/ (\E i \in 0..MaxUsed : VecAt(i))
  PROVE  \E found \in BOOLEAN, i \in Int :
           (found => i \in Nat /\ i < uiUsed) /\ Looked(found, i)
<1>1. uiUsed \in Nat /\ MaxUsed \in Nat
  BY VectorAssumption DEF IInv, TypeOK
<1>2. CASE VecFirst
  <2>1. (uiUsed # 0) \in BOOLEAN /\ 0 \in Int /\ (uiUsed # 0 => 0 \in Nat /\ 0 < uiUsed)
    BY <1>1
  <2> QED
    BY <1>2, <2>1 DEF VecFirst
<1>3. CASE VecLast
  <2>1. (uiUsed # 0) \in BOOLEAN /\ uiUsed - 1 \in Int
          /\ (uiUsed # 0 => uiUsed - 1 \in Nat /\ uiUsed - 1 < uiUsed)
    BY <1>1
  <2> QED
    BY <1>3, <2>1 DEF VecLast
<1>4. CASE \E i \in 0..MaxUsed : VecAt(i)
  <2>1. PICK i \in 0..MaxUsed : VecAt(i)
    BY <1>4
  <2> DEFINE found == uiUsed # 0 /\ (i = 0 \/ i < uiUsed)
  <2>2. found \in BOOLEAN /\ i \in Int /\ (found => i \in Nat /\ i < uiUsed)
    BY <1>1
  <2>3. Looked(found, i)
    BY <2>1 DEF VecAt
  <2> HIDE DEF found
  <2> QED
    BY <2>2, <2>3
<1> QED
  BY <1>2, <1>3, <1>4

LEMMA LookSteps ==
  ASSUME IInv, VecFirst \/ VecLast \/ (\E i \in 0..MaxUsed : VecAt(i))
  PROVE  IInv'
<1>1. PICK found \in BOOLEAN, i \in Int :
        (found => i \in Nat /\ i < uiUsed) /\ Looked(found, i)
  BY LookCases
<1> QED
  BY <1>1, LookedStep

LEMMA StoreStep ==
  ASSUME IInv, NEW value \in Values, Store(value)
  PROVE  IInv'
<1> DEFINE p == answer.pointer
<1>1. /\ live /\ ~fault /\ p # NoPointer /\ p \in Pointer
      /\ p.block = cpData /\ p.index < uiUsed /\ p.index \in Nat
  BY DEF Store, IInv, TypeOK, LastGood, LastUsed, Pointer
<1>2. /\ uiUsed \in Nat /\ uiReserved \in Nat /\ uiUsed =< uiReserved /\ cpData \in Blocks
      /\ heap = {cpData} /\ Len(block[cpData]) = uiReserved
      /\ block \in [Blocks -> Seq(Elements)]
  BY <1>1 DEF IInv, TypeOK, ReserveBacked, Sized
<1>3. fault' = fault /\ block' = [block EXCEPT ![cpData][p.index + 1] = value]
  BY <1>1, <1>2 DEF Store
<1> DEFINE new == [block[cpData] EXCEPT ![p.index + 1] = value]
<1>4. new \in Seq(Elements) /\ Len(new) = uiReserved
      /\ \A k \in Nat : k < uiReserved /\ k # p.index => new[k + 1] = block[cpData][k + 1]
  BY <1>1, <1>2 DEF Elements
<1>5. block' = [block EXCEPT ![cpData] = new]
  BY <1>3
<1>6. block' \in [Blocks -> Seq(Elements)] /\ block'[cpData] = new
  <2> HIDE DEF new
  <2> QED BY <1>2, <1>4, <1>5
<1>7. UNCHANGED <<live, cpData, uiElementSize, uiReserved, uiUsed, heap, answer, popped>>
  BY DEF Store, vector
<1>8. TypeOK'
  BY <1>1, <1>3, <1>6, <1>7 DEF IInv, TypeOK
<1>9. PoppedStays'
  <2>1. SUFFICES ASSUME popped.pointer # NoPointer
                 PROVE  /\ popped.pointer.block \in heap /\ popped.pointer.index < Len(block'[popped.pointer.block])
                        /\ block'[popped.pointer.block][popped.pointer.index + 1] = popped.value
    BY <1>7 DEF PoppedStays
  <2>2. /\ popped.pointer.block = cpData /\ uiUsed =< popped.pointer.index
        /\ popped.pointer.index < uiReserved /\ popped.pointer.index \in Nat
        /\ block[cpData][popped.pointer.index + 1] = popped.value
    BY <2>1 DEF IInv, TypeOK, Pointer, PoppedBeyond, PoppedStays
  <2>3. new[popped.pointer.index + 1] = block[cpData][popped.pointer.index + 1]
    <3> HIDE DEF new
    <3> QED BY <1>1, <1>2, <1>4, <2>2
  <2> HIDE DEF new
  <2> QED
    BY <1>2, <1>4, <1>6, <2>2, <2>3
<1> HIDE DEF new
<1> QED
  BY <1>1, <1>2, <1>3, <1>4, <1>6, <1>7, <1>8, <1>9 DEF IInv, NoStrayWrite, ReserveBacked,
     Sized, Dead, LastGood, LastUsed, PoppedBeyond

LEMMA Stutter ==
  ASSUME IInv, UNCHANGED vars
  PROVE  IInv'
<1>1. TypeOK'
  BY DEF IInv, TypeOK, vars, vector
<1> QED
  BY <1>1 DEF IInv, vars, vector, NoStrayWrite, ReserveBacked, PoppedStays, Sized, Dead, LastGood,
     LastUsed, PoppedBeyond

LEMMA Preserved ==
  ASSUME IInv, [Next]_vars
  PROVE  IInv'
<1>1. CASE \E size \in ElementSizes, n \in InitialAllocs : VecCtor(size, n)
  BY <1>1, VecCtorStep
<1>2. CASE \E source \in Sources(1) : VecPush(source)
  BY <1>2, VecPushStep
<1>3. CASE \E n \in 0..MaxCount : \E source \in Sources(n) : VecPushn(source, n)
  BY <1>3, VecPushnStep
<1>4. CASE VecPop \/ (\E n \in 0..MaxCount : VecPopn(n)) \/ (\E i \in 0..MaxUsed : VecPopi(i))
  BY <1>4, PopSteps
<1>5. CASE VecClear
  BY <1>5, VecClearStep
<1>6. CASE VecFirst \/ VecLast \/ (\E i \in 0..MaxUsed : VecAt(i))
  BY <1>6, LookSteps
<1>7. CASE VecDtor
  BY <1>7, VecDtorStep
<1>8. CASE \E value \in Values : Store(value)
  BY <1>8, StoreStep
<1>9. CASE UNCHANGED vars
  BY <1>9, Stutter
<1> QED
  BY <1>1, <1>2, <1>3, <1>4, <1>5, <1>6, <1>7, <1>8, <1>9 DEF Next

-----------------------------------------------------------------------------
(* The theorems.                                                           *)

LEMMA Inductive == Spec => []IInv
<1>1. Init => IInv
  BY InitIInv
<1>2. IInv /\ [Next]_vars => IInv'
  BY Preserved
<1> QED
  BY <1>1, <1>2, PTL DEF Spec

(***************************************************************************)
(* Every variable of the vector keeps its type, whatever sizes and         *)
(* counts the application uses.                                            *)
(***************************************************************************)
THEOREM VectorTypeOK == Spec => []TypeOK
<1>1. IInv => TypeOK
  BY DEF IInv
<1> QED
  BY <1>1, Inductive, PTL

(***************************************************************************)
(* As long as 4 * MaxUsed elements fit in an aint's worth of bytes, the    *)
(* reserve that every push compares with is backed by the buffer: the two  *)
(* products of vGrow do not wrap, and a throw leaves the fields as they    *)
(* were.                                                                   *)
(***************************************************************************)
THEOREM VectorReserveBacked == Spec => []ReserveBacked
<1>1. IInv => ReserveBacked
  BY DEF IInv
<1> QED
  BY <1>1, Inductive, PTL

(***************************************************************************)
(* No push writes outside its buffer, and no pointer that the last call    *)
(* returned leads outside it.                                              *)
(***************************************************************************)
THEOREM VectorNoStrayWrite == Spec => []NoStrayWrite
<1>1. IInv => NoStrayWrite
  BY DEF IInv
<1> QED
  BY <1>1, Inductive, PTL

(***************************************************************************)
(* A popped element can be read until the next push.                       *)
(***************************************************************************)
THEOREM VectorPoppedStays == Spec => []PoppedStays
<1>1. IInv => PoppedStays
  BY DEF IInv
<1> QED
  BY <1>1, Inductive, PTL

-----------------------------------------------------------------------------
(* The vector is a stack: every step is one of VectorApi's, or changes     *)
(* nothing that it shows.                                                  *)

\* the first n elements of a buffer
LEMMA Prefix ==
  ASSUME NEW s \in Seq(Elements), NEW n \in Nat, n =< Len(s)
  PROVE  /\ SubSeq(s, 1, n) \in Seq(Elements) /\ Len(SubSeq(s, 1, n)) = n
         /\ \A i \in 1..n : SubSeq(s, 1, n)[i] = s[i]
<1>1. \A i \in 1..n : s[i] \in Elements
  BY ElementOfSeq
<1>2. 1 \in Int /\ n \in Int
  OBVIOUS
<1>3. /\ SubSeq(s, 1, n) \in Seq(Elements)
      /\ Len(SubSeq(s, 1, n)) = IF 1 =< n THEN n - 1 + 1 ELSE 0
      /\ \A i \in 1..(n - 1 + 1) : SubSeq(s, 1, n)[i] = s[1 + i - 1]
  BY <1>1, <1>2, SubSeqProperties
<1> QED
  BY <1>3

\* buffers that begin alike hold the same content
LEMMA SamePrefix ==
  ASSUME NEW s \in Seq(Elements), NEW t \in Seq(Elements), NEW n \in Nat,
         n =< Len(s), n =< Len(t), \A i \in 1..n : s[i] = t[i]
  PROVE  SubSeq(s, 1, n) = SubSeq(t, 1, n)
<1>1. /\ SubSeq(s, 1, n) \in Seq(Elements) /\ Len(SubSeq(s, 1, n)) = n
      /\ SubSeq(t, 1, n) \in Seq(Elements) /\ Len(SubSeq(t, 1, n)) = n
      /\ \A i \in 1..n : SubSeq(s, 1, n)[i] = SubSeq(t, 1, n)[i]
  BY Prefix
<1> QED
  BY <1>1, SeqEqual

\* what is popped is cut off the end
LEMMA PrefixOfPrefix ==
  ASSUME NEW s \in Seq(Elements), NEW n \in Nat, NEW m \in Nat, m =< n, n =< Len(s)
  PROVE  SubSeq(SubSeq(s, 1, n), 1, m) = SubSeq(s, 1, m)
<1>1. /\ SubSeq(s, 1, n) \in Seq(Elements) /\ Len(SubSeq(s, 1, n)) = n
      /\ \A i \in 1..n : SubSeq(s, 1, n)[i] = s[i]
  BY Prefix
<1>2. \A i \in 1..m : SubSeq(s, 1, n)[i] = s[i]
  BY <1>1
<1> QED
  BY <1>1, <1>2, SamePrefix

\* what is stored below the end is stored in the content
LEMMA Stored ==
  ASSUME NEW s \in Seq(Elements), NEW n \in Nat, n =< Len(s), NEW p \in 1..n, NEW e \in Elements
  PROVE  SubSeq([s EXCEPT ![p] = e], 1, n) = [SubSeq(s, 1, n) EXCEPT ![p] = e]
<1> DEFINE new == [s EXCEPT ![p] = e]
           old == SubSeq(s, 1, n)
           u == SubSeq(new, 1, n)
           v == [old EXCEPT ![p] = e]
<1>1. new \in Seq(Elements) /\ Len(new) = Len(s)
      /\ \A j \in 1..Len(s) : new[j] = IF j = p THEN e ELSE s[j]
  <2>1. p \in 1..Len(s)
    OBVIOUS
  <2> QED
    BY <2>1, ExceptSeq
<1>2. old \in Seq(Elements) /\ Len(old) = n /\ \A i \in 1..n : old[i] = s[i]
  BY Prefix
<1> HIDE DEF new, old
<1>3. u \in Seq(Elements) /\ Len(u) = n /\ \A i \in 1..n : u[i] = new[i]
  BY <1>1, Prefix
<1>4. v \in Seq(Elements) /\ Len(v) = n /\ \A j \in 1..n : v[j] = IF j = p THEN e ELSE old[j]
  BY <1>2, ExceptSeq
<1> HIDE DEF u, v
<1>5. \A i \in 1..n : u[i] = v[i]
  <2> SUFFICES ASSUME NEW i \in 1..n PROVE u[i] = v[i]
    OBVIOUS
  <2>1. i \in 1..Len(s)
    OBVIOUS
  <2> QED
    BY <1>1, <1>2, <1>3, <1>4, <2>1
<1>6. u = v
  BY <1>3, <1>4, <1>5, SeqEqual
<1> QED
  BY <1>6 DEF u, v, new, old

\* what is pushed is put at the end
LEMMA PrefixGrows ==
  ASSUME NEW s \in Seq(Elements), NEW t \in Seq(Elements), NEW m \in Nat, NEW n \in Nat,
         m =< Len(s), m + n =< Len(t), \A i \in 1..m : s[i] = t[i]
  PROVE  \E new \in [1..n -> Elements] : SubSeq(t, 1, m + n) = SubSeq(s, 1, m) \o new
<1> DEFINE new == [i \in 1..n |-> t[m + i]]
           old == SubSeq(s, 1, m)
           all == SubSeq(t, 1, m + n)
<1>1. /\ old \in Seq(Elements) /\ Len(old) = m /\ \A i \in 1..m : old[i] = s[i]
  BY Prefix
<1>2. /\ all \in Seq(Elements) /\ Len(all) = m + n /\ \A i \in 1..(m + n) : all[i] = t[i]
  BY m + n \in Nat, Prefix
<1>3. \A i \in 1..n : t[m + i] \in Elements
  BY ElementOfSeq
<1>4. new \in [1..n -> Elements]
  BY <1>3
<1>5. new \in Seq(Elements) /\ Len(new) = n /\ \A i \in 1..n : new[i] = t[m + i]
  <2>1. \A i \in 1..n : new[i] = t[m + i]
    OBVIOUS
  <2> HIDE DEF new
  <2> QED
    BY SMTT(40), <1>4, <2>1
<1> HIDE DEF new, old, all
<1>6. /\ old \o new \in Seq(Elements) /\ Len(old \o new) = m + n
      /\ \A i \in 1..(m + n) : (old \o new)[i] = IF i =< m THEN old[i] ELSE new[i - m]
  BY ZenonT(60), <1>1, <1>5, ConcatProperties
<1>7. \A i \in 1..(m + n) : (old \o new)[i] = all[i]
  <2> SUFFICES ASSUME NEW i \in 1..(m + n) PROVE (old \o new)[i] = all[i]
    OBVIOUS
  <2>1. CASE i =< m
    <3>1. i \in 1..m
      BY <2>1
    <3>2. old[i] = t[i]
      BY <1>1, <3>1
    <3>3. (old \o new)[i] = old[i]
      BY <1>6, <2>1
    <3> QED
      BY <1>2, <3>2, <3>3
  <2>2. CASE ~(i =< m)
    <3>1. i - m \in 1..n /\ m + (i - m) = i
      BY <2>2
    <3>2. new[i - m] = t[i]
      BY <1>5, <3>1
    <3>3. (old \o new)[i] = new[i - m]
      BY <1>6, <2>2
    <3> QED
      BY <1>2, <3>2, <3>3
  <2> QED
    BY <2>1, <2>2
<1>8. all = old \o new
  BY <1>2, <1>6, <1>7, SeqEqual
<1> QED
  BY <1>4, <1>8 DEF new, old, all

-----------------------------------------------------------------------------
(* The refinement.                                                         *)

\* what the application sees of a vector that satisfies the invariant
LEMMA ContentIs ==
  ASSUME IInv
  PROVE  /\ Content \in Seq(Elements)
         /\ live => /\ uiUsed \in Nat /\ uiUsed =< Len(block[cpData])
                    /\ block[cpData] \in Seq(Elements)
                    /\ Content = SubSeq(block[cpData], 1, uiUsed)
                    /\ Len(Content) = uiUsed /\ DOMAIN Content = 1..uiUsed
         /\ ~live => Content = << >>
<1>1. CASE live
  <2>1. uiUsed \in Nat /\ uiUsed =< Len(block[cpData]) /\ block[cpData] \in Seq(Elements)
    BY <1>1 DEF IInv, TypeOK, ReserveBacked, Sized
  <2>2. Content = SubSeq(block[cpData], 1, uiUsed)
    BY <1>1 DEF Content
  <2>3. Content \in Seq(Elements) /\ Len(Content) = uiUsed
    BY <2>1, <2>2, Prefix
  <2>4. DOMAIN Content = 1..uiUsed
    BY <2>3, LenProperties
  <2> QED
    BY <1>1, <2>1, <2>2, <2>3, <2>4
<1>2. CASE ~live
  <2>1. Content = << >>
    BY <1>2 DEF Content
  <2> QED
    BY <1>2, <2>1, EmptySeq
<1> QED
  BY <1>1, <1>2

LEMMA PositionIs ==
  ASSUME IInv
  PROVE  /\ answer.pointer = NoPointer => Position = 0
         /\ answer.pointer # NoPointer => Position = answer.pointer.index + 1
         /\ (live /\ answer.call \in {"push", "get"} /\ answer.pointer # NoPointer) =>
              Position \in 1..uiUsed
<1>1. answer.pointer # NoPointer => answer.pointer.index \in Nat
  BY DEF IInv, TypeOK, Pointer
<1>2. uiUsed \in Nat
  BY DEF IInv, TypeOK
<1> QED
  BY <1>1, <1>2 DEF Position, IInv, LastUsed

\* a step that leaves the stack alone, and a step that empties it
LEMMA ContentKept ==
  ASSUME UNCHANGED <<live, cpData, uiUsed, block>>
  PROVE  UNCHANGED Content
BY DEF Content

\* what a call that returns p shows
LEMMA Answered ==
  ASSUME NEW c, NEW p, answer' = Returned(c, p)
  PROVE  /\ answer'.call = c /\ answer'.threw = FALSE
         /\ Position' = IF p = NoPointer THEN 0 ELSE p.index + 1
BY DEF Returned, Position

LEMMA AnsweredThrow ==
  ASSUME NEW c, answer' = Threw(c)
  PROVE  answer'.call = c /\ answer'.threw = TRUE /\ Position' = 0
BY DEF Threw, Position

\* a pointer into a block is not NULL
LEMMA AtIsPointer ==
  ASSUME IInv, live, NEW i
  PROVE  At(i) # NoPointer /\ At(i).index = i
<1>1. cpData # NULL
  BY VectorAssumption DEF IInv, Sized
<1>2. At(i).block = cpData /\ NoPointer.block = NULL /\ At(i).index = i
  BY DEF At, NoPointer
<1> QED
  BY <1>1, <1>2

LEMMA CtorRefines ==
  ASSUME IInv, NEW size \in ElementSizes, NEW n \in InitialAllocs, VecCtor(size, n)
  PROVE  Api!Next
<1>1. Content = << >>
  BY ContentIs DEF VecCtor
<1>2. Content' = << >>
  <2>1. CASE UNCHANGED vector
    BY <2>1 DEF vector, VecCtor, Content
  <2>2. CASE uiUsed' = 0 /\ live' = TRUE
    BY <2>2, SubSeqEmpty DEF Content
  <2> QED
    BY <2>1, <2>2 DEF VecCtor
<1>3. \E t \in BOOLEAN : answer'.call = "ctor" /\ answer'.threw = t /\ Position' = 0
  <2>1. CASE answer' = Threw("ctor")
    BY <2>1, AnsweredThrow
  <2>2. CASE answer' = Returned("ctor", NoPointer)
    BY <2>2, Answered
  <2> QED
    BY <2>1, <2>2 DEF VecCtor
<1> QED
  BY <1>1, <1>2, <1>3 DEF Api!Next, Api!Ctor, Api!Outcome

LEMMA DtorRefines ==
  ASSUME IInv, VecDtor
  PROVE  Api!Next
<1>1. Content' = << >>
  BY DEF VecDtor, Content
<1>2. answer'.call = "dtor" /\ answer'.threw = FALSE /\ Position' = 0
  BY Answered DEF VecDtor
<1> QED
  BY <1>1, <1>2 DEF Api!Next, Api!Dtor, Api!Outcome

(***************************************************************************)
(* A push moves nothing that was there: the buffer it writes to begins     *)
(* with the old content.                                                   *)
(***************************************************************************)
LEMMA BufferBegins ==
  ASSUME IInv, live, NEW full \in BOOLEAN, NEW n \in Nat, uiUsed + n =< MaxUsed,
         full <=> uiReserved < uiUsed + n, NEW buf \in BuffersFor(full, n)
  PROVE  /\ GoodBuffer(buf, n)
         /\ \A i \in 1..uiUsed : buf.block[buf.data][i] = block[cpData][i]
<1>1. /\ uiUsed \in Nat /\ uiReserved \in Nat /\ uiUsed =< Len(block[cpData])
      /\ block[cpData] \in Seq(Elements) /\ heap = {cpData} /\ cpData \in Blocks
      /\ block \in [Blocks -> Seq(Elements)]
  BY DEF IInv, TypeOK, ReserveBacked, Sized
<1>2. CASE full
  <2>1. buf \in Grow(n) /\ uiReserved < uiUsed + n
    BY <1>2 DEF BuffersFor
  <2>2. GoodBuffer(buf, n)
    BY <2>1, BufferGrown
  <2>3. PICK b \in Blocks \ heap :
          buf = Buffer(b, Moved(b, NewReserved(n)), (heap \ {cpData}) \cup {b}, NewReserved(n))
    BY <2>1 DEF Grow
  <2>4. /\ NewReserved(n) \in Nat /\ uiUsed + n =< NewReserved(n)
        /\ Room((uiElementSize * NewReserved(n)) % AintSize, uiElementSize) = NewReserved(n)
    BY <2>1, GrownSize
  <2> DEFINE copy == Copied(block[cpData], NewReserved(n))
  <2>5. \A i \in 1..uiUsed : copy[i] = block[cpData][i]
    BY <1>1, <2>4 DEF Copied
  <2>6. Moved(b, NewReserved(n)) = [block EXCEPT ![b] = copy, ![cpData] = << >>]
    BY <2>4 DEF Moved
  <2> HIDE DEF copy
  <2>7. Moved(b, NewReserved(n))[b] = copy
    BY <1>1, <2>3, <2>6
  <2>8. buf.block[buf.data] = copy
    BY <2>3, <2>7 DEF Buffer
  <2> QED
    BY <2>2, <2>5, <2>8
<1>3. CASE ~full
  <2>1. buf = Buffer(cpData, block, heap, uiReserved) /\ uiUsed + n =< uiReserved
    BY <1>1, <1>3 DEF BuffersFor
  <2> QED
    BY <2>1, BufferKept DEF Buffer
<1> QED
  BY <1>2, <1>3

LEMMA PushedRefines ==
  ASSUME IInv, live, NEW full \in BOOLEAN, NEW n \in 1..MaxCount, uiUsed + n =< MaxUsed,
         full <=> uiReserved < uiUsed + n,
         NEW source, source = << >> \/ source \in [1..n -> Values],
         Pushed(full, source, n)
  PROVE  Api!Next
<1>1. n \in Nat /\ n # 0
  BY VectorAssumption
<1>2. PICK buf \in BuffersFor(full, n) :
        IF Fits(buf, source)
        THEN /\ cpData' = buf.data
             /\ block' = Filled(buf, source)
             /\ uiUsed' = (uiUsed + n) % AintSize
             /\ answer' = Returned("push", [block |-> buf.data, index |-> uiUsed])
             /\ UNCHANGED live
        ELSE fault' = TRUE
  BY DEF Pushed
<1>3. /\ GoodBuffer(buf, n)
      /\ \A i \in 1..uiUsed : buf.block[buf.data][i] = block[cpData][i]
  BY <1>1, <1>2, BufferBegins
<1>4. /\ Filled(buf, source) \in [Blocks -> Seq(Elements)]
      /\ Len(Filled(buf, source)[buf.data]) = buf.reserved
      /\ Fits(buf, source)
  BY <1>1, <1>3, FilledGood
<1>5. /\ cpData' = buf.data /\ block' = Filled(buf, source) /\ live'
      /\ uiUsed' = uiUsed + n
      /\ answer' = Returned("push", [block |-> buf.data, index |-> uiUsed])
  BY <1>1, <1>2, <1>4, NoWrap
<1>6. /\ uiUsed \in Nat /\ uiUsed =< Len(block[cpData]) /\ block[cpData] \in Seq(Elements)
      /\ Content = SubSeq(block[cpData], 1, uiUsed) /\ Len(Content) = uiUsed
  BY ContentIs
<1> DEFINE s == block[cpData]
           t == Filled(buf, source)[buf.data]
<1>7. t \in Seq(Elements) /\ uiUsed + n =< Len(t)
  BY <1>3, <1>4 DEF GoodBuffer
<1>8. \A i \in 1..uiUsed : t[i] = s[i]
  <2>1. t = [i \in 1..Len(buf.block[buf.data]) |->
               IF i - uiUsed \in DOMAIN source THEN source[i - uiUsed] ELSE buf.block[buf.data][i]]
    BY <1>3 DEF Filled, GoodBuffer
  <2>2. uiUsed =< Len(buf.block[buf.data]) /\ Len(buf.block[buf.data]) \in Nat
    BY <1>1, <1>3, <1>6 DEF GoodBuffer
  <2>3. \A i \in 1..uiUsed : i - uiUsed \notin DOMAIN source
    <3>1. DOMAIN source = {} \/ DOMAIN source = 1..n
      BY EmptySeq
    <3> QED
      BY <1>1, <1>6, <3>1
  <2> HIDE DEF t
  <2>4. ASSUME NEW i \in 1..uiUsed PROVE t[i] = s[i]
    <3>1. i \in 1..Len(buf.block[buf.data])
      BY <1>6, <2>2
    <3> QED
      BY <1>3, <2>1, <2>3, <3>1
  <2> QED
    BY <2>4
<1>9. Content' = SubSeq(t, 1, uiUsed + n)
  BY <1>5 DEF Content
<1> HIDE DEF s, t
<1>10. \E new \in [1..n -> Elements] : SubSeq(t, 1, uiUsed + n) = SubSeq(s, 1, uiUsed) \o new
  <2>1. s \in Seq(Elements) /\ uiUsed =< Len(s)
    BY <1>6 DEF s
  <2> QED
    BY ZenonT(60), <1>1, <1>6, <1>7, <1>8, <2>1, PrefixGrows
<1>11. PICK new \in [1..n -> Elements] : Content' = Content \o new
  BY <1>6, <1>9, <1>10 DEF s
<1>12. new # << >>
  <2>1. DOMAIN new = 1..n /\ 1 \in DOMAIN new
    BY <1>1
  <2> QED
    BY <2>1
<1>13. answer'.call = "push" /\ answer'.threw = FALSE /\ Position' = Len(Content) + 1
  <2>1. [block |-> buf.data, index |-> uiUsed] # NoPointer
    <3>1. buf.data # NULL
      BY <1>3, VectorAssumption DEF GoodBuffer
    <3> QED
      BY <3>1 DEF NoPointer
  <2> DEFINE p == [block |-> buf.data, index |-> uiUsed]
  <2>2. answer' = Returned("push", p) /\ p # NoPointer /\ p.index = uiUsed
    BY <1>5, <2>1
  <2> HIDE DEF p
  <2>3. /\ answer'.call = "push" /\ answer'.threw = FALSE
        /\ Position' = IF p = NoPointer THEN 0 ELSE p.index + 1
    BY <2>2, Answered
  <2> QED
    BY <1>6, <2>2, <2>3
<1>14. Api!Push(new)
  BY <1>11, <1>12, <1>13 DEF Api!Push, Api!Outcome
<1>15. new \in [1..n -> Values \cup {Junk}]
  BY DEF Elements
<1> QED
  BY <1>14, <1>15 DEF Api!Next

LEMMA PushThrowsRefines ==
  ASSUME PushThrows
  PROVE  Api!Next
<1>1. UNCHANGED Content
  BY ContentKept DEF PushThrows, vector
<1>2. answer'.call = "push" /\ answer'.threw = TRUE /\ Position' = 0
  BY AnsweredThrow DEF PushThrows
<1> QED
  BY <1>1, <1>2 DEF Api!Next, Api!PushThrows, Api!Outcome

LEMMA PushRefines ==
  ASSUME IInv,
         \/ \E source \in Sources(1) : VecPush(source)
         \/ \E n \in 0..MaxCount : \E source \in Sources(n) : VecPushn(source, n)
  PROVE  Api!Next
<1>1. uiUsed \in Nat /\ uiReserved \in Nat /\ MaxUsed \in Nat /\ MaxCount \in Nat \ {0}
  BY VectorAssumption DEF IInv, TypeOK
<1>2. ASSUME NEW source \in Sources(1), VecPush(source)
      PROVE  Api!Next
  <2>1. CASE Pushed(uiUsed >= uiReserved, source, 1)
    <3>1. source = << >> \/ source \in [1..1 -> Values]
      BY DEF Sources
    <3>2. (uiUsed >= uiReserved) <=> uiReserved < uiUsed + 1
      BY <1>1
    <3>3. live /\ (uiUsed >= uiReserved) \in BOOLEAN /\ 1 \in 1..MaxCount /\ uiUsed + 1 =< MaxUsed
      BY <1>1, <1>2 DEF VecPush
    <3> QED
      BY <2>1, <3>1, <3>2, <3>3, PushedRefines
  <2>2. CASE PushThrows
    BY <2>2, PushThrowsRefines
  <2> QED
    BY <1>2, <2>1, <2>2 DEF VecPush
<1>3. ASSUME NEW n \in 0..MaxCount, NEW source \in Sources(n), VecPushn(source, n)
      PROVE  Api!Next
  <2> DEFINE full == (uiUsed + n) % AintSize > uiReserved
  <2>1. CASE n # 0 /\ Pushed(full, source, n)
    <3>1. source = << >> \/ source \in [1..n -> Values]
      BY DEF Sources
    <3>2. live /\ uiUsed + n =< MaxUsed /\ n \in 1..MaxCount /\ n \in Nat
      BY <1>1, <1>3, <2>1 DEF VecPushn
    <3>3. (uiUsed + n) % AintSize = uiUsed + n
      BY <3>2, NoWrap
    <3>4. full \in BOOLEAN /\ (full <=> uiReserved < uiUsed + n)
      BY <1>1, <3>2, <3>3
    <3> HIDE DEF full
    <3> QED
      BY <2>1, <3>1, <3>2, <3>4, PushedRefines
  <2>2. CASE PushThrows
    BY <2>2, PushThrowsRefines
  <2> QED
    BY <1>3, <2>1, <2>2 DEF VecPushn
<1> QED
  BY <1>2, <1>3

LEMMA PoppedToRefines ==
  ASSUME IInv, live, NEW used \in Nat, used < uiUsed, PoppedTo(used)
  PROVE  Api!Next
<1>1. /\ uiUsed \in Nat /\ uiUsed =< Len(block[cpData]) /\ block[cpData] \in Seq(Elements)
      /\ Content = SubSeq(block[cpData], 1, uiUsed) /\ DOMAIN Content = 1..uiUsed
  BY ContentIs
<1>2. Content' = SubSeq(block[cpData], 1, used)
  BY DEF PoppedTo, Content
<1>3. SubSeq(Content, 1, used) = SubSeq(block[cpData], 1, used)
  BY <1>1, PrefixOfPrefix
<1>4. answer'.call = "pop" /\ answer'.threw = FALSE /\ Position' = used + 1
  <2>1. answer' = Returned("pop", At(used))
    BY DEF PoppedTo
  <2>2. At(used) # NoPointer /\ At(used).index = used
    BY AtIsPointer
  <2>3. /\ answer'.call = "pop" /\ answer'.threw = FALSE
        /\ Position' = IF At(used) = NoPointer THEN 0 ELSE At(used).index + 1
    BY <2>1, Answered
  <2> QED
    BY <2>2, <2>3
<1>5. used + 1 \in DOMAIN Content /\ (used + 1) - 1 = used
  BY <1>1
<1>6. Api!PopTo(used + 1)
  BY <1>2, <1>3, <1>4, <1>5 DEF Api!PopTo, Api!Outcome
<1> QED
  BY <1>5, <1>6 DEF Api!Next

LEMMA PopsNothingRefines ==
  ASSUME PopsNothing
  PROVE  Api!Next
<1>1. UNCHANGED Content
  BY ContentKept DEF PopsNothing, vector
<1>2. answer'.call = "pop" /\ answer'.threw = FALSE /\ Position' = 0
  BY Answered DEF PopsNothing
<1> QED
  BY <1>1, <1>2 DEF Api!Next, Api!PopsNothing, Api!Outcome

LEMMA PopRefines ==
  ASSUME IInv,
         VecPop \/ (\E n \in 0..MaxCount : VecPopn(n)) \/ (\E i \in 0..MaxUsed : VecPopi(i))
  PROVE  Api!Next
<1>1. CASE PopsNothing
  BY <1>1, PopsNothingRefines
<1>2. CASE \E used \in Nat : used < uiUsed /\ PoppedTo(used)
  BY <1>2, PopCases, PoppedToRefines
<1> QED
  BY <1>1, <1>2, PopCases

LEMMA ClearRefines ==
  ASSUME VecClear
  PROVE  Api!Next
<1>1. Content' = << >>
  BY SubSeqEmpty DEF VecClear, Content
<1>2. answer'.call = "clear" /\ answer'.threw = FALSE /\ Position' = 0
  BY Answered DEF VecClear
<1> QED
  BY <1>1, <1>2 DEF Api!Next, Api!Clear, Api!Outcome

LEMMA LookedRefines ==
  ASSUME IInv, NEW found \in BOOLEAN, NEW i \in Int, found => i \in Nat /\ i < uiUsed,
         Looked(found, i)
  PROVE  Api!Next
<1>1. live /\ answer' = Returned("get", IF found THEN At(i) ELSE NoPointer)
  BY DEF Looked
<1>2. uiUsed \in Nat /\ DOMAIN Content = 1..uiUsed
  BY <1>1, ContentIs
<1>3. UNCHANGED Content
  BY ContentKept DEF Looked, vector
<1>4. answer'.call = "get" /\ answer'.threw = FALSE /\ Position' \in {0} \cup DOMAIN Content
  <2>1. CASE found
    <3>1. At(i) # NoPointer /\ At(i).index = i
      BY <1>1, AtIsPointer
    <3>2. answer' = Returned("get", At(i))
      BY <1>1, <2>1
    <3>3. /\ answer'.call = "get" /\ answer'.threw = FALSE
          /\ Position' = IF At(i) = NoPointer THEN 0 ELSE At(i).index + 1
      BY <3>2, Answered
    <3>4. i + 1 \in 1..uiUsed
      BY <1>2, <2>1
    <3> QED
      BY <1>2, <3>1, <3>3, <3>4
  <2>2. CASE ~found
    <3>1. answer' = Returned("get", NoPointer)
      BY <1>1, <2>2
    <3> QED
      BY <3>1, Answered
  <2> QED
    BY <2>1, <2>2
<1> QED
  BY <1>3, <1>4 DEF Api!Next, Api!Look, Api!Outcome

LEMMA LookRefines ==
  ASSUME IInv, VecFirst \/ VecLast \/ (\E i \in 0..MaxUsed : VecAt(i))
  PROVE  Api!Next
<1>1. PICK found \in BOOLEAN, i \in Int :
        (found => i \in Nat /\ i < uiUsed) /\ Looked(found, i)
  BY LookCases
<1> QED
  BY <1>1, LookedRefines

LEMMA StoreRefines ==
  ASSUME IInv, NEW value \in Values, Store(value)
  PROVE  Api!Next
<1> DEFINE p == answer.pointer
           s == block[cpData]
           new == [s EXCEPT ![p.index + 1] = value]
<1>1. /\ live /\ ~fault /\ p # NoPointer /\ p \in Pointer /\ answer.call \in {"push", "get"}
      /\ p.block = cpData /\ p.index < uiUsed /\ p.index \in Nat
  BY DEF Store, IInv, TypeOK, LastGood, LastUsed, Pointer
<1>2. /\ uiUsed \in Nat /\ uiUsed =< Len(s) /\ s \in Seq(Elements) /\ cpData \in Blocks
      /\ heap = {cpData} /\ block \in [Blocks -> Seq(Elements)]
      /\ Content = SubSeq(s, 1, uiUsed) /\ Content \in Seq(Elements)
      /\ Len(Content) = uiUsed /\ DOMAIN Content = 1..uiUsed
  BY <1>1, ContentIs DEF IInv, TypeOK, ReserveBacked, Sized
<1>3. Position = p.index + 1 /\ Position \in 1..uiUsed
  BY <1>1, PositionIs
<1>4. block' = [block EXCEPT ![cpData] = new]
  BY <1>1, <1>2 DEF Store
<1>5. UNCHANGED <<live, cpData, uiUsed, answer>>
  BY DEF Store, vector
<1>6. value \in Elements
  BY DEF Elements
<1>7. /\ new \in Seq(Elements) /\ Len(new) = Len(s)
      /\ \A j \in 1..Len(s) : new[j] = IF j = Position THEN value ELSE s[j]
  <2>1. Position \in 1..Len(s)
    BY <1>2, <1>3
  <2> HIDE DEF s, p
  <2> QED
    BY <1>2, <1>3, <1>6, <2>1, ExceptSeq
<1> HIDE DEF new
<1>8. block'[cpData] = new
  BY <1>2, <1>4
<1>9. Content' = SubSeq(new, 1, uiUsed)
  BY <1>1, <1>5, <1>8 DEF Content
<1> HIDE DEF s, p
<1>10. Content' = [Content EXCEPT ![Position] = value]
  <2>1. new = [s EXCEPT ![Position] = value]
    BY <1>3 DEF new, p
  <2> QED
    <3> HIDE DEF new, s
    <3>0. s \in Seq(Elements) /\ uiUsed \in Nat /\ uiUsed =< Len(s)
      BY <1>2
    <3>1. \A q \in 1..uiUsed : \A e \in Elements :
            SubSeq([s EXCEPT ![q] = e], 1, uiUsed) = [SubSeq(s, 1, uiUsed) EXCEPT ![q] = e]
      BY ONLY <3>0, Stored
    <3>2. Content = SubSeq(s, 1, uiUsed)
      BY <1>2
    <3> QED
      BY ONLY <1>3, <1>6, <1>9, <2>1, <3>1, <3>2, Zenon
<1>11. Position \in DOMAIN Content
  BY <1>2, <1>3
<1>12. UNCHANGED Position /\ UNCHANGED <<answer.call, answer.threw>>
  BY <1>5 DEF Position
<1>13. Api!Store(value)
  BY <1>10, <1>11, <1>12 DEF Api!Store
<1> QED
  BY <1>13 DEF Api!Next

LEMMA StutterRefines ==
  ASSUME UNCHANGED vars
  PROVE  UNCHANGED Api!vars
<1>1. UNCHANGED Content
  BY ContentKept DEF vars, vector
<1> QED
  BY <1>1 DEF vars, Position, Api!vars

LEMMA StepRefines ==
  ASSUME IInv, [Next]_vars
  PROVE  [Api!Next]_(Api!vars)
<1>1. CASE \E size \in ElementSizes, n \in InitialAllocs : VecCtor(size, n)
  BY <1>1, CtorRefines
<1>2. CASE \/ \E source \in Sources(1) : VecPush(source)
           \/ \E n \in 0..MaxCount : \E source \in Sources(n) : VecPushn(source, n)
  BY <1>2, PushRefines
<1>3. CASE VecPop \/ (\E n \in 0..MaxCount : VecPopn(n)) \/ (\E i \in 0..MaxUsed : VecPopi(i))
  BY <1>3, PopRefines
<1>4. CASE VecClear
  BY <1>4, ClearRefines
<1>5. CASE VecFirst \/ VecLast \/ (\E i \in 0..MaxUsed : VecAt(i))
  BY <1>5, LookRefines
<1>6. CASE VecDtor
  BY <1>6, DtorRefines
<1>7. CASE \E value \in Values : Store(value)
  BY <1>7, StoreRefines
<1>8. CASE UNCHANGED vars
  BY <1>8, StutterRefines
<1> QED
  BY <1>1, <1>2, <1>3, <1>4, <1>5, <1>6, <1>7, <1>8 DEF Next

(***************************************************************************)
(* The vector of vector.c is the stack of VectorApi: whatever the sizes,   *)
(* however often growth moves the buffer and wherever the memory runs out, *)
(* the elements keep their places and values, every call returns the       *)
(* position its documentation names, and a call that throws changes        *)
(* nothing.                                                                *)
(***************************************************************************)
THEOREM VectorIsStack == Spec => VectorImplementsApi
<1>1. Init => Api!Init
  BY DEF Init, Api!Init, Content, Position, Returned
<1>2. IInv /\ [Next]_vars => [Api!Next]_(Api!vars)
  BY StepRefines
<1> QED
  BY <1>1, <1>2, Inductive, PTL DEF Spec, VectorImplementsApi, Api!Spec
=============================================================================
