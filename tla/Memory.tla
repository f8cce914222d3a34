-------------------------------- MODULE Memory --------------------------------
(***************************************************************************)
(* The memory component (library/memory.c): every block that an            *)
(* application allocates hangs on a circular, doubly linked list of cells, *)
(* so that destroying the component frees them all.                        *)
(*                                                                         *)
(* A cell is identified with the address that malloc returned for it; the  *)
(* user's data lies behind it and is abstracted away. heap is the set of   *)
(* addresses that malloc handed out and free has not taken back. To read   *)
(* or write a cell outside heap is undefined behaviour: the step that does *)
(* so sets fault, and nothing is said of the program from there on.        *)
(***************************************************************************)
EXTENDS Integers, FiniteSets

CONSTANTS
  Cells,        \* the addresses malloc may return
  NULL,
  Sizes,        \* the byte counts the application asks for
  SoleRealloc,  \* whether the application may resize the only block there is
  MaxSeq        \* bound: no block is allocated behind one with this uiSeq

ASSUME MemoryAssumption ==
  /\ NULL \notin Cells
  /\ Sizes \subseteq Nat
  /\ SoleRealloc \in BOOLEAN
  /\ MaxSeq \in Nat

VARIABLES
  pc,                           \* which call of the application is under way
  spActiveList, uiActiveCellCount,
  spNext, spPrev, uiSeq, uiSize,        \* the fields of the cells
  heap, fault,
  answer                        \* what the last call returned or threw

cells == <<spNext, spPrev, uiSeq, uiSize>>
list  == <<spActiveList, uiActiveCellCount, cells, heap>>
vars  == <<pc, list, fault, answer>>

\* a call with the cell and the byte count it was passed, and what it returned
Answer(call, arg, bytes, cell, n) ==
  [call |-> call, arg |-> arg, bytes |-> bytes, threw |-> FALSE, cell |-> cell, count |-> n]
Threw(call, arg, bytes) ==
  [call |-> call, arg |-> arg, bytes |-> bytes, threw |-> TRUE, cell |-> NULL, count |-> 0]

AnswerSet == [call: {"none", "ctor", "alloc", "free", "realloc", "count"},
              arg: Cells \cup {NULL}, bytes: Nat,
              threw: BOOLEAN, cell: Cells \cup {NULL}, count: Nat]

TypeOK ==
  /\ pc \in {"none", "idle", "clear", "destroy"}
  /\ spActiveList \in Cells \cup {NULL}
  /\ uiActiveCellCount \in Nat
  /\ spNext \in [Cells -> Cells \cup {NULL}]
  /\ spPrev \in [Cells -> Cells \cup {NULL}]
  /\ uiSeq \in [Cells -> Nat]
  /\ uiSize \in [Cells -> Nat]
  /\ heap \in SUBSET Cells
  /\ fault \in BOOLEAN
  /\ answer \in AnswerSet

Init ==
  /\ pc = "none"
  /\ spActiveList = NULL /\ uiActiveCellCount = 0
  /\ spNext = [c \in Cells |-> NULL] /\ spPrev = [c \in Cells |-> NULL]
  /\ uiSeq = [c \in Cells |-> 0] /\ uiSize = [c \in Cells |-> 0]
  /\ heap = {} /\ fault = FALSE
  /\ answer = Answer("none", NULL, 0, NULL, 0)

-----------------------------------------------------------------------------
(* Access to cells.                                                        *)

\* the application is between two calls, and has a context to pass
Ready == pc = "idle" /\ ~fault

\* the step reads or writes the cells touched, and does nothing else if one of them is gone
Accessing(touched, allocated, effect) ==
  \/ touched \subseteq allocated /\ effect /\ fault' = FALSE
  \/ ~(touched \subseteq allocated) /\ fault' = TRUE /\ UNCHANGED <<pc, list, answer>>

\* free(cell): what the cell held is indeterminate, and no step may look at it
Release(cell, next, prev) ==
  /\ heap' = heap \ {cell}
  /\ spNext' = [next EXCEPT ![cell] = NULL]
  /\ spPrev' = [prev EXCEPT ![cell] = NULL]
  /\ uiSeq' = [uiSeq EXCEPT ![cell] = 0]
  /\ uiSize' = [uiSize EXCEPT ![cell] = 0]

-----------------------------------------------------------------------------
(* The list.                                                               *)

\* vActivePush, of a cell that malloc has just returned
PushFirst(cell) ==
  /\ uiActiveCellCount = 0
  /\ spActiveList' = cell
  /\ spNext' = [spNext EXCEPT ![cell] = cell]
  /\ spPrev' = [spPrev EXCEPT ![cell] = cell]
  /\ uiSeq' = [uiSeq EXCEPT ![cell] = 0]

PushSecond(cell) ==
  LET last == spActiveList IN
  /\ uiActiveCellCount = 1
  /\ spNext' = [spNext EXCEPT ![last] = cell, ![cell] = last]
  /\ spPrev' = [spPrev EXCEPT ![last] = cell, ![cell] = last]
  /\ uiSeq' = [uiSeq EXCEPT ![cell] = uiSeq[last] + 1]
  /\ UNCHANGED spActiveList

PushLast(cell) ==
  LET first == spActiveList
      last  == spPrev[first]
  IN
  /\ uiActiveCellCount > 1
  /\ spNext' = [spNext EXCEPT ![last] = cell, ![cell] = first]
  /\ spPrev' = [spPrev EXCEPT ![first] = cell, ![cell] = last]
  /\ uiSeq' = [uiSeq EXCEPT ![cell] = uiSeq[last] + 1]
  /\ UNCHANGED spActiveList

Push(cell) ==
  /\ PushFirst(cell) \/ PushSecond(cell) \/ PushLast(cell)
  /\ uiActiveCellCount' = uiActiveCellCount + 1

PushTouches ==
  CASE uiActiveCellCount = 0 -> {}
    [] uiActiveCellCount = 1 -> {spActiveList}
    [] OTHER -> {spActiveList, spPrev[spActiveList]}

\* vActivePop
Unlinked(cell) == [spNext EXCEPT ![spPrev[cell]] = spNext[cell]]
BackUnlinkedNot(cell) == spPrev                                   \* mutant
BackUnlinked(cell) == [spPrev EXCEPT ![spNext[cell]] = spPrev[cell]]

NewHead(cell) == IF spActiveList # cell THEN spActiveList
              ELSE IF uiActiveCellCount = 1 THEN NULL ELSE spNext[cell]

Pop(cell) ==
  /\ spActiveList' = NewHead(cell)
  /\ uiActiveCellCount' = uiActiveCellCount - 1
  /\ Release(cell, Unlinked(cell), BackUnlinked(cell))

PopTouches(cell) == {cell, spPrev[cell], spNext[cell]}

\* the n cells behind the head that a search of the list visits
Walks(n) == {p \in [0..n -> Cells] :
               /\ p[0] = spActiveList
               /\ \A k \in 1..n : p[k - 1] \in heap /\ p[k] = spNext[p[k - 1]]}

Found(cell) == \E n \in 0..(uiActiveCellCount - 1) : \E p \in Walks(n) : p[n] = cell

\* the cells whose spNext the search reads before it finds cell, or gives up
SearchTouches(cell) ==
  UNION {{p[n] : p \in {q \in Walks(n) : \A k \in 0..n : q[k] # cell}} :
         n \in 0..(uiActiveCellCount - 1)}

-----------------------------------------------------------------------------
(* The calls.                                                              *)

\* vpMemCtor
MemCtor ==
  /\ pc = "none" /\ ~fault
  /\ \/ pc' = "idle" /\ answer' = Answer("ctor", NULL, 0, NULL, 0)
     \/ pc' = "none" /\ answer' = Threw("ctor", NULL, 0)
  /\ UNCHANGED <<list, fault>>

\* vpMemAlloc. malloc may fail, and may return an address that was freed before.
MemAlloc(bytes) ==
  /\ Ready
  /\ UNCHANGED pc
  /\ \/ /\ answer' = Threw("alloc", NULL, bytes)
        /\ UNCHANGED <<list, fault>>
     \/ \E cell \in Cells \ heap :
          /\ \A c \in heap : uiSeq[c] < MaxSeq
          /\ Accessing(PushTouches, heap \cup {cell},
               /\ Push(cell)
               /\ uiSize' = [uiSize EXCEPT ![cell] = bytes]
               /\ heap' = heap \cup {cell}
               /\ answer' = Answer("alloc", NULL, bytes, cell, 0))

\* vMemFree
MemFree(cell) ==
  /\ Ready
  /\ UNCHANGED pc
  /\ \/ /\ cell = NULL
        /\ answer' = Answer("free", NULL, 0, NULL, 0)
        /\ UNCHANGED <<list, fault>>
     \/ /\ cell # NULL
        /\ Found(cell)
        /\ Accessing(SearchTouches(cell) \cup PopTouches(cell), heap,
             Pop(cell) /\ answer' = Answer("free", cell, 0, NULL, 0))
     \/ /\ cell # NULL
        /\ ~Found(cell)
        /\ Accessing(SearchTouches(cell), heap,
             answer' = Threw("free", cell, 0) /\ UNCHANGED list)

(***************************************************************************)
(* vpMemRealloc, from the malloc that succeeded: the new cell takes the    *)
(* place of the old one in the list. The two neighbours are reached        *)
(* through the old cell's links, the second after the first was written.   *)
(***************************************************************************)
Relinked(old, new) == [spPrev EXCEPT ![new] = spPrev[old], ![spNext[old]] = new]

ReplaceHeadNever(old, new) == spActiveList                        \* mutant
ReplaceHead(old, new) == IF spActiveList = old THEN new ELSE spActiveList

Replace(old, new, bytes) ==
  LET prev == Relinked(old, new) IN
  /\ spNext' = [spNext EXCEPT ![new] = spNext[old], ![prev[old]] = new, ![old] = NULL]
  /\ spPrev' = [prev EXCEPT ![old] = NULL]
  /\ uiSeq' = [uiSeq EXCEPT ![new] = uiSeq[old], ![old] = 0]
  /\ uiSize' = [uiSize EXCEPT ![new] = bytes, ![old] = 0]
  /\ spActiveList' = ReplaceHead(old, new)
  /\ heap' = (heap \ {old}) \cup {new}
  /\ UNCHANGED uiActiveCellCount

ReplaceTouches(old, new) == {old, spNext[old], Relinked(old, new)[old]}

ReallocRefused(cell, bytes) ==
  /\ answer' = Threw("realloc", cell, bytes)
  /\ \/ (cell = NULL \/ bytes = 0) /\ UNCHANGED <<list, fault>>
     \/ /\ cell # NULL /\ bytes # 0 /\ ~Found(cell)
        /\ Accessing(SearchTouches(cell), heap, UNCHANGED list)

ReallocSameOrLess(cell, bytes) ==                                 \* mutant
  /\ cell # NULL /\ bytes # 0 /\ Found(cell)
  /\ uiSize[cell] >= bytes
  /\ Accessing(SearchTouches(cell) \cup {cell}, heap,
       answer' = Answer("realloc", cell, bytes, cell, 0) /\ UNCHANGED list)

\* the size it has already: the block stays where it is
ReallocSame(cell, bytes) ==
  /\ cell # NULL /\ bytes # 0 /\ Found(cell)
  /\ uiSize[cell] = bytes
  /\ Accessing(SearchTouches(cell) \cup {cell}, heap,
       answer' = Answer("realloc", cell, bytes, cell, 0) /\ UNCHANGED list)

ReallocMoves(cell, bytes) ==
  /\ cell # NULL /\ bytes # 0 /\ Found(cell)
  /\ uiSize[cell] # bytes
  /\ SoleRealloc \/ uiActiveCellCount > 1
  /\ \/ answer' = Threw("realloc", cell, bytes) /\ UNCHANGED <<list, fault>>
     \/ \E new \in Cells \ heap :
          Accessing(SearchTouches(cell) \cup ReplaceTouches(cell, new), heap \cup {new},
            Replace(cell, new, bytes) /\ answer' = Answer("realloc", cell, bytes, new, 0))

MemRealloc(cell, bytes) ==
  /\ Ready
  /\ UNCHANGED pc
  /\ ReallocRefused(cell, bytes) \/ ReallocSame(cell, bytes) \/ ReallocMoves(cell, bytes)

\* uiMemCount
MemCount ==
  /\ Ready
  /\ UNCHANGED pc
  /\ \/ /\ spActiveList = NULL
        /\ answer' = Answer("count", NULL, 0, NULL, 0)
        /\ UNCHANGED <<list, fault>>
     \/ /\ spActiveList # NULL
        /\ Accessing({spActiveList, spPrev[spActiveList]}, heap,
             /\ answer' = Answer("count", NULL, 0, NULL, uiSeq[spPrev[spActiveList]] + 1)
             /\ UNCHANGED list)

(***************************************************************************)
(* vMemClear, and vMemDtor, which calls it: one step for each turn of the  *)
(* loop, which pops the last cell until the list is empty.                 *)
(***************************************************************************)
MemClear ==
  /\ Ready
  /\ pc' \in {"clear", "destroy"}
  /\ UNCHANGED <<list, fault, answer>>

LastCell == spPrev[spActiveList]

ClearNext ==
  /\ pc \in {"clear", "destroy"} /\ ~fault
  /\ spActiveList # NULL
  /\ UNCHANGED pc
  /\ Accessing({spActiveList} \cup PopTouches(LastCell), heap, Pop(LastCell) /\ UNCHANGED answer)

ClearEndEarly ==                                                  \* mutant
  /\ ~fault
  /\ \/ pc = "clear" /\ uiActiveCellCount =< 1 /\ pc' = "idle"
     \/ pc = "destroy" /\ spActiveList = NULL /\ pc' = "none"
  /\ UNCHANGED <<list, fault, answer>>
ClearEnd ==
  /\ ~fault
  /\ spActiveList = NULL
  /\ \/ pc = "clear" /\ pc' = "idle"
     \/ pc = "destroy" /\ pc' = "none"
  /\ UNCHANGED <<list, fault, answer>>

Next ==
  \/ MemCtor \/ MemCount \/ MemClear \/ ClearNext \/ ClearEnd
  \/ \E bytes \in Sizes : MemAlloc(bytes)
  \/ \E cell \in Cells \cup {NULL} : MemFree(cell)
  \/ \E cell \in Cells \cup {NULL}, bytes \in Sizes : MemRealloc(cell, bytes)

Spec == Init /\ [][Next]_vars /\ WF_vars(ClearNext) /\ WF_vars(ClearEnd)

-----------------------------------------------------------------------------
(* Properties.                                                             *)

(***************************************************************************)
(* No call follows a link to a block that was freed (the stores through    *)
(* spCell->spPrev and spCell->spNext in vActivePop and vpMemRealloc, and   *)
(* the loops that search the list).                                        *)
(***************************************************************************)
NoStaleAccess == ~fault

(***************************************************************************)
(* The list is one ring through exactly the blocks in use: spNext and      *)
(* spPrev are inverse to each other, uiSeq grows from the head on, and the *)
(* count that bounds every search is the number of blocks in use.          *)
(***************************************************************************)
Linked ==
  \A c \in heap : /\ spNext[c] \in heap /\ spPrev[c] \in heap
                  /\ spPrev[spNext[c]] = c /\ spNext[spPrev[c]] = c

Ordered ==
  \A c \in heap : c # spActiveList => uiSeq[spPrev[c]] < uiSeq[c]

Headed ==
  IF heap = {} THEN spActiveList = NULL ELSE spActiveList \in heap

Counted == uiActiveCellCount = Cardinality(heap)

RingOfBlocks == Linked /\ Ordered /\ Headed /\ Counted

(***************************************************************************)
(* vMemClear and vMemDtor end, and leave nothing allocated, whatever was   *)
(* done before.                                                            *)
(***************************************************************************)
ClearEnds == pc \in {"clear", "destroy"} ~> pc \in {"idle", "none"} /\ heap = {}

(***************************************************************************)
(* The linked list behaves as the list of blocks the application was       *)
(* promised: every call of memory.c, and every turn of the loop in         *)
(* vMemClear, is a step of MemoryApi or changes nothing it shows.          *)
(***************************************************************************)
\* b visits cells along spNext, from the head on
Follows(b) == \A i \in DOMAIN b : b[i] = IF i = 1 THEN spActiveList ELSE spNext[b[i - 1]]

\* the cells once around
Around == CHOOSE b \in [1..uiActiveCellCount -> Cells] : Follows(b)

BlockList ==
  [i \in 1..uiActiveCellCount |-> [cell |-> Around[i], size |-> uiSize[Around[i]]]]

Api == INSTANCE MemoryApi WITH blocks <- BlockList

MemoryImplementsApi == Api!Spec
=============================================================================
