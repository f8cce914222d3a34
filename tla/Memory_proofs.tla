---------------------------- MODULE Memory_proofs ----------------------------
(***************************************************************************)
(* Proofs about the memory component: for every set of addresses and every *)
(* sequence of calls, as long as an only block is not moved by             *)
(* vpMemRealloc, the list is one ring through the blocks in use and no     *)
(* call follows a link to a freed block.                                   *)
(***************************************************************************)
EXTENDS Memory, FiniteSetTheorems, SequenceTheorems, WellFoundedInduction, TLAPS

\* the inductive invariant
IInv == TypeOK /\ NoStaleAccess /\ RingOfBlocks /\ IsFiniteSet(heap)

-----------------------------------------------------------------------------
(* The ring.                                                               *)

(***************************************************************************)
(* A cell linked to itself is alone: uiSeq grows along the ring from the   *)
(* head on, so a second ring would have no place for its smallest uiSeq.   *)
(***************************************************************************)
LEMMA SelfLinkedAlone ==
  ASSUME IInv, NEW c \in heap, spNext[c] = c
  PROVE  heap = {c}
<1>1. spPrev[c] = c
  BY DEF IInv, RingOfBlocks, Linked
<1>2. c = spActiveList
  BY <1>1 DEF IInv, TypeOK, RingOfBlocks, Ordered
<1> DEFINE Others == heap \ {c}
           Seqs == {uiSeq[d] : d \in Others}
<1>3. SUFFICES ASSUME Others # {} PROVE FALSE
  OBVIOUS
<1>4. Seqs \subseteq Nat /\ Seqs # {}
  BY <1>3 DEF IInv, TypeOK
<1>5. \E x \in Seqs : \A y \in Seqs : ~(<<y, x>> \in OpToRel(<, Nat))
  <2> HIDE DEF Seqs
  <2> QED BY <1>4, NatLessThanWellFounded, WFMin
<1>6. PICK d \in Others : \A e \in Others : ~(<<uiSeq[e], uiSeq[d]>> \in OpToRel(<, Nat))
  BY <1>5
<1>7. uiSeq[spPrev[d]] < uiSeq[d] /\ spPrev[d] \in heap /\ spNext[spPrev[d]] = d
  BY <1>2 DEF IInv, RingOfBlocks, Linked, Ordered
<1>8. uiSeq[spPrev[d]] \in Nat /\ uiSeq[d] \in Nat
  BY <1>7 DEF IInv, TypeOK
<1>9. <<uiSeq[spPrev[d]], uiSeq[d]>> \in OpToRel(<, Nat)
  BY <1>7, <1>8 DEF OpToRel
<1>10. spPrev[d] = c
  BY <1>6, <1>7, <1>9
<1> QED
  BY <1>7, <1>10

LEMMA CountOne ==
  ASSUME IInv, uiActiveCellCount = 1
  PROVE  heap = {spActiveList}
<1>1. PICK c : heap = {c}
  BY FS_Singleton DEF IInv, RingOfBlocks, Counted
<1> QED
  BY <1>1 DEF IInv, RingOfBlocks, Headed

LEMMA CountZero ==
  ASSUME IInv
  PROVE  (uiActiveCellCount = 0) <=> (heap = {})
BY FS_EmptySet DEF IInv, RingOfBlocks, Counted

LEMMA CountTwo ==
  ASSUME IInv, uiActiveCellCount # 1, NEW c \in heap
  PROVE  /\ spNext[c] \in heap \ {c}
         /\ spPrev[c] \in heap \ {c}
         /\ heap # {c}
<1>1. heap # {c}
  BY FS_Singleton DEF IInv, RingOfBlocks, Counted
<1>2. spNext[c] # c
  BY <1>1, SelfLinkedAlone
<1> QED
  BY <1>1, <1>2 DEF IInv, RingOfBlocks, Linked

-----------------------------------------------------------------------------
(* What the searches and the list functions look at.                       *)

\* a search visits blocks in use only, and finds nothing else
LEMMA SearchInHeap ==
  ASSUME IInv, NEW cell
  PROVE  /\ SearchTouches(cell) \subseteq heap
         /\ Found(cell) => cell \in heap
<1>1. ASSUME NEW n \in 0..(uiActiveCellCount - 1), NEW p \in Walks(n)
      PROVE  p[n] \in heap
  <2>1. spActiveList \in heap
    BY <1>1, CountZero DEF IInv, TypeOK, RingOfBlocks, Headed
  <2>2. CASE n = 0
    BY <2>1, <2>2 DEF Walks
  <2>3. CASE n # 0
    <3>1. n \in 1..n /\ n \in Nat
      BY <2>3 DEF IInv, TypeOK
    <3>2. p[n - 1] \in heap /\ p[n] = spNext[p[n - 1]]
      BY <3>1 DEF Walks
    <3> QED
      BY <3>2 DEF IInv, RingOfBlocks, Linked
  <2> QED
    BY <2>2, <2>3
<1> QED
  BY <1>1 DEF SearchTouches, Found

LEMMA PopInHeap ==
  ASSUME IInv, NEW cell \in heap
  PROVE  PopTouches(cell) \subseteq heap
BY DEF IInv, RingOfBlocks, Linked, PopTouches

LEMMA PushInHeap ==
  ASSUME IInv
  PROVE  PushTouches \subseteq heap
<1>1. CASE uiActiveCellCount = 0
  BY <1>1 DEF PushTouches
<1>2. CASE uiActiveCellCount = 1
  BY <1>2, CountOne DEF PushTouches
<1>3. CASE uiActiveCellCount \notin {0, 1}
  <2>1. spActiveList \in heap
    BY <1>3, CountZero DEF IInv, RingOfBlocks, Headed
  <2> QED
    BY <1>3, <2>1 DEF PushTouches, IInv, RingOfBlocks, Linked
<1> QED
  BY <1>1, <1>2, <1>3

-----------------------------------------------------------------------------
(* vActivePop.                                                             *)

LEMMA PopKeepsRing ==
  ASSUME IInv, NEW cell \in heap, Pop(cell)
  PROVE  RingOfBlocks' /\ IsFiniteSet(heap)'
<1> USE DEF IInv
<1>1. heap' = heap \ {cell}
  BY DEF Pop, Release
<1>2. ASSUME NEW c \in heap'
      PROVE  /\ c \in heap /\ c # cell /\ c \in Cells /\ heap # {cell}
             /\ spNext'[c] = IF c = spPrev[cell] THEN spNext[cell] ELSE spNext[c]
             /\ spPrev'[c] = IF c = spNext[cell] THEN spPrev[cell] ELSE spPrev[c]
             /\ uiSeq'[c] = uiSeq[c]
  BY <1>1 DEF Pop, Release, Unlinked, BackUnlinked, TypeOK
<1>3. Linked'
  <2>1. ASSUME NEW c \in heap'
        PROVE  /\ spNext'[c] \in heap' /\ spPrev'[c] \in heap'
               /\ spPrev'[spNext'[c]] = c /\ spNext'[spPrev'[c]] = c
    <3>1. spNext'[c] \in heap'
      BY <1>1, <1>2, <2>1 DEF RingOfBlocks, Linked
    <3>2. spPrev'[c] \in heap'
      BY <1>1, <1>2, <2>1 DEF RingOfBlocks, Linked
    <3>3. spPrev'[spNext'[c]] = c
      BY <1>2, <2>1, <3>1 DEF RingOfBlocks, Linked
    <3>4. spNext'[spPrev'[c]] = c
      BY <1>2, <2>1, <3>2 DEF RingOfBlocks, Linked
    <3> QED
      BY <3>1, <3>2, <3>3, <3>4
  <2> QED
    BY <2>1 DEF Linked
<1>4. spActiveList' = NewHead(cell)
  BY DEF Pop
<1>5. Headed'
  <2>1. CASE uiActiveCellCount = 1
    BY <1>1, <1>4, <2>1, CountOne DEF Headed, NewHead
  <2>2. CASE uiActiveCellCount # 1
    BY <1>1, <1>4, <2>2, CountTwo DEF RingOfBlocks, Headed, NewHead
  <2> QED
    BY <2>1, <2>2
<1>6. Ordered'
  <2>1. ASSUME NEW c \in heap', c # spActiveList'
        PROVE  uiSeq'[spPrev'[c]] < uiSeq'[c]
    <3>1. uiActiveCellCount # 1
      BY <1>1, <2>1, CountOne
    <3>2. c # spActiveList
      BY <1>2, <1>4, <2>1, <3>1 DEF NewHead
    <3>3. spPrev'[c] \in heap'
      BY <1>3, <2>1 DEF Linked
    <3>4. CASE c = spNext[cell]
      <4>1. spActiveList # cell
        BY <1>4, <2>1, <3>1, <3>4 DEF NewHead
      <4>2. uiSeq[spPrev[cell]] < uiSeq[cell] /\ uiSeq[spPrev[c]] < uiSeq[c]
        BY <1>2, <2>1, <3>2, <4>1 DEF RingOfBlocks, Ordered
      <4>3. spPrev[c] = cell /\ spPrev'[c] = spPrev[cell]
        BY <1>2, <2>1, <3>4 DEF RingOfBlocks, Linked
      <4>4. uiSeq[c] \in Nat /\ uiSeq[cell] \in Nat /\ uiSeq[spPrev[cell]] \in Nat
        BY <1>2, <2>1 DEF TypeOK, RingOfBlocks, Linked
      <4>5. uiSeq'[c] = uiSeq[c] /\ uiSeq'[spPrev'[c]] = uiSeq[spPrev[cell]]
        BY <1>2, <2>1, <3>3, <4>3
      <4> QED
        BY <4>2, <4>3, <4>4, <4>5
    <3>5. CASE c # spNext[cell]
      <4>1. spPrev'[c] = spPrev[c]
        BY <1>2, <2>1, <3>5
      <4>2. uiSeq[spPrev[c]] < uiSeq[c]
        BY <1>2, <2>1, <3>2 DEF RingOfBlocks, Ordered
      <4> QED
        BY <1>2, <2>1, <3>3, <4>1, <4>2
    <3> QED
      BY <3>4, <3>5
  <2> QED
    BY <2>1 DEF Ordered
<1>7. Counted' /\ IsFiniteSet(heap)'
  <2>1. Cardinality(heap \ {cell}) = Cardinality(heap) - 1 /\ IsFiniteSet(heap \ {cell})
    BY FS_RemoveElement
  <2>2. uiActiveCellCount' = uiActiveCellCount - 1
    BY DEF Pop
  <2> QED
    BY <1>1, <2>1, <2>2 DEF RingOfBlocks, Counted
<1> QED
  BY <1>3, <1>5, <1>6, <1>7 DEF RingOfBlocks

LEMMA PopTyped ==
  ASSUME IInv, NEW cell \in heap, Pop(cell), pc' \in {"none", "idle", "clear", "destroy"},
         fault' = FALSE, answer' \in AnswerSet
  PROVE  TypeOK'
<1> USE DEF IInv
<1>1. cell \in Cells
  BY DEF TypeOK
<1>2. spPrev[cell] \in Cells /\ spNext[cell] \in Cells
  BY DEF TypeOK, RingOfBlocks, Linked
<1>3. spActiveList' \in Cells \cup {NULL}
  BY <1>2 DEF Pop, NewHead, TypeOK
<1>4. uiActiveCellCount' \in Nat
  BY CountZero DEF Pop, TypeOK
<1>5. /\ spNext' \in [Cells -> Cells \cup {NULL}]
      /\ spPrev' \in [Cells -> Cells \cup {NULL}]
  BY <1>1, <1>2 DEF Pop, Release, Unlinked, BackUnlinked, TypeOK
<1>6. /\ uiSeq' \in [Cells -> Nat] /\ uiSize' \in [Cells -> Nat]
      /\ heap' \in SUBSET Cells
  BY DEF Pop, Release, TypeOK
<1> QED
  BY <1>3, <1>4, <1>5, <1>6 DEF TypeOK

-----------------------------------------------------------------------------
(* vActivePush.                                                            *)

LEMMA PushKeepsRing ==
  ASSUME IInv, NEW cell \in Cells \ heap, Push(cell), heap' = heap \cup {cell}
  PROVE  /\ RingOfBlocks' /\ IsFiniteSet(heap)'
         /\ spActiveList' \in Cells
         /\ uiActiveCellCount' \in Nat
         /\ spNext' \in [Cells -> Cells \cup {NULL}]
         /\ spPrev' \in [Cells -> Cells \cup {NULL}]
         /\ uiSeq' \in [Cells -> Nat]
<1> USE DEF IInv
<1>1. Counted' /\ IsFiniteSet(heap)' /\ uiActiveCellCount' \in Nat
  <2>1. Cardinality(heap \cup {cell}) = Cardinality(heap) + 1 /\ IsFiniteSet(heap \cup {cell})
    BY FS_AddElement
  <2> QED
    BY <2>1 DEF Push, RingOfBlocks, Counted, TypeOK
<1>2. CASE PushFirst(cell)
  <2>1. heap' = {cell} /\ spNext'[cell] = cell /\ spPrev'[cell] = cell /\ spActiveList' = cell
    BY <1>2, CountZero DEF PushFirst, TypeOK
  <2>2. Linked' /\ Ordered' /\ Headed'
    BY <2>1 DEF Linked, Ordered, Headed
  <2> QED
    BY <1>1, <1>2, <2>1, <2>2 DEF PushFirst, TypeOK, RingOfBlocks
<1>3. CASE PushSecond(cell)
  <2> DEFINE last == spActiveList
  <2>1. heap = {last} /\ last \in Cells /\ last # cell
    BY <1>3, CountOne DEF PushSecond, TypeOK
  <2>2. /\ spNext'[cell] = last /\ spNext'[last] = cell
        /\ spPrev'[cell] = last /\ spPrev'[last] = cell
        /\ uiSeq'[last] = uiSeq[last] /\ uiSeq'[cell] = uiSeq[last] + 1
        /\ spActiveList' = last
    BY <1>3, <2>1 DEF PushSecond, TypeOK
  <2>3. heap' = {last, cell}
    BY <2>1
  <2>4. Linked' /\ Headed'
    BY <2>2, <2>3 DEF Linked, Headed
  <2>5. Ordered'
    <3>1. uiSeq[last] \in Nat
      BY <2>1 DEF TypeOK
    <3> QED
      BY <2>2, <2>3, <3>1 DEF Ordered
  <2> QED
    BY <1>1, <1>3, <2>1, <2>4, <2>5 DEF PushSecond, TypeOK, RingOfBlocks
<1>4. CASE PushLast(cell)
  <2> DEFINE first == spActiveList
             last  == spPrev[first]
  <2>1. first \in heap
    BY <1>4, CountZero DEF PushLast, RingOfBlocks, Headed
  <2>2. last \in heap /\ spNext[last] = first /\ first \in Cells /\ last \in Cells
    BY <2>1 DEF RingOfBlocks, Linked, TypeOK
  <2>3. ASSUME NEW c \in Cells
        PROVE  /\ spNext'[c] = IF c = cell THEN first ELSE IF c = last THEN cell ELSE spNext[c]
               /\ spPrev'[c] = IF c = cell THEN last ELSE IF c = first THEN cell ELSE spPrev[c]
               /\ uiSeq'[c] = IF c = cell THEN uiSeq[last] + 1 ELSE uiSeq[c]
    BY <1>4, <2>1, <2>2 DEF PushLast, TypeOK
  <2>4. spActiveList' = first /\ heap' \subseteq Cells
    BY <1>4 DEF PushLast, TypeOK
  <2>5. Linked'
    <3>1. ASSUME NEW c \in heap'
          PROVE  /\ spNext'[c] \in heap' /\ spPrev'[c] \in heap'
                 /\ spPrev'[spNext'[c]] = c /\ spNext'[spPrev'[c]] = c
      <4>1. c \in Cells /\ (c # cell => c \in heap)
        BY <2>4, <3>1
      <4>2. c # cell => /\ spNext[c] \in heap /\ spPrev[c] \in heap
                        /\ spPrev[spNext[c]] = c /\ spNext[spPrev[c]] = c
        BY <4>1 DEF RingOfBlocks, Linked
      <4>3. spNext'[c] \in heap' /\ spPrev'[c] \in heap'
        BY <2>1, <2>2, <2>3, <4>1, <4>2
      <4>4. heap \subseteq Cells
        BY DEF TypeOK
      <4>5. spPrev'[spNext'[c]] = c
        BY <2>1, <2>2, <2>3, <4>1, <4>2, <4>4
      <4>6. spNext'[spPrev'[c]] = c
        BY <2>1, <2>2, <2>3, <4>1, <4>2, <4>4
      <4> QED
        BY <4>3, <4>5, <4>6
    <3> QED
      BY <3>1 DEF Linked
  <2>6. Ordered'
    <3>1. ASSUME NEW c \in heap', c # spActiveList'
          PROVE  uiSeq'[spPrev'[c]] < uiSeq'[c]
      <4>1. CASE c = cell
        <5>1. spPrev'[cell] = last /\ uiSeq'[cell] = uiSeq[last] + 1 /\ uiSeq'[last] = uiSeq[last]
          BY <2>2, <2>3
        <5>2. uiSeq[last] \in Nat
          BY <2>2 DEF TypeOK
        <5> QED
          BY <4>1, <5>1, <5>2
      <4>2. CASE c # cell
        <5>1. c \in heap /\ c \in Cells /\ spPrev[c] \in heap /\ spPrev[c] \in Cells
          BY <2>4, <3>1, <4>2 DEF RingOfBlocks, Linked, TypeOK
        <5>2. spPrev'[c] = spPrev[c] /\ uiSeq'[c] = uiSeq[c] /\ uiSeq'[spPrev[c]] = uiSeq[spPrev[c]]
          BY <2>3, <2>4, <3>1, <4>2, <5>1
        <5>3. uiSeq[spPrev[c]] < uiSeq[c]
          BY <2>4, <3>1, <5>1 DEF RingOfBlocks, Ordered
        <5> QED
          BY <5>2, <5>3
      <4> QED
        BY <4>1, <4>2
    <3> QED
      BY <3>1 DEF Ordered
  <2>7. Headed'
    BY <2>1, <2>4 DEF Headed
  <2>8. /\ spNext' \in [Cells -> Cells \cup {NULL}]
        /\ spPrev' \in [Cells -> Cells \cup {NULL}]
        /\ uiSeq' \in [Cells -> Nat]
    BY <1>4, <2>2 DEF PushLast, TypeOK
  <2> QED
    BY <1>1, <2>2, <2>4, <2>5, <2>6, <2>7, <2>8 DEF RingOfBlocks
<1> QED
  BY <1>2, <1>3, <1>4 DEF Push

-----------------------------------------------------------------------------
(* vpMemRealloc, moving one of several blocks.                             *)

LEMMA ReplaceInHeap ==
  ASSUME IInv, uiActiveCellCount # 1, NEW old \in heap, NEW new \in Cells \ heap
  PROVE  /\ Relinked(old, new)[old] = spPrev[old]
         /\ ReplaceTouches(old, new) \subseteq heap
<1>1. /\ spNext[old] \in heap \ {old} /\ spPrev[old] \in heap \ {old}
      /\ old \in Cells /\ old # new
  BY CountTwo DEF IInv, TypeOK
<1>2. Relinked(old, new)[old] = spPrev[old]
  BY <1>1 DEF Relinked, IInv, TypeOK
<1> QED
  BY <1>1, <1>2 DEF ReplaceTouches

LEMMA ReplaceKeepsRing ==
  ASSUME IInv, uiActiveCellCount # 1, NEW old \in heap, NEW new \in Cells \ heap,
         NEW bytes \in Nat, Replace(old, new, bytes)
  PROVE  /\ RingOfBlocks' /\ IsFiniteSet(heap)'
         /\ spActiveList' \in Cells
         /\ uiActiveCellCount' \in Nat
         /\ spNext' \in [Cells -> Cells \cup {NULL}]
         /\ spPrev' \in [Cells -> Cells \cup {NULL}]
         /\ uiSeq' \in [Cells -> Nat]
         /\ uiSize' \in [Cells -> Nat]
         /\ heap' \in SUBSET Cells
<1> USE DEF IInv
<1> DEFINE next == spNext[old]
           prev == spPrev[old]
<1>1. /\ next \in heap \ {old} /\ prev \in heap \ {old} /\ spPrev[next] = old /\ spNext[prev] = old
      /\ heap \subseteq Cells /\ old \in Cells /\ old # new
  BY CountTwo DEF TypeOK, RingOfBlocks, Linked
<1>2. Relinked(old, new)[old] = prev
  BY ReplaceInHeap
<1>3. heap' = (heap \ {old}) \cup {new}
  BY DEF Replace
<1>4. ASSUME NEW c \in Cells, c # old
      PROVE  /\ spNext'[c] = IF c = prev THEN new ELSE IF c = new THEN next ELSE spNext[c]
             /\ spPrev'[c] = IF c = next THEN new ELSE IF c = new THEN prev ELSE spPrev[c]
             /\ uiSeq'[c] = IF c = new THEN uiSeq[old] ELSE uiSeq[c]
  <2> HIDE DEF next, prev
  <2>1. spNext'[c] = IF c = prev THEN new ELSE IF c = new THEN next ELSE spNext[c]
    BY <1>1, <1>2, <1>4 DEF Replace, TypeOK, next
  <2>2. spPrev'[c] = IF c = next THEN new ELSE IF c = new THEN prev ELSE spPrev[c]
    BY <1>1, <1>4 DEF Replace, Relinked, TypeOK, next, prev
  <2>3. uiSeq'[c] = IF c = new THEN uiSeq[old] ELSE uiSeq[c]
    BY <1>1, <1>4 DEF Replace, TypeOK
  <2> QED
    BY <2>1, <2>2, <2>3
<1>5. Linked'
  <2>1. ASSUME NEW c \in heap'
        PROVE  /\ spNext'[c] \in heap' /\ spPrev'[c] \in heap'
               /\ spPrev'[spNext'[c]] = c /\ spNext'[spPrev'[c]] = c
    <3>1. c \in Cells /\ c # old /\ (c # new => c \in heap)
      BY <1>1, <1>3, <2>1
    <3>2. c # new => /\ spNext[c] \in heap /\ spPrev[c] \in heap
                     /\ spPrev[spNext[c]] = c /\ spNext[spPrev[c]] = c
      BY <3>1 DEF RingOfBlocks, Linked
    <3>3. spNext'[c] \in heap' /\ spPrev'[c] \in heap'
      BY <1>1, <1>3, <1>4, <3>1, <3>2
    <3>4. spPrev'[spNext'[c]] = c
      BY <1>1, <1>3, <1>4, <3>1, <3>2, <3>3
    <3>5. spNext'[spPrev'[c]] = c
      BY <1>1, <1>3, <1>4, <3>1, <3>2, <3>3
    <3> QED
      BY <3>3, <3>4, <3>5
  <2> QED
    BY <2>1 DEF Linked
<1>6. spActiveList' = ReplaceHead(old, new)
  BY DEF Replace
<1>7. Headed'
  BY <1>3, <1>6 DEF RingOfBlocks, Headed, ReplaceHead
<1>8. Ordered'
  <2>1. ASSUME NEW c \in heap', c # spActiveList'
        PROVE  uiSeq'[spPrev'[c]] < uiSeq'[c]
    <3>1. c \in Cells /\ c # old /\ (c # new => c \in heap)
      BY <1>1, <1>3, <2>1
    <3>2. CASE c = new
      <4>1. old # spActiveList
        BY <1>6, <2>1, <3>2 DEF ReplaceHead
      <4>2. uiSeq[prev] < uiSeq[old]
        BY <4>1 DEF RingOfBlocks, Ordered
      <4>3. uiSeq'[new] = uiSeq[old] /\ spPrev'[new] = prev /\ uiSeq'[prev] = uiSeq[prev]
        BY <1>1, <1>4
      <4> QED
        BY <3>2, <4>2, <4>3
    <3>3. CASE c # new
      <4>1. c # spActiveList
        BY <1>6, <2>1, <3>1 DEF ReplaceHead
      <4>2. uiSeq[spPrev[c]] < uiSeq[c] /\ spPrev[c] \in heap
        BY <3>1, <3>3, <4>1 DEF RingOfBlocks, Ordered, Linked
      <4>3. uiSeq'[c] = uiSeq[c]
        BY <1>4, <3>1, <3>3
      <4>4. CASE c = next
        <5>1. spPrev'[c] = new /\ uiSeq'[new] = uiSeq[old] /\ spPrev[c] = old
          BY <1>1, <1>4, <3>1, <3>3, <4>4
        <5> QED
          BY <4>2, <4>3, <5>1
      <4>5. CASE c # next
        <5>1. spPrev'[c] = spPrev[c] /\ spPrev[c] # old
          BY <1>4, <3>1, <3>3, <4>5 DEF RingOfBlocks, Linked
        <5>2. uiSeq'[spPrev[c]] = uiSeq[spPrev[c]]
          BY <1>1, <1>4, <4>2, <5>1
        <5> QED
          BY <4>2, <4>3, <5>1, <5>2
      <4> QED
        BY <4>4, <4>5
    <3> QED
      BY <3>2, <3>3
  <2> QED
    BY <2>1 DEF Ordered
<1>9. Counted' /\ IsFiniteSet(heap)' /\ uiActiveCellCount' \in Nat
  <2>1. Cardinality(heap \ {old}) = Cardinality(heap) - 1 /\ IsFiniteSet(heap \ {old})
    BY FS_RemoveElement
  <2>2. /\ Cardinality((heap \ {old}) \cup {new}) = Cardinality(heap \ {old}) + 1
        /\ IsFiniteSet((heap \ {old}) \cup {new})
    BY <2>1, FS_AddElement
  <2>3. Cardinality(heap) \in Nat
    BY FS_CardinalityType
  <2> QED
    BY <1>3, <2>1, <2>2, <2>3 DEF Replace, RingOfBlocks, Counted, TypeOK
<1>10. spActiveList' \in Cells
  BY <1>1, <1>3, <1>6, <1>7 DEF Headed
<1>11. /\ spNext' \in [Cells -> Cells \cup {NULL}]
       /\ spPrev' \in [Cells -> Cells \cup {NULL}]
  <2>1. next \in Cells /\ prev \in Cells
    BY <1>1
  <2> HIDE DEF next, prev
  <2> QED
    BY <1>1, <1>2, <2>1 DEF Replace, Relinked, TypeOK, next, prev
<1>12. uiSeq' \in [Cells -> Nat] /\ uiSize' \in [Cells -> Nat] /\ heap' \in SUBSET Cells
  BY <1>1, <1>3 DEF Replace, TypeOK
<1> QED
  BY <1>5, <1>7, <1>8, <1>9, <1>10, <1>11, <1>12 DEF RingOfBlocks

-----------------------------------------------------------------------------
(* Every step.                                                             *)

\* what no step of the list touches
LEMMA Stutter ==
  ASSUME IInv, UNCHANGED <<list, fault>>, pc' \in {"none", "idle", "clear", "destroy"},
         answer' \in AnswerSet
  PROVE  IInv'
BY DEF IInv, list, cells, TypeOK, NoStaleAccess, RingOfBlocks, Linked, Ordered, Headed, Counted

LEMMA InitInv == Init => IInv
<1> SUFFICES ASSUME Init PROVE IInv
  OBVIOUS
<1>1. IsFiniteSet(heap) /\ Cardinality(heap) = 0
  BY FS_EmptySet DEF Init
<1> QED
  BY <1>1 DEF Init, IInv, TypeOK, NoStaleAccess, RingOfBlocks, Linked, Ordered, Headed, Counted, Answer, AnswerSet

LEMMA AllocInv ==
  ASSUME MemoryAssumption, IInv, NEW bytes \in Sizes, MemAlloc(bytes)
  PROVE  IInv'
<1>1. pc' = pc /\ pc = "idle"
  BY DEF MemAlloc, Ready
<1>2. CASE answer' = Threw("alloc", NULL, bytes) /\ UNCHANGED <<list, fault>>
  <2>1. Threw("alloc", NULL, bytes) \in AnswerSet
    BY DEF Threw, AnswerSet
  <2> QED
    BY <1>1, <1>2, <2>1, Stutter
<1>3. ASSUME NEW cell \in Cells \ heap,
             Accessing(PushTouches, heap \cup {cell},
               /\ Push(cell)
               /\ uiSize' = [uiSize EXCEPT ![cell] = bytes]
               /\ heap' = heap \cup {cell}
               /\ answer' = Answer("alloc", NULL, bytes, cell, 0))
      PROVE  IInv'
  <2>1. PushTouches \subseteq heap \cup {cell}
    BY PushInHeap
  <2>2. /\ Push(cell)
        /\ uiSize' = [uiSize EXCEPT ![cell] = bytes]
        /\ heap' = heap \cup {cell}
        /\ answer' = Answer("alloc", NULL, bytes, cell, 0)
        /\ fault' = FALSE
    BY <1>3, <2>1 DEF Accessing
  <2>3. uiSize' \in [Cells -> Nat] /\ heap' \in SUBSET Cells
    BY <2>2 DEF MemoryAssumption, IInv, TypeOK
  <2> QED
    BY <1>1, <2>2, <2>3, PushKeepsRing DEF IInv, TypeOK, NoStaleAccess, Answer, AnswerSet
<1> QED
  BY <1>2, <1>3 DEF MemAlloc

LEMMA FreeInv ==
  ASSUME IInv, NEW cell \in Cells \cup {NULL}, MemFree(cell)
  PROVE  IInv'
<1>1. pc' = pc /\ pc = "idle"
  BY DEF MemFree, Ready
<1>2. CASE answer' = Answer("free", NULL, 0, NULL, 0) /\ UNCHANGED <<list, fault>>
  BY <1>1, <1>2, Stutter DEF Answer, AnswerSet
<1>3. CASE Found(cell) /\ Accessing(SearchTouches(cell) \cup PopTouches(cell), heap,
                                    Pop(cell) /\ answer' = Answer("free", cell, 0, NULL, 0))
  <2>1. cell \in heap /\ SearchTouches(cell) \cup PopTouches(cell) \subseteq heap
    BY <1>3, SearchInHeap, PopInHeap
  <2>2. Pop(cell) /\ answer' = Answer("free", cell, 0, NULL, 0) /\ fault' = FALSE
    BY <1>3, <2>1 DEF Accessing
  <2> QED
    BY <1>1, <2>1, <2>2, PopKeepsRing, PopTyped DEF IInv, NoStaleAccess, Answer, AnswerSet
<1>4. CASE Accessing(SearchTouches(cell), heap, answer' = Threw("free", cell, 0) /\ UNCHANGED list)
  <2>1. answer' = Threw("free", cell, 0) /\ UNCHANGED list /\ fault' = FALSE
    BY <1>4, SearchInHeap DEF Accessing
  <2>2. UNCHANGED fault
    BY <2>1 DEF IInv, NoStaleAccess, TypeOK
  <2> QED
    BY <1>1, <2>1, <2>2, Stutter DEF Threw, AnswerSet
<1> QED
  BY <1>2, <1>3, <1>4 DEF MemFree

LEMMA ReallocInv ==
  ASSUME MemoryAssumption, ~SoleRealloc, IInv,
         NEW cell \in Cells \cup {NULL}, NEW bytes \in Sizes, MemRealloc(cell, bytes)
  PROVE  IInv'
<1>1. pc' = pc /\ pc = "idle"
  BY DEF MemRealloc, Ready
<1>2. fault = FALSE
  BY DEF IInv, TypeOK, NoStaleAccess
<1>3. CASE ReallocRefused(cell, bytes)
  <2>1. answer' = Threw("realloc", cell, bytes) /\ UNCHANGED <<list, fault>>
    BY <1>2, <1>3, SearchInHeap DEF ReallocRefused, Accessing
  <2> QED
    BY <1>1, <2>1, Stutter DEF Threw, AnswerSet
<1>4. CASE ReallocSame(cell, bytes)
  <2>1. answer' = Answer("realloc", cell, bytes, cell, 0) /\ UNCHANGED <<list, fault>>
    BY <1>2, <1>4, SearchInHeap DEF ReallocSame, Accessing
  <2> QED
    BY <1>1, <2>1, Stutter DEF Answer, AnswerSet
<1>5. CASE ReallocMoves(cell, bytes)
  <2>1. cell \in heap /\ SearchTouches(cell) \subseteq heap /\ uiActiveCellCount # 1
    BY <1>5, SearchInHeap DEF ReallocMoves, IInv, TypeOK
  <2>2. CASE answer' = Threw("realloc", cell, bytes) /\ UNCHANGED <<list, fault>>
    BY <1>1, <2>2, Stutter DEF Threw, AnswerSet
  <2>3. ASSUME NEW new \in Cells \ heap,
               Accessing(SearchTouches(cell) \cup ReplaceTouches(cell, new), heap \cup {new},
                 Replace(cell, new, bytes) /\ answer' = Answer("realloc", cell, bytes, new, 0))
        PROVE  IInv'
    <3>1. SearchTouches(cell) \cup ReplaceTouches(cell, new) \subseteq heap \cup {new}
      BY <2>1, ReplaceInHeap
    <3>2. Replace(cell, new, bytes) /\ answer' = Answer("realloc", cell, bytes, new, 0) /\ fault' = FALSE
      BY <2>3, <3>1 DEF Accessing
    <3>3. bytes \in Nat
      BY DEF MemoryAssumption
    <3> QED
      BY <1>1, <2>1, <3>2, <3>3, ReplaceKeepsRing DEF IInv, TypeOK, NoStaleAccess, Answer, AnswerSet
  <2> QED
    BY <1>5, <2>2, <2>3 DEF ReallocMoves
<1> QED
  BY <1>3, <1>4, <1>5 DEF MemRealloc

LEMMA CountInv ==
  ASSUME IInv, MemCount
  PROVE  IInv'
<1>1. pc' = pc /\ pc = "idle"
  BY DEF MemCount, Ready
<1>2. CASE answer' = Answer("count", NULL, 0, NULL, 0) /\ UNCHANGED <<list, fault>>
  BY <1>1, <1>2, Stutter DEF Answer, AnswerSet
<1>3. CASE /\ spActiveList # NULL
           /\ Accessing({spActiveList, spPrev[spActiveList]}, heap,
                /\ answer' = Answer("count", NULL, 0, NULL, uiSeq[spPrev[spActiveList]] + 1)
                /\ UNCHANGED list)
  <2>1. spActiveList \in heap /\ spPrev[spActiveList] \in heap
    BY <1>3 DEF IInv, RingOfBlocks, Headed, Linked
  <2>2. /\ answer' = Answer("count", NULL, 0, NULL, uiSeq[spPrev[spActiveList]] + 1)
        /\ UNCHANGED <<list, fault>>
    BY <1>3, <2>1 DEF Accessing, IInv, TypeOK, NoStaleAccess
  <2>3. uiSeq[spPrev[spActiveList]] + 1 \in Nat
    BY <2>1 DEF IInv, TypeOK
  <2> QED
    BY <1>1, <2>2, <2>3, Stutter DEF Answer, AnswerSet
<1> QED
  BY <1>2, <1>3 DEF MemCount

LEMMA ClearNextInv ==
  ASSUME IInv, ClearNext
  PROVE  IInv'
<1>1. spActiveList \in heap
  BY DEF ClearNext, IInv, RingOfBlocks, Headed
<1>2. LastCell \in heap
  BY <1>1 DEF LastCell, IInv, RingOfBlocks, Linked
<1>3. {spActiveList} \cup PopTouches(LastCell) \subseteq heap
  BY <1>1, <1>2, PopInHeap
<1>4. Pop(LastCell) /\ UNCHANGED <<pc, answer>> /\ fault' = FALSE
  BY <1>3 DEF ClearNext, Accessing
<1> QED
  BY <1>2, <1>4, PopKeepsRing, PopTyped DEF IInv, TypeOK, NoStaleAccess

LEMMA NextInv ==
  ASSUME MemoryAssumption, ~SoleRealloc, IInv, [Next]_vars
  PROVE  IInv'
<1>1. CASE MemCtor
  <2>1. UNCHANGED <<list, fault>> /\ pc' \in {"none", "idle", "clear", "destroy"}
    BY <1>1 DEF MemCtor
  <2>2. answer' = Answer("ctor", NULL, 0, NULL, 0) \/ answer' = Threw("ctor", NULL, 0)
    BY <1>1 DEF MemCtor
  <2>3. answer' \in AnswerSet
    <3>1. CASE answer' = Answer("ctor", NULL, 0, NULL, 0)
      BY <3>1 DEF Answer, AnswerSet
    <3>2. CASE answer' = Threw("ctor", NULL, 0)
      BY <3>2 DEF Threw, AnswerSet
    <3> QED
      BY <2>2, <3>1, <3>2
  <2> QED
    BY <2>1, <2>3, Stutter
<1>2. CASE MemClear
  BY <1>2, Stutter DEF MemClear, IInv, TypeOK
<1>3. CASE ClearEnd
  BY <1>3, Stutter DEF ClearEnd, IInv, TypeOK
<1>4. CASE UNCHANGED vars
  BY <1>4, Stutter DEF vars, IInv, TypeOK
<1> QED
  BY <1>1, <1>2, <1>3, <1>4, AllocInv, FreeInv, ReallocInv, CountInv, ClearNextInv DEF Next

-----------------------------------------------------------------------------
(* The theorems.                                                           *)

(***************************************************************************)
(* The inductive invariant holds in every reachable state, if the          *)
(* application never has an only block moved by vpMemRealloc.              *)
(***************************************************************************)
THEOREM Invariance == ASSUME ~SoleRealloc PROVE Spec => []IInv
<1>1. IInv /\ [Next]_vars => IInv'
  BY NextInv, MemoryAssumption
<1> QED
  BY <1>1, InitInv, PTL DEF Spec

(***************************************************************************)
(* The variables keep their types: no link leaves the address space, and   *)
(* the count that bounds the searches never goes below zero.               *)
(***************************************************************************)
THEOREM TypeCorrect == ASSUME ~SoleRealloc PROVE Spec => []TypeOK
<1>1. IInv => TypeOK
  BY DEF IInv
<1> QED
  BY <1>1, Invariance, PTL

(***************************************************************************)
(* No call of memory.c follows a link to a freed block.                    *)
(***************************************************************************)
THEOREM NeverStale == ASSUME ~SoleRealloc PROVE Spec => []NoStaleAccess
<1>1. IInv => NoStaleAccess
  BY DEF IInv
<1> QED
  BY <1>1, Invariance, PTL

(***************************************************************************)
(* spActiveList is one ring through exactly the blocks in use, however     *)
(* many there are and in whatever order they were allocated and freed.     *)
(***************************************************************************)
THEOREM OneRing == ASSUME ~SoleRealloc PROVE Spec => []RingOfBlocks
<1>1. IInv => RingOfBlocks
  BY DEF IInv
<1> QED
  BY <1>1, Invariance, PTL

-----------------------------------------------------------------------------
(* The list is a list: from the head, spNext leads through every block in  *)
(* use, once, and back to the head.                                        *)

\* every set of natural numbers that is not empty has a least one
LEMMA Least ==
  ASSUME NEW S \in SUBSET Nat, S # {}
  PROVE  \E n \in S : \A m \in S : n =< m
<1>1. \E n \in S : \A m \in S : ~(<<m, n>> \in OpToRel(<, Nat))
  BY NatLessThanWellFounded, WFMin
<1>2. PICK n \in S : \A m \in S : ~(<<m, n>> \in OpToRel(<, Nat))
  BY <1>1
<1>3. ASSUME NEW m \in S, m < n PROVE FALSE
  <2>1. <<m, n>> \in OpToRel(<, Nat)
    BY <1>3 DEF OpToRel
  <2> QED
    BY <1>2, <2>1
<1>4. ASSUME NEW m \in S PROVE n =< m
  BY <1>3, <1>4
<1> QED
  BY <1>4

\* a set of blocks in use with the head, and with what follows each of its blocks, is all of them
LEMMA ClosedIsAll ==
  ASSUME IInv, NEW C \in SUBSET heap, spActiveList \in C, \A c \in C : spNext[c] \in C
  PROVE  C = heap
<1> DEFINE Others == heap \ C
           Seqs == {uiSeq[d] : d \in Others}
<1>1. SUFFICES ASSUME Others # {} PROVE FALSE
  OBVIOUS
<1>2. Seqs \in SUBSET Nat /\ Seqs # {}
  BY <1>1 DEF IInv, TypeOK
<1>3. PICK d \in Others : \A e \in Others : uiSeq[d] =< uiSeq[e]
  <2>1. PICK n \in Seqs : \A m \in Seqs : n =< m
    <3> HIDE DEF Seqs
    <3> QED
      BY <1>2, Least
  <2> QED
    BY <2>1
<1>4. /\ d \in heap /\ d # spActiveList /\ uiSeq[spPrev[d]] < uiSeq[d]
      /\ spPrev[d] \in heap /\ spNext[spPrev[d]] = d
  BY DEF IInv, RingOfBlocks, Linked, Ordered
<1>5. spPrev[d] \in Others
  BY <1>4
<1>6. uiSeq[d] \in Nat /\ uiSeq[spPrev[d]] \in Nat
  BY <1>4 DEF IInv, TypeOK
<1> QED
  BY <1>3, <1>4, <1>5, <1>6

Walk(b) == b \in [1..uiActiveCellCount -> Cells] /\ Follows(b)

\* a walk stays within the blocks in use
LEMMA WalkInHeap ==
  ASSUME IInv, NEW n \in 1..uiActiveCellCount, NEW b \in [1..n -> Cells], Follows(b)
  PROVE  \A i \in 1..n : b[i] \in heap
<1> DEFINE S == {i \in 1..n : b[i] \notin heap}
<1>0. n \in Nat /\ uiActiveCellCount \in Nat
  BY DEF IInv, TypeOK
<1>1. SUFFICES ASSUME S # {} PROVE FALSE
  OBVIOUS
<1>2. PICK i \in S : \A j \in S : i =< j
  <2>1. S \in SUBSET Nat
    BY <1>0
  <2> HIDE DEF S
  <2> QED
    BY <1>1, <2>1, Least
<1>3. i # 1
  <2>1. spActiveList \in heap
    BY <1>0, CountZero DEF IInv, RingOfBlocks, Headed
  <2> QED
    BY <2>1 DEF Follows
<1>4. i - 1 \in 1..n /\ i - 1 \notin S /\ b[i] = spNext[b[i - 1]]
  BY <1>0, <1>2, <1>3 DEF Follows
<1> QED
  BY <1>4 DEF IInv, RingOfBlocks, Linked

\* no two walks differ
LEMMA OneWalk ==
  ASSUME IInv, NEW a, NEW b, Walk(a), Walk(b)
  PROVE  a = b
<1> DEFINE N == uiActiveCellCount
           S == {i \in 1..N : a[i] # b[i]}
<1>0. N \in Nat /\ a \in [1..N -> Cells] /\ b \in [1..N -> Cells]
  BY DEF IInv, TypeOK, Walk
<1>1. S = {}
  <2>1. SUFFICES ASSUME S # {} PROVE FALSE
    OBVIOUS
  <2>2. PICK i \in S : \A j \in S : i =< j
    <3>1. S \in SUBSET Nat
      BY <1>0
    <3> HIDE DEF S
    <3> QED
      BY <2>1, <3>1, Least
  <2>3. a[1] = spActiveList /\ b[1] = spActiveList
    BY <1>0 DEF Walk, Follows
  <2>4. i # 1
    BY <2>3
  <2>5. i - 1 \in 1..N /\ i - 1 \notin S
    BY <1>0, <2>2, <2>4
  <2>6. a[i] = spNext[a[i - 1]] /\ b[i] = spNext[b[i - 1]]
    BY <1>0, <2>4 DEF Walk, Follows
  <2> QED
    BY <2>5, <2>6
<1> QED
  BY <1>0, <1>1

\* there are walks of every length
LEMMA SomeWalk ==
  ASSUME IInv
  PROVE  \E b : Walk(b)
<1> DEFINE N == uiActiveCellCount
           Walked(n) == \E b \in [1..n -> Cells] : Follows(b)
           S == {n \in 0..N : ~Walked(n)}
<1>0. N \in Nat
  BY DEF IInv, TypeOK
<1>1. SUFFICES ASSUME S # {} PROVE FALSE
  <2>1. S = {} => Walked(N)
    BY <1>0
  <2> QED
    BY <2>1 DEF Walk
<1>2. PICK n \in S : \A m \in S : n =< m
  <2>1. S \in SUBSET Nat
    BY <1>0
  <2> HIDE DEF S
  <2> QED
    BY <1>1, <2>1, Least
<1>3. n # 0
  <2>1. Walked(0)
    <3>1. << >> \in [1..0 -> Cells] /\ DOMAIN << >> = {}
      OBVIOUS
    <3> QED
      BY <3>1 DEF Follows
  <2> QED
    BY <2>1
<1>4. n \in Nat /\ n - 1 \in 0..N /\ n - 1 \notin S
  BY <1>0, <1>2, <1>3
<1>5. PICK b \in [1..(n - 1) -> Cells] : Follows(b)
  BY <1>4
<1>6. spActiveList \in heap
  BY <1>0, <1>3, CountZero DEF IInv, RingOfBlocks, Headed
<1>7. n # 1 => b[n - 1] \in heap
  BY <1>0, <1>4, <1>5, WalkInHeap
<1> DEFINE x == IF n = 1 THEN spActiveList ELSE spNext[b[n - 1]]
           c == [i \in 1..n |-> IF i = n THEN x ELSE b[i]]
<1>8. x \in Cells
  BY <1>6, <1>7 DEF IInv, TypeOK, RingOfBlocks, Linked
<1>9. c \in [1..n -> Cells]
  <2> HIDE DEF x
  <2> QED
    BY <1>4, <1>8
<1>10. Follows(c)
  <2> SUFFICES ASSUME NEW i \in 1..n
               PROVE  c[i] = IF i = 1 THEN spActiveList ELSE spNext[c[i - 1]]
    BY DEF Follows
  <2>1. CASE i = n
    BY <1>4, <2>1
  <2>2. CASE i # n
    <3>1. i \in 1..(n - 1) /\ (i # 1 => i - 1 \in 1..(n - 1))
      BY <1>4, <2>2
    <3>2. b[i] = IF i = 1 THEN spActiveList ELSE spNext[b[i - 1]]
      BY <1>5, <3>1 DEF Follows
    <3> HIDE DEF x
    <3> QED
      BY <1>4, <2>2, <3>1, <3>2
  <2> QED
    BY <2>1, <2>2
<1> QED
  BY <1>9, <1>10

\* the walk around visits every block in use once, and the last one leads back to the head
Ring(b) ==
  /\ Walk(b)
  /\ \A i \in 1..uiActiveCellCount : b[i] \in heap
  /\ \A i, j \in 1..uiActiveCellCount : b[i] = b[j] => i = j
  /\ \A c \in heap : \E i \in 1..uiActiveCellCount : b[i] = c
  /\ uiActiveCellCount # 0 => b[1] = spActiveList /\ b[uiActiveCellCount] = spPrev[spActiveList]

LEMMA WalkIsRing ==
  ASSUME IInv, NEW b, Walk(b)
  PROVE  Ring(b)
<1> DEFINE N == uiActiveCellCount
<1>0. N \in Nat /\ b \in [1..N -> Cells] /\ Follows(b) /\ N = Cardinality(heap)
  BY DEF IInv, TypeOK, Walk, RingOfBlocks, Counted
<1>1. \A i \in 1..N : b[i] \in heap
  <2>1. CASE N = 0
    BY <2>1
  <2>2. CASE N # 0
    <3>1. N \in 1..uiActiveCellCount
      BY <1>0, <2>2
    <3> QED
      BY <1>0, <3>1, WalkInHeap
  <2> QED
    BY <2>1, <2>2
<1>2. /\ N # 0 => b[1] = spActiveList
      /\ \A i \in 1..N : i # 1 => i - 1 \in 1..N /\ b[i] = spNext[b[i - 1]]
  <2>1. DOMAIN b = 1..N
    BY <1>0
  <2>2. \A i \in 1..N : b[i] = IF i = 1 THEN spActiveList ELSE spNext[b[i - 1]]
    BY <1>0, <2>1 DEF Follows
  <2>3. N # 0 => 1 \in 1..N
    BY <1>0
  <2>4. \A i \in 1..N : i # 1 => i - 1 \in 1..N
    BY <1>0
  <2> HIDE DEF N
  <2> QED
    BY <2>2, <2>3, <2>4
<1>3. ASSUME NEW i \in 1..N, NEW j \in 1..N, b[i] = b[j], i < j
      PROVE  FALSE
  <2> DEFINE D == 1..(j - 1)
             f == [k \in D |-> b[k]]
             C == {b[k] : k \in D}
  <2>1. C \in SUBSET heap /\ spActiveList \in C
    BY <1>0, <1>1, <1>2, <1>3
  <2>2. ASSUME NEW k \in D PROVE spNext[b[k]] \in C
    <3>1. k + 1 \in 1..N /\ b[k + 1] = spNext[b[k]]
      BY <1>0, <1>2
    <3>2. CASE k + 1 \in D
      BY <3>1, <3>2
    <3>3. CASE k + 1 \notin D
      <4>1. k + 1 = j /\ i \in D
        BY <1>3, <3>3
      <4> QED
        BY <1>3, <3>1, <4>1
    <3> QED
      BY <3>2, <3>3
  <2>3. C = heap
    <3>1. \A c \in C : spNext[c] \in C
      BY <2>2
    <3> HIDE DEF C
    <3> QED
      BY <2>1, <3>1, ClosedIsAll
  <2>4. f \in Surjection(D, heap)
    BY <2>3 DEF Surjection
  <2>5. IsFiniteSet(D) /\ Cardinality(D) = j - 1
    <3>1. 1 \in Int /\ j - 1 \in Int /\ (1 > j - 1 <=> j = 1) /\ 1 < j
      BY <1>3
    <3> QED
      BY <3>1, FS_Interval
  <2>6. Cardinality(heap) =< j - 1
    <3> HIDE DEF D, f
    <3> QED
      BY <2>4, <2>5, FS_Surjection
  <2> QED
    BY <1>0, <2>6
<1>4. \A i, j \in 1..N : b[i] = b[j] => i = j
  <2> SUFFICES ASSUME NEW i \in 1..N, NEW j \in 1..N, b[i] = b[j] PROVE i = j
    OBVIOUS
  <2>1. ~(i < j) /\ ~(j < i)
    BY <1>3
  <2> QED
    BY <1>0, <2>1
<1>5. \A c \in heap : \E i \in 1..N : b[i] = c
  <2>1. IsFiniteSet(heap)
    BY DEF IInv
  <2>2. IsFiniteSet(1..N) /\ Cardinality(1..N) = N
    <3>1. 1 \in Int /\ N \in Int
      BY <1>0
    <3>2. Cardinality(1..N) = IF 1 > N THEN 0 ELSE N - 1 + 1
      BY <3>1, FS_Interval
    <3> QED
      BY <1>0, <3>1, <3>2, FS_Interval
  <2>3. b \in Injection(1..N, heap)
    BY <1>0, <1>1, <1>4 DEF Injection, IsInjective
  <2> HIDE DEF N
  <2>4. b \in Surjection(1..N, heap)
    BY <1>0, <2>1, <2>2, <2>3, FS_Injection
  <2> QED
    BY <2>4 DEF Surjection
<1>6. N # 0 => b[N] = spPrev[spActiveList]
  <2> SUFFICES ASSUME N # 0 PROVE b[N] = spPrev[spActiveList]
    OBVIOUS
  <2>1. spActiveList \in heap
    BY <1>0, <1>1, <1>2
  <2>2. spPrev[spActiveList] \in heap /\ spNext[spPrev[spActiveList]] = spActiveList
    BY <2>1 DEF IInv, RingOfBlocks, Linked
  <2>3. PICK i \in 1..N : b[i] = spPrev[spActiveList]
    BY <1>5, <2>2
  <2>4. CASE i # N
    <3>1. i + 1 \in 1..N /\ b[i + 1] = spNext[b[i]] /\ 1 \in 1..N
      BY <1>0, <1>2, <2>4
    <3>2. i + 1 = 1
      BY <1>2, <1>4, <2>2, <2>3, <3>1
    <3> QED
      BY <3>2
  <2> QED
    BY <2>3, <2>4
<1> QED
  BY <1>1, <1>2, <1>4, <1>5, <1>6 DEF Ring

\* the block that a cell is to the application
Shown(b) == [i \in 1..uiActiveCellCount |-> [cell |-> b[i], size |-> uiSize[b[i]]]]

WalksShown == \A b : Walk(b) => BlockList = Shown(b)

LEMMA WalkIsList == IInv => WalksShown
<1> SUFFICES ASSUME IInv, NEW b, Walk(b) PROVE BlockList = Shown(b)
  BY DEF WalksShown
<1>1. Walk(Around)
  <2>1. Around \in [1..uiActiveCellCount -> Cells] /\ Follows(Around)
    BY DEF Around, Walk
  <2> QED
    BY <2>1 DEF Walk
<1>2. Around = b
  BY <1>1, OneWalk
<1> QED
  BY <1>2 DEF BlockList, Shown

LEMMA TheRing ==
  ASSUME IInv
  PROVE  \E b : Ring(b) /\ BlockList = Shown(b)
BY SomeWalk, WalkIsRing, WalkIsList DEF WalksShown

\* a search finds every block in use
LEMMA FoundIs ==
  ASSUME IInv, NEW cell
  PROVE  Found(cell) <=> cell \in heap
<1>1. SUFFICES ASSUME cell \in heap PROVE Found(cell)
  BY SearchInHeap
<1> DEFINE N == uiActiveCellCount
<1>2. PICK b : Ring(b)
  BY TheRing
<1>3. PICK k \in 1..N : b[k] = cell
  BY <1>1, <1>2 DEF Ring
<1> DEFINE n == k - 1
           p == [i \in 0..n |-> b[i + 1]]
<1>4. N \in Nat /\ n \in Nat /\ n \in 0..(N - 1) /\ b \in [1..N -> Cells] /\ Follows(b)
  BY <1>2 DEF IInv, TypeOK, Ring, Walk
<1>5. p \in [0..n -> Cells] /\ p[0] = spActiveList /\ p[n] = cell
  BY <1>2, <1>3, <1>4 DEF Ring
<1>6. ASSUME NEW j \in 1..n PROVE p[j - 1] \in heap /\ p[j] = spNext[p[j - 1]]
  <2>1. j \in 1..N /\ j + 1 \in 1..N /\ p[j - 1] = b[j] /\ p[j] = b[j + 1]
    BY <1>4
  <2>2. b[j + 1] = spNext[b[j]] /\ b[j] \in heap
    <3>1. j + 1 \in DOMAIN b /\ j + 1 # 1 /\ (j + 1) - 1 = j
      BY <1>4, <2>1
    <3>2. b[j + 1] = spNext[b[(j + 1) - 1]]
      BY <1>4, <3>1 DEF Follows
    <3> QED
      BY <1>2, <2>1, <3>1, <3>2 DEF Ring
  <2> QED
    BY <2>1, <2>2
<1>7. p \in Walks(n)
  <2> HIDE DEF p, n
  <2> QED
    BY <1>5, <1>6 DEF Walks
<1> QED
  BY <1>4, <1>5, <1>7 DEF Found

-----------------------------------------------------------------------------
(* What the list shows, before and after a step.                           *)

Block == [cell: Cells, size: Nat]

LEMMA ListIs ==
  ASSUME IInv, NEW b, Ring(b), BlockList = Shown(b)
  PROVE  /\ BlockList \in Seq(Block) /\ Len(BlockList) = uiActiveCellCount
         /\ DOMAIN BlockList = 1..uiActiveCellCount
         /\ \A i \in 1..uiActiveCellCount : BlockList[i] = [cell |-> b[i], size |-> uiSize[b[i]]]
         /\ Api!Held = heap
         /\ (BlockList = << >> <=> heap = {})
<1> DEFINE N == uiActiveCellCount
           L == BlockList
<1>1. N \in Nat /\ b \in [1..N -> Cells] /\ uiSize \in [Cells -> Nat]
  BY DEF IInv, TypeOK, Ring, Walk
<1>2. L = [i \in 1..N |-> [cell |-> b[i], size |-> uiSize[b[i]]]]
  BY DEF Shown
<1>3. \A i \in 1..N : [cell |-> b[i], size |-> uiSize[b[i]]] \in Block
  BY <1>1 DEF Block
<1>4. DOMAIN L = 1..N /\ \A i \in 1..N : L[i] = [cell |-> b[i], size |-> uiSize[b[i]]]
  BY <1>2
<1> HIDE DEF N, L
<1>5. L \in [1..N -> Block]
  BY <1>2, <1>3
<1>6. L \in Seq(Block) /\ Len(L) = N
  BY <1>1, <1>4, <1>5
<1>7. \A i \in 1..N : L[i].cell = b[i]
  BY <1>4
<1>8. Api!Held = heap
  <2>1. Api!Held = {L[i].cell : i \in 1..N}
    BY <1>4 DEF Api!Held, L
  <2>2. {b[i] : i \in 1..N} = heap
    BY DEF Ring, N
  <2> QED
    BY <1>7, <2>1, <2>2
<1>9. L = << >> <=> heap = {}
  <2>1. L = << >> <=> N = 0
    BY <1>6, EmptySeq
  <2>2. N = 0 <=> heap = {}
    BY CountZero DEF N
  <2> QED
    BY <2>1, <2>2
<1> QED
  BY <1>4, <1>6, <1>8, <1>9 DEF N, L

\* b walks once around the list of the next state, and what it shows
NextWalk(b, n) ==
  /\ n = uiActiveCellCount'
  /\ b \in [1..n -> Cells]
  /\ \A i \in 1..n : b[i] = IF i = 1 THEN spActiveList' ELSE spNext'[b[i - 1]]

NextShown(b, n) == [i \in 1..n |-> [cell |-> b[i], size |-> uiSize'[b[i]]]]

LEMMA NextList ==
  ASSUME IInv', NEW n, NEW b, NextWalk(b, n)
  PROVE  BlockList' = NextShown(b, n)
<1>1. \A c : Walk(c)' => BlockList' = Shown(c)'
  <2>1. (IInv => WalksShown)'
    BY WalkIsList, PTL
  <2> QED
    BY <2>1 DEF WalksShown
<1>2. Walk(b)'
  <2>1. DOMAIN b = 1..n
    BY DEF NextWalk
  <2> QED
    BY <2>1 DEF Walk, Follows, NextWalk
<1>3. Shown(b)' = NextShown(b, n)
  BY DEF Shown, NextShown, NextWalk
<1> QED
  BY <1>1, <1>2, <1>3

LEMMA ListKept ==
  ASSUME UNCHANGED list
  PROVE  UNCHANGED BlockList
BY DEF list, cells, BlockList, Around, Follows

-----------------------------------------------------------------------------
(* Each step is one of MemoryApi's.                                        *)

\* what the calls return
LEMMA AnswerIs ==
  ASSUME NEW call, NEW arg, NEW bytes, NEW cell
  PROVE  /\ answer' = Answer(call, arg, bytes, cell, 0) <=> Api!Done(call, arg, bytes, FALSE, cell)
         /\ answer' = Threw(call, arg, bytes) <=> Api!Done(call, arg, bytes, TRUE, NULL)
BY DEF Answer, Threw, Api!Done

\* a new block is put behind the others
LEMMA PushShown ==
  ASSUME IInv, IInv', NEW cell \in Cells \ heap, NEW bytes \in Nat,
         Push(cell), uiSize' = [uiSize EXCEPT ![cell] = bytes]
  PROVE  BlockList' = Append(BlockList, [cell |-> cell, size |-> bytes])
<1>1. PICK b : Ring(b) /\ BlockList = Shown(b)
  BY TheRing
<1> DEFINE N == uiActiveCellCount
           c == [i \in 1..(N + 1) |-> IF i = N + 1 THEN cell ELSE b[i]]
           x == [cell |-> cell, size |-> bytes]
<1>2. /\ N \in Nat /\ b \in [1..N -> Cells] /\ uiSize \in [Cells -> Nat]
      /\ \A i \in 1..N : b[i] \in heap /\ b[i] # cell
      /\ \A i \in 1..N : b[i] = IF i = 1 THEN spActiveList ELSE spNext[b[i - 1]]
      /\ N # 0 => b[1] = spActiveList /\ b[N] = spPrev[spActiveList]
      /\ \A i, j \in 1..N : b[i] = b[j] => i = j
      /\ spNext \in [Cells -> Cells \cup {NULL}]
  BY <1>1 DEF IInv, TypeOK, Ring, Walk, Follows
<1>3. uiActiveCellCount' = N + 1
  BY DEF Push
<1>4. /\ N = 0 => spActiveList' = cell
      /\ N # 0 => /\ spActiveList' = spActiveList
                  /\ spNext'[b[N]] = cell
                  /\ \A i \in 1..N : i # N => spNext'[b[i]] = spNext[b[i]]
  <2>1. CASE PushFirst(cell)
    <3>1. N = 0 /\ spActiveList' = cell
      BY <2>1 DEF PushFirst
    <3> QED
      BY <3>1
  <2>2. CASE PushSecond(cell)
    <3>1. N = 1 /\ spActiveList' = spActiveList
          /\ spNext' = [spNext EXCEPT ![spActiveList] = cell, ![cell] = spActiveList]
      BY <2>2 DEF PushSecond
    <3>2. N \in 1..N /\ b[N] = spActiveList /\ b[N] \in heap
      BY <1>2, <3>1
    <3>3. b[N] \in Cells /\ b[N] # cell
      BY <3>2 DEF IInv, TypeOK
    <3>4. spNext'[b[N]] = cell
      BY <1>2, <3>1, <3>2, <3>3
    <3>5. \A i \in 1..N : i = N
      BY <3>1
    <3> QED
      BY <3>1, <3>4, <3>5
  <2>3. CASE PushLast(cell)
    <3>1. N > 1 /\ spActiveList' = spActiveList
          /\ spNext' = [spNext EXCEPT ![spPrev[spActiveList]] = cell, ![cell] = spActiveList]
      BY <2>3 DEF PushLast
    <3>2. N # 0 /\ N \in 1..N
      BY <1>2, <3>1
    <3>3. b[N] = spPrev[spActiveList] /\ b[N] \in Cells /\ b[N] # cell
      BY <1>2, <3>2
    <3>4. spNext'[b[N]] = cell
      BY <1>2, <3>1, <3>3
    <3>5. ASSUME NEW i \in 1..N, i # N PROVE spNext'[b[i]] = spNext[b[i]]
      <4>1. b[i] # b[N] /\ b[i] # cell /\ b[i] \in Cells
        BY <1>2, <3>2, <3>5
      <4> QED
        BY <1>2, <3>1, <3>3, <4>1
    <3> QED
      BY <3>1, <3>2, <3>4, <3>5
  <2> QED
    BY <2>1, <2>2, <2>3 DEF Push
<1>5. c \in [1..(N + 1) -> Cells] /\ N + 1 \in Nat
  BY <1>2
<1>6. \A i \in 1..(N + 1) : c[i] = IF i = 1 THEN spActiveList' ELSE spNext'[c[i - 1]]
  <2> SUFFICES ASSUME NEW i \in 1..(N + 1)
               PROVE  c[i] = IF i = 1 THEN spActiveList' ELSE spNext'[c[i - 1]]
    OBVIOUS
  <2>1. CASE i = 1
    BY <1>2, <1>4, <2>1
  <2>2. CASE i # 1 /\ i = N + 1
    <3>1. i - 1 = N /\ N # 0 /\ i - 1 \in 1..(N + 1)
      BY <1>2, <2>2
    <3>2. c[i] = cell /\ c[i - 1] = b[N]
      BY <1>2, <2>2, <3>1
    <3> QED
      BY <1>4, <2>2, <3>1, <3>2
  <2>3. CASE i # 1 /\ i # N + 1
    <3>1. i \in 1..N /\ i - 1 \in 1..N /\ i - 1 # N /\ N # 0 /\ i - 1 \in 1..(N + 1) /\ i - 1 # N + 1
      BY <1>2, <2>3
    <3>2. c[i] = b[i] /\ c[i - 1] = b[i - 1]
      BY <2>3, <3>1
    <3>3. b[i] = spNext[b[i - 1]] /\ spNext'[b[i - 1]] = spNext[b[i - 1]]
      BY <1>2, <1>4, <2>3, <3>1
    <3> QED
      BY <2>3, <3>2, <3>3
  <2> QED
    BY <2>1, <2>2, <2>3
<1>7. BlockList' = [i \in 1..(N + 1) |-> [cell |-> c[i], size |-> uiSize'[c[i]]]]
  <2> HIDE DEF c, N
  <2>1. NextWalk(c, N + 1)
    BY <1>3, <1>5, <1>6 DEF NextWalk
  <2> QED
    BY <2>1, NextList DEF NextShown
<1>8. ASSUME NEW i \in 1..(N + 1)
      PROVE  [cell |-> c[i], size |-> uiSize'[c[i]]]
               = IF i = N + 1 THEN x ELSE [cell |-> b[i], size |-> uiSize[b[i]]]
  <2>1. CASE i = N + 1
    <3>1. c[i] = cell /\ uiSize'[cell] = bytes
      BY <1>2, <2>1
    <3> QED
      BY <2>1, <3>1
  <2>2. CASE i # N + 1
    <3>1. i \in 1..N /\ c[i] = b[i]
      BY <1>2, <2>2
    <3>2. uiSize'[b[i]] = uiSize[b[i]]
      BY <1>2, <3>1
    <3> QED
      BY <2>2, <3>1, <3>2
  <2> QED
    BY <2>1, <2>2
<1>9. /\ BlockList \in Seq(Block) /\ Len(BlockList) = N
      /\ \A i \in 1..N : BlockList[i] = [cell |-> b[i], size |-> uiSize[b[i]]]
  BY <1>1, ListIs
<1>10. x \in Block
  BY DEF Block
<1> HIDE DEF c, x, N
<1>11. /\ Append(BlockList, x) \in Seq(Block) /\ Len(Append(BlockList, x)) = N + 1
       /\ \A i \in 1..N : Append(BlockList, x)[i] = BlockList[i]
       /\ Append(BlockList, x)[N + 1] = x
  BY <1>9, <1>10, AppendProperties
<1>12. /\ \A i \in 1..(N + 1) : BlockList'[i] = Append(BlockList, x)[i]
       /\ DOMAIN BlockList' = 1..(N + 1)
  <2> SUFFICES ASSUME NEW i \in 1..(N + 1)
               PROVE  BlockList'[i] = Append(BlockList, x)[i]
    BY <1>7
  <2>1. CASE i = N + 1
    BY <1>7, <1>8, <1>11, <2>1
  <2>2. CASE i # N + 1
    <3>1. i \in 1..N
      BY <1>2, <2>2 DEF N
    <3>2. BlockList'[i] = [cell |-> b[i], size |-> uiSize[b[i]]]
      BY <1>7, <1>8, <2>2
    <3> QED
      BY <1>9, <1>11, <3>1, <3>2
  <2> QED
    BY <2>1, <2>2
<1> QED
  <2>1. Append(BlockList, x) \in [1..(N + 1) -> Block]
    BY <1>11, LenProperties
  <2>2. BlockList' = [i \in 1..(N + 1) |-> BlockList'[i]]
    BY <1>7
  <2> QED
    BY <1>12, <2>1, <2>2 DEF x

\* the neighbours of a block in use are those the list shows
LEMMA Neighbours ==
  ASSUME IInv, NEW b, Ring(b), NEW k \in 1..uiActiveCellCount
  PROVE  /\ b[k] \in heap
         /\ k # 1 => k - 1 \in 1..uiActiveCellCount /\ spPrev[b[k]] = b[k - 1]
         /\ k = 1 => spPrev[b[k]] = b[uiActiveCellCount] /\ b[k] = spActiveList
         /\ k # uiActiveCellCount => k + 1 \in 1..uiActiveCellCount /\ spNext[b[k]] = b[k + 1]
<1> DEFINE N == uiActiveCellCount
<1>1. /\ N \in Nat /\ DOMAIN b = 1..N
      /\ \A i \in 1..N : b[i] = IF i = 1 THEN spActiveList ELSE spNext[b[i - 1]]
      /\ \A i \in 1..N : b[i] \in heap
      /\ N # 0 => b[1] = spActiveList /\ b[N] = spPrev[spActiveList]
  BY DEF IInv, TypeOK, Ring, Walk, Follows
<1>2. k # 1 => k - 1 \in 1..N /\ spPrev[b[k]] = b[k - 1]
  <2> SUFFICES ASSUME k # 1 PROVE k - 1 \in 1..N /\ spPrev[b[k]] = b[k - 1]
    OBVIOUS
  <2>1. k - 1 \in 1..N
    BY <1>1
  <2>2. b[k] = spNext[b[k - 1]] /\ b[k - 1] \in heap
    BY <1>1, <2>1
  <2> QED
    BY <2>1, <2>2 DEF IInv, RingOfBlocks, Linked
<1>3. k # N => k + 1 \in 1..N /\ spNext[b[k]] = b[k + 1]
  <2> SUFFICES ASSUME k # N PROVE k + 1 \in 1..N /\ spNext[b[k]] = b[k + 1]
    OBVIOUS
  <2>1. k + 1 \in 1..N /\ k + 1 # 1 /\ (k + 1) - 1 = k
    BY <1>1
  <2>2. b[k + 1] = spNext[b[(k + 1) - 1]]
    BY <1>1, <2>1
  <2> QED
    BY <2>1, <2>2
<1>4. k = 1 => spPrev[b[k]] = b[N] /\ b[k] = spActiveList
  BY <1>1
<1> QED
  BY <1>1, <1>2, <1>3, <1>4

\* what is left of a list without one of its elements
LEMMA RemoveAtIs ==
  ASSUME NEW S, NEW s \in Seq(S), NEW k \in 1..Len(s)
  PROVE  /\ Api!RemoveAt(s, k) \in [1..(Len(s) - 1) -> S]
         /\ \A i \in 1..(Len(s) - 1) : Api!RemoveAt(s, k)[i] = IF i < k THEN s[i] ELSE s[i + 1]
<1> DEFINE n == Len(s)
           u == SubSeq(s, 1, k - 1)
           v == SubSeq(s, k + 1, n)
<1>1. n \in Nat /\ k \in Nat /\ k >= 1 /\ k =< n
  BY LenProperties
<1>2. /\ u \in Seq(S) /\ Len(u) = k - 1
      /\ \A i \in 1..(k - 1) : u[i] = s[i]
  <2>1. \A i \in 1..(k - 1) : i \in 1..n
    BY <1>1
  <2> QED
    BY <1>1, <2>1
<1>3. /\ v \in Seq(S) /\ Len(v) = n - k
      /\ \A i \in 1..(n - k) : v[i] = s[i + k]
  <2>1. \A i \in (k + 1)..n : i \in 1..n
    BY <1>1
  <2> QED
    BY <1>1, <2>1
<1>4. Api!RemoveAt(s, k) = u \o v
  BY DEF Api!RemoveAt
<1> HIDE DEF u, v, n
<1>5. /\ u \o v \in Seq(S) /\ Len(u \o v) = n - 1
      /\ \A i \in 1..(n - 1) : (u \o v)[i] = IF i =< k - 1 THEN u[i] ELSE v[i - (k - 1)]
  <2>1. Len(u) + Len(v) = n - 1 /\ n \in Nat /\ k \in Nat
    BY <1>1, <1>2, <1>3 DEF n
  <2>2. /\ u \o v \in Seq(S) /\ Len(u \o v) = Len(u) + Len(v)
        /\ \A i \in 1..(Len(u) + Len(v)) : (u \o v)[i] = IF i =< Len(u) THEN u[i] ELSE v[i - Len(u)]
    BY <1>2, <1>3, ConcatProperties
  <2> QED
    BY <1>2, <2>1, <2>2
<1>6. u \o v \in [1..(n - 1) -> S]
  BY <1>5, LenProperties
<1>7. ASSUME NEW i \in 1..(n - 1) PROVE (u \o v)[i] = IF i < k THEN s[i] ELSE s[i + 1]
  <2>1. CASE i < k
    <3>1. i \in 1..(k - 1) /\ i =< k - 1
      BY <1>1, <2>1
    <3> QED
      BY <1>2, <1>5, <2>1, <3>1
  <2>2. CASE ~(i < k)
    <3>1. i - (k - 1) \in 1..(n - k) /\ ~(i =< k - 1) /\ (i - (k - 1)) + k = i + 1
      BY <1>1, <2>2
    <3> QED
      BY <1>3, <1>5, <2>2, <3>1
  <2> QED
    BY <2>1, <2>2
<1> QED
  BY <1>4, <1>6, <1>7 DEF n

LEMMA FrontIs ==
  ASSUME NEW S, NEW s \in Seq(S), s # << >>
  PROVE  Api!Front(s) = Api!RemoveAt(s, Len(s))
<1> DEFINE n == Len(s)
           u == SubSeq(s, 1, n - 1)
           r == Api!RemoveAt(s, n)
<1>1. n \in Nat \ {0} /\ n \in 1..n
  BY EmptySeq, LenProperties
<1>2. u = [i \in 1..(n - 1) |-> s[i]]
  <2>1. \A i \in 1..(n - 1) : i \in 1..n
    BY <1>1
  <2> QED
    BY <1>1, <2>1
<1>3. /\ r \in [1..(n - 1) -> S]
      /\ \A i \in 1..(n - 1) : r[i] = IF i < n THEN s[i] ELSE s[i + 1]
  BY <1>1, RemoveAtIs
<1>4. \A i \in 1..(n - 1) : i < n
  BY <1>1
<1>5. Api!Front(s) = u
  BY DEF Api!Front
<1> HIDE DEF u, r, n
<1>6. \A i \in 1..(n - 1) : r[i] = s[i]
  BY <1>3, <1>4
<1>7. r = [i \in 1..(n - 1) |-> s[i]]
  BY <1>3, <1>6
<1> QED
  BY <1>2, <1>5, <1>7 DEF r, n

\* the blocks left keep their order and sizes when one is unlinked
LEMMA PopShown ==
  ASSUME IInv, IInv', NEW b, Ring(b), BlockList = Shown(b),
         NEW k \in 1..uiActiveCellCount, Pop(b[k])
  PROVE  BlockList' = Api!RemoveAt(BlockList, k)
<1> DEFINE N == uiActiveCellCount
           n == N - 1
           c == [i \in 1..n |-> IF i < k THEN b[i] ELSE b[i + 1]]
           r == Api!RemoveAt(BlockList, k)
<1>1. /\ N \in Nat /\ n \in Nat /\ k \in Nat /\ k >= 1 /\ k =< N
      /\ b \in [1..N -> Cells] /\ uiSize \in [Cells -> Nat] /\ spNext \in [Cells -> Cells \cup {NULL}]
      /\ \A i, j \in 1..N : b[i] = b[j] => i = j
  BY SMTT(40) DEF IInv, TypeOK, Ring, Walk
<1>2. /\ uiActiveCellCount' = n
      /\ spActiveList' = IF spActiveList # b[k] THEN spActiveList ELSE IF N = 1 THEN NULL ELSE spNext[b[k]]
      /\ spNext' = [[spNext EXCEPT ![spPrev[b[k]]] = spNext[b[k]]] EXCEPT ![b[k]] = NULL]
      /\ uiSize' = [uiSize EXCEPT ![b[k]] = 0]
  BY DEF Pop, NewHead, Release, Unlinked
<1>3. \A i \in 1..n : i \in 1..N /\ i + 1 \in 1..N
  BY <1>1
<1>4. c \in [1..n -> Cells]
  BY <1>1, <1>3
\* the link of a block left
<1>5. ASSUME NEW j \in 1..N, j # k, j # N, j # k - 1
      PROVE  spNext'[b[j]] = b[j + 1] /\ j + 1 \in 1..N
  <2>0. spNext[b[j]] = b[j + 1] /\ j + 1 \in 1..N
    BY ZenonT(60), <1>5, Neighbours
  <2>1. spNext[b[j]] = b[j + 1] /\ j + 1 \in 1..N /\ b[j] \in Cells /\ b[j] # b[k]
    BY <1>1, <1>5, <2>0
  <2>2. b[j] # spPrev[b[k]]
    <3>1. CASE k = 1
      <4>1. spPrev[b[k]] = b[N] /\ N \in 1..N
        BY <1>1, <3>1, Neighbours
      <4> QED
        BY <1>1, <1>5, <4>1
    <3>2. CASE k # 1
      <4>1. spPrev[b[k]] = b[k - 1] /\ k - 1 \in 1..N
        BY <3>2, Neighbours
      <4> QED
        BY <1>1, <1>5, <4>1
    <3> QED
      BY <3>1, <3>2
  <2> QED
    BY <1>1, <1>2, <2>1, <2>2
\* the link over the block that went
<1>6. ASSUME k # 1, k # N PROVE spNext'[b[k - 1]] = b[k + 1]
  <2>1. spPrev[b[k]] = b[k - 1] /\ k - 1 \in 1..N /\ spNext[b[k]] = b[k + 1] /\ k + 1 \in 1..N
    BY <1>6, Neighbours
  <2>2. b[k - 1] # b[k] /\ b[k - 1] \in Cells
    BY <1>1, <2>1
  <2> QED
    BY <1>1, <1>2, <2>1, <2>2
<1>7. ASSUME n # 0 PROVE spActiveList' = IF k = 1 THEN b[2] ELSE b[1]
  <2>1. 1 \in 1..N /\ 2 \in 1..N /\ N # 1
    BY <1>1, <1>7
  <2>2. spActiveList = b[1]
    BY <2>1, Neighbours
  <2>3. CASE k = 1
    <3>1. spNext[b[k]] = b[k + 1] /\ k + 1 = 2
      BY <2>1, <2>3, Neighbours
    <3> QED
      BY <1>2, <2>1, <2>2, <2>3, <3>1
  <2>4. CASE k # 1
    BY <1>1, <1>2, <2>1, <2>2, <2>4
  <2> QED
    BY <2>3, <2>4
<1>8. \A i \in 1..n : c[i] = IF i = 1 THEN spActiveList' ELSE spNext'[c[i - 1]]
  <2> SUFFICES ASSUME NEW i \in 1..n
               PROVE  c[i] = IF i = 1 THEN spActiveList' ELSE spNext'[c[i - 1]]
    OBVIOUS
  <2>1. CASE i = 1
    <3>1. c[1] = IF 1 < k THEN b[1] ELSE b[2]
      BY <2>1
    <3>2. 1 < k <=> k # 1
      BY <1>1
    <3>3. n # 0
      BY <1>1, <2>1
    <3> QED
      BY <1>7, <2>1, <3>1, <3>2, <3>3
  <2>2. CASE i # 1
    <3>1. i - 1 \in 1..n /\ i \in Nat /\ i =< n
      BY <1>1, <2>2
    <3>2. c[i - 1] = IF i - 1 < k THEN b[i - 1] ELSE b[i]
      <4>1. (i - 1) + 1 = i
        BY <3>1
      <4> QED
        BY <3>1, <4>1
    <3>3. c[i] = IF i < k THEN b[i] ELSE b[i + 1]
      OBVIOUS
    <3> HIDE DEF c
    <3>4. CASE i < k
      <4>1. i - 1 \in 1..N /\ i - 1 # k /\ i - 1 # N /\ i - 1 # k - 1 /\ (i - 1) + 1 = i /\ i - 1 < k
        BY <1>1, <3>1, <3>4
      <4>2. spNext'[b[i - 1]] = b[i]
        BY <1>5, <4>1
      <4> QED
        BY <2>2, <3>2, <3>3, <3>4, <4>1, <4>2
    <3>5. CASE i = k
      <4>1. k # 1 /\ k # N /\ i - 1 < k /\ ~(i < k)
        BY <1>1, <2>2, <3>1, <3>5
      <4> QED
        BY <1>6, <2>2, <3>2, <3>3, <3>5, <4>1
    <3>6. CASE i > k
      <4>1. i \in 1..N /\ i # k /\ i # N /\ i # k - 1 /\ ~(i - 1 < k) /\ ~(i < k)
        BY <1>1, <3>1, <3>6
      <4>2. spNext'[b[i]] = b[i + 1]
        BY <1>5, <4>1
      <4> QED
        BY <2>2, <3>2, <3>3, <4>1, <4>2
    <3> QED
      BY <1>1, <3>1, <3>4, <3>5, <3>6
  <2> QED
    BY <2>1, <2>2
<1>9. BlockList' = [i \in 1..n |-> [cell |-> c[i], size |-> uiSize'[c[i]]]]
  <2>1. n = uiActiveCellCount'
    BY <1>2
  <2> HIDE DEF c, n
  <2>2. NextWalk(c, n)
    BY <1>4, <1>8, <2>1 DEF NextWalk
  <2> QED
    BY <2>2, NextList DEF NextShown
<1>10. /\ BlockList \in Seq(Block) /\ Len(BlockList) = N
       /\ \A i \in 1..N : BlockList[i] = [cell |-> b[i], size |-> uiSize[b[i]]]
  BY ListIs
<1>11. /\ r \in [1..n -> Block]
       /\ \A i \in 1..n : r[i] = IF i < k THEN BlockList[i] ELSE BlockList[i + 1]
  <2>1. k \in 1..Len(BlockList)
    BY <1>10
  <2> QED
    BY <1>10, <2>1, RemoveAtIs
<1>12. ASSUME NEW i \in 1..n PROVE r[i] = [cell |-> c[i], size |-> uiSize'[c[i]]]
  <2> DEFINE j == IF i < k THEN i ELSE i + 1
  <2>1. j \in 1..N /\ j # k
    BY <1>1, <1>3
  <2>2. c[i] = b[j] /\ r[i] = BlockList[j]
    BY <1>11
  <2>3. uiSize'[b[j]] = uiSize[b[j]]
    BY <1>1, <1>2, <2>1
  <2> HIDE DEF j, c, r
  <2> QED
    BY <1>10, <2>1, <2>2, <2>3
<1> HIDE DEF c, r, n
<1>13. r = [i \in 1..n |-> [cell |-> c[i], size |-> uiSize'[c[i]]]]
  <2>1. r = [i \in 1..n |-> r[i]]
    BY <1>11
  <2> QED
    BY <1>12, <2>1
<1> QED
  BY <1>9, <1>13 DEF r

\* a block that is moved keeps its place in the list
LEMMA ReplaceShown ==
  ASSUME IInv, IInv', NEW b, Ring(b), BlockList = Shown(b), uiActiveCellCount # 1,
         NEW k \in 1..uiActiveCellCount, NEW new \in Cells \ heap, NEW bytes \in Nat,
         Replace(b[k], new, bytes)
  PROVE  BlockList' = [BlockList EXCEPT ![k] = [cell |-> new, size |-> bytes]]
<1> DEFINE N == uiActiveCellCount
           c == [b EXCEPT ![k] = new]
           x == [cell |-> new, size |-> bytes]
<1>1. /\ N \in Nat /\ k \in Nat /\ k >= 1 /\ k =< N /\ N # 1
      /\ b \in [1..N -> Cells] /\ uiSize \in [Cells -> Nat] /\ spNext \in [Cells -> Cells \cup {NULL}]
      /\ \A i, j \in 1..N : b[i] = b[j] => i = j
      /\ \A i \in 1..N : b[i] \in heap /\ b[i] # new
  <2>1. N \in Nat /\ k \in 1..N /\ N # 1
    BY DEF IInv, TypeOK
  <2>2. b \in [1..N -> Cells] /\ uiSize \in [Cells -> Nat] /\ spNext \in [Cells -> Cells \cup {NULL}]
    BY DEF IInv, TypeOK, Ring, Walk
  <2>3. /\ \A i, j \in 1..N : b[i] = b[j] => i = j
        /\ \A i \in 1..N : b[i] \in heap
    BY DEF Ring
  <2> QED
    BY <2>1, <2>2, <2>3
<1>2. Relinked(b[k], new)[b[k]] = spPrev[b[k]] /\ spPrev[b[k]] \in heap \ {b[k]}
  BY <1>1, ReplaceInHeap, CountTwo
<1>3. /\ uiActiveCellCount' = N
      /\ spActiveList' = IF spActiveList = b[k] THEN new ELSE spActiveList
      /\ spNext' = [spNext EXCEPT ![new] = spNext[b[k]], ![spPrev[b[k]]] = new, ![b[k]] = NULL]
      /\ uiSize' = [uiSize EXCEPT ![new] = bytes, ![b[k]] = 0]
  BY <1>2 DEF Replace, ReplaceHead
<1>4. c \in [1..N -> Cells] /\ c[k] = new /\ \A i \in 1..N : i # k => c[i] = b[i]
  BY <1>1
<1>5. spNext'[new] = spNext[b[k]]
  <2>1. new # spPrev[b[k]] /\ new # b[k]
    BY <1>1, <1>2
  <2> QED
    BY <1>1, <1>3, <2>1
<1>6. ASSUME k # 1 PROVE spNext'[b[k - 1]] = new /\ k - 1 \in 1..N
  <2>1. spPrev[b[k]] = b[k - 1] /\ k - 1 \in 1..N
    BY <1>6, Neighbours
  <2> QED
    BY <1>1, <1>2, <1>3, <2>1
<1>7. ASSUME NEW j \in 1..N, j # k, j # N, j # k - 1 PROVE spNext'[b[j]] = b[j + 1]
  <2>0. spNext[b[j]] = b[j + 1]
    BY <1>7, Neighbours
  <2>1. spNext[b[j]] = b[j + 1] /\ b[j] \in Cells /\ b[j] # b[k] /\ b[j] # new
    BY <1>1, <1>7, <2>0
  <2>2. b[j] # spPrev[b[k]]
    <3>1. CASE k = 1
      <4>1. spPrev[b[k]] = b[N]
        BY <3>1, Neighbours
      <4>2. N \in 1..N
        BY <1>1
      <4> QED
        BY <1>1, <1>7, <4>1, <4>2
    <3>2. CASE k # 1
      <4>1. spPrev[b[k]] = b[k - 1] /\ k - 1 \in 1..N
        BY <3>2, Neighbours
      <4> QED
        BY <1>1, <1>7, <4>1
    <3> QED
      BY <3>1, <3>2
  <2> QED
    BY <1>1, <1>3, <2>1, <2>2
<1>8. \A i \in 1..N : c[i] = IF i = 1 THEN spActiveList' ELSE spNext'[c[i - 1]]
  <2> SUFFICES ASSUME NEW i \in 1..N
               PROVE  c[i] = IF i = 1 THEN spActiveList' ELSE spNext'[c[i - 1]]
    OBVIOUS
  <2> HIDE DEF c
  <2>1. CASE i = 1
    <3>1. spActiveList = b[1] /\ 1 \in 1..N
      BY <2>1, Neighbours
    <3>2. CASE k = 1
      BY <1>3, <1>4, <2>1, <3>1, <3>2
    <3>3. CASE k # 1
      BY <1>1, <1>3, <1>4, <2>1, <3>1, <3>3
    <3> QED
      BY <3>2, <3>3
  <2>2. CASE i # 1 /\ i = k
    <3>1. i - 1 \in 1..N /\ i - 1 # k
      BY <1>1, <2>2
    <3> QED
      BY <1>4, <1>6, <2>2, <3>1
  <2>3. CASE i # 1 /\ i # k /\ i - 1 = k
    <3>1. k # N /\ k + 1 = i
      BY <1>1, <2>3
    <3>2. spNext[b[k]] = b[i]
      BY <3>1, Neighbours
    <3> QED
      BY <1>4, <1>5, <2>3, <3>2
  <2>4. CASE i # 1 /\ i # k /\ i - 1 # k
    <3>1. i - 1 \in 1..N /\ i - 1 # N /\ i - 1 # k - 1 /\ (i - 1) + 1 = i
      BY <1>1, <2>4
    <3>2. spNext'[b[i - 1]] = b[i]
      BY <1>7, <2>4, <3>1
    <3> QED
      BY <1>4, <2>4, <3>1, <3>2
  <2> QED
    BY <2>1, <2>2, <2>3, <2>4
<1>9. BlockList' = [i \in 1..N |-> [cell |-> c[i], size |-> uiSize'[c[i]]]]
  <2>1. N = uiActiveCellCount' /\ c \in [1..N -> Cells]
    BY <1>3, <1>4
  <2> HIDE DEF c, N
  <2>2. NextWalk(c, N)
    BY <1>8, <2>1 DEF NextWalk
  <2> QED
    BY <2>2, NextList DEF NextShown
<1>10. /\ BlockList \in Seq(Block) /\ DOMAIN BlockList = 1..N
       /\ \A i \in 1..N : BlockList[i] = [cell |-> b[i], size |-> uiSize[b[i]]]
  BY ListIs
<1>11. ASSUME NEW i \in 1..N
       PROVE  [cell |-> c[i], size |-> uiSize'[c[i]]] = IF i = k THEN x ELSE BlockList[i]
  <2>1. CASE i = k
    <3>1. uiSize'[new] = bytes
      BY <1>1, <1>3
    <3> QED
      BY <1>4, <2>1, <3>1
  <2>2. CASE i # k
    <3>1. b[i] # new /\ b[i] # b[k] /\ b[i] \in Cells
      BY <1>1, <2>2
    <3>2. uiSize'[b[i]] = uiSize[b[i]]
      BY <1>1, <1>3, <3>1
    <3> QED
      BY <1>4, <1>10, <2>2, <3>2
  <2> QED
    BY <2>1, <2>2
<1> HIDE DEF c, x, N
<1>12. [BlockList EXCEPT ![k] = x] = [i \in 1..N |-> IF i = k THEN x ELSE BlockList[i]]
  <2>1. BlockList = [i \in 1..N |-> BlockList[i]]
    BY <1>10
  <2> QED
    BY <1>10
<1> QED
  BY <1>9, <1>11, <1>12 DEF x

LEMMA HeldIs ==
  ASSUME IInv
  PROVE  Api!Held = heap /\ (BlockList = << >> <=> heap = {})
<1>1. PICK b : Ring(b) /\ BlockList = Shown(b)
  BY TheRing
<1> QED
  BY <1>1, ListIs

\* where a block in use is in the list
LEMMA PlaceOf ==
  ASSUME IInv, NEW cell \in heap
  PROVE  \E b : /\ Ring(b) /\ BlockList = Shown(b)
                /\ DOMAIN BlockList = 1..uiActiveCellCount
                /\ \E k \in 1..uiActiveCellCount :
                     b[k] = cell /\ BlockList[k] = [cell |-> cell, size |-> uiSize[cell]]
<1>1. PICK b : Ring(b) /\ BlockList = Shown(b)
  BY TheRing
<1>2. PICK k \in 1..uiActiveCellCount : b[k] = cell
  BY <1>1 DEF Ring
<1>3. DOMAIN BlockList = 1..uiActiveCellCount /\ BlockList[k] = [cell |-> cell, size |-> uiSize[cell]]
  BY <1>1, <1>2, ListIs
<1> QED
  BY <1>1, <1>2, <1>3

LEMMA AllocShown ==
  ASSUME MemoryAssumption, IInv, IInv', NEW bytes \in Sizes, MemAlloc(bytes)
  PROVE  Api!Alloc(bytes)
<1>1. CASE answer' = Threw("alloc", NULL, bytes) /\ UNCHANGED list
  <2>1. UNCHANGED BlockList
    BY <1>1, ListKept
  <2>2. Api!Done("alloc", NULL, bytes, TRUE, NULL)
    BY <1>1, AnswerIs
  <2> QED
    BY <2>1, <2>2 DEF Api!Alloc, Api!Refuses
<1>2. ASSUME NEW cell \in Cells \ heap,
             Accessing(PushTouches, heap \cup {cell},
               /\ Push(cell)
               /\ uiSize' = [uiSize EXCEPT ![cell] = bytes]
               /\ heap' = heap \cup {cell}
               /\ answer' = Answer("alloc", NULL, bytes, cell, 0))
      PROVE  Api!Alloc(bytes)
  <2>1. /\ Push(cell)
        /\ uiSize' = [uiSize EXCEPT ![cell] = bytes]
        /\ answer' = Answer("alloc", NULL, bytes, cell, 0)
    BY <1>2, PushInHeap DEF Accessing
  <2>2. bytes \in Nat
    BY DEF MemoryAssumption
  <2>3. BlockList' = Append(BlockList, [cell |-> cell, size |-> bytes])
    BY <2>1, <2>2, PushShown
  <2>4. Api!Done("alloc", NULL, bytes, FALSE, cell)
    BY <2>1, AnswerIs
  <2>5. cell \in Cells \ Api!Held
    BY HeldIs
  <2> QED
    BY <2>3, <2>4, <2>5 DEF Api!Alloc, Api!Block
<1> QED
  BY <1>1, <1>2 DEF MemAlloc

LEMMA FreeShown ==
  ASSUME IInv, IInv', NEW cell \in Cells \cup {NULL}, MemFree(cell)
  PROVE  Api!Free(cell)
<1>1. CASE cell = NULL /\ answer' = Answer("free", NULL, 0, NULL, 0) /\ UNCHANGED list
  <2>1. UNCHANGED BlockList
    BY <1>1, ListKept
  <2>2. Api!Done("free", cell, 0, FALSE, NULL)
    BY <1>1, AnswerIs
  <2> QED
    BY <1>1, <2>1, <2>2 DEF Api!Free
<1>2. CASE Found(cell) /\ Accessing(SearchTouches(cell) \cup PopTouches(cell), heap,
                                    Pop(cell) /\ answer' = Answer("free", cell, 0, NULL, 0))
  <2>1. cell \in heap /\ SearchTouches(cell) \cup PopTouches(cell) \subseteq heap
    BY <1>2, SearchInHeap, PopInHeap
  <2>2. Pop(cell) /\ answer' = Answer("free", cell, 0, NULL, 0)
    BY <1>2, <2>1 DEF Accessing
  <2>3. PICK b : /\ Ring(b) /\ BlockList = Shown(b)
                 /\ DOMAIN BlockList = 1..uiActiveCellCount
                 /\ \E k \in 1..uiActiveCellCount :
                      b[k] = cell /\ BlockList[k] = [cell |-> cell, size |-> uiSize[cell]]
    BY <2>1, PlaceOf
  <2>4. PICK k \in 1..uiActiveCellCount :
               b[k] = cell /\ BlockList[k] = [cell |-> cell, size |-> uiSize[cell]]
    BY <2>3
  <2>5. BlockList' = Api!RemoveAt(BlockList, k)
    BY <2>2, <2>3, <2>4, PopShown
  <2>6. Api!Done("free", cell, 0, FALSE, NULL)
    BY <2>2, AnswerIs
  <2>7. k \in DOMAIN BlockList /\ BlockList[k].cell = cell
    BY <2>3, <2>4
  <2> QED
    BY <2>5, <2>6, <2>7 DEF Api!Free
<1>3. CASE /\ cell # NULL
           /\ ~Found(cell)
           /\ Accessing(SearchTouches(cell), heap, answer' = Threw("free", cell, 0) /\ UNCHANGED list)
  <2>1. answer' = Threw("free", cell, 0) /\ UNCHANGED list
    BY <1>3, SearchInHeap DEF Accessing
  <2>2. UNCHANGED BlockList
    BY <2>1, ListKept
  <2>3. Api!Done("free", cell, 0, TRUE, NULL)
    BY <2>1, AnswerIs
  <2>4. cell \notin Api!Held \cup {NULL}
    BY <1>3, FoundIs, HeldIs
  <2> QED
    BY <2>2, <2>3, <2>4 DEF Api!Free, Api!Refuses
<1> QED
  BY <1>1, <1>2, <1>3 DEF MemFree

LEMMA ReallocShown ==
  ASSUME MemoryAssumption, ~SoleRealloc, IInv, IInv',
         NEW cell \in Cells \cup {NULL}, NEW bytes \in Sizes, MemRealloc(cell, bytes)
  PROVE  Api!Realloc(cell, bytes)
<1>1. NULL \notin heap /\ bytes \in Nat
  BY DEF MemoryAssumption, IInv, TypeOK
<1>2. CASE ReallocRefused(cell, bytes)
  <2>1. answer' = Threw("realloc", cell, bytes) /\ UNCHANGED list
    BY <1>2, SearchInHeap DEF ReallocRefused, Accessing
  <2>2. UNCHANGED BlockList
    BY <2>1, ListKept
  <2>3. Api!Done("realloc", cell, bytes, TRUE, NULL)
    BY <2>1, AnswerIs
  <2>4. cell \notin Api!Held \/ bytes = 0
    BY <1>1, <1>2, FoundIs, HeldIs DEF ReallocRefused
  <2> QED
    BY <2>2, <2>3, <2>4 DEF Api!Realloc, Api!Refuses
<1>3. ASSUME Found(cell), bytes # 0,
             \/ ReallocSame(cell, bytes)
             \/ ReallocMoves(cell, bytes)
      PROVE  Api!Realloc(cell, bytes)
  <2>1. cell \in heap /\ cell \in Api!Held /\ SearchTouches(cell) \subseteq heap
    BY <1>3, SearchInHeap, HeldIs
  <2>2. PICK b : /\ Ring(b) /\ BlockList = Shown(b)
                 /\ DOMAIN BlockList = 1..uiActiveCellCount
                 /\ \E k \in 1..uiActiveCellCount :
                      b[k] = cell /\ BlockList[k] = [cell |-> cell, size |-> uiSize[cell]]
    BY <2>1, PlaceOf
  <2>3. PICK k \in 1..uiActiveCellCount :
               b[k] = cell /\ BlockList[k] = [cell |-> cell, size |-> uiSize[cell]]
    BY <2>2
  <2>4. k \in DOMAIN BlockList /\ BlockList[k].cell = cell /\ BlockList[k].size = uiSize[cell]
    BY <2>2, <2>3
  <2>5. SUFFICES Api!Resize(k, bytes)
    BY <1>3, <2>1, <2>4 DEF Api!Realloc
  <2>6. CASE ReallocSame(cell, bytes)
    <3>1. answer' = Answer("realloc", cell, bytes, cell, 0) /\ UNCHANGED list /\ uiSize[cell] = bytes
      BY <2>1, <2>6 DEF ReallocSame, Accessing
    <3>2. UNCHANGED BlockList
      BY <3>1, ListKept
    <3>3. Api!Done("realloc", cell, bytes, FALSE, cell)
      BY <3>1, AnswerIs
    <3> QED
      BY <2>4, <3>1, <3>2, <3>3 DEF Api!Resize
  <2>7. CASE ReallocMoves(cell, bytes)
    <3>1. uiSize[cell] # bytes /\ uiActiveCellCount # 1
      BY <2>7 DEF ReallocMoves, IInv, TypeOK
    <3>2. CASE answer' = Threw("realloc", cell, bytes) /\ UNCHANGED list
      <4>1. UNCHANGED BlockList
        BY <3>2, ListKept
      <4>2. Api!Done("realloc", cell, bytes, TRUE, NULL)
        BY <3>2, AnswerIs
      <4> QED
        BY <2>4, <3>1, <4>1, <4>2 DEF Api!Resize, Api!Refuses
    <3>3. ASSUME NEW new \in Cells \ heap,
                 Accessing(SearchTouches(cell) \cup ReplaceTouches(cell, new), heap \cup {new},
                   Replace(cell, new, bytes) /\ answer' = Answer("realloc", cell, bytes, new, 0))
          PROVE  Api!Resize(k, bytes)
      <4>1. SearchTouches(cell) \cup ReplaceTouches(cell, new) \subseteq heap \cup {new}
        BY <2>1, <3>1, ReplaceInHeap
      <4>2. Replace(cell, new, bytes) /\ answer' = Answer("realloc", cell, bytes, new, 0)
        BY <3>3, <4>1 DEF Accessing
      <4>3. BlockList' = [BlockList EXCEPT ![k] = [cell |-> new, size |-> bytes]]
        BY <1>1, <2>2, <2>3, <3>1, <4>2, ReplaceShown
      <4>4. Api!Done("realloc", cell, bytes, FALSE, new)
        BY <4>2, AnswerIs
      <4>5. new \in Cells \ Api!Held
        BY HeldIs
      <4> QED
        BY <2>4, <3>1, <4>3, <4>4, <4>5 DEF Api!Resize, Api!Block
    <3> QED
      BY <2>7, <3>2, <3>3 DEF ReallocMoves
  <2> QED
    BY <1>3, <2>6, <2>7
<1> QED
  BY <1>2, <1>3 DEF MemRealloc, ReallocSame, ReallocMoves

\* uiSeq counts the blocks in front of a block at least
LEMMA SeqAtLeast ==
  ASSUME IInv, NEW b, Ring(b), NEW k \in 1..uiActiveCellCount
  PROVE  uiSeq[b[k]] >= k - 1
<1> DEFINE N == uiActiveCellCount
           Short == {j \in 1..N : uiSeq[b[j]] < j - 1}
<1>1. /\ N \in Nat /\ uiSeq \in [Cells -> Nat]
      /\ \A i, j \in 1..N : b[i] = b[j] => i = j
      /\ \A i \in 1..N : b[i] \in Cells
  <2>1. N \in Nat /\ uiSeq \in [Cells -> Nat]
    BY DEF IInv, TypeOK
  <2> QED
    BY <2>1 DEF Ring, Walk
<1>2. \A i \in 1..N : uiSeq[b[i]] \in Nat
  BY <1>1
<1>3. SUFFICES ASSUME Short # {} PROVE FALSE
  BY <1>2
<1>4. Short \in SUBSET Nat
  BY <1>1
<1>5. PICK j \in Short : \A i \in Short : j =< i
  <2> HIDE DEF Short
  <2> QED
    BY <1>3, <1>4, Least
<1>6. j \in 1..N /\ uiSeq[b[j]] < j - 1 /\ j \in Nat
  BY <1>4, <1>5
<1>7. j # 1
  BY <1>2, <1>6
<1>8. j - 1 \in 1..N /\ spPrev[b[j]] = b[j - 1] /\ b[j] \in heap
  BY <1>6, <1>7, Neighbours
<1>9. b[j] # spActiveList
  <2>1. 1 \in 1..N /\ b[1] = spActiveList
    BY <1>1, <1>6, Neighbours
  <2> QED
    BY <1>1, <1>6, <1>7, <2>1
<1>10. uiSeq[b[j - 1]] < uiSeq[b[j]]
  BY <1>8, <1>9 DEF IInv, RingOfBlocks, Ordered
<1>11. ~(j =< j - 1)
  BY <1>6
<1>12. j - 1 \notin Short
  BY <1>5, <1>11
<1>13. ~(uiSeq[b[j - 1]] < (j - 1) - 1)
  BY <1>8, <1>12
<1>14. uiSeq[b[j]] \in Nat /\ uiSeq[b[j - 1]] \in Nat
  BY <1>2, <1>6, <1>8
<1> QED
  BY <1>6, <1>10, <1>13, <1>14

LEMMA CountShown ==
  ASSUME MemoryAssumption, IInv, MemCount
  PROVE  Api!Count
<1>1. PICK b : Ring(b) /\ BlockList = Shown(b)
  BY TheRing
<1>2. Len(BlockList) = uiActiveCellCount /\ uiActiveCellCount \in Nat
  BY <1>1, ListIs DEF IInv, TypeOK
<1>3. CASE spActiveList = NULL /\ answer' = Answer("count", NULL, 0, NULL, 0) /\ UNCHANGED list
  <2>1. UNCHANGED BlockList
    BY <1>3, ListKept
  <2>2. heap = {}
    BY <1>3 DEF MemoryAssumption, IInv, TypeOK, RingOfBlocks, Headed
  <2>3. BlockList = << >> /\ uiActiveCellCount = 0
    BY <2>2, HeldIs, CountZero
  <2>4. answer' \in [call: {"count"}, arg: {NULL}, bytes: {0}, threw: {FALSE}, cell: {NULL}, count: Nat]
        /\ answer'.count = 0
    BY <1>3 DEF Answer
  <2>5. answer'.count >= Len(BlockList) /\ (answer'.count = 0 <=> BlockList = << >>)
    BY <1>2, <2>3, <2>4
  <2> QED
    BY <2>1, <2>4, <2>5 DEF Api!Count
<1>4. CASE /\ spActiveList # NULL
           /\ Accessing({spActiveList, spPrev[spActiveList]}, heap,
                /\ answer' = Answer("count", NULL, 0, NULL, uiSeq[spPrev[spActiveList]] + 1)
                /\ UNCHANGED list)
  <2>1. spActiveList \in heap /\ spPrev[spActiveList] \in heap
    BY <1>4 DEF IInv, RingOfBlocks, Headed, Linked
  <2>2. /\ answer' = Answer("count", NULL, 0, NULL, uiSeq[spPrev[spActiveList]] + 1)
        /\ UNCHANGED list
    BY <1>4, <2>1 DEF Accessing
  <2>3. UNCHANGED BlockList
    BY <2>2, ListKept
  <2>4. uiActiveCellCount # 0 /\ BlockList # << >>
    BY <2>1, HeldIs, CountZero
  <2>5. uiActiveCellCount \in 1..uiActiveCellCount /\ b[uiActiveCellCount] = spPrev[spActiveList]
    BY <1>1, <1>2, <2>4 DEF Ring
  <2>6. uiSeq[spPrev[spActiveList]] >= uiActiveCellCount - 1
    BY <1>1, <2>5, SeqAtLeast
  <2>7. uiSeq[spPrev[spActiveList]] \in Nat
    BY <2>1 DEF IInv, TypeOK
  <2>8. PICK n : n = uiSeq[spPrev[spActiveList]] + 1
    OBVIOUS
  <2>9. n \in Nat /\ n >= uiActiveCellCount /\ n # 0
    BY <1>2, <2>6, <2>7, <2>8
  <2>10. answer' \in [call: {"count"}, arg: {NULL}, bytes: {0}, threw: {FALSE}, cell: {NULL}, count: Nat]
         /\ answer'.count = n
    BY <2>2, <2>8, <2>9 DEF Answer
  <2> QED
    BY <1>2, <2>3, <2>4, <2>9, <2>10 DEF Api!Count
<1> QED
  BY <1>3, <1>4 DEF MemCount

LEMMA ClearNextShown ==
  ASSUME IInv, IInv', ClearNext
  PROVE  Api!ReleaseNewest
<1>1. spActiveList \in heap /\ LastCell \in heap
  BY DEF ClearNext, LastCell, IInv, RingOfBlocks, Headed, Linked
<1>2. Pop(LastCell) /\ UNCHANGED answer
  BY <1>1, PopInHeap DEF ClearNext, Accessing
<1>3. PICK b : Ring(b) /\ BlockList = Shown(b)
  BY TheRing
<1>4. BlockList # << >> /\ uiActiveCellCount # 0
  BY <1>1, HeldIs, CountZero
<1>5. uiActiveCellCount \in 1..uiActiveCellCount /\ b[uiActiveCellCount] = LastCell
  BY <1>3, <1>4 DEF Ring, LastCell, IInv, TypeOK
<1>6. BlockList' = Api!RemoveAt(BlockList, uiActiveCellCount)
  BY <1>2, <1>3, <1>5, PopShown
<1>7. BlockList \in Seq(Block) /\ Len(BlockList) = uiActiveCellCount
  BY <1>3, ListIs
<1>8. Api!Front(BlockList) = Api!RemoveAt(BlockList, uiActiveCellCount)
  BY <1>4, <1>7, FrontIs
<1> QED
  BY <1>2, <1>4, <1>6, <1>8 DEF Api!ReleaseNewest

-----------------------------------------------------------------------------
(* The refinement.                                                         *)

\* the list is empty before the component is constructed, and after it is destroyed
NoneIsEmpty == pc = "none" => heap = {}

LEMMA NoneInv ==
  ASSUME MemoryAssumption, IInv, NoneIsEmpty, [Next]_vars
  PROVE  NoneIsEmpty'
<1>1. CASE MemCtor
  BY <1>1 DEF MemCtor, NoneIsEmpty, list
<1>2. CASE MemCount
  BY <1>2 DEF MemCount, Ready, NoneIsEmpty
<1>3. CASE MemClear
  BY <1>3 DEF MemClear, NoneIsEmpty
<1>4. CASE ClearNext
  BY <1>4 DEF ClearNext, NoneIsEmpty
<1>5. CASE ClearEnd
  BY <1>5 DEF ClearEnd, NoneIsEmpty, list, MemoryAssumption, IInv, TypeOK, RingOfBlocks, Headed
<1>6. ASSUME NEW bytes \in Sizes, MemAlloc(bytes) PROVE NoneIsEmpty'
  BY <1>6 DEF MemAlloc, Ready, NoneIsEmpty
<1>7. ASSUME NEW cell \in Cells \cup {NULL}, MemFree(cell) PROVE NoneIsEmpty'
  BY <1>7 DEF MemFree, Ready, NoneIsEmpty
<1>8. ASSUME NEW cell \in Cells \cup {NULL}, NEW bytes \in Sizes, MemRealloc(cell, bytes)
      PROVE  NoneIsEmpty'
  BY <1>8 DEF MemRealloc, Ready, NoneIsEmpty
<1>9. CASE UNCHANGED vars
  BY <1>9 DEF vars, list, NoneIsEmpty
<1> QED
  BY <1>1, <1>2, <1>3, <1>4, <1>5, <1>6, <1>7, <1>8, <1>9 DEF Next

LEMMA InitShown ==
  ASSUME MemoryAssumption, Init
  PROVE  Api!Init
<1>1. IInv /\ heap = {}
  BY InitInv DEF Init
<1>2. BlockList = << >>
  BY <1>1, HeldIs
<1> QED
  BY <1>2 DEF Init, Answer, Api!Init

LEMMA StepShown ==
  ASSUME MemoryAssumption, ~SoleRealloc, IInv, IInv', NoneIsEmpty, [Next]_vars
  PROVE  [Api!Next]_(Api!vars)
<1>1. CASE MemCtor
  <2>1. UNCHANGED BlockList /\ BlockList = << >>
    BY <1>1, ListKept, HeldIs DEF MemCtor, NoneIsEmpty
  <2>2. \E threw \in BOOLEAN : Api!Done("ctor", NULL, 0, threw, NULL)
    BY <1>1, AnswerIs DEF MemCtor
  <2> QED
    BY <2>1, <2>2 DEF Api!Construct, Api!Next
<1>2. CASE MemClear \/ ClearEnd \/ UNCHANGED vars
  <2>1. UNCHANGED list /\ UNCHANGED answer
    BY <1>2 DEF MemClear, ClearEnd, vars
  <2>2. UNCHANGED BlockList
    BY <2>1, ListKept
  <2> QED
    BY <2>1, <2>2 DEF Api!vars
<1>3. CASE MemCount
  BY <1>3, CountShown DEF Api!Next
<1>4. CASE ClearNext
  BY <1>4, ClearNextShown DEF Api!Next
<1>5. CASE \E bytes \in Sizes : MemAlloc(bytes)
  BY <1>5, AllocShown DEF Api!Next
<1>6. CASE \E cell \in Cells \cup {NULL} : MemFree(cell)
  BY <1>6, FreeShown DEF Api!Next
<1>7. CASE \E cell \in Cells \cup {NULL}, bytes \in Sizes : MemRealloc(cell, bytes)
  BY <1>7, ReallocShown DEF Api!Next
<1> QED
  BY <1>1, <1>2, <1>3, <1>4, <1>5, <1>6, <1>7 DEF Next

(***************************************************************************)
(* Every call of memory.c, and every turn of the loop in vMemClear and     *)
(* vMemDtor, does to the linked list what the doc comments promise of the  *)
(* list of blocks: a block is found until it is freed, a resized block     *)
(* keeps its place, a call that throws changes nothing, and clearing frees *)
(* the newest block first. Only a sole block must not be resized.          *)
(***************************************************************************)
THEOREM ListImplementsApi == ASSUME ~SoleRealloc PROVE Spec => MemoryImplementsApi
<1>1. Spec => []IInv
  BY Invariance
<1>2. Init => Api!Init /\ NoneIsEmpty
  BY InitShown, MemoryAssumption DEF Init, NoneIsEmpty
<1>3. IInv /\ NoneIsEmpty /\ [Next]_vars => NoneIsEmpty'
  BY NoneInv, MemoryAssumption
<1>4. IInv /\ IInv' /\ NoneIsEmpty /\ [Next]_vars => [Api!Next]_(Api!vars)
  BY StepShown, MemoryAssumption
<1> QED
  BY <1>1, <1>2, <1>3, <1>4, PTL DEF Spec, MemoryImplementsApi, Api!Spec
=============================================================================
