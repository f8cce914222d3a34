------------------------------ MODULE MemoryApi ------------------------------
(***************************************************************************)
(* What the memory component promises (library/memory.c, doc comments of   *)
(* the public functions): a list of blocks in the order they were          *)
(* allocated. A block is found until it is freed, however the others come  *)
(* and go; a pointer to no block is refused; a resized block keeps its     *)
(* place; a call that throws changes nothing; clearing frees the newest    *)
(* blocks first.                                                           *)
(***************************************************************************)
EXTENDS Naturals, Sequences, SequencesExt

CONSTANTS Cells, NULL, Sizes

VARIABLES blocks,   \* a sequence of records [cell, size]
          answer

vars == <<blocks, answer>>

Held == {blocks[i].cell : i \in DOMAIN blocks}
Block(cell, bytes) == [cell |-> cell, size |-> bytes]

\* the call just made, with its arguments, and its outcome
Done(call, arg, bytes, threw, cell) ==
  answer' = [call |-> call, arg |-> arg, bytes |-> bytes, threw |-> threw, cell |-> cell, count |-> 0]

Refuses(call, arg, bytes) == Done(call, arg, bytes, TRUE, NULL) /\ UNCHANGED blocks

Init ==
  /\ blocks = << >>
  /\ answer = [call |-> "none", arg |-> NULL, bytes |-> 0, threw |-> FALSE, cell |-> NULL, count |-> 0]

Construct ==
  /\ blocks = << >> /\ UNCHANGED blocks
  /\ \E threw \in BOOLEAN : Done("ctor", NULL, 0, threw, NULL)

Alloc(bytes) ==
  \/ Refuses("alloc", NULL, bytes)
  \/ \E cell \in Cells \ Held : /\ blocks' = Append(blocks, Block(cell, bytes))
                                /\ Done("alloc", NULL, bytes, FALSE, cell)

Free(cell) ==
  \/ cell = NULL /\ UNCHANGED blocks /\ Done("free", cell, 0, FALSE, NULL)
  \/ cell \notin Held \cup {NULL} /\ Refuses("free", cell, 0)
  \/ \E i \in DOMAIN blocks : /\ blocks[i].cell = cell
                              /\ blocks' = RemoveAt(blocks, i)
                              /\ Done("free", cell, 0, FALSE, NULL)

Resize(i, bytes) ==
  LET cell == blocks[i].cell IN
  IF blocks[i].size = bytes THEN UNCHANGED blocks /\ Done("realloc", cell, bytes, FALSE, cell)
  ELSE \/ Refuses("realloc", cell, bytes)
       \/ \E new \in Cells \ Held : /\ blocks' = [blocks EXCEPT ![i] = Block(new, bytes)]
                                    /\ Done("realloc", cell, bytes, FALSE, new)

Realloc(cell, bytes) ==
  IF cell \notin Held \/ bytes = 0 THEN Refuses("realloc", cell, bytes)
  ELSE \E i \in DOMAIN blocks : blocks[i].cell = cell /\ Resize(i, bytes)

Count ==
  /\ UNCHANGED blocks
  /\ answer' \in [call: {"count"}, arg: {NULL}, bytes: {0}, threw: {FALSE}, cell: {NULL}, count: Nat]
  /\ answer'.count >= Len(blocks)
  /\ answer'.count = 0 <=> blocks = << >>

\* one step of vMemClear or vMemDtor
ReleaseNewest == blocks # << >> /\ blocks' = Front(blocks) /\ UNCHANGED answer

Next ==
  \/ Construct \/ Count \/ ReleaseNewest
  \/ \E bytes \in Sizes : Alloc(bytes)
  \/ \E cell \in Cells \cup {NULL} : Free(cell)
  \/ \E cell \in Cells \cup {NULL}, bytes \in Sizes : Realloc(cell, bytes)

Spec == Init /\ [][Next]_vars
=============================================================================
