------------------------------ MODULE VectorApi ------------------------------
(***************************************************************************)
(* What the vector promises (library/vector.c, doc comments of the public  *)
(* functions): a stack of elements that grows as needed. The elements keep *)
(* their places and values however often the buffer is moved, every call   *)
(* returns the position the documentation names, and a call that throws    *)
(* changes nothing.                                                        *)
(***************************************************************************)
EXTENDS Naturals, Sequences

CONSTANTS Values, Junk, MaxUsed, MaxCount

VARIABLES elements,   \* from the bottom of the stack to its top
          call, threw,
          position    \* that the last call returned, from 1; 0 for NULL

vars == <<elements, call, threw, position>>

Outcome(c, t, p) == call' = c /\ threw' = t /\ position' = p

Init == elements = << >> /\ call = "none" /\ threw = FALSE /\ position = 0

Ctor == elements = << >> /\ UNCHANGED elements /\ \E t \in BOOLEAN : Outcome("ctor", t, 0)
Dtor == elements' = << >> /\ Outcome("dtor", FALSE, 0)

Push(new) == /\ new # << >>
             /\ elements' = elements \o new
             /\ Outcome("push", FALSE, Len(elements) + 1)

PushThrows == UNCHANGED elements /\ Outcome("push", TRUE, 0)

\* all elements from position p on are popped
PopTo(p) == /\ elements' = SubSeq(elements, 1, p - 1)
            /\ Outcome("pop", FALSE, p)

PopsNothing == UNCHANGED elements /\ Outcome("pop", FALSE, 0)

Clear == elements' = << >> /\ Outcome("clear", FALSE, 0)

Look == /\ UNCHANGED elements
        /\ \E p \in {0} \cup DOMAIN elements : Outcome("get", FALSE, p)

Store(value) == /\ position \in DOMAIN elements
                /\ elements' = [elements EXCEPT ![position] = value]
                /\ UNCHANGED <<call, threw, position>>

Next ==
  \/ Ctor \/ Dtor \/ PushThrows \/ PopsNothing \/ Clear \/ Look
  \/ \E n \in 1..MaxCount : \E new \in [1..n -> Values \cup {Junk}] : Push(new)
  \/ \E p \in DOMAIN elements : PopTo(p)
  \/ \E value \in Values : Store(value)

Spec == Init /\ [][Next]_vars
=============================================================================
