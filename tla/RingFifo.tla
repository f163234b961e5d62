------------------------------ MODULE RingFifo ------------------------------
(***************************************************************************)
(* What lisk_ring.h promises: "a FIFO(first coming, first output) queue"   *)
(* of bounded size.  push adds one element at the tail in one step, pop    *)
(* hands the head to exactly one consumer in one step.  The lock-free ring *)
(* of module LiskRing is shown to implement this specification.            *)
(***************************************************************************)
EXTENDS Naturals, Sequences

CONSTANTS Consumers,   \* the threads that call ring_pop
          Values,      \* the elements
          Capacity,    \* how many elements the ring holds at most
          Nothing      \* a pop that has not returned an element

VARIABLES q,     \* the elements in the ring, oldest first
          out    \* the element the last ring_pop of a consumer returned

vars == <<q, out>>

Init == /\ q = << >>
        /\ out = [c \in Consumers |-> Nothing]

Push(v) == /\ Len(q) < Capacity
           /\ q' = Append(q, v)
           /\ UNCHANGED out

\* The consumer calls ring_pop again: the previous result is gone.
Call(c) == /\ out' = [out EXCEPT ![c] = Nothing]
           /\ UNCHANGED q

Pop(c) == /\ q # << >>
          /\ out[c] = Nothing
          /\ q' = Tail(q)
          /\ out' = [out EXCEPT ![c] = Head(q)]

Next == \/ \E v \in Values : Push(v)
        \/ \E c \in Consumers : Call(c) \/ Pop(c)

Spec == Init /\ [][Next]_vars
=============================================================================
