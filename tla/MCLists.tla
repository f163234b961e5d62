------------------------------- MODULE MCLists -------------------------------
(***************************************************************************)
(* Two instances of ListQueue in one run: threads race on a queue whose    *)
(* allocations succeed, or one producer and one consumer share a queue     *)
(* with few nodes, whose allocations may fail.                             *)
(***************************************************************************)
EXTENDS MCListQueue

VARIABLE part

Short == INSTANCE ListQueue WITH
           MallocFails <- TRUE, Nodes <- Heap, Teams <- Pairs, MaxPush <- 3

Start == \/ part = "race" /\ Init
         \/ part = "short" /\ Short!Init

Step == /\ UNCHANGED part
        /\ \/ part = "race" /\ Next
           \/ part = "short" /\ Short!Next

Behaviour == Start /\ [][Step]_<<part, vars>>

\* Every node is in the list, spare, or held by one call, also when allocations fail, as long
\* as the ring of spare nodes gives every call a node or a slot of its own.
NodesAreOwned == IF part = "race" THEN NodesOwned ELSE Short!NodesOwned

\* num is off by the calls under way and by nothing else, also when allocations fail, on the
\* same condition.
NumFollows == IF part = "race" THEN NumAgrees ELSE Short!NumAgrees

\* Each step of the list is a push or a pop of a FIFO, or leaves it alone.
IsFifo == /\ part = "race" => Fifo!Init
          /\ [][part = "race" => [Fifo!Next]_(Fifo!vars)]_vars
=============================================================================
