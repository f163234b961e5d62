----------------------------- MODULE MCListQueue -----------------------------
(* Instances of ListQueue for TLC. *)
EXTENDS ListQueue, TLC

CONSTANTS p1, p2, c1, c2

TwoProducers == {p1, p2}
TwoConsumers == {c1, c2}

\* Producers race for the tail, or consumers for the head; or there is one of each.
Pairs        == {{p, c} : p \in TwoProducers, c \in TwoConsumers}
Races        == {TwoProducers \cup {c} : c \in TwoConsumers}
                \cup {TwoConsumers \cup {p} : p \in TwoProducers}
ManyPush     == {{p1, p2, c1}}

Heap         == 1 .. 6
LargeHeap    == 1 .. 7

\* The threads of a kind are alike.
Alike        == Permutations(TwoProducers) \cup Permutations(TwoConsumers)
=============================================================================
