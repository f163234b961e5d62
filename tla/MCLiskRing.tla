----------------------------- MODULE MCLiskRing -----------------------------
(* Instances of LiskRing for TLC. *)
EXTENDS LiskRing, TLC

CONSTANTS p1, p2, c1, c2, o1, v1, v2

OneProducer  == {p1}
TwoProducers == {p1, p2}
OneConsumer  == {c1}
TwoConsumers == {c1, c2}
OneObserver  == {o1}
NoThread     == {}
OneValue     == {v1}
TwoValues    == {v1, v2}
=============================================================================
