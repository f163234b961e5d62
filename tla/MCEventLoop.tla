----------------------------- MODULE MCEventLoop -----------------------------
(* Instances of EventLoop for TLC. *)
EXTENDS EventLoop, TLC

CONSTANTS e1, e2

\* Two events, each on a descriptor and with a timeout of its own, to read or to write.
Two      == {e1, e2}
OwnFd    == e1 :> 1 @@ e2 :> 2
EitherIO == e1 :> {{R}, {W}} @@ e2 :> {{R}, {W}}
OwnDelay == e1 :> {1} @@ e2 :> {2}
=============================================================================
