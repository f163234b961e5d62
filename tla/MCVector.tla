------------------------------ MODULE MCVector ------------------------------
(* Instances of Vector for TLC. *)
EXTENDS Vector

Short == {<<"a">>, <<"b", "a">>}
=============================================================================
