------------------------------ MODULE Dictionary ------------------------------
(***************************************************************************)
(* What the ordered map, the hash table and the skip list of win_lisk      *)
(* promise: a key has at most one value, and stays as it is unless the     *)
(* call is about it.                                                       *)
(***************************************************************************)
CONSTANTS Keys, Values

VARIABLE content      \* a function from the keys that are present to their values

vars == <<content>>

Init == content = [k \in {} |-> CHOOSE v \in Values : TRUE]

insert(k, v) ==
  /\ k \notin DOMAIN content
  /\ content' = [x \in DOMAIN content \cup {k} |-> IF x = k THEN v ELSE content[x]]

update(k, v) ==
  /\ k \in DOMAIN content
  /\ content' = [content EXCEPT ![k] = v]

erase(k) ==
  /\ k \in DOMAIN content
  /\ content' = [x \in DOMAIN content \ {k} |-> content[x]]

clear == content' = [k \in {} |-> CHOOSE v \in Values : TRUE]

Next == \/ clear
        \/ \E k \in Keys : erase(k) \/ \E v \in Values : insert(k, v) \/ update(k, v)

Spec == Init /\ [][Next]_vars
=============================================================================
