----------------------------- MODULE CountedRing -----------------------------
(***************************************************************************)
(* ring2 and ring3: the ring of LiskRing, which keeps the number of its    *)
(* elements in a word of its own.  A push or a pop changes size after it   *)
(* has moved its cursor; ring_size is a load of size.                      *)
(*                                                                         *)
(* ring2 counts with atomic operations.  ring3 has a push and a pop of its *)
(* own for RING_SP_SC, which change size by size++, a load and a store.    *)
(***************************************************************************)
EXTENDS LiskRing

VARIABLES size,
          todo,   \* what a thread has still to do to size before its call returns
          seen    \* the size that size++ of a thread has loaded

cvars == <<vars, size, todo, seen>>

CInit == /\ Init
         /\ size = 0
         /\ todo = [t \in Threads |-> "nothing"]
         /\ seen = [t \in Threads |-> 0]

\* ring_push and ring_pop up to the step that moves the cursor; then goes tells what is
\* still to do to size.
push_step(p, goes) ==
  /\ todo[p] = "nothing" /\ ring_push(p)
  /\ todo' = [todo EXCEPT ![p] = IF pc[p] = "push_publish" THEN goes ELSE @]
  /\ UNCHANGED <<size, seen>>

pop_step(c, goes) ==
  /\ todo[c] = "nothing" /\ ring_pop(c)
  /\ todo' = [todo EXCEPT ![c] = IF pc[c] = "pop_take" /\ pc'[c] = "idle" THEN goes ELSE @]
  /\ UNCHANGED <<size, seen>>

\* lisk_sync_add, lisk_sync_sub
count(t) ==
  /\ \/ todo[t] = "add" /\ size' = U4(size + 1)
     \/ todo[t] = "sub" /\ size' = U4(size - 1)
  /\ todo' = [todo EXCEPT ![t] = "nothing"]
  /\ UNCHANGED <<vars, seen>>

ring2_next == \/ \E p \in Producers : push_step(p, "add")
              \/ \E c \in Consumers : pop_step(c, "sub")
              \/ \E t \in Threads : count(t)

CSpec == CInit /\ [][ring2_next]_cvars

(***************************************************************************)
(* RING_SP_SC in ring3: size++ in sp_sc_ring_push and in sp_sc_ring_pop    *)
(***************************************************************************)
plain_load(t) ==
  /\ todo[t] = "load"
  /\ todo' = [todo EXCEPT ![t] = "store"]
  /\ seen' = [seen EXCEPT ![t] = size]
  /\ UNCHANGED <<vars, size>>

plain_store(t) ==
  /\ todo[t] = "store"
  /\ todo' = [todo EXCEPT ![t] = "nothing"]
  /\ size' = U4(seen[t] + 1)
  /\ seen' = [seen EXCEPT ![t] = 0]
  /\ UNCHANGED vars

ring3_next == \/ \E p \in Producers : push_step(p, "load")
              \/ \E c \in Consumers : pop_step(c, "load")
              \/ \E t \in Threads : plain_load(t) \/ plain_store(t)

Ring3Spec == type = RING_SP_SC /\ CInit /\ [][ring3_next]_cvars

(***************************************************************************)
(* Properties                                                              *)
(***************************************************************************)
\* The calls that have moved their cursor and not yet counted the element.
Adding      == {t \in Threads : todo[t] = "add"}
Subtracting == {t \in Threads : todo[t] = "sub"}

\* size follows the cursors: it differs from the number of elements by exactly what the
\* calls under way have still to count, also where a pop counts before the push it took from.
SizesAgree ==
  size = U4(Limit - read_pos - Cardinality(Adding) + Cardinality(Subtracting))

\* "element number of the @ring" (lisk_ring.h): when no call is under way, ring_size
\* returns the number of elements of the ring.
SizeIsElementNumber ==
  (\A t \in Threads : pc[t] = "idle" /\ todo[t] = "nothing") => size = Limit - read_pos
=============================================================================
