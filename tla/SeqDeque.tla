------------------------------ MODULE SeqDeque ------------------------------
(***************************************************************************)
(* What lisk_deque promises: a sequence that grows and shrinks at both     *)
(* ends.  A push may also fail and change nothing.                         *)
(***************************************************************************)
EXTENDS Integers, Sequences

CONSTANTS Values, Nothing

VARIABLES s,    \* the elements
          out   \* what the last call popped

vars == <<s, out>>

Init == s = << >> /\ out = Nothing

PushFront(v) == s' = <<v>> \o s /\ out' = Nothing
PushBack(v)  == s' = Append(s, v) /\ out' = Nothing
PushFails    == s' = s /\ out' = Nothing

PopFront == s # << >> /\ out' = Head(s) /\ s' = Tail(s)
PopBack  == s # << >> /\ out' = s[Len(s)] /\ s' = SubSeq(s, 1, Len(s) - 1)
Destroy  == s' = << >> /\ out' = Nothing
PopFails == s = << >> /\ out' = Nothing /\ s' = s

Next == \/ \E v \in Values : PushFront(v) \/ PushBack(v)
        \/ PushFails \/ PopFront \/ PopBack \/ PopFails \/ Destroy

Spec == Init /\ [][Next]_vars
=============================================================================
