---------------------------- MODULE BoundedQueue ----------------------------
(***************************************************************************)
(* lock_free_queue/bounded_queue.h: a circular buffer under a mutex, with  *)
(* one condition for those who wait for an element and one for those who   *)
(* wait for room, and the threads of bounded_queue.cc that use it.         *)
(*                                                                         *)
(* All of the queue is touched only under mutex_, so one action is one     *)
(* critical section: from taking the mutex to giving it back, or from      *)
(* waking up to waiting again.                                             *)
(***************************************************************************)
EXTENDS Integers, Sequences, FiniteSets

CONSTANTS Pushers, Poppers,
          capacity_,  \* slots of the buffer: maxSize of the constructor
          test_num,   \* a thread ends when test_num items were counted
          Junk        \* what lies in a slot that was never written

\* What is assumed of the constants. A buffer of one slot is always full: nothing is put.
BoundedAssumption ==
  /\ capacity_ \in Nat \ {0}
  /\ IsFiniteSet(Pushers) /\ IsFiniteSet(Poppers) /\ Pushers \cap Poppers = {}

VARIABLES
  buffer_, read_pos_, write_pos_,
  notEmpty_, notFull_,   \* the threads asleep in wait() of the two conditions
  pc,
  push_num, pop_num,
  out                    \* what a popper has taken and not yet counted

vars == <<buffer_, read_pos_, write_pos_, notEmpty_, notFull_, pc, push_num, pop_num, out>>
queue_ == <<buffer_, read_pos_, write_pos_>>

Threads == Pushers \cup Poppers

empty == read_pos_ = write_pos_
full  == (write_pos_ + 1) % capacity_ = read_pos_
size  == (write_pos_ + capacity_ - read_pos_) % capacity_

Init ==
  /\ buffer_ = [i \in 0 .. capacity_ - 1 |-> Junk] /\ read_pos_ = 0 /\ write_pos_ = 0
  /\ notEmpty_ = {} /\ notFull_ = {}
  /\ pc = [t \in Threads |-> IF t \in Pushers THEN "put" ELSE "take"]
  /\ push_num = 0 /\ pop_num = 0
  /\ out = [t \in Poppers |-> Junk]

\* notify() of a condition on which the threads of waiting sleep: one of them wakes up,
\* if there is one, to test again. t goes on to label l.
Notify(waiting, t, l) ==
  \/ waiting = {} /\ pc' = [pc EXCEPT ![t] = l]
  \/ \E w \in waiting : pc' = [pc EXCEPT ![t] = l, ![w] = IF w \in Pushers THEN "put" ELSE "take"]

Woken(waiting) == {w \in waiting : pc'[w] # "waiting"}

(***************************************************************************)
(* put, and the loop of push                                               *)
(***************************************************************************)
put_wait(p) ==
  /\ pc[p] = "put" /\ full
  /\ pc' = [pc EXCEPT ![p] = "waiting"]
  /\ notFull_' = notFull_ \cup {p}
  /\ UNCHANGED <<queue_, notEmpty_, push_num, pop_num, out>>

push_back(v) ==
  /\ buffer_' = [buffer_ EXCEPT ![write_pos_] = v]
  /\ write_pos_' = (write_pos_ + 1) % capacity_
  /\ UNCHANGED read_pos_

\* Mutant: put does not test for room.
put_untested(p) ==
  /\ pc[p] = "put"
  /\ push_back(p)
  /\ Notify(notEmpty_, p, "pushed")
  /\ notEmpty_' = notEmpty_ \ Woken(notEmpty_)
  /\ UNCHANGED <<notFull_, push_num, pop_num, out>>

put(p) ==
  /\ pc[p] = "put" /\ ~full
  /\ push_back(p)
  /\ Notify(notEmpty_, p, "pushed")
  /\ notEmpty_' = notEmpty_ \ Woken(notEmpty_)
  /\ UNCHANGED <<notFull_, push_num, pop_num, out>>

push_count(p) ==
  /\ pc[p] = "pushed"
  /\ push_num' = push_num + 1
  /\ pc' = [pc EXCEPT ![p] = "push_test"]
  /\ UNCHANGED <<queue_, notEmpty_, notFull_, pop_num, out>>

\* The call of size() that follows decides only whether the thread yields.
push_test(p) ==
  /\ pc[p] = "push_test"
  /\ pc' = [pc EXCEPT ![p] = IF test_num <= push_num THEN "exit" ELSE "put"]
  /\ UNCHANGED <<queue_, notEmpty_, notFull_, push_num, pop_num, out>>

push(p) == put_wait(p) \/ put(p) \/ push_count(p) \/ push_test(p)

(***************************************************************************)
(* take, and the loop of pop                                               *)
(***************************************************************************)
take_wait(c) ==
  /\ pc[c] = "take" /\ empty
  /\ pc' = [pc EXCEPT ![c] = "waiting"]
  /\ notEmpty_' = notEmpty_ \cup {c}
  /\ UNCHANGED <<queue_, notFull_, push_num, pop_num, out>>

\* Mutant: nobody is told about the room.
take_silent(c) ==
  /\ pc[c] = "take" /\ ~empty
  /\ out' = [out EXCEPT ![c] = buffer_[read_pos_]]
  /\ read_pos_' = (read_pos_ + 1) % capacity_
  /\ pc' = [pc EXCEPT ![c] = "popped"]
  /\ UNCHANGED <<buffer_, write_pos_, notFull_, notEmpty_, push_num, pop_num>>

take(c) ==
  /\ pc[c] = "take" /\ ~empty
  /\ out' = [out EXCEPT ![c] = buffer_[read_pos_]]
  /\ read_pos_' = (read_pos_ + 1) % capacity_
  /\ Notify(notFull_, c, "popped")
  /\ notFull_' = notFull_ \ Woken(notFull_)
  /\ UNCHANGED <<buffer_, write_pos_, notEmpty_, push_num, pop_num>>

pop_count(c) ==
  /\ pc[c] = "popped"
  /\ pop_num' = pop_num + 1 /\ out' = [out EXCEPT ![c] = Junk]
  /\ pc' = [pc EXCEPT ![c] = "pop_test"]
  /\ UNCHANGED <<queue_, notEmpty_, notFull_, push_num>>

pop_test(c) ==
  /\ pc[c] = "pop_test"
  /\ pc' = [pc EXCEPT ![c] = IF test_num <= pop_num THEN "exit" ELSE "take"]
  /\ UNCHANGED <<queue_, notEmpty_, notFull_, push_num, pop_num, out>>

pop(c) == take_wait(c) \/ take(c) \/ pop_count(c) \/ pop_test(c)

\* pthread_cond_wait may return without a notification.
spurious_wakeup(t) ==
  /\ pc[t] = "waiting"
  /\ pc' = [pc EXCEPT ![t] = IF t \in Pushers THEN "put" ELSE "take"]
  /\ notEmpty_' = notEmpty_ \ {t} /\ notFull_' = notFull_ \ {t}
  /\ UNCHANGED <<queue_, push_num, pop_num, out>>

Next == \/ \E p \in Pushers : push(p)
        \/ \E c \in Poppers : pop(c)
        \/ \E t \in Threads : spurious_wakeup(t)

Spec == Init /\ [][Next]_vars

\* The threads are scheduled, and wake-ups without a reason come to an end.
Fairness == /\ \A p \in Pushers : WF_vars(push(p))
            /\ \A c \in Poppers : WF_vars(pop(c))
            /\ <>[][\A t \in Threads : ~spurious_wakeup(t)]_vars

FairSpec == Spec /\ Fairness

(***************************************************************************)
(* Properties                                                              *)
(***************************************************************************)
Putting == {p \in Pushers : pc[p] = "put"}
Taking  == {c \in Poppers : pc[c] = "take"}

\* No wake-up is lost on either side: while somebody waits for room, every free slot has a
\* thread that is going to fill it, and while somebody waits for an element, every element
\* has a thread that is going to take it.
WaitersCovered ==
  /\ notFull_ # {} => capacity_ - 1 - size <= Cardinality(Putting)
  /\ notEmpty_ # {} => size <= Cardinality(Taking)

\* The thread has ended, or is a pop that sleeps on an empty queue: a pop leaves its loop
\* after a take, never in place of one, and the others may have taken the last item.
Over(t) == \/ pc[t] = "exit"
           \/ t \in Poppers /\ pc[t] = "waiting" /\ empty

\* The program ends, but for such a pop.
EndsOrSleepsEmpty == <>[](\A t \in Threads : Over(t))

Fifo == INSTANCE RingFifo WITH
          Consumers <- Poppers, Values <- Pushers, Capacity <- capacity_ - 1, Nothing <- Junk,
          q   <- [k \in 1 .. size |-> buffer_[(read_pos_ + k - 1) % capacity_]]

\* Every step is a push or a pop of a FIFO that holds capacity_ - 1 elements: one slot
\* stays unused, so that a full buffer and an empty one differ.
BoundedIsFifo == Fifo!Spec

(***************************************************************************)
(* The inductive invariant                                                 *)
(***************************************************************************)
PushPC == {"put", "waiting", "pushed", "push_test", "exit"}
PopPC  == {"take", "waiting", "popped", "pop_test", "exit"}

TypeOK ==
  /\ buffer_ \in [0 .. capacity_ - 1 -> Pushers \cup {Junk}]
  /\ read_pos_ \in 0 .. capacity_ - 1 /\ write_pos_ \in 0 .. capacity_ - 1
  /\ pc \in [Threads -> PushPC \cup PopPC]
  /\ \A p \in Pushers : pc[p] \in PushPC
  /\ \A c \in Poppers : pc[c] \in PopPC
  /\ push_num \in Nat /\ pop_num \in Nat
  /\ out \in [Poppers -> Pushers \cup {Junk}]

\* Who sleeps is in the list of the condition it waits for, and in no other.
SleepersListed ==
  /\ notFull_ = {p \in Pushers : pc[p] = "waiting"}
  /\ notEmpty_ = {c \in Poppers : pc[c] = "waiting"}

\* A popper counts what it has taken before it takes again.
OutCounted == \A c \in Poppers : pc[c] # "popped" => out[c] = Junk

BoundedInv == TypeOK /\ SleepersListed /\ OutCounted /\ WaitersCovered
=============================================================================
