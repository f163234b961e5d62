---------------------------- MODULE BlockingQueue ----------------------------
(***************************************************************************)
(* block_queue: the unbounded BlockingQueue (a mutex, a condition variable *)
(* and a deque) and the program of test.cc that uses it: main creates the  *)
(* threads that run input and then those that run output, and joins them.  *)
(*                                                                         *)
(* One action is one step between two points where another thread may run: *)
(* taking the mutex, each step inside it, giving it back.                  *)
(***************************************************************************)
EXTENDS Integers, Sequences, FiniteSets

CONSTANTS Inputs,    \* the threads that run input
          Outputs,   \* the threads that run output
          top,       \* input puts 1 .. top - 1
          Nobody

ASSUME QueueAssumption ==
  /\ Inputs \cap Outputs = {}
  /\ IsFiniteSet(Inputs) /\ IsFiniteSet(Outputs)
  /\ Nobody \notin Inputs \cup Outputs
  /\ top \in Nat \ {0}

VARIABLES
  mutex_,    \* the thread that holds the mutex
  waiting,   \* the threads asleep in notEmpty_.wait()
  queue_,
  pc,        \* where each thread is; "none" before pthread_create
  idx,       \* the loop variable of input
  main,      \* where main is
  puts,      \* history: what was pushed
  taken      \* history: what was popped

vars == <<mutex_, waiting, queue_, pc, idx, main, puts, taken>>

Threads == Inputs \cup Outputs

Init ==
  /\ mutex_ = Nobody /\ waiting = {} /\ queue_ = << >>
  /\ pc = [t \in Threads |-> "none"]
  /\ idx = [p \in Inputs |-> 1]
  /\ main = "create_inputs"
  /\ puts = << >> /\ taken = << >>

Goto(t, from, to) == pc[t] = from /\ pc' = [pc EXCEPT ![t] = to]

\* pthread_mutex_lock and pthread_mutex_unlock of MutexLockGuard.
lock(t)   == mutex_ = Nobody /\ mutex_' = t
unlock(t) == mutex_ = t /\ mutex_' = Nobody

(***************************************************************************)
(* put, called by input until idx = top                                    *)
(***************************************************************************)
put_lock(p) ==
  /\ idx[p] < top
  /\ Goto(p, "put", "put_push")
  /\ lock(p)
  /\ UNCHANGED <<waiting, queue_, idx, main, puts, taken>>

put_push(p) ==
  /\ Goto(p, "put_push", "put_notify")
  /\ queue_' = Append(queue_, idx[p])
  /\ puts' = Append(puts, idx[p])
  /\ UNCHANGED <<mutex_, waiting, idx, main, taken>>

\* Mutant: no notification.
put_notify_forgotten(p) ==
  /\ Goto(p, "put_notify", "put_unlock")
  /\ UNCHANGED <<mutex_, waiting, queue_, idx, main, puts, taken>>

\* pthread_cond_signal wakes one of the waiting threads, if there is one.
put_notify(p) ==
  /\ pc[p] = "put_notify"
  /\ \/ /\ waiting = {}
        /\ pc' = [pc EXCEPT ![p] = "put_unlock"]
        /\ UNCHANGED waiting
     \/ \E c \in waiting :
          /\ waiting' = waiting \ {c}
          /\ pc' = [pc EXCEPT ![p] = "put_unlock", ![c] = "woken"]
  /\ UNCHANGED <<mutex_, queue_, idx, main, puts, taken>>

put_unlock(p) ==
  /\ Goto(p, "put_unlock", "put")
  /\ unlock(p)
  /\ idx' = [idx EXCEPT ![p] = @ + 1]
  /\ UNCHANGED <<waiting, queue_, main, puts, taken>>

input_exit(p) ==
  /\ idx[p] >= top
  /\ Goto(p, "put", "exit")
  /\ UNCHANGED <<mutex_, waiting, queue_, idx, main, puts, taken>>

input(p) == put_lock(p) \/ put_push(p) \/ put_notify(p) \/ put_unlock(p) \/ input_exit(p)

(***************************************************************************)
(* size and take, called by output: while (queue.size()) take()            *)
(***************************************************************************)
size_lock(c) ==
  /\ Goto(c, "size", "size_unlock")
  /\ lock(c)
  /\ UNCHANGED <<waiting, queue_, idx, main, puts, taken>>

size_unlock(c) ==
  /\ Goto(c, "size_unlock", IF queue_ # << >> THEN "take" ELSE "exit")
  /\ unlock(c)
  /\ UNCHANGED <<waiting, queue_, idx, main, puts, taken>>

take_lock(c) ==
  /\ Goto(c, "take", "take_test")
  /\ lock(c)
  /\ UNCHANGED <<waiting, queue_, idx, main, puts, taken>>

\* pthread_cond_wait gives the mutex back and sleeps in one step.
take_wait(c) ==
  /\ queue_ = << >>
  /\ Goto(c, "take_test", "waiting")
  /\ unlock(c)
  /\ waiting' = waiting \cup {c}
  /\ UNCHANGED <<queue_, idx, main, puts, taken>>

\* pthread_cond_wait may return without a notification.
spurious_wakeup(c) ==
  /\ c \in waiting
  /\ waiting' = waiting \ {c}
  /\ Goto(c, "waiting", "woken")
  /\ UNCHANGED <<mutex_, queue_, idx, main, puts, taken>>

take_relock(c) ==
  /\ Goto(c, "woken", "take_test")
  /\ lock(c)
  /\ UNCHANGED <<waiting, queue_, idx, main, puts, taken>>

take_front(c) ==
  /\ queue_ # << >>
  /\ Goto(c, "take_test", "take_pop")
  /\ UNCHANGED <<mutex_, waiting, queue_, idx, main, puts, taken>>

\* Mutant: pop_back in place of pop_front.
take_pop_back(c) ==
  /\ Goto(c, "take_pop", "take_unlock")
  /\ queue_' = SubSeq(queue_, 1, Len(queue_) - 1)
  /\ taken' = Append(taken, Head(queue_))
  /\ UNCHANGED <<mutex_, waiting, idx, main, puts>>

take_pop(c) ==
  /\ Goto(c, "take_pop", "take_unlock")
  /\ queue_' = Tail(queue_)
  /\ taken' = Append(taken, Head(queue_))
  /\ UNCHANGED <<mutex_, waiting, idx, main, puts>>

take_unlock(c) ==
  /\ Goto(c, "take_unlock", "size")
  /\ unlock(c)
  /\ UNCHANGED <<waiting, queue_, idx, main, puts, taken>>

output(c) == \/ size_lock(c) \/ size_unlock(c) \/ take_lock(c) \/ take_wait(c)
             \/ take_relock(c) \/ take_front(c) \/ take_pop(c) \/ take_unlock(c)

(***************************************************************************)
(* main                                                                    *)
(***************************************************************************)
create(t) ==
  /\ \/ main = "create_inputs" /\ t \in Inputs /\ Goto(t, "none", "put")
     \/ main = "create_outputs" /\ t \in Outputs /\ Goto(t, "none", "size")
  /\ UNCHANGED <<mutex_, waiting, queue_, idx, main, puts, taken>>

\* The loop ends when all threads are created or pthread_create fails.
create_end ==
  /\ \/ main = "create_inputs" /\ main' = "create_outputs"
     \/ main = "create_outputs" /\ main' = "join_outputs"
  /\ UNCHANGED <<mutex_, waiting, queue_, pc, idx, puts, taken>>

Ended(S) == \A t \in S : pc[t] \in {"none", "exit"}

join ==
  /\ \/ main = "join_outputs" /\ Ended(Outputs) /\ main' = "join_inputs"
     \/ main = "join_inputs" /\ Ended(Inputs) /\ main' = "exit"
  /\ UNCHANGED <<mutex_, waiting, queue_, pc, idx, puts, taken>>

Next == \/ \E p \in Inputs : input(p)
        \/ \E c \in Outputs : output(c) \/ spurious_wakeup(c)
        \/ \E t \in Threads : create(t)
        \/ create_end \/ join

Spec == Init /\ [][Next]_vars

\* The threads and main are scheduled, and a mutex given back is taken by some thread,
\* not by a particular one. Wake-ups without a reason come to an end: a mutex that is
\* not fair could go for ever to a thread that is woken for nothing.
Fairness == /\ \A p \in Inputs : WF_vars(input(p))
            /\ \A c \in Outputs : WF_vars(output(c))
            /\ WF_vars(create_end) /\ WF_vars(join)
            /\ <>[][\A c \in Outputs : ~spurious_wakeup(c)]_vars

FairSpec == Spec /\ Fairness

(***************************************************************************)
(* Properties                                                              *)
(***************************************************************************)
PC == {"none", "put", "put_push", "put_notify", "put_unlock", "size", "size_unlock",
       "take", "take_test", "waiting", "woken", "take_pop", "take_unlock", "exit"}

\* The queue and its histories are sequences of what input puts.
TypeOK ==
  /\ mutex_ \in Threads \cup {Nobody}
  /\ waiting \in SUBSET Outputs
  /\ queue_ \in Seq(Nat) /\ puts \in Seq(Nat) /\ taken \in Seq(Nat)
  /\ pc \in [Threads -> PC]
  /\ idx \in [Inputs -> Nat]
  /\ main \in {"create_inputs", "create_outputs", "join_outputs", "join_inputs", "exit"}

\* What take returned, followed by what is still queued, is what put was given: nothing
\* is lost, taken twice or reordered, and no take pops an empty deque.
Conserved == puts = taken \o queue_

\* "always use a while-loop": whoever woke the thread and whoever took the element in the
\* meantime, take reaches front and pop_front only with an element in the deque.
NeverPopsEmpty == \A c \in Outputs : pc[c] = "take_pop" => queue_ # << >>

\* The threads that are going to look at the queue, or to wake one that does.
Pending == {t \in Threads : pc[t] \in {"woken", "take_test", "take_pop", "put_notify"}}

\* No wake-up is lost: while somebody sleeps in take, every queued element has a thread
\* of its own that was woken and has not looked at the queue yet, or is about to notify.
NoLostWakeup == waiting # {} => Len(queue_) <= Cardinality(Pending)

\* The thread has left its loop, or sleeps in take on an empty queue that nobody will
\* fill: size and take are two critical sections, and the element size saw may be gone.
Over(c) == \/ pc[c] \in {"none", "exit"}
           \/ pc[c] = "waiting" /\ queue_ = << >> /\ Ended(Inputs)

\* test.cc: in the end this is all an output does. main then waits in pthread_join.
EndsOrStarves == <>[](\A c \in Outputs : Over(c))

(***************************************************************************)
(* The inductive invariant                                                 *)
(***************************************************************************)
Inside(t) == pc[t] \in {"put_push", "put_notify", "put_unlock", "size_unlock",
                        "take_test", "take_pop", "take_unlock"}

\* A thread inside a critical section holds the mutex; those in waiting sleep; a thread
\* runs its own function.
MutexInv ==
  /\ \A t \in Threads : Inside(t) => mutex_ = t
  /\ \A c \in waiting : pc[c] = "waiting"
  /\ \A p \in Inputs : pc[p] \in {"none", "put", "put_push", "put_notify", "put_unlock", "exit"}
=============================================================================
