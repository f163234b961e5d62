------------------------------- MODULE PcQueue -------------------------------
(***************************************************************************)
(* ring4/exam/unlock_ring1.cc: producers and consumers share a ring and a  *)
(* semaphore that counts its elements.  main starts the producers and the  *)
(* consumers, joins them and releases the queue.                           *)
(*                                                                         *)
(* The ring is used by its contract (RingFifo): a push fails when it is    *)
(* full, a pop when it is empty -- and, where several consumers race for   *)
(* it, sometimes when it is not (FalseEmpty): EmptyIsReported of LiskRing  *)
(* does not hold for two consumers.                                        *)
(***************************************************************************)
EXTENDS Integers, Sequences, FiniteSets, Functions

CONSTANTS Producers, Consumers,
          PushTop,     \* elements of a producer (top in producer)
          PopTop,      \* elements of a consumer (top in consumer)
          Capacity,    \* of the ring
          FalseEmpty,  \* may ring_pop fail on a ring that is not empty?
          CreateFails, \* may pthread_create fail?
          Nil

\* The program is dimensioned so that nothing is left over.
PcQueueAssumption ==
  /\ PushTop \in Nat /\ PopTop \in Nat /\ Capacity \in Nat \ {0}
  /\ IsFiniteSet(Producers) /\ IsFiniteSet(Consumers)
  /\ Cardinality(Producers) * PushTop = Cardinality(Consumers) * PopTop
  /\ {FalseEmpty, CreateFails} \subseteq BOOLEAN /\ Producers \cap Consumers = {}

VARIABLES ring, sem,
          live,   \* the memory blocks allocated and not yet freed
          th,     \* the threads: where they are, idx, and ptr
          main    \* where main is

vars == <<ring, sem, live, th, main>>

Threads == Producers \cup Consumers

\* pc_queue_init
Init ==
  /\ ring = << >> /\ sem = 0 /\ live = {}
  /\ th = [t \in Threads |-> [pc |-> "none", idx |-> 0, ptr |-> Nil]]
  /\ main = "producers"

At(t, l) == th[t].pc = l

(***************************************************************************)
(* main and generate_thread                                                *)
(***************************************************************************)
Wanted == IF main = "producers" THEN Producers ELSE Consumers
ToMake == {t \in Wanted : At(t, "none")}

generate_thread(t) ==
  /\ main \in {"producers", "consumers"} /\ t \in ToMake
  /\ th' = [th EXCEPT ![t].pc = "top"]
  /\ UNCHANGED <<ring, sem, live, main>>

\* The threads already made are not waited for: those joins are commented out.
generate_thread_fails ==
  /\ main \in {"producers", "consumers"} /\ ToMake # {} /\ CreateFails
  /\ main' = "uninit"
  /\ UNCHANGED <<ring, sem, live, th>>

main_next ==
  /\ \/ main = "producers" /\ ToMake = {} /\ main' = "consumers"
     \/ main = "consumers" /\ ToMake = {} /\ main' = "join"
     \/ main = "join" /\ (\A t \in Threads : At(t, "exit")) /\ main' = "uninit"
     \/ main = "uninit" /\ main' = "done"
  /\ UNCHANGED <<ring, sem, live, th>>

(***************************************************************************)
(* producer and pc_queue_push                                              *)
(***************************************************************************)
\* ALLOC is tried until it succeeds.
producer_alloc(p) ==
  /\ At(p, "top")
  /\ \/ /\ th[p].idx < PushTop
        /\ live' = live \cup {<<p, th[p].idx>>}
        /\ th' = [th EXCEPT ![p].pc = "push", ![p].ptr = <<p, th[p].idx>>]
     \/ /\ th[p].idx = PushTop
        /\ th' = [th EXCEPT ![p].pc = "exit"]
        /\ UNCHANGED live
  /\ UNCHANGED <<ring, sem, main>>

\* ring_push is tried until it succeeds.
pc_queue_push(p) ==
  /\ At(p, "push") /\ Len(ring) < Capacity
  /\ ring' = Append(ring, th[p].ptr)
  /\ th' = [th EXCEPT ![p].pc = "post"]
  /\ UNCHANGED <<sem, live, main>>

pc_queue_post(p) ==
  /\ At(p, "post")
  /\ sem' = sem + 1
  /\ th' = [th EXCEPT ![p].pc = "top", ![p].idx = @ + 1, ![p].ptr = Nil]
  /\ UNCHANGED <<ring, live, main>>

producer(p) == producer_alloc(p) \/ pc_queue_push(p) \/ pc_queue_post(p)

(***************************************************************************)
(* consumer and pc_queue_pop                                               *)
(***************************************************************************)
\* Mutant: a consumer that has its elements waits for one more.
pc_queue_wait_twice(c) ==
  /\ At(c, "top")
  /\ \/ th[c].idx <= PopTop /\ sem > 0 /\ sem' = sem - 1 /\ th' = [th EXCEPT ![c].pc = "pop"]
     \/ th[c].idx > PopTop /\ th' = [th EXCEPT ![c].pc = "exit"] /\ UNCHANGED sem
  /\ UNCHANGED <<ring, live, main>>

pc_queue_wait(c) ==
  /\ At(c, "top")
  /\ \/ th[c].idx < PopTop /\ sem > 0 /\ sem' = sem - 1 /\ th' = [th EXCEPT ![c].pc = "pop"]
     \/ th[c].idx = PopTop /\ th' = [th EXCEPT ![c].pc = "exit"] /\ UNCHANGED sem
  /\ UNCHANGED <<ring, live, main>>

\* When ring_pop fails the consumer goes back to sem_wait: its permit is gone.
pc_queue_pop(c) ==
  /\ At(c, "pop")
  /\ \/ /\ ring # << >>
        /\ ring' = Tail(ring)
        /\ th' = [th EXCEPT ![c].pc = "free", ![c].ptr = Head(ring)]
     \/ /\ ring = << >> \/ FalseEmpty
        /\ th' = [th EXCEPT ![c].pc = "top"]
        /\ UNCHANGED ring
  /\ UNCHANGED <<sem, live, main>>

consumer_free(c) ==
  /\ At(c, "free")
  /\ live' = live \ {th[c].ptr}
  /\ th' = [th EXCEPT ![c].pc = "top", ![c].idx = @ + 1, ![c].ptr = Nil]
  /\ UNCHANGED <<ring, sem, main>>

consumer(c) == pc_queue_wait(c) \/ pc_queue_pop(c) \/ consumer_free(c)

\* When main returns the process ends, and with it every thread.
Next ==
  \/ \E t \in Threads : generate_thread(t)
  \/ generate_thread_fails \/ main_next
  \/ \E p \in Producers : main # "done" /\ producer(p)
  \/ \E c \in Consumers : main # "done" /\ consumer(c)

Spec == Init /\ [][Next]_vars

FairSpec == /\ Spec
            /\ WF_vars(main_next) /\ \A t \in Threads : WF_vars(generate_thread(t))
            /\ \A p \in Producers : WF_vars(producer(p))
            /\ \A c \in Consumers : WF_vars(consumer(c))

(***************************************************************************)
(* Properties                                                              *)
(***************************************************************************)
\* The threads that have a block in hand, those that hold or owe a permit.
Holders == {p \in Producers : At(p, "push")} \cup {c \in Consumers : At(c, "free")}
Popping == {c \in Consumers : At(c, "pop")}
Posting == {p \in Producers : At(p, "post")}

Blocks == Producers \X Nat

TypeOK ==
  /\ ring \in Seq(Blocks) /\ sem \in Nat /\ live \subseteq Blocks
  /\ th \in [Threads -> [pc : {"none", "top", "push", "post", "pop", "free", "exit"},
                          idx : Nat, ptr : Blocks \cup {Nil}]]
  /\ \A p \in Producers : th[p].pc \notin {"pop", "free"}
  /\ \A c \in Consumers : th[c].pc \notin {"push", "post"}
  /\ \A t \in Holders : th[t].ptr \in Blocks
  /\ main \in {"producers", "consumers", "join", "uninit", "done"}

\* A block of memory is in the ring or in the hands of one thread until it is freed:
\* none is leaked, freed twice or used after it was freed.
BlocksOwned ==
  /\ live = Range(ring) \cup {th[t].ptr : t \in Holders}
  /\ Cardinality(live) = Len(ring) + Cardinality(Holders)

\* No block is in two places, and those a producer has still to allocate are new.
BlocksApart ==
  /\ \A i, j \in DOMAIN ring : ring[i] = ring[j] => i = j
  /\ \A s, t \in Holders : th[s].ptr = th[t].ptr => s = t
  /\ \A t \in Holders : \A i \in DOMAIN ring : th[t].ptr # ring[i]
  /\ \A b \in live : \/ b[2] < th[b[1]].idx
                     \/ b[2] = th[b[1]].idx /\ th[b[1]].pc \in {"push", "post"}

\* Every permit stands for an element in the ring, from sem_post until ring_pop: a
\* consumer that has passed sem_wait finds one.
WaitersCovered == sem + Cardinality(Popping) <= Len(ring)

\* The element is there before its permit.
PermitsOwed == sem + Cardinality(Popping) + Cardinality(Posting) <= Len(ring)

PcInv == TypeOK /\ BlocksOwned /\ BlocksApart /\ PermitsOwed /\ IsFiniteSet(live)

\* A consumer that meets a false empty goes back to sem_wait without its permit: then the
\* ring holds an element that nobody is told of.
PermitLost ==
  sem + Cardinality(Popping) + Cardinality(Posting) < Len(ring)

\* The program ends, whatever pthread_create does, unless a false empty has cost a permit:
\* nothing else keeps a thread waiting forever in sem_wait, in pthread_join or on a full ring.
EndsOrLosesPermit == <>(main = "done" \/ PermitLost)
=============================================================================
