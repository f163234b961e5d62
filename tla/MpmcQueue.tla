------------------------------ MODULE MpmcQueue ------------------------------
(***************************************************************************)
(* lock_free_queue/mpmc-bounded-queue.hpp: a bounded queue in which every  *)
(* cell carries a sequence number that says whose turn it is: n for the    *)
(* enqueue with ticket n, n + 1 for the dequeue with ticket n, n + _size   *)
(* for the enqueue of the next round.  The threads are the push and pop of *)
(* mpmc-bounded-queue.cc, which call again when a call returned false.     *)
(*                                                                         *)
(* An item is known by the thread that enqueues it.                        *)
(*                                                                         *)
(* One action is one access to shared memory.  The tickets are size_t of   *)
(* 64 bits and do not come round.                                          *)
(***************************************************************************)
EXTENDS Integers, Sequences, FiniteSets

CONSTANTS Producers, Consumers,
          _size,      \* cells: a power of 2
          MaxPush,    \* bound: no enqueue is called once MaxPush tickets are claimed
          Junk        \* what lies in a cell or a variable that was never written

VARIABLES _head_seq, _tail_seq, _queue_size,
          seq, data,   \* of the cells
          pc,
          ticket,      \* local head_seq of enqueue, tail_seq of dequeue
          item,        \* the argument of enqueue, what dequeue has read
          log          \* history: the items in the order of their tickets

vars == <<_head_seq, _tail_seq, _queue_size, seq, data, pc, ticket, item, log>>
words == <<_head_seq, _tail_seq, _queue_size>>

\* The constructor asserts a power of 2.  That includes 1, for which the queue is none:
\* what an enqueue releases to the consumers, ticket + 1, is then also what frees the cell
\* for the next enqueue.
MpmcAssumption ==
  /\ _size \in Nat /\ _size > 1
  /\ MaxPush \in Nat
  /\ IsFiniteSet(Producers) /\ IsFiniteSet(Consumers)
  /\ Producers \cap Consumers = {}
  /\ Junk \notin Producers

Threads == Producers \cup Consumers
Cells   == 0 .. _size - 1
Cell(n) == n % _size

\* The constructor.
Init ==
  /\ _head_seq = 0 /\ _tail_seq = 0 /\ _queue_size = 0
  /\ seq = [i \in Cells |-> i] /\ data = [i \in Cells |-> Junk]
  /\ pc = [t \in Threads |-> "idle"]
  /\ ticket = [t \in Threads |-> 0] /\ item = [t \in Threads |-> Junk]
  /\ log = << >>

Goto(t, from, to) == pc[t] = from /\ pc' = [pc EXCEPT ![t] = to]

\* The call returns; its locals are gone.
Return(t, from) ==
  /\ Goto(t, from, "idle")
  /\ ticket' = [ticket EXCEPT ![t] = 0] /\ item' = [item EXCEPT ![t] = Junk]

Stay == UNCHANGED <<ticket, item>>

(***************************************************************************)
(* enqueue                                                                 *)
(***************************************************************************)
enqueue_call(p) ==
  /\ Goto(p, "idle", "enq_seq") /\ _head_seq < MaxPush
  /\ item' = [item EXCEPT ![p] = p]
  /\ ticket' = [ticket EXCEPT ![p] = _head_seq]
  /\ UNCHANGED <<words, seq, data, log>>

\* The cell is free, still full, or already gone to another thread.
Turn(t) == seq[Cell(ticket[t])] - ticket[t]

\* Mutant: the queue is full when any other thread was faster.
enqueue_seq_full(p) ==
  /\ \/ Turn(p) = 0 /\ Goto(p, "enq_seq", "enq_cas") /\ Stay
     \/ Turn(p) # 0 /\ Return(p, "enq_seq")
  /\ UNCHANGED <<words, seq, data, log>>

enqueue_seq(p) ==
  /\ \/ Turn(p) = 0 /\ Goto(p, "enq_seq", "enq_cas") /\ Stay
     \/ Turn(p) < 0 /\ Return(p, "enq_seq")
     \/ Turn(p) > 0 /\ Goto(p, "enq_seq", "enq_reload") /\ Stay
  /\ UNCHANGED <<words, seq, data, log>>

\* "under normal circumstances this branch should never be taken"
enqueue_reload(p) ==
  /\ Goto(p, "enq_reload", "enq_seq")
  /\ ticket' = [ticket EXCEPT ![p] = _head_seq]
  /\ UNCHANGED <<words, seq, data, item, log>>

\* compare_exchange_weak: claims the ticket, or loads it anew.
enqueue_cas(p) ==
  /\ _head_seq = ticket[p]
  /\ Goto(p, "enq_cas", "enq_data")
  /\ _head_seq' = _head_seq + 1
  /\ log' = Append(log, item[p])
  /\ UNCHANGED <<_tail_seq, _queue_size, seq, data, ticket, item>>

enqueue_cas_fails(p) ==
  /\ _head_seq # ticket[p]
  /\ Goto(p, "enq_cas", "enq_seq")
  /\ ticket' = [ticket EXCEPT ![p] = _head_seq]
  /\ UNCHANGED <<words, seq, data, item, log>>

\* Mutant: the sequence number is stored before the item.
enqueue_data_late(p) ==
  /\ Goto(p, "enq_data", "enq_release")
  /\ seq' = [seq EXCEPT ![Cell(ticket[p])] = ticket[p] + 1]
  /\ UNCHANGED <<words, data, ticket, item, log>>

enqueue_data(p) ==
  /\ Goto(p, "enq_data", "enq_release")
  /\ data' = [data EXCEPT ![Cell(ticket[p])] = item[p]]
  /\ UNCHANGED <<words, seq, ticket, item, log>>

\* Mutant: the item is not released to the consumers.
enqueue_release_forgotten(p) ==
  /\ Goto(p, "enq_release", "enq_count")
  /\ UNCHANGED <<words, seq, data, ticket, item, log>>

enqueue_release(p) ==
  /\ Goto(p, "enq_release", "enq_count")
  /\ seq' = [seq EXCEPT ![Cell(ticket[p])] = ticket[p] + 1]
  /\ UNCHANGED <<words, data, ticket, item, log>>

enqueue_count(p) ==
  /\ Return(p, "enq_count")
  /\ _queue_size' = _queue_size + 1
  /\ UNCHANGED <<_head_seq, _tail_seq, seq, data, log>>

\* A weak exchange may also fail although the word is what was expected.
spurious_failure(t) ==
  /\ \/ Goto(t, "enq_cas", "enq_seq") /\ _head_seq = ticket[t]
     \/ Goto(t, "deq_cas", "deq_seq") /\ _tail_seq = ticket[t]
  /\ UNCHANGED <<words, seq, data, ticket, item, log>>

enqueue(p) == \/ enqueue_seq(p) \/ enqueue_reload(p) \/ enqueue_cas(p) \/ enqueue_cas_fails(p)
              \/ enqueue_data(p) \/ enqueue_release(p) \/ enqueue_count(p)

(***************************************************************************)
(* dequeue                                                                 *)
(***************************************************************************)
dequeue_call(c) ==
  /\ Goto(c, "idle", "deq_seq")
  /\ ticket' = [ticket EXCEPT ![c] = _tail_seq]
  /\ UNCHANGED <<words, seq, data, item, log>>

dequeue_seq(c) ==
  /\ \/ Turn(c) = 1 /\ Goto(c, "deq_seq", "deq_cas") /\ Stay
     \/ Turn(c) < 1 /\ Return(c, "deq_seq")
     \/ Turn(c) > 1 /\ Goto(c, "deq_seq", "deq_reload") /\ Stay
  /\ UNCHANGED <<words, seq, data, log>>

dequeue_reload(c) ==
  /\ Goto(c, "deq_reload", "deq_seq")
  /\ ticket' = [ticket EXCEPT ![c] = _tail_seq]
  /\ UNCHANGED <<words, seq, data, item, log>>

dequeue_cas(c) ==
  /\ _tail_seq = ticket[c]
  /\ Goto(c, "deq_cas", "deq_data")
  /\ _tail_seq' = _tail_seq + 1
  /\ UNCHANGED <<_head_seq, _queue_size, seq, data, ticket, item, log>>

dequeue_cas_fails(c) ==
  /\ _tail_seq # ticket[c]
  /\ Goto(c, "deq_cas", "deq_seq")
  /\ ticket' = [ticket EXCEPT ![c] = _tail_seq]
  /\ UNCHANGED <<words, seq, data, item, log>>

dequeue_data(c) ==
  /\ Goto(c, "deq_data", "deq_release")
  /\ item' = [item EXCEPT ![c] = data[Cell(ticket[c])]]
  /\ UNCHANGED <<words, seq, data, ticket, log>>

dequeue_release(c) ==
  /\ Goto(c, "deq_release", "deq_count")
  /\ seq' = [seq EXCEPT ![Cell(ticket[c])] = ticket[c] + _size]
  /\ UNCHANGED <<words, data, ticket, item, log>>

dequeue_count(c) ==
  /\ Return(c, "deq_count")
  /\ _queue_size' = _queue_size - 1
  /\ UNCHANGED <<_head_seq, _tail_seq, seq, data, log>>

dequeue(c) == \/ dequeue_seq(c) \/ dequeue_reload(c) \/ dequeue_cas(c) \/ dequeue_cas_fails(c)
              \/ dequeue_data(c) \/ dequeue_release(c) \/ dequeue_count(c)

Next == \/ \E p \in Producers : enqueue_call(p) \/ enqueue(p)
        \/ \E c \in Consumers : dequeue_call(c) \/ dequeue(c)
        \/ \E t \in Threads : spurious_failure(t)

Spec == Init /\ [][Next]_vars

\* The threads are scheduled; pop calls dequeue again and again; an exchange does not
\* fail for ever without a reason.
Fairness == /\ \A p \in Producers : WF_vars(enqueue(p))
            /\ \A c \in Consumers : WF_vars(dequeue(c) \/ dequeue_call(c))
            /\ <>[][\A t \in Threads : ~spurious_failure(t)]_vars

FairSpec == Spec /\ Fairness

(***************************************************************************)
(* Properties                                                              *)
(***************************************************************************)
Filling(p)  == pc[p] \in {"enq_data", "enq_release"}
Emptying(c) == pc[c] \in {"deq_data", "deq_release"}

EnqPC == {"idle", "enq_seq", "enq_reload", "enq_cas", "enq_data", "enq_release", "enq_count"}
DeqPC == {"idle", "deq_seq", "deq_reload", "deq_cas", "deq_data", "deq_release", "deq_count"}
Items == Producers \cup {Junk}

TypeOK ==
  /\ _head_seq \in Nat /\ _tail_seq \in Nat /\ _queue_size \in Int
  /\ seq \in [Cells -> Nat] /\ data \in [Cells -> Items]
  /\ pc \in [Threads -> EnqPC \cup DeqPC]
  /\ \A p \in Producers : pc[p] \in EnqPC
  /\ \A c \in Consumers : pc[c] \in DeqPC
  /\ ticket \in [Threads -> Nat] /\ item \in [Threads -> Items]
  /\ log \in Seq(Items) /\ Len(log) = _head_seq

\* Whose the tickets are: those in the queue are being filled by one enqueue at most, those
\* of one round before the free ones are being emptied by one dequeue at most.
TicketsOwned ==
  /\ _tail_seq <= _head_seq /\ _head_seq <= _tail_seq + _size
  /\ \A p \in Producers : pc[p] # "idle" => ticket[p] <= _head_seq
  /\ \A c \in Consumers : pc[c] # "idle" => ticket[c] <= _tail_seq
  /\ \A p \in Producers : Filling(p) => _tail_seq <= ticket[p] /\ ticket[p] < _head_seq
  /\ \A c \in Consumers : Emptying(c) => _head_seq <= ticket[c] + _size /\ ticket[c] < _tail_seq
  /\ \A p, r \in Producers : Filling(p) /\ Filling(r) /\ ticket[p] = ticket[r] => p = r
  /\ \A c, d \in Consumers : Emptying(c) /\ Emptying(d) /\ ticket[c] = ticket[d] => c = d

\* What the sequence number of a cell tells: for a ticket in the queue whether it is filled,
\* for a free one whether the cell is given back, and for an old one that it is old.
CellsNumbered ==
  /\ \A n \in _tail_seq .. _head_seq - 1 :
       \/ seq[Cell(n)] = n /\ \E p \in Producers : Filling(p) /\ ticket[p] = n
       \/ seq[Cell(n)] = n + 1 /\ \A p \in Producers : Filling(p) => ticket[p] # n
  /\ \A n \in _head_seq .. _tail_seq + _size - 1 :
       \/ seq[Cell(n)] = n + 1 - _size
          /\ \E c \in Consumers : Emptying(c) /\ ticket[c] + _size = n
       \/ seq[Cell(n)] = n /\ \A c \in Consumers : Emptying(c) => ticket[c] + _size # n
  /\ \A n \in 0 .. _tail_seq - 1 : seq[Cell(n)] > n

\* A ticket that is still current at the exchange has the cell that was seen.
SeenIsCurrent ==
  /\ \A p \in Producers :
       pc[p] = "enq_cas" /\ ticket[p] = _head_seq => seq[Cell(_head_seq)] = _head_seq
  /\ \A c \in Consumers :
       pc[c] = "deq_cas" /\ ticket[c] = _tail_seq => seq[Cell(_tail_seq)] = _tail_seq + 1

\* The items, from the call to the result.
ItemsKept ==
  /\ \A p \in Producers : pc[p] # "idle" => item[p] = p
  /\ \A p \in Producers : Filling(p) => log[ticket[p] + 1] = p
  /\ \A p \in Producers : pc[p] = "enq_release" => data[Cell(ticket[p])] = p
  /\ \A n \in _tail_seq .. _head_seq - 1 :
       seq[Cell(n)] = n + 1 => data[Cell(n)] = log[n + 1]
  /\ \A c \in Consumers : pc[c] = "deq_data" => data[Cell(ticket[c])] = log[ticket[c] + 1]
  /\ \A c \in Consumers : pc[c] \in {"idle", "deq_seq", "deq_reload", "deq_cas"} => item[c] = Junk

\* The inductive invariant behind the properties below.
QueueInv == TypeOK /\ TicketsOwned /\ CellsNumbered /\ SeenIsCurrent /\ ItemsKept

\* A cell belongs to at most one thread: between its claim and its release no other
\* thread writes or reads it, in this round or in another.
CellsOwned ==
  \A t, u \in Threads :
    (Filling(t) \/ Emptying(t)) /\ (Filling(u) \/ Emptying(u))
      /\ Cell(ticket[t]) = Cell(ticket[u]) => t = u

\* All cells are taken, or a dequeue has not given the cell of p's ticket back yet.
FullFor(p) == \/ _head_seq - _tail_seq = _size
              \/ \E c \in Consumers : Emptying(c) /\ ticket[c] = ticket[p] - _size

\* Nothing is in the queue, or an enqueue has claimed the oldest cell and not filled it yet.
EmptyFor(c) == \/ _head_seq = _tail_seq
               \/ \E p \in Producers : Filling(p) /\ ticket[p] = ticket[c]

\* enqueue and dequeue return false only for these reasons.
FailsRightly ==
  /\ \A p \in Producers : pc[p] = "enq_seq" /\ pc'[p] = "idle" => FullFor(p)
  /\ \A c \in Consumers : pc[c] = "deq_seq" /\ pc'[c] = "idle" => EmptyFor(c)

FailsForAReason == [][FailsRightly]_vars

\* The calls that have claimed a ticket and are not counted yet.
Enqueuing == {p \in Producers : Filling(p) \/ pc[p] = "enq_count"}
Dequeuing == {c \in Consumers : Emptying(c) \/ pc[c] = "deq_count"}

\* _queue_size, which size() returns, differs from the items in the queue by exactly what
\* the calls under way have still to count; it is negative while a dequeue overtakes the
\* enqueue it took from.
SizesAgree ==
  _queue_size = _head_seq - _tail_seq - Cardinality(Enqueuing) + Cardinality(Dequeuing)

\* Every claimed ticket is filled and then taken: enqueues that overtake one that sleeps
\* in the middle delay their items, and do not lose them.
EnqueuedIsDequeued ==
  \A k \in 1 .. MaxPush : (_head_seq >= k) ~> (_tail_seq >= k)

\* The queue as a FIFO: an enqueue takes place when it claims its ticket, a dequeue when
\* it claims the same one, and what it then reads is what was enqueued.
Result(c) == IF pc[c] = "deq_data" THEN log[ticket[c] + 1] ELSE item[c]

Fifo == INSTANCE RingFifo WITH
          Values <- Producers, Capacity <- _size, Nothing <- Junk,
          q   <- SubSeq(log, _tail_seq + 1, _head_seq),
          out <- [c \in Consumers |-> Result(c)]

\* Every step is a push or a pop of a bounded FIFO of _size elements, or no step of it.
ImplementsFifo == Fifo!Spec
=============================================================================
