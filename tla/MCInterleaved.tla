---------------------------- MODULE MCInterleaved ----------------------------
(***************************************************************************)
(* Parts whose calls interleave, in one instance for TLC: three rings that *)
(* threads share (the sized ring of ring1, the counted ring of ring2, the  *)
(* bounded queue of lock_free_queue), and the timer and the event loop,    *)
(* whose functions call back.  A behaviour is one of a single part.        *)
(* Variables of the same name are shared; those a part does not have are   *)
(* Off.                                                                    *)
(***************************************************************************)
EXTENDS Integers, Sequences, FiniteSets, TLC

CONSTANTS p1, p2, c1, c2, v1, e1, e2, e3, Junk, NULL, Off

VARIABLES part, size, write_pos, read_pos, max_read_idx, data, pc, log
VARIABLES th, given, queued, faults
VARIABLES ridx, widx, arg, elem, ret, todo, seen
VARIABLES _head_seq, _tail_seq, _queue_size, seq, ticket, item
VARIABLES now, clock, hand, list, ring, num, node, heap, running, fired
VARIABLES readqueue, writequeue, timequeue, addqueue, ev_read_next, ev_events, ev_flags, left,
          event_inloop, event_fds, readset, writeset, maxfd, ev, ready, called

Producers == {p1, p2}
Consumers == {c1, c2}

\* The producers race for a ring that is full and used again; the consumers, for a small one.
S == INSTANCE SizedRing WITH
       Teams <- {Producers \cup {c} : c \in Consumers},
       unit_num <- 4, Wrap <- 8, Nums <- {1}, MaxElems <- 6

R == INSTANCE SizedRing WITH
       Teams <- {Consumers \cup {p} : p \in Producers},
       unit_num <- 2, Wrap <- 8, Nums <- {1}, MaxElems <- 4

\* One thread on each side, and cursors that come round: they race with nobody's.
W == INSTANCE SizedRing WITH
       Teams <- {{p, c} : p \in Producers, c \in Consumers},
       unit_num <- 2, Wrap <- 4, Nums <- {1}, MaxElems <- 9

C == INSTANCE CountedRing WITH
       Observers <- {}, Values <- {v1}, unit_num <- 2, type <- 8, Wrap <- 16, MaxPos <- 2

M == INSTANCE MpmcQueue WITH _size <- 2, MaxPush <- 3

\* Three hands: 3 steps of the first move the second, 2 of the second the third. The wall
\* clock may also be set back.
T == INSTANCE LiskTimer WITH
       MAX_TIMER_LEVEL <- 3, limit <- 0 :> 3 @@ 1 :> 2 @@ 2 :> 2, MINIMUM_DIFF <- 2,
       RingNum <- 1, Expires <- {2, 7}, Steps <- {-4, 2, 6}, MaxTime <- 8, MaxNode <- 2,
       AllocFails <- TRUE, Wrap <- 16

\* Three events on two descriptors: one to read, one that changes its kind, one to write.
Reading == {"EVLIST_READ"}
Writing == {"EVLIST_WRITE"}

E == INSTANCE EventLoop WITH
       Events <- {e1, e2, e3},
       ev_fd  <- e1 :> 1 @@ e2 :> 2 @@ e3 :> 2,
       Kinds  <- e1 :> {Reading} @@ e2 :> {Reading, Reading \cup Writing} @@ e3 :> {Writing},
       Delays <- e1 :> {} @@ e2 :> {2} @@ e3 :> {1}

ASSUME InterleavedAssumption ==
  /\ S!SizedRingAssumption /\ R!SizedRingAssumption /\ W!SizedRingAssumption
  /\ M!MpmcAssumption /\ T!TimerAssumption /\ E!EventLoopAssumption

\* The threads of a kind are alike.
Alike == Permutations(Producers) \cup Permutations(Consumers)

(***************************************************************************)
(* What is Off in the parts that do not have it                            *)
(***************************************************************************)
SOwn == <<th, given, queued, faults>>
SOff == /\ th = Off /\ given = Off /\ queued = Off /\ faults = Off
COwn == <<ridx, widx, arg, elem, ret, todo, seen>>
COff == /\ ridx = Off /\ widx = Off /\ arg = Off /\ elem = Off /\ ret = Off /\ todo = Off
        /\ seen = Off
MOwn == <<_head_seq, _tail_seq, _queue_size, seq, ticket, item>>
MOff == /\ _head_seq = Off /\ _tail_seq = Off /\ _queue_size = Off /\ seq = Off /\ ticket = Off
        /\ item = Off
TOwn == <<now, clock, hand, list, ring, num, node, heap, running, fired>>
TOff == /\ now = Off /\ clock = Off /\ hand = Off /\ list = Off /\ ring = Off /\ num = Off
        /\ node = Off /\ heap = Off /\ running = Off /\ fired = Off
EOwn == <<readqueue, writequeue, timequeue, addqueue, ev_read_next, ev_events, ev_flags, left,
          event_inloop, event_fds, readset, writeset, maxfd, ev, ready, called>>
EOff == /\ readqueue = Off /\ writequeue = Off /\ timequeue = Off /\ addqueue = Off
        /\ ev_read_next = Off /\ ev_events = Off /\ ev_flags = Off /\ left = Off
        /\ event_inloop = Off /\ event_fds = Off /\ readset = Off /\ writeset = Off
        /\ maxfd = Off /\ ev = Off /\ ready = Off /\ called = Off

Start ==
  \/ part = "sized" /\ S!Init
     /\ COff /\ MOff /\ TOff /\ EOff /\ pc = Off /\ log = Off
  \/ part = "small" /\ R!Init
     /\ COff /\ MOff /\ TOff /\ EOff /\ pc = Off /\ log = Off
  \/ part = "round" /\ W!Init
     /\ COff /\ MOff /\ TOff /\ EOff /\ pc = Off /\ log = Off
  \/ part = "counted" /\ C!CInit
     /\ SOff /\ MOff /\ TOff /\ EOff
  \/ part = "mpmc" /\ M!Init
     /\ SOff /\ COff /\ TOff /\ EOff /\ size = Off /\ write_pos = Off /\ read_pos = Off
     /\ max_read_idx = Off
  \/ part = "timer" /\ T!Init
     /\ SOff /\ COff /\ MOff /\ EOff /\ size = Off /\ write_pos = Off /\ read_pos = Off
     /\ max_read_idx = Off /\ data = Off /\ log = Off
  \/ part = "events" /\ E!Init
     /\ SOff /\ COff /\ MOff /\ TOff /\ size = Off /\ write_pos = Off /\ read_pos = Off
     /\ max_read_idx = Off /\ data = Off /\ log = Off

Step ==
  /\ UNCHANGED part
  /\ \/ /\ part = "sized" /\ S!Next
        /\ UNCHANGED <<COwn, MOwn, TOwn, EOwn, pc, log>>
     \/ /\ part = "small" /\ R!Next
        /\ UNCHANGED <<COwn, MOwn, TOwn, EOwn, pc, log>>
     \/ /\ part = "round" /\ W!Next
        /\ UNCHANGED <<COwn, MOwn, TOwn, EOwn, pc, log>>
     \/ /\ part = "counted" /\ C!ring2_next
        /\ UNCHANGED <<SOwn, MOwn, TOwn, EOwn>>
     \/ /\ part = "mpmc" /\ M!Next
        /\ UNCHANGED <<SOwn, COwn, TOwn, EOwn, size, write_pos, read_pos, max_read_idx>>
     \/ /\ part = "timer" /\ T!Next
        /\ UNCHANGED <<SOwn, COwn, MOwn, EOwn, size, write_pos, read_pos, max_read_idx, data,
                       log>>
     \/ /\ part = "events" /\ E!Next
        /\ UNCHANGED <<SOwn, COwn, MOwn, TOwn, size, write_pos, read_pos, max_read_idx, data,
                       log>>

vars == <<part, size, write_pos, read_pos, max_read_idx, data, pc, log, SOwn, COwn, MOwn, TOwn,
          EOwn>>

Spec == Start /\ [][Step]_vars

(***************************************************************************)
(* Properties                                                              *)
(***************************************************************************)
\* The sized ring: every pop returns the oldest published elements, unless a push has claimed
\* a slot in use on the word of an old read_pos; slots are used again and again.
PopsInOrder == /\ part = "sized" => S!PopsInOrder
               /\ part = "small" => R!PopsInOrder
               /\ part = "round" => W!PopsInOrder

\* The counters of the three rings, which their size functions return, differ from the
\* elements in the ring by exactly what the calls under way have still to count.
SizesAgree == /\ part = "sized" => S!SizesAgree
              /\ part = "small" => R!SizesAgree
              /\ part = "round" => W!SizesAgree
              /\ part = "counted" => C!SizesAgree
              /\ part = "mpmc" => M!SizesAgree

\* The mpmc queue: enqueue and dequeue fail only on a full or empty queue, or where a call
\* that is under way keeps the cell.
FailsForAReason == [][part = "mpmc" => M!FailsRightly]_vars

\* The mpmc queue: a cell belongs to one thread from its claim to its release, and every
\* step is a push or a pop of a bounded FIFO, or no step of it.
ImplementsFifo == /\ [](part = "mpmc" => M!CellsOwned /\ M!QueueInv)
                  /\ part = "mpmc" => M!Fifo!Init
                  /\ [][part = "mpmc" => [M!Fifo!Next]_(M!Fifo!vars)]_vars

\* The timer: when timer_loop has returned, every timer that waits is due later; every node
\* is in one list or in the ring of spare ones, and after timer_uninit none is left.
NoneOverdue == part = "timer" => T!NoneOverdue /\ T!NodesOwned

\* The timer: what one timer_loop finds due is called in the order in which it was due, and
\* the hands move by exactly the time that the clock moves.
FiresInOrder ==
  [][part = "timer" => /\ T!HandsFollow
                       /\ pc = "loop" /\ pc' = "call" => fired' >= fired]_vars

\* The event loop: whatever callbacks did during the walk, an event is in exactly the queues
\* its flags say, once; timequeue is in order, and the events can be numbered so that the
\* walks only go up, also through events that have left the queue.
QueuesMatchFlags ==
  part = "events" => E!QueuesMatchFlags /\ E!LoopInv /\ E!NeverBack(2)

\* The event loop: a callback is called once for what one select has found, also when it
\* adds its event again; and no timeout that is due is left when the loop goes back to
\* select.
CalledOnce == [][part = "events" => E!CallsOnce /\ E!LeavesNoneDue]_vars
=============================================================================
