------------------------------ MODULE MCWaiting ------------------------------
(***************************************************************************)
(* The programs of the repository that wait, in one instance for TLC: the  *)
(* two queues with condition variables, the ring with a semaphore, the     *)
(* spinning threads of the mpmc queue and of the list queue, the event     *)
(* loop and the process pool behind select, and the machine of fsm, which  *)
(* runs until its table ends.                                              *)
(* A behaviour is one of a single part.  The variables of the others are   *)
(* Off; pc and main are shared.                                            *)
(***************************************************************************)
EXTENDS BlockingQueue, TLC

CONSTANTS i1, i2, o1, o2, e1, e2, k1, k2, k3, Junk, NULL, Off, MaxPush

VARIABLE part
VARIABLES buffer_, read_pos_, write_pos_, notEmpty_, notFull_, push_num, pop_num, out
VARIABLES ring, sem, live, th
VARIABLES _head_seq, _tail_seq, _queue_size, seq, data, ticket, item, log
VARIABLES readqueue, writequeue, timequeue, addqueue, ev_read_next, ev_events, ev_flags, left,
          event_inloop, event_fds, readset, writeset, maxfd, ev, ready, called
VARIABLES s_state, index, fd_client, listening, readyset, cpc, flags, fds, pids, held, backlog,
          unborn, handled, dropped, lost
VARIABLES table, node, state, event, ret
VARIABLES lnode, head, tail, num, pushes, lth, size, write_pos, read_pos, max_read_idx, ldata,
          call, queued, faults

TwoInputs  == {i1, i2}
TwoOutputs == {o1, o2}

B == INSTANCE BoundedQueue WITH
       Pushers <- Inputs, Poppers <- Outputs, capacity_ <- 3, test_num <- 4

P == INSTANCE PcQueue WITH
       Producers <- Inputs, Consumers <- Outputs, PushTop <- 2, PopTop <- 2, Capacity <- 2,
       FalseEmpty <- TRUE, CreateFails <- TRUE, Nil <- NULL

M == INSTANCE MpmcQueue WITH Producers <- Inputs, Consumers <- {o1}, _size <- 2

\* Two producers, or a producer and a consumer, with nodes to be had.
L == INSTANCE ListQueue WITH
       Producers <- Inputs, Consumers <- {o1}, Teams <- {{i1, i2}, {i1, o1}}, Nodes <- 1 .. 6,
       UnitNum <- 4, MallocFails <- FALSE, MaxPush <- 2, Wrap <- 16,
       node <- lnode, data <- ldata, th <- lth

\* Two events, each on a descriptor and with a timeout of its own.
Reading == {"EVLIST_READ"}
Writing == {"EVLIST_WRITE"}

E == INSTANCE EventLoop WITH
       Events <- {e1, e2},
       ev_fd  <- e1 :> 1 @@ e2 :> 2,
       Kinds  <- e1 :> {Reading} @@ e2 :> {Reading, Reading \cup Writing},
       Delays <- e1 :> {1} @@ e2 :> {1}

S == INSTANCE ProcessPool WITH Conns <- {k1, k2, k3}, child_cnt <- 2

\* The table of the stop watch, its nodes and the switches of a node in any order.
Stopwatch == INSTANCE Watch WITH
               Tables <- {}, MAX_SWITCH_NUM <- 5, Events <- {}, judge <- LAMBDA w, s, e : {}

Judge(w, s, e) == Stopwatch!watch_judge(w, s, e)

Reordered(s) == {[i \in DOMAIN s |-> s[f[i]]] : f \in Permutations(DOMAIN s)}

AnyOrder ==
  LET arr == Stopwatch!watch_arr
  IN UNION {Reordered([arr EXCEPT ![2].switcher = x, ![3].switcher = y]) :
              x \in Reordered(arr[2].switcher), y \in Reordered(arr[3].switcher)}

W == INSTANCE Watch WITH
       Tables <- AnyOrder, MAX_SWITCH_NUM <- 5, Events <- Stopwatch!WatchEvents, judge <- Judge

ASSUME WaitingAssumption ==
  /\ B!BoundedAssumption /\ P!PcQueueAssumption /\ M!MpmcAssumption /\ S!PoolAssumption
  /\ E!EventLoopAssumption /\ W!FsmAssumption

(***************************************************************************)
(* What is Off in the parts that do not have it                            *)
(***************************************************************************)
QOwn == <<mutex_, waiting, queue_, idx, puts, taken>>
QOff == /\ mutex_ = Nobody /\ waiting = {} /\ queue_ = << >> /\ idx = Off
        /\ puts = << >> /\ taken = << >>
BOwn == <<buffer_, read_pos_, write_pos_, notEmpty_, notFull_, push_num, pop_num, out>>
BOff == /\ buffer_ = Off /\ read_pos_ = Off /\ write_pos_ = Off /\ notEmpty_ = Off
        /\ notFull_ = Off /\ push_num = Off /\ pop_num = Off /\ out = Off
POwn == <<ring, sem, live, th>>
POff == /\ ring = Off /\ sem = Off /\ live = Off /\ th = Off
MOwn == <<_head_seq, _tail_seq, _queue_size, seq, data, ticket, item, log>>
MOff == /\ _head_seq = Off /\ _tail_seq = Off /\ _queue_size = Off /\ seq = Off /\ data = Off
        /\ ticket = Off /\ item = Off /\ log = Off
EOwn == <<readqueue, writequeue, timequeue, addqueue, ev_read_next, ev_events, ev_flags, left,
          event_inloop, event_fds, readset, writeset, maxfd, ev, ready, called>>
EOff == /\ readqueue = Off /\ writequeue = Off /\ timequeue = Off /\ addqueue = Off
        /\ ev_read_next = Off /\ ev_events = Off /\ ev_flags = Off /\ left = Off
        /\ event_inloop = Off /\ event_fds = Off /\ readset = Off /\ writeset = Off
        /\ maxfd = Off /\ ev = Off /\ ready = Off /\ called = Off
SOwn == <<s_state, index, fd_client, listening, readyset, cpc, flags, fds, pids, held, backlog,
          unborn, handled, dropped, lost>>
SOff == /\ s_state = Off /\ index = Off /\ fd_client = Off /\ listening = Off /\ readyset = Off
        /\ cpc = Off /\ flags = Off /\ fds = Off /\ pids = Off /\ held = Off /\ backlog = Off
        /\ unborn = Off /\ handled = Off /\ dropped = Off /\ lost = Off
WOwn == <<table, node, state, event, ret>>
WOff == /\ table = Off /\ node = Off /\ state = Off /\ event = Off /\ ret = Off
LOwn == <<lnode, head, tail, num, pushes, lth, size, write_pos, read_pos, max_read_idx, ldata,
          call, queued, faults>>
LOff == /\ lnode = Off /\ head = Off /\ tail = Off /\ num = Off /\ pushes = Off /\ lth = Off
        /\ size = Off /\ write_pos = Off /\ read_pos = Off /\ max_read_idx = Off /\ ldata = Off
        /\ call = Off /\ queued = Off /\ faults = Off

Start ==
  \/ part = "blocking" /\ Init
     /\ BOff /\ POff /\ MOff /\ EOff /\ SOff /\ WOff /\ LOff
  \/ part = "bounded" /\ B!Init /\ main = Off
     /\ QOff /\ POff /\ MOff /\ EOff /\ SOff /\ WOff /\ LOff
  \/ part = "semaphore" /\ P!Init /\ pc = Off
     /\ QOff /\ BOff /\ MOff /\ EOff /\ SOff /\ WOff /\ LOff
  \/ part = "mpmc" /\ M!Init /\ main = Off
     /\ QOff /\ BOff /\ POff /\ EOff /\ SOff /\ WOff /\ LOff
  \/ part = "events" /\ E!Init /\ main = Off
     /\ QOff /\ BOff /\ POff /\ MOff /\ SOff /\ WOff /\ LOff
  \/ part = "server" /\ S!Init /\ main = Off
     /\ QOff /\ BOff /\ POff /\ MOff /\ EOff /\ WOff /\ LOff
  \/ part = "watch" /\ W!Init /\ pc = Off /\ main = Off
     /\ QOff /\ BOff /\ POff /\ MOff /\ EOff /\ SOff /\ LOff
  \/ part = "list" /\ L!Init /\ pc = Off /\ main = Off
     /\ QOff /\ BOff /\ POff /\ MOff /\ EOff /\ SOff /\ WOff

Step ==
  /\ UNCHANGED part
  /\ \/ part = "blocking" /\ Next /\ UNCHANGED <<LOwn, WOwn, BOwn, POwn, MOwn, EOwn, SOwn>>
     \/ part = "bounded" /\ B!Next /\ UNCHANGED <<LOwn, WOwn, QOwn, POwn, MOwn, EOwn, SOwn, main>>
     \/ part = "semaphore" /\ P!Next /\ UNCHANGED <<LOwn, WOwn, QOwn, BOwn, MOwn, EOwn, SOwn, pc>>
     \/ part = "mpmc" /\ M!Next /\ UNCHANGED <<LOwn, WOwn, QOwn, BOwn, POwn, EOwn, SOwn, main>>
     \/ part = "events" /\ E!Next /\ UNCHANGED <<LOwn, WOwn, QOwn, BOwn, POwn, MOwn, SOwn, main>>
     \/ part = "server" /\ S!Next /\ UNCHANGED <<LOwn, WOwn, QOwn, BOwn, POwn, MOwn, EOwn, main>>
     \/ part = "watch" /\ W!Next /\ UNCHANGED <<LOwn, pc, main, QOwn, BOwn, POwn, MOwn, EOwn, SOwn>>
     \/ part = "list" /\ L!Next /\ UNCHANGED <<pc, main, QOwn, BOwn, POwn, MOwn, EOwn, SOwn, WOwn>>

Everything == <<part, pc, main, QOwn, BOwn, POwn, MOwn, EOwn, SOwn, WOwn, LOwn>>

(***************************************************************************)
(* The fairness of each part, when it is the one                           *)
(***************************************************************************)
QFair == /\ \A p \in Inputs : WF_vars(part = "blocking" /\ input(p))
         /\ \A c \in Outputs : WF_vars(part = "blocking" /\ output(c))
         /\ WF_vars(part = "blocking" /\ create_end) /\ WF_vars(part = "blocking" /\ join)
         /\ <>[][part = "blocking" => \A c \in Outputs : ~spurious_wakeup(c)]_vars

BFair == /\ \A p \in Inputs : WF_(B!vars)(part = "bounded" /\ B!push(p))
         /\ \A c \in Outputs : WF_(B!vars)(part = "bounded" /\ B!pop(c))
         /\ <>[][part = "bounded" => \A t \in Threads : ~B!spurious_wakeup(t)]_(B!vars)

PFair == /\ WF_(P!vars)(part = "semaphore" /\ P!main_next)
         /\ \A t \in Threads : WF_(P!vars)(part = "semaphore" /\ P!generate_thread(t))
         /\ \A p \in Inputs : WF_(P!vars)(part = "semaphore" /\ P!producer(p))
         /\ \A c \in Outputs : WF_(P!vars)(part = "semaphore" /\ P!consumer(c))

MFair == /\ \A p \in Inputs : WF_(M!vars)(part = "mpmc" /\ M!enqueue(p))
         /\ WF_(M!vars)(part = "mpmc" /\ (M!dequeue(o1) \/ M!dequeue_call(o1)))
         /\ <>[][part = "mpmc" => \A t \in M!Threads : ~M!spurious_failure(t)]_(M!vars)

LFair == /\ \A p \in Inputs : WF_(L!vars)(part = "list" /\ L!queue_push(p))
         /\ WF_(L!vars)(part = "list" /\ L!queue_pop(o1))

Behaviour ==
  /\ Start /\ [][Step]_Everything
  /\ QFair /\ BFair /\ PFair /\ MFair /\ LFair
  /\ WF_(E!vars)(part = "events" /\ E!loop) /\ WF_(E!vars)(part = "events" /\ E!tick)
  /\ WF_(S!vars)(part = "server" /\ S!main)
  /\ WF_(W!vars)(part = "watch" /\ W!fsm_run)

(***************************************************************************)
(* Properties                                                              *)
(***************************************************************************)
\* block_queue: every output ends, or sleeps in take on an empty queue that nobody fills.
\* bounded_queue: every push ends; a pop ends, or sleeps on an empty queue.
\* unlock_ring1: main returns, unless a false empty has cost a permit.
EndsOrSleeps ==
  /\ <>[](part = "blocking" => \A c \in Outputs : Over(c))
  /\ <>[](part = "bounded" => \A t \in Threads : B!Over(t))
  /\ <>(part = "semaphore" => main = "done" \/ P!PermitLost)

\* Each step of the bounded queue is a push or a pop of a FIFO that holds capacity_ - 1
\* elements, or leaves it alone.
BoundedIsFifo == /\ part = "bounded" => B!Fifo!Init
                 /\ [][part = "bounded" => [B!Fifo!Next]_(B!Fifo!vars)]_Everything

\* Every ticket that enqueue of the mpmc queue claims is filled and taken, also when a
\* thread sleeps in the middle of its call.
EnqueuedIsDequeued ==
  \A k \in 1 .. MaxPush :
    (part = "mpmc" /\ _head_seq >= k) ~> (part = "mpmc" /\ _tail_seq >= k)

\* A call of queue_push of the list queue that has a node returns, whatever the others do: it
\* does not go round for ever between tail and next, nor in the ring of spare nodes.
PushEnds == \A p \in Inputs : (part = "list" /\ L!At(p, "tail")) ~> (part = "list" /\ L!At(p, "idle"))

\* What a sleeper waits for is announced. bounded_queue: while somebody waits for room or for
\* an element, every one there is has a thread that is going to use it. unlock_ring1: every
\* permit stands for an element in the ring, and every block has one owner. With the
\* invariants from which this is proved.
WaitersCovered == /\ part = "bounded" => B!WaitersCovered /\ B!BoundedInv
                  /\ part = "semaphore" => P!WaitersCovered /\ P!BlocksOwned /\ P!PcInv

\* Whoever waits for select is served. The event loop calls an event whose descriptor is
\* readable, whatever the callbacks of others add and delete, and when event_fds is too low
\* for it, after the next timeout; the process pool accepts a client that connects, unless
\* the parent exits.
SelectServes ==
  /\ \A e \in {e1, e2} :
       (part = "events" /\ E!Readable(e)) ~> (part = "events" /\ (pc = "exit" \/ ~E!Readable(e)))
  /\ \A k \in {k1, k2, k3} :
       (part = "server" /\ k \in backlog)
         ~> (part = "server" /\ (k \notin backlog \/ pc = "exit"))

\* The process pool: what the parent thinks of a living child is what the child does, each
\* connection is in one place, and one is dropped only when every child is busy or dead.
\* With the invariant from which this is proved.
StateAgrees == /\ [](part = "server" => S!StateAgrees /\ S!ConnsOwned /\ S!PoolInv)
               /\ [][part = "server" => S!DropsWhenBusy]_Everything

\* The machine: sorting and searching find every switch of the table and nothing else, and
\* every step is a switch of the table that its judge allows.
FollowsTable == /\ [](part = "watch" => W!FindsSwitches)
                /\ [][part = "watch" => W!StepOfTable]_Everything

\* The machine: fsm_run returns; and the stop watch, started with an event its state knows,
\* is taken to the end.
RunsDown ==
  /\ (part = "watch" /\ ret = W!Running) ~> (part = "watch" /\ ret # W!Running)
  /\ (part = "watch" /\ W!Started) ~> (part = "watch" /\ state = W!EWATCH_CLOSED)
=============================================================================
