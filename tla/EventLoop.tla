------------------------------ MODULE EventLoop ------------------------------
(***************************************************************************)
(* sys/libevent/event.c: events wait in queues for their descriptor to be  *)
(* readable or writable, or for their time; event_dispatch selects, walks  *)
(* the queues and calls the callbacks, which add and delete events while   *)
(* the walk is under way.                                                  *)
(*                                                                         *)
(* A queue is the sequence of its members.  The field ev_read_next is kept *)
(* beside it, because the walks follow it from events that have left the   *)
(* queue: TAILQ_REMOVE leaves it as it was (NULL at the start, as in the   *)
(* static struct of a program).  One action is a step of a walk, or one    *)
(* call made by a callback.                                                *)
(***************************************************************************)
EXTENDS Integers, Sequences, FiniteSetsExt

CONSTANTS Events,
          ev_fd,      \* the descriptor of an event: 1, 2, ... of one word of the sets
          Kinds,      \* Kinds[e]: the ev_events that event_set gives to e
          Delays,     \* Delays[e]: the tv that event_add is given with e, in ticks, at least 1
          NULL

\* What is assumed of the constants.
EventLoopAssumption ==
  NULL \notin Events /\ \A e \in Events : Delays[e] \subseteq Nat \ {0}

R == "EVLIST_READ"
W == "EVLIST_WRITE"
T == "EVLIST_TIMEOUT"
A == "EVLIST_ADD"

VARIABLES
  readqueue, writequeue, timequeue, addqueue,
  ev_read_next, ev_events, ev_flags,
  left,             \* ev_timeout - now, or 0 when that is past
  event_inloop, event_fds,
  readset, writeset,   \* as select left them
  maxfd, ev,           \* locals of event_dispatch: ev is the event to look at next
  pc,
  ready,            \* environment: the descriptors that are readable or writable
  called            \* history: what was called since select returned

queues == <<readqueue, writequeue, timequeue, addqueue, ev_read_next, ev_flags, left>>
sets   == <<readset, writeset>>
vars   == <<queues, ev_events, event_inloop, event_fds, sets, maxfd, ev, pc, ready, called>>

Fds == {ev_fd[e] : e \in Events}

Init ==
  /\ readqueue = << >> /\ writequeue = << >> /\ timequeue = << >> /\ addqueue = << >>
  /\ ev_read_next = [e \in Events |-> NULL]
  /\ ev_events \in [Events -> UNION {Kinds[e] : e \in Events}]
  /\ \A e \in Events : ev_events[e] \in Kinds[e]
  /\ ev_flags = [e \in Events |-> {}] /\ left = [e \in Events |-> 0]
  /\ event_inloop = FALSE /\ event_fds = 0
  /\ readset = {} /\ writeset = {} /\ maxfd = 0 /\ ev = NULL
  /\ pc = "setup" /\ ready = {} /\ called = {}

(***************************************************************************)
(* The queues. An update of them is a record with the new values.          *)
(***************************************************************************)
Now == [rq |-> readqueue, wq |-> writequeue, tq |-> timequeue, aq |-> addqueue,
        next |-> ev_read_next, flags |-> ev_flags, left |-> left]

Set(n) == /\ readqueue' = n.rq /\ writequeue' = n.wq /\ timequeue' = n.tq /\ addqueue' = n.aq
          /\ ev_read_next' = n.next /\ ev_flags' = n.flags /\ left' = n.left

Queued(q, e) == \E i \in 1 .. Len(q) : q[i] = e

\* The member at i is taken out, or e is put before it.
TAILQ_REMOVE(q, i)           == SubSeq(q, 1, i - 1) \o SubSeq(q, i + 1, Len(q))
TAILQ_INSERT_BEFORE(q, i, e) == SubSeq(q, 1, i - 1) \o <<e>> \o SubSeq(q, i, Len(q))

Without(q, e) ==
  IF Queued(q, e) THEN TAILQ_REMOVE(q, Min({i \in 1 .. Len(q) : q[i] = e})) ELSE q

\* e leaves q if its flag k says that it is there.
Leave(n, q, k, e) == IF k \in n.flags[e] THEN Without(q, e) ELSE q

\* TAILQ_INSERT_TAIL and TAILQ_REMOVE of ev_read_next
LinkTail(n, e) ==
  [x \in Events |-> IF x = e THEN NULL
                    ELSE IF n.rq # << >> /\ x = n.rq[Len(n.rq)] THEN e ELSE n.next[x]]
Unlink(n, e) ==
  LET i == CHOOSE k \in DOMAIN n.rq : n.rq[k] = e
  IN IF i = 1 THEN n.next ELSE [n.next EXCEPT ![n.rq[i - 1]] = n.next[e]]

add_read(n, e) == IF R \in ev_events[e] /\ R \notin n.flags[e]
                  THEN [n EXCEPT !.next = LinkTail(n, e), !.rq = Append(@, e),
                                 !.flags[e] = @ \cup {R}]
                  ELSE n

event_add_post(n, e) ==
  LET m == add_read(n, e)
  IN IF W \in ev_events[e] /\ W \notin m.flags[e]
     THEN [m EXCEPT !.wq = Append(@, e), !.flags[e] = @ \cup {W}]
     ELSE m

\* Before the first event that is not due earlier, or at the end.
Timed(q, e, tv, due) ==
  LET later == {i \in 1 .. Len(q) : tv <= due[q[i]]}
  IN IF later = {} THEN Append(q, e) ELSE TAILQ_INSERT_BEFORE(q, Min(later), e)

add_timeout(n, e, tv) ==
  [n EXCEPT !.tq = Timed(Leave(n, @, T, e), e, tv, n.left), !.flags[e] = @ \cup {T}, !.left[e] = tv]

postpone(n, e) == IF A \in n.flags[e] THEN n
                  ELSE [n EXCEPT !.aq = Append(@, e), !.flags[e] = @ \cup {A}]

\* Mutant: nothing is postponed.
add_change_now(n, e) == event_add_post(n, e)

add_change(n, e) == IF event_inloop THEN postpone(n, e) ELSE event_add_post(n, e)

\* Mutant: READ stays set.
event_del_flag(n, e) ==
  [rq |-> Leave(n, n.rq, R, e), wq |-> Leave(n, n.wq, W, e), tq |-> Leave(n, n.tq, T, e),
   aq |-> Leave(n, n.aq, A, e),
   next |-> IF R \in n.flags[e] /\ Queued(n.rq, e) THEN Unlink(n, e) ELSE n.next,
   flags |-> [n.flags EXCEPT ![e] = @ \ {W, T, A}],
   left |-> [n.left EXCEPT ![e] = 0]]

event_del(n, e) ==
  [rq |-> Leave(n, n.rq, R, e), wq |-> Leave(n, n.wq, W, e), tq |-> Leave(n, n.tq, T, e),
   aq |-> Leave(n, n.aq, A, e),
   next |-> IF R \in n.flags[e] THEN Unlink(n, e) ELSE n.next,
   flags |-> [n.flags EXCEPT ![e] = {}],
   left |-> [n.left EXCEPT ![e] = 0]]

(***************************************************************************)
(* Calls from the program before event_dispatch and from callbacks         *)
(***************************************************************************)
InProgram == pc \in {"setup", "read_callback", "write_callback", "timeout_callback"}
Others == UNCHANGED <<event_inloop, event_fds, sets, maxfd, ev, pc, ready, called>>

call_event_add(e) ==
  /\ InProgram
  /\ \/ Set(add_change(Now, e))
     \/ \E tv \in Delays[e] : Set(add_change(add_timeout(Now, e, tv), e))
  /\ Others /\ UNCHANGED ev_events

call_event_del(e) ==
  /\ InProgram
  /\ Set(event_del(Now, e))
  /\ Others /\ UNCHANGED ev_events

\* An event is set anew only while it is in no queue.
call_event_set(e) ==
  /\ InProgram /\ ev_flags[e] = {}
  /\ \E k \in Kinds[e] : ev_events' = [ev_events EXCEPT ![e] = k]
  /\ Others /\ UNCHANGED queues

(***************************************************************************)
(* event_dispatch                                                          *)
(***************************************************************************)
First(q) == IF q = << >> THEN NULL ELSE Head(q)

Highest(n) == LET fds == {ev_fd[x] : x \in Range(n.rq) \cup Range(n.wq)}
              IN IF fds = {} THEN 0 ELSE Max(fds)

events_recalc(n, max) == event_fds' = IF max = 0 THEN Highest(n) ELSE max

\* The sets are allocated once; without memory, or when select fails, the loop is left.
event_dispatch ==
  /\ pc = "setup"
  /\ events_recalc(Now, 0)
  /\ pc' \in {"select", "exit"}
  /\ UNCHANGED <<queues, ev_events, event_inloop, sets, maxfd, ev, ready, called>>

select_fails ==
  /\ pc = "select" /\ pc' = "exit"
  /\ UNCHANGED <<queues, ev_events, event_inloop, event_fds, sets, maxfd, ev, ready, called>>

\* Mutant: the argument of select is event_fds, not event_fds + 1.
Watched_below(q, k) == {fd \in {ev_fd[x] : x \in Range(q)} : fd < event_fds /\ <<fd, k>> \in ready}

Watched(q, k) == {fd \in {ev_fd[x] : x \in Range(q)} : fd < event_fds + 1 /\ <<fd, k>> \in ready}

\* select returns when something is ready or a timeout is due, and, where no timeout is
\* set, after TIMEOUT_DEFAULT.
select ==
  /\ pc = "select"
  /\ readset' = Watched(readqueue, R) /\ writeset' = Watched(writequeue, W)
  /\ \/ readset' \cup writeset' # {}
     \/ timequeue # << >> => left[Head(timequeue)] = 0
  /\ maxfd' = 0 /\ event_inloop' = TRUE /\ called' = {}
  /\ ev' = First(readqueue) /\ pc' = "read"
  /\ UNCHANGED <<queues, ev_events, event_fds, ready>>

Higher(a, b) == IF a > b THEN a ELSE b

\* One event of a walk: its callback is called, after it has left all queues, or its
\* descriptor is one to wait for. The successor is loaded first.
walk(k, set, here, there) ==
  /\ pc = here /\ ev # NULL
  /\ ev' = ev_read_next[ev]
  /\ \/ /\ ev_fd[ev] \in set
        /\ Set(event_del(Now, ev))
        /\ called' = called \cup {<<ev, k>>}
        /\ ready' = ready \ {<<ev_fd[ev], k>>}
        /\ pc' = there /\ UNCHANGED maxfd
     \/ /\ ev_fd[ev] \notin set
        /\ maxfd' = Higher(ev_fd[ev], maxfd)
        /\ UNCHANGED <<queues, pc, ready, called>>
  /\ UNCHANGED <<ev_events, event_inloop, event_fds, sets>>

walk_read == walk(R, readset, "read", "read_callback")

walk_read_end ==
  /\ pc = "read" /\ ev = NULL
  /\ ev' = First(writequeue) /\ pc' = "write"
  /\ UNCHANGED <<queues, ev_events, event_inloop, event_fds, sets, maxfd, ready, called>>

\* This walk, too, goes from ev to its ev_read_next.
walk_write == walk(W, writeset, "write", "write_callback")

walk_write_end ==
  /\ pc = "write" /\ ev = NULL
  /\ event_inloop' = FALSE /\ pc' = "add"
  /\ UNCHANGED <<queues, ev_events, event_fds, sets, maxfd, ev, ready, called>>

Postponed(n, e) == [n EXCEPT !.aq = Tail(@), !.flags[e] = @ \ {A}]

\* What was postponed is added.
add_postponed ==
  /\ pc = "add" /\ addqueue # << >>
  /\ Set(event_add_post(Postponed(Now, Head(addqueue)), Head(addqueue)))
  /\ maxfd' = Higher(ev_fd[Head(addqueue)], maxfd)
  /\ UNCHANGED <<ev_events, event_inloop, event_fds, sets, ev, pc, ready, called>>

recalc ==
  /\ pc = "add" /\ addqueue = << >>
  /\ events_recalc(Now, maxfd)
  /\ pc' = "timeout"
  /\ UNCHANGED <<queues, ev_events, event_inloop, sets, maxfd, ev, ready, called>>

(***************************************************************************)
(* timeout_process                                                         *)
(***************************************************************************)
Due == timequeue # << >> /\ left[Head(timequeue)] = 0

timeout_call ==
  /\ pc = "timeout" /\ Due
  /\ Set([Now EXCEPT !.tq = Tail(@), !.flags[Head(timequeue)] = @ \ {T}])
  /\ pc' = "timeout_callback"
  /\ UNCHANGED <<ev_events, event_inloop, event_fds, sets, maxfd, ev, ready, called>>

timeout_end ==
  /\ pc = "timeout" /\ ~Due
  /\ pc' = "select" /\ maxfd' = 0 /\ readset' = {} /\ writeset' = {} /\ called' = {}
  /\ UNCHANGED <<queues, ev_events, event_inloop, event_fds, ev, ready>>

callback_return ==
  /\ \/ pc = "read_callback" /\ pc' = "read"
     \/ pc = "write_callback" /\ pc' = "write"
     \/ pc = "timeout_callback" /\ pc' = "timeout"
  /\ UNCHANGED <<queues, ev_events, event_inloop, event_fds, sets, maxfd, ev, ready, called>>

(***************************************************************************)
(* The environment: data arrives and time passes while select waits.       *)
(***************************************************************************)
arrive ==
  /\ pc = "select"
  /\ \E fd \in Fds, k \in {R, W} : ready' = ready \cup {<<fd, k>>}
  /\ UNCHANGED <<queues, ev_events, event_inloop, event_fds, sets, maxfd, ev, pc, called>>

tick ==
  /\ pc = "select" /\ timequeue # << >> /\ ~Due
  /\ left' = [e \in Events |-> IF left[e] > 0 THEN left[e] - 1 ELSE 0]
  /\ UNCHANGED <<readqueue, writequeue, timequeue, addqueue, ev_read_next, ev_flags>>
  /\ UNCHANGED <<ev_events, event_inloop, event_fds, sets, maxfd, ev, pc, ready, called>>

loop == \/ event_dispatch \/ select \/ walk_read \/ walk_read_end \/ walk_write
        \/ walk_write_end \/ add_postponed \/ recalc \/ timeout_call \/ timeout_end \/ callback_return

Next == \/ loop \/ select_fails \/ arrive \/ tick
        \/ \E e \in Events : call_event_add(e) \/ call_event_del(e) \/ call_event_set(e)

Spec == Init /\ [][Next]_vars

\* The loop goes on: a callback returns, and select when it can. Time passes.
FairSpec == Spec /\ WF_vars(loop) /\ WF_vars(tick)

(***************************************************************************)
(* Properties                                                              *)
(***************************************************************************)
Once(q, k) == /\ IsInjective(q)
              /\ \A e \in Events : Queued(q, e) <=> k \in ev_flags[e]

\* Whatever callbacks did during the walk, an event is in exactly the queues its flags say,
\* once.
QueuesMatchFlags ==
  /\ Once(readqueue, R) /\ Once(writequeue, W) /\ Once(timequeue, T) /\ Once(addqueue, A)

\* "We are in the event loop right now, we have to postpone the change until later": an
\* event that its callback adds again is not called a second time for the same select.
CallsOnce == pc' # pc /\ pc' \in {"read_callback", "write_callback"} => called' # called

CalledOnce == [][CallsOnce]_vars

\* The event waits for its descriptor, and that is readable.
Readable(e) == Queued(readqueue, e) /\ <<ev_fd[e], R>> \in ready

\* Such an event is called, whatever other callbacks add and delete in the meantime, and
\* although the walk goes through deleted events; when event_fds is too low for it, after
\* the next timeout.
ReadIsServed == \A e \in Events : Readable(e) ~> (pc = "exit" \/ ~Readable(e))

\* When the loop goes back to select, every timeout that was due has been called,
\* whatever timeouts the callbacks added and deleted.
LeavesNoneDue ==
  pc = "timeout" /\ pc' = "select" => \A e \in Events : T \in ev_flags[e] => left[e] > 0

NoneOverdue == [][LeavesNoneDue]_vars

\* "Highest fd in fd set" (event.c): select looks at every descriptor an event waits for.
HighestFd == pc = "select" => event_fds >= Highest(Now)

(***************************************************************************)
(* The inductive invariant                                                 *)
(***************************************************************************)
ReadWalk  == pc \in {"read", "read_callback"}
WriteWalk == pc \in {"write", "write_callback"}

TypeOK ==
  /\ readqueue \in Seq(Events) /\ writequeue \in Seq(Events)
  /\ timequeue \in Seq(Events) /\ addqueue \in Seq(Events)
  /\ ev_read_next \in [Events -> Events \cup {NULL}]
  /\ ev_flags \in [Events -> SUBSET {R, W, T, A}] /\ left \in [Events -> Nat]
  /\ ev \in Events \cup {NULL} /\ called \subseteq Events \X {R, W}
  /\ event_inloop \in BOOLEAN

\* The first of timequeue is the first that is due.
TimesInOrder ==
  \A i, j \in 1 .. Len(timequeue) : i < j => left[timequeue[i]] <= left[timequeue[j]]

\* ev_read_next of an event in readqueue is the event after it.
Linked ==
  \A i \in 1 .. Len(readqueue) :
    ev_read_next[readqueue[i]] = IF i < Len(readqueue) THEN readqueue[i + 1] ELSE NULL

\* Only the walks are in the loop, and the first of them calls nobody to write.
WalksInLoop == /\ event_inloop <=> ReadWalk \/ WriteWalk
               /\ ReadWalk => \A x \in Events : <<x, W>> \notin called

\* r numbers the events so that ev_read_next, also of an event that has left the queue,
\* goes to a higher number, and the walk is beyond the events it has called.
Numbers(r) ==
  /\ \A x \in Events : ev_read_next[x] # NULL => r[x] < r[ev_read_next[x]]
  /\ ev # NULL => \A x \in Events :
                     /\ ReadWalk /\ <<x, R>> \in called => r[x] < r[ev]
                     /\ WriteWalk /\ <<x, W>> \in called => r[x] < r[ev]

NeverBack(top) == \E r \in [Events -> 0 .. top] : Numbers(r)

LoopInv == TypeOK /\ QueuesMatchFlags /\ TimesInOrder /\ Linked /\ WalksInLoop
=============================================================================
