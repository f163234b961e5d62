----------------------------- MODULE ProcessPool -----------------------------
(***************************************************************************)
(* sys/tcp/simple_framework: a parent accepts connections and hands each,  *)
(* over a socketpair, to the first child it takes to be idle; the child    *)
(* handles it and writes its pid back, which makes it idle again.          *)
(*                                                                         *)
(* A connection is a model value.  A child dies when its client sends a    *)
(* message (handle_request then calls my_recv with recv_len NULL), when    *)
(* its client's socket fails, or when recv_fd fails (it announces two      *)
(* buffers and sets up one) and leaves it descriptor 0.                    *)
(***************************************************************************)
EXTENDS Naturals, Sequences, FiniteSets, FiniteSetsExt, SequencesExt

CONSTANTS Conns, child_cnt, NULL

Children == 1..child_cnt

\* What is assumed of the constants.
PoolAssumption == child_cnt \in Nat /\ NULL \notin Children /\ NULL \notin Conns

VARIABLES
  s_state,      \* arr_child[c].s_state
  index,        \* dispatch: the child that is being sent a connection
  fd_client,    \* the parent's accepted connection
  listening, readyset,   \* the outcome of select
  pc,           \* the parent: "select", "accept", "send", "read" or "exit"
  cpc,          \* a child: "read", "recv_fd", "handle" or "dead"
  flags, fds,   \* the socketpairs, to the child: indices and descriptors
  pids,         \* and to the parent
  held,         \* the fd_client of a child
  backlog, unborn,
  handled, dropped, lost

parent == <<s_state, index, fd_client, listening, readyset, pc>>
wires  == <<flags, fds, pids>>
conns  == <<backlog, unborn, handled, dropped, lost>>
vars   == <<parent, cpc, wires, held, conns>>

Init ==
  /\ s_state = [c \in Children |-> "ST_IDLE"]
  /\ index = NULL /\ fd_client = NULL /\ listening = FALSE /\ readyset = {} /\ pc = "select"
  /\ cpc = [c \in Children |-> "read"]
  /\ flags = [c \in Children |-> 0] /\ fds = [c \in Children |-> << >>]
  /\ pids = [c \in Children |-> 0] /\ held = [c \in Children |-> NULL]
  /\ backlog = {} /\ unborn = Conns /\ handled = {} /\ dropped = {} /\ lost = {}

connect(k) ==
  /\ pc # "exit" /\ k \in unborn
  /\ unborn' = unborn \ {k} /\ backlog' = backlog \cup {k}
  /\ UNCHANGED <<parent, cpc, wires, held, handled, dropped, lost>>

(***************************************************************************)
(* The parent: main                                                        *)
(***************************************************************************)
Readable == {c \in Children : pids[c] > 0 \/ cpc[c] = "dead"}

\* A select that times out or is interrupted is repeated.
select ==
  /\ pc = "select"
  /\ listening' = (backlog # {}) /\ readyset' = Readable
  /\ listening' \/ readyset' # {}
  /\ pc' = IF listening' THEN "accept" ELSE "read"
  /\ UNCHANGED <<s_state, index, fd_client, cpc, wires, held, conns>>

select_fails ==
  /\ pc = "select" /\ pc' = "exit"
  /\ UNCHANGED <<s_state, index, fd_client, listening, readyset, cpc, wires, held, conns>>

Idle == {c \in Children : s_state[c] = "ST_IDLE"}

\* dispatch up to the write, which to the socket of a dead child kills the parent (SIGPIPE).
\* Without an idle child the connection is closed.
dispatch(fd) ==
  \/ /\ Idle = {} /\ dropped' = dropped \cup ({fd} \ {NULL}) /\ pc' = "read"
     /\ UNCHANGED <<index, fd_client, flags>>
  \/ /\ Idle # {} /\ cpc[Min(Idle)] # "dead"
     /\ index' = Min(Idle) /\ fd_client' = fd
     /\ flags' = [flags EXCEPT ![Min(Idle)] = @ + 1]
     /\ pc' = "send" /\ UNCHANGED dropped
  \/ /\ Idle # {} /\ cpc[Min(Idle)] = "dead"
     /\ pc' = "exit" /\ UNCHANGED <<index, fd_client, flags, dropped>>

\* A failed accept, as of a client that has gone, is dispatched like a connection.
accept(k) ==
  /\ pc = "accept" /\ k \in backlog /\ backlog' = backlog \ {k}
  /\ \E fd \in {k, NULL} :
       /\ dispatch(fd)
       /\ lost' = IF fd = NULL \/ pc' = "exit" THEN lost \cup {k} ELSE lost
  /\ UNCHANGED <<s_state, listening, readyset, cpc, fds, pids, held, unborn, handled>>

Sent(to) ==
  /\ pc = "send"
  /\ \/ /\ cpc[index] # "dead"
        /\ fds' = [c \in Children |-> IF c \in to /\ fd_client # NULL
                                      THEN Append(fds[c], fd_client) ELSE fds[c]]
        /\ s_state' = [c \in Children |-> IF c \in to THEN "ST_BUSY" ELSE s_state[c]]
        /\ pc' = "read" /\ UNCHANGED lost
     \/ /\ cpc[index] = "dead" /\ lost' = lost \cup ({fd_client} \ {NULL}) /\ pc' = "exit"
        /\ UNCHANGED <<fds, s_state>>
  /\ index' = NULL /\ fd_client' = NULL
  /\ UNCHANGED <<listening, readyset, cpc, flags, pids, held, backlog, unborn, handled, dropped>>

\* Mutant: dispatch does not stop at the first idle child.
send_fd_all == Sent(Idle)

\* The rest of dispatch: send_fd, which sends nothing when accept has failed, and the
\* state; then close(fd_client).
send_fd == Sent({index})

\* One read of every child that select reported, a dead one's end of file included.
read_pids ==
  /\ pc = "read" /\ pc' = "select"
  /\ pids' = [c \in Children |-> IF c \in readyset /\ pids[c] > 0 THEN pids[c] - 1 ELSE pids[c]]
  /\ s_state' = [c \in Children |-> IF c \in readyset THEN "ST_IDLE" ELSE s_state[c]]
  /\ listening' = FALSE /\ readyset' = {}
  /\ UNCHANGED <<index, fd_client, cpc, flags, fds, held, conns>>

(***************************************************************************)
(* A child: child_main                                                     *)
(***************************************************************************)
child_read(c) ==
  /\ cpc[c] = "read" /\ flags[c] > 0
  /\ flags' = [flags EXCEPT ![c] = @ - 1] /\ cpc' = [cpc EXCEPT ![c] = "recv_fd"]
  /\ UNCHANGED <<parent, fds, pids, held, conns>>

recv_fd(c) ==
  /\ cpc[c] = "recv_fd" /\ fds[c] # << >>
  /\ held' = [held EXCEPT ![c] = Head(fds[c])] /\ fds' = [fds EXCEPT ![c] = Tail(@)]
  /\ cpc' = [cpc EXCEPT ![c] = "handle"]
  /\ UNCHANGED <<parent, flags, pids, conns>>

\* What a dead child held, or was sent, is closed with it.
die(c) ==
  /\ cpc' = [cpc EXCEPT ![c] = "dead"]
  /\ lost' = lost \cup ToSet(fds[c]) \cup ({held[c]} \ {NULL})
  /\ held' = [held EXCEPT ![c] = NULL] /\ fds' = [fds EXCEPT ![c] = << >>]
  /\ flags' = [flags EXCEPT ![c] = 0]
  /\ UNCHANGED <<parent, pids, backlog, unborn, handled, dropped>>

child_dies(c) == cpc[c] \in {"recv_fd", "handle"} /\ die(c)

\* The parent's end of a socketpair is inherited by the children forked later.
Open(c) == pc # "exit" \/ \E d \in Children : d > c /\ cpc[d] # "dead"

child_eof(c) == cpc[c] = "read" /\ flags[c] = 0 /\ ~Open(c) /\ die(c)

\* The client sent a length of 0 or closed; the child never closes the connection.
handle_request(c) ==
  /\ cpc[c] = "handle" /\ Open(c)
  /\ handled' = handled \cup {held[c]} /\ held' = [held EXCEPT ![c] = NULL]
  /\ pids' = [pids EXCEPT ![c] = @ + 1] /\ cpc' = [cpc EXCEPT ![c] = "read"]
  /\ UNCHANGED <<parent, flags, fds, backlog, unborn, dropped, lost>>

main == select \/ send_fd \/ read_pids \/ \E k \in Conns : accept(k)

Next == \/ main \/ select_fails
        \/ \E k \in Conns : connect(k)
        \/ \E c \in Children : \/ child_read(c) \/ recv_fd(c) \/ child_dies(c)
                               \/ child_eof(c) \/ handle_request(c)

Spec == Init /\ [][Next]_vars

\* The parent does not stop.
FairSpec == Spec /\ WF_vars(main)

(***************************************************************************)
(* Properties                                                              *)
(***************************************************************************)
Work(c) == flags[c] + pids[c] + (IF cpc[c] = "read" THEN 0 ELSE 1)

\* The parent's view of a child agrees with the child: one that is alive and marked ST_IDLE
\* has nothing to do, and one marked ST_BUSY has exactly one connection or one unread
\* answer, although the parent works from the readyset of an earlier select.
StateAgrees ==
  pc # "exit" =>
    \A c \in Children : cpc[c] # "dead" =>
      Work(c) = IF s_state[c] = "ST_BUSY" \/ index = c THEN 1 ELSE 0

\* The connection k is in the place x and in no other.
OnlyIn(k, x) ==
  /\ k \in unborn    <=> x = <<"unborn", 0>>
  /\ k \in backlog   <=> x = <<"backlog", 0>>
  /\ k \in handled   <=> x = <<"handled", 0>>
  /\ k \in dropped   <=> x = <<"dropped", 0>>
  /\ k \in lost      <=> x = <<"lost", 0>>
  /\ fd_client = k   <=> x = <<"fd_client", 0>>
  /\ \A c \in Children : /\ held[c] = k <=> x = <<"held", c>>
                         /\ Contains(fds[c], k) <=> x = <<"fds", c>>

Places == ({"unborn", "backlog", "handled", "dropped", "lost", "fd_client"} \X {0})
            \cup ({"held", "fds"} \X Children)

\* A connection is in one place: dispatch gives it to one child, and what a child or the
\* parent takes with it when it dies is not handled by another.
ConnsOwned == \A k \in Conns : \E x \in Places : OnlyIn(k, x)

\* The parent closes a connection unserved only if no living child is free.
DropsWhenBusy == dropped' # dropped => \A c \in Children : cpc[c] = "dead" \/ Work(c) = 1

DroppedWhenBusy == [][DropsWhenBusy]_vars

\* A client that connects is accepted, unless the parent exits.
Accepted == \A k \in Conns : k \in backlog ~> (k \notin backlog \/ pc = "exit")

(***************************************************************************)
(* The inductive invariant                                                 *)
(***************************************************************************)
TypeOK ==
  /\ s_state \in [Children -> {"ST_IDLE", "ST_BUSY"}]
  /\ index \in Children \cup {NULL} /\ fd_client \in Conns \cup {NULL}
  /\ listening \in BOOLEAN /\ readyset \in SUBSET Children
  /\ pc \in {"select", "accept", "send", "read", "exit"}
  /\ cpc \in [Children -> {"read", "recv_fd", "handle", "dead"}]
  /\ flags \in [Children -> Nat] /\ pids \in [Children -> Nat]
  /\ fds \in [Children -> Seq(Conns)] /\ held \in [Children -> Conns \cup {NULL}]

\* The parent is sending to a child it takes to be idle; what a select has reported is still
\* so when it is acted upon.
ParentInv ==
  /\ pc = "send" <=> index # NULL
  /\ index # NULL => s_state[index] = "ST_IDLE"
  /\ fd_client # NULL => pc = "send"
  /\ \A c \in readyset : pids[c] > 0 \/ cpc[c] = "dead"

\* The states agree, also after the parent has gone.
AgreeInv ==
  \A c \in Children : cpc[c] # "dead" =>
    Work(c) = IF s_state[c] = "ST_BUSY" \/ index = c THEN 1 ELSE 0

\* A child holds a connection while it handles it, and is sent one at a time.
ChildInv ==
  \A c \in Children :
    /\ held[c] # NULL <=> cpc[c] = "handle"
    /\ fds[c] # << >> => /\ Len(fds[c]) = 1 /\ s_state[c] = "ST_BUSY"
                         /\ cpc[c] = "recv_fd" \/ (cpc[c] = "read" /\ flags[c] > 0)
    /\ cpc[c] = "handle" => s_state[c] = "ST_BUSY"
    /\ index = c => pids[c] = 0

PoolInv == TypeOK /\ ParentInv /\ AgreeInv /\ ChildInv
=============================================================================
