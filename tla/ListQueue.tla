------------------------------ MODULE ListQueue ------------------------------
(***************************************************************************)
(* The lock-free queue "based on list" of ring1/src/lisk_ring.c: a linked  *)
(* list with a dummy node at its head, and a ring of spare nodes.  A push  *)
(* takes its node from the ring, a pop gives the old dummy back to it.     *)
(*                                                                         *)
(* One action is one access to shared memory.  The ring of spare nodes is  *)
(* the one of SizedRing: a call of ring_push or ring_pop is taken step by  *)
(* step, and what it returns, wrong or right, is what the queue goes on    *)
(* with.  queue->head, queue->tail and next are not volatile, so a second  *)
(* load with no barrier in between may be folded into the first.           *)
(***************************************************************************)
EXTENDS Integers, Sequences, FiniteSets, Functions

CONSTANTS Producers, Consumers,
          Teams,        \* the sets of threads that may share a queue
          Nodes,        \* addresses of nodes, a set of numbers
          UnitNum,      \* slots of the ring of spare nodes (SIZE_K(16))
          MallocFails,  \* may an allocation fail?
          MaxPush,      \* bound: calls of queue_push
          Wrap,         \* 2^32, the range of the cursors of the ring
          Junk          \* what malloc leaves in memory

nil == 0

ASSUME ListQueueAssumption ==
  /\ Nodes \subseteq Nat \ {0} /\ UnitNum \in Nat \ {0, 1} /\ MaxPush \in Nat
  /\ MallocFails \in BOOLEAN /\ Producers \cap Consumers = {}
  /\ Teams \subseteq SUBSET (Producers \cup Consumers)
  /\ Wrap \in Nat \ {0} /\ Wrap % UnitNum = 0

VARIABLES node,   \* the heap: every node's next and data, and whether it is allocated
          head, tail, num,
          pushes, \* how often queue_push was called; the elements are 1, 2, ...
          th      \* the threads: where they are, and their local variables

\* The ring of spare nodes, and where the threads are in ring_push and ring_pop.
VARIABLES size, write_pos, read_pos, max_read_idx, data, call, queued, faults

list == <<node, head, tail, num, pushes>>
ring == <<size, write_pos, read_pos, max_read_idx, data, call, queued, faults>>
vars == <<list, th, ring>>

Threads  == Producers \cup Consumers
Elements == 1 .. MaxPush
Free     == {n \in Nodes : ~node[n].live}
Lowest(S) == CHOOSE n \in S : \A m \in S : n <= m

Ring == INSTANCE SizedRing WITH
          Producers <- Threads, Consumers <- Threads, unit_num <- UnitNum, Nums <- {1},
          MaxElems <- 0, th <- call, given <- pushes

\* queue_node_init: the data are copied only when their size is zero, which it never is.
queue_node_init == [next |-> nil, data |-> Junk, live |-> TRUE]
Released        == [next |-> nil, data |-> Junk, live |-> FALSE]

half == UnitNum \div 2

\* queue_init: a dummy node, and queue_fill, whose allocations may fail.
Init ==
  \E k \in IF MallocFails THEN 0 .. half ELSE {half}, team \in Teams :
    /\ node = [n \in Nodes |-> IF n <= k + 1 THEN queue_node_init ELSE Released]
    /\ head = 1 /\ tail = 1 /\ num = 0
    /\ size = k /\ write_pos = k /\ max_read_idx = k /\ read_pos = 0
    /\ data = [i \in Ring!Memory |-> IF i < k THEN i + 2 ELSE Junk]
    /\ queued = [i \in 1 .. k |-> i + 1] /\ faults = {}
    /\ call = [t \in Threads |-> Ring!Idle]
    /\ pushes = 0
    /\ th = [t \in Threads |-> [pc |-> IF t \in team THEN "idle" ELSE "absent",
                                node |-> nil, head |-> nil, tail |-> nil, next |-> nil,
                                idx |-> 0, elem |-> nil]]

At(t, l)      == th[t].pc = l
Goto(t, l)    == th' = [th EXCEPT ![t].pc = l]

\* A step inside ring_push or ring_pop; a call of them that has returned; its end.
in_ring(t) == (Ring!ring_push(t) \/ Ring!ring_pop(t)) /\ UNCHANGED <<list, th>>
Returned(t) == call[t].pc = "idle"
Leaves(t) == /\ Returned(t)
             /\ call' = [call EXCEPT ![t] = Ring!Idle]
             /\ UNCHANGED <<size, write_pos, read_pos, max_read_idx, data, queued, faults>>

(***************************************************************************)
(* queue_push                                                              *)
(***************************************************************************)
push_call(p) ==
  /\ At(p, "idle") /\ pushes < MaxPush
  /\ pushes' = pushes + 1
  /\ th' = [th EXCEPT ![p].pc = "spare", ![p].elem = pushes']
  /\ Ring!pop_call(p, 1)
  /\ UNCHANGED <<node, head, tail, num>>

\* The node: a spare one, or a new one.  A ring_pop that returns 0 and has copied nothing
\* leaves the pointer as it was, and it was never set: it may point anywhere.
push_node(p) ==
  /\ At(p, "spare") /\ Leaves(p)
  /\ \/ /\ call[p].ret = 0
        /\ \E n \in IF call[p].num = 0 THEN Nodes ELSE {call[p].elem[1]} :
             /\ node' = [node EXCEPT ![n].data = th[p].elem, ![n].next = nil]
             /\ th' = [th EXCEPT ![p].pc = "tail", ![p].node = n, ![p].elem = nil]
     \/ /\ call[p].ret # 0 /\ Free # {}
        /\ node' = [node EXCEPT ![Lowest(Free)] = queue_node_init]
        /\ th' = [th EXCEPT ![p].pc = "tail", ![p].node = Lowest(Free),
                            ![p].elem = nil]
     \/ /\ call[p].ret # 0 /\ (MallocFails \/ Free = {})
        /\ th' = [th EXCEPT ![p].pc = "idle", ![p].elem = nil]
        /\ UNCHANGED node
  /\ UNCHANGED <<head, tail, num, pushes>>

push_load_tail(p) ==
  /\ At(p, "tail")
  /\ th' = [th EXCEPT ![p].pc = "next", ![p].tail = tail]
  /\ UNCHANGED <<list, ring>>

push_load_next(p) ==
  /\ At(p, "next")
  /\ th' = [th EXCEPT ![p].pc = "check", ![p].next = node[th[p].tail].next]
  /\ UNCHANGED <<list, ring>>

\* The second load of queue->tail; the compiler may have dropped it.
push_check(p) ==
  /\ At(p, "check")
  /\ \/ Goto(p, IF th[p].next # nil THEN "help" ELSE "link")
     \/ tail # th[p].tail /\ th' = [th EXCEPT ![p].pc = "tail", ![p].tail = nil, ![p].next = nil]
  /\ UNCHANGED <<list, ring>>

\* tail lags behind: move it on for whoever was to do it.
push_help(p) ==
  /\ At(p, "help")
  /\ tail' = IF tail = th[p].tail THEN th[p].next ELSE tail
  /\ th' = [th EXCEPT ![p].pc = "tail", ![p].tail = nil, ![p].next = nil]
  /\ UNCHANGED <<node, head, num, ring, pushes>>

\* Mutant: after a failed CAS tail is not loaded again.
push_link_stale(p) ==
  /\ At(p, "link") /\ node[th[p].tail].next = nil
  /\ node' = [node EXCEPT ![th[p].tail].next = th[p].node]
  /\ Goto(p, "swing")
  /\ UNCHANGED <<head, tail, num, ring, pushes>>

push_link(p) ==
  /\ At(p, "link")
  /\ \/ /\ node[th[p].tail].next = nil
        /\ node' = [node EXCEPT ![th[p].tail].next = th[p].node]
        /\ Goto(p, "swing")
     \/ /\ node[th[p].tail].next # nil
        /\ th' = [th EXCEPT ![p].pc = "tail", ![p].tail = nil]
        /\ UNCHANGED node
  /\ UNCHANGED <<head, tail, num, ring, pushes>>

push_swing(p) ==
  /\ At(p, "swing")
  /\ tail' = IF tail = th[p].tail THEN th[p].node ELSE tail
  /\ th' = [th EXCEPT ![p].pc = "fill", ![p].node = nil, ![p].tail = nil]
  /\ UNCHANGED <<node, head, num, ring, pushes>>

\* queue_fill: how many spare nodes are there, as far as they are counted?
fill_size(p) ==
  /\ At(p, "fill")
  /\ th' = [th EXCEPT ![p].pc = IF size >= half THEN "num" ELSE "more", ![p].idx = size]
  /\ UNCHANGED <<list, ring>>

\* Mutant: when queue_fill fails, so does queue_push.
fill_node_return(p) ==
  /\ At(p, "more") /\ th[p].idx < half /\ th[p].node = nil
  /\ \/ /\ Free # {}
        /\ node' = [node EXCEPT ![Lowest(Free)] = queue_node_init]
        /\ th' = [th EXCEPT ![p].node = Lowest(Free)]
     \/ /\ MallocFails \/ Free = {}
        /\ Goto(p, "idle")
        /\ UNCHANGED node
  /\ UNCHANGED <<head, tail, num, ring, pushes>>

\* Allocate the next spare node ...
fill_node(p) ==
  /\ At(p, "more") /\ th[p].idx < half /\ th[p].node = nil
  /\ \/ /\ Free # {}
        /\ node' = [node EXCEPT ![Lowest(Free)] = queue_node_init]
        /\ th' = [th EXCEPT ![p].node = Lowest(Free)]
     \/ /\ MallocFails \/ Free = {}
        /\ Goto(p, "num")
        /\ UNCHANGED node
  /\ UNCHANGED <<head, tail, num, ring, pushes>>

\* ... and put it into the ring; when that is full the node is freed.
fill_push(p) ==
  /\ At(p, "more") /\ th[p].node # nil
  /\ Ring!push_call(p, <<th[p].node>>)
  /\ Goto(p, "filling")
  /\ UNCHANGED list

fill_pushed(p) ==
  /\ At(p, "filling") /\ Leaves(p)
  /\ \/ /\ call[p].ret = 0
        /\ th' = [th EXCEPT ![p].pc = "more", ![p].node = nil, ![p].idx = @ + 1]
        /\ UNCHANGED node
     \/ /\ call[p].ret # 0
        /\ node' = [node EXCEPT ![th[p].node] = Released]
        /\ th' = [th EXCEPT ![p].pc = "num", ![p].node = nil]
  /\ UNCHANGED <<head, tail, num, pushes>>

fill_done(p) ==
  /\ At(p, "more") /\ th[p].idx >= half /\ th[p].node = nil
  /\ Goto(p, "num")
  /\ UNCHANGED <<list, ring>>

push_num(p) ==
  /\ At(p, "num")
  /\ num' = num + 1
  /\ th' = [th EXCEPT ![p].pc = "idle", ![p].idx = 0]
  /\ UNCHANGED <<node, head, tail, ring, pushes>>

queue_push(p) ==
  \/ push_call(p) \/ push_node(p) \/ push_load_tail(p) \/ push_load_next(p) \/ push_check(p)
  \/ push_help(p) \/ push_link(p) \/ push_swing(p)
  \/ fill_size(p) \/ fill_node(p) \/ fill_push(p) \/ fill_pushed(p) \/ fill_done(p)
  \/ push_num(p) \/ in_ring(p)

(***************************************************************************)
(* queue_pop                                                               *)
(***************************************************************************)
Restart(c) == th' = [th EXCEPT ![c].pc = "head", ![c].head = nil, ![c].tail = nil, ![c].next = nil]

pop_load_head(c) ==
  /\ At(c, "idle") \/ At(c, "head")
  /\ th' = [th EXCEPT ![c].pc = "tail", ![c].head = head]
  /\ UNCHANGED <<list, ring>>

pop_load_tail(c) ==
  /\ At(c, "tail")
  /\ th' = [th EXCEPT ![c].pc = "next", ![c].tail = tail]
  /\ UNCHANGED <<list, ring>>

pop_load_next(c) ==
  /\ At(c, "next")
  /\ th' = [th EXCEPT ![c].pc = "check", ![c].next = node[th[c].head].next]
  /\ UNCHANGED <<list, ring>>

\* The second load of queue->head, which the compiler may have dropped; an empty queue
\* ends the call.
pop_check(c) ==
  /\ At(c, "check")
  /\ \/ /\ th[c].next = nil
        /\ th' = [th EXCEPT ![c].pc = "idle", ![c].head = nil, ![c].tail = nil]
     \/ /\ th[c].next # nil
        /\ Goto(c, IF th[c].head = th[c].tail THEN "help" ELSE "take")
     \/ /\ head # th[c].head
        /\ Restart(c)
  /\ UNCHANGED <<list, ring>>

pop_help(c) ==
  /\ At(c, "help")
  /\ tail' = IF tail = th[c].tail THEN th[c].next ELSE tail
  /\ Restart(c)
  /\ UNCHANGED <<node, head, num, ring, pushes>>

\* Mutant: head is written without comparing.
pop_take_blind(c) ==
  /\ At(c, "take") /\ head' = th[c].next /\ Goto(c, "copy")
  /\ UNCHANGED <<node, tail, num, ring, pushes>>

pop_take(c) ==
  /\ At(c, "take")
  /\ \/ /\ head = th[c].head
        /\ head' = th[c].next
        /\ th' = [th EXCEPT ![c].pc = "copy", ![c].tail = nil]
     \/ /\ head # th[c].head
        /\ Restart(c)
        /\ UNCHANGED head
  /\ UNCHANGED <<node, tail, num, ring, pushes>>

\* The element is copied after the node has become the dummy.
pop_copy(c) ==
  /\ At(c, "copy")
  /\ th' = [th EXCEPT ![c].pc = "give", ![c].next = nil,
                      ![c].elem = node[th[c].next].data]
  /\ UNCHANGED <<list, ring>>

\* The old dummy becomes a spare node ...
pop_give(c) ==
  /\ At(c, "give")
  /\ Ring!push_call(c, <<th[c].head>>)
  /\ Goto(c, "giving")
  /\ UNCHANGED list

\* Mutant: a dummy that finds no place in the ring is forgotten.
pop_given_leak(c) ==
  /\ At(c, "giving") /\ Leaves(c)
  /\ Goto(c, "num")
  /\ UNCHANGED list

\* ... and when the ring is full it is freed.
pop_given(c) ==
  /\ At(c, "giving") /\ Leaves(c)
  /\ node' = IF call[c].ret = 0 THEN node ELSE [node EXCEPT ![th[c].head] = Released]
  /\ th' = [th EXCEPT ![c].pc = "num", ![c].head = nil]
  /\ UNCHANGED <<head, tail, num, pushes>>

pop_num(c) ==
  /\ At(c, "num")
  /\ num' = num - 1
  /\ th' = [th EXCEPT ![c].pc = "idle", ![c].elem = nil]
  /\ UNCHANGED <<node, head, tail, ring, pushes>>

queue_pop(c) ==
  \/ pop_load_head(c) \/ pop_load_tail(c) \/ pop_load_next(c) \/ pop_check(c)
  \/ pop_help(c) \/ pop_take(c) \/ pop_copy(c) \/ pop_give(c) \/ pop_given(c) \/ pop_num(c)
  \/ in_ring(c)

Next == \/ \E p \in Producers : queue_push(p)
        \/ \E c \in Consumers : queue_pop(c)

Spec == Init /\ [][Next]_vars

(***************************************************************************)
(* The list                                                                *)
(***************************************************************************)
\* The nodes from n on, at most k of them.
From[k \in 0 .. Cardinality(Nodes), n \in Nodes \cup {nil}] ==
  IF k = 0 \/ n = nil THEN << >> ELSE <<n>> \o From[k - 1, node[n].next]

\* The dummy and the nodes behind it; what these hold.
Chain   == From[Cardinality(Nodes), head]
List    == LET s == Chain IN [k \in 1 .. Len(s) - 1 |-> node[s[k + 1]].data]
InList  == Range(Chain)

\* The published spare nodes, oldest first.
Spare == [i \in 1 .. Ring!U4(max_read_idx - read_pos) |-> data[Ring!ring_index(read_pos + i - 1)]]

\* queue_uninit: the nodes it frees, when no thread is in a call.
queue_uninit == InList \cup Range(Spare)

(***************************************************************************)
(* Properties                                                              *)
(***************************************************************************)
\* A ring_push that has published, a ring_pop that has taken, until their callers go on.
Pushed(t) == call[t].pc = "add" \/ (Returned(t) /\ call[t].ret = 0)
Popped(t) == call[t].pc = "sub" \/ (Returned(t) /\ call[t].ret = 0)

\* Who holds a node: a producer that has it from the ring or from malloc, until it is in
\* the list or in the ring, and a consumer from the CAS on head until the ring.
Holds ==
  {<<p, call[p].elem[1]>> : p \in {p \in Producers : At(p, "spare") /\ Popped(p)}}
  \cup {<<p, th[p].node>> : p \in {p \in Producers :
          /\ th[p].node # nil /\ ~At(p, "swing") /\ ~(At(p, "filling") /\ Pushed(p))}}
  \cup {<<c, th[c].head>> : c \in {c \in Consumers :
          At(c, "copy") \/ At(c, "give") \/ (At(c, "giving") /\ ~Pushed(c))}}
Held == {h[2] : h \in Holds}

\* A node is in the list, or spare, or held by one call, and only one of these; an
\* allocated node is never forgotten.  So queue_uninit frees all there is.  tail never
\* falls behind head, so it never points to a node that was given away.  All this as long
\* as the ring has given each pop a node and each push a slot of its own.
NodesOwned ==
  faults = {} =>
    LET inlist == InList
        spare  == Range(Spare)
        held   == Held
    IN /\ tail \in inlist
       /\ inlist \cap spare = {} /\ (inlist \cup spare) \cap held = {}
       /\ Cardinality(spare) = Len(Spare) /\ Cardinality(held) = Cardinality(Holds)
       /\ Nodes \ Free = inlist \cup spare \cup held

\* What a pop has taken: before the copy, the element that its node holds.
Taken(c) == IF At(c, "copy") THEN node[th[c].next].data ELSE th[c].elem

Fifo == INSTANCE RingFifo WITH
          Values <- Elements \cup {Junk}, Capacity <- MaxPush, Nothing <- nil,
          q <- List, out <- [c \in Consumers |-> Taken(c)]

\* The list is "a FIFO(first coming, first output) queue" (lisk_ring.h), a push being the CAS
\* on next and a pop the CAS on head, as long as the ring of spare nodes has given each pop a
\* node and each push a slot of its own.
ImplementsFifo == Fifo!Init /\ [][faults' = {} => [Fifo!Next]_(Fifo!vars)]_vars

\* The calls that have changed the list and not yet num.
Uncounted == {p \in Producers : th[p].pc \in {"swing", "fill", "more", "filling", "num"}}
Undeducted == {c \in Consumers : th[c].pc \in {"copy", "give", "giving", "num"}}

\* num, which queue_size returns, is counted last in both calls, also when queue_fill
\* fails; it is off by the calls under way and by nothing else, so no error ever stays.
NumAgrees == faults = {} => num + Cardinality(Uncounted) - Cardinality(Undeducted) = Len(Chain) - 1
=============================================================================
