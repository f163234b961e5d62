------------------------------ MODULE LiskTimer ------------------------------
(***************************************************************************)
(* lisk_timer.c: a clock with several hands.  A timer waits in the list of *)
(* the level its distance falls in and comes down level by level as the    *)
(* hands go round, until timer_loop finds it due in list 0 and calls its   *)
(* function.  Deleted nodes are kept in a ring for the next timer_add.     *)
(*                                                                         *)
(* A node is a number; heap holds the nodes that malloc has given and free *)
(* has not taken back.  Times are counted in the unit of level 0.          *)
(***************************************************************************)
EXTENDS Integers, Sequences, FiniteSets, SequencesExt

CONSTANTS MAX_TIMER_LEVEL,  \* the number of lists and hands
          limit,            \* limit[l]: where hand l goes round
          MINIMUM_DIFF,     \* timer_update does nothing for less
          RingNum,          \* what the ring of spare nodes can hold
          Expires,          \* the times timer_add is called with
          Steps,            \* how far the wall clock moves between two looks at it
          MaxTime,          \* bound: the time the model runs to
          MaxNode,          \* bound: nodes at a time
          AllocFails,       \* TRUE when malloc may fail
          Wrap              \* 2^32: the difference of two n8 times is kept in a u4

Levels == 0 .. MAX_TIMER_LEVEL - 1
Nodes  == 1 .. MaxNode

\* What is assumed of the constants.
TimerAssumption ==
  /\ MAX_TIMER_LEVEL \in Nat \ {0} /\ MINIMUM_DIFF \in Nat \ {0} /\ RingNum \in Nat
  /\ limit \in [Levels -> Nat \ {0, 1}]
  /\ Expires \subseteq Nat \ {0} /\ Steps \subseteq Int
  /\ MaxTime \in Nat /\ MaxNode \in Nat /\ AllocFails \in BOOLEAN
  /\ Wrap \in Nat \ {0}

VARIABLES now,    \* g_cur_lisk_time, in ms
          clock, hand, list, ring, num,
          node,   \* node[i]: trig, type and expire
          heap,   \* the nodes that are allocated
          pc,     \* "idle", "loop" or "call": where timer_loop is; "down" after timer_uninit
          running,\* the node whose function is being called, or 0
          fired   \* the trig of the last function called in this loop

vars == <<now, clock, hand, list, ring, num, node, heap, pc, running, fired>>

Types == {"ETIMER_ONCE", "ETIMER_LOOP"}

\* ms_limit: what one step of hand l is worth.
ms_limit[l \in Levels] == IF l = 0 THEN 1 ELSE ms_limit[l - 1] * limit[l - 1]

\* A node that no timer uses: what it holds is not read.
Spare == [trig |-> 0, type |-> "ETIMER_ONCE", expire |-> 0]

Init ==
  /\ now = 0 /\ clock = 0
  /\ hand = [l \in Levels |-> 0] /\ list = [l \in Levels |-> <<>>]
  /\ ring = <<>> /\ num = 0
  /\ node = [i \in Nodes |-> Spare]
  /\ heap = {}
  /\ pc = "idle" /\ running = 0 /\ fired = 0

(***************************************************************************)
(* The lists                                                               *)
(***************************************************************************)
Without(seq, i) == SelectSeq(seq, LAMBDA j : j # i)

\* Mutant: the node is put at the end.
timer_list_insert_last(seq, i, nd) == Append(seq, i)

\* Before the first node that is due later.
timer_list_insert(seq, i, nd) ==
  LET later == {p \in DOMAIN seq : nd[i].trig < nd[seq[p]].trig}
      pos   == IF later = {} THEN Len(seq) + 1 ELSE Min(later)
  IN InsertAt(seq, pos, i)

\* The level that a distance belongs to.
Level(d) == IF d < 1 THEN 0 ELSE Max({l \in Levels : d \div ms_limit[l] # 0})

\* Node i put into the lists ls at time t.
timer_ins_node(ls, i, nd, t) ==
  LET l == Level(nd[i].trig - t)
  IN [ls EXCEPT ![l] = timer_list_insert(@, i, nd)]

Moved(ls, i, nd, t) == timer_ins_node([l \in Levels |-> Without(ls[l], i)], i, nd, t)

\* The nodes at the front of list l that are nearer than a step of hand l come down.
timer_cascade(ls, l, t) ==
  LET stay == {p \in DOMAIN ls[l] : node[ls[l][p]].trig - t >= ms_limit[l]}
      n    == IF stay = {} THEN Len(ls[l]) ELSE Min(stay) - 1
  IN FoldLeft(LAMBDA s, i : Moved(s, i, node, t), ls, SubSeq(ls[l], 1, n))

(***************************************************************************)
(* The clock                                                               *)
(***************************************************************************)
Abs(x) == IF x < 0 THEN -x ELSE x

\* inc[l] before any carry.
inc(d, l) == IF l = MAX_TIMER_LEVEL - 1 THEN d \div ms_limit[l]
             ELSE (d % ms_limit[l + 1]) \div ms_limit[l]

\* How far each hand moves, with what the hand below carries over, and where it stops.
turn(d) ==
  LET t[l \in Levels] ==
        LET i == inc(d, l) + IF l = 0 THEN 0 ELSE (hand[l - 1] + t[l - 1].inc) \div limit[l - 1]
        IN [inc |-> i, hand |-> (hand[l] + i) % limit[l]]
  IN t

\* Mutant: the last level whose hand moves is left out.
max_idx_short(t) == LET moved == {l \in Levels : t[l].inc # 0}
                    IN IF moved = {} THEN 0 ELSE Max(moved)

max_idx(t) == LET moved == {l \in Levels : t[l].inc # 0}
              IN IF moved = {} THEN 0 ELSE Max(moved) + 1

\* lisk_time_update: the wall clock may also be set back.
lisk_time_update ==
  /\ pc = "idle"
  /\ \E s \in Steps : now + s \in 0 .. MaxTime /\ now' = now + s
  /\ UNCHANGED <<clock, hand, list, ring, num, node, heap, pc, running, fired>>

diff == Abs(now - clock) % Wrap

\* timer_update, with which timer_loop begins.  It returns at once for less than MINIMUM_DIFF.
timer_update ==
  /\ pc = "idle"
  /\ diff >= MINIMUM_DIFF
  /\ LET t == turn(diff)
     IN /\ hand' = [l \in Levels |-> t[l].hand]
        /\ list' = FoldLeft(LAMBDA ls, l : timer_cascade(ls, l, now), list,
                            [l \in 1 .. max_idx(t) - 1 |-> l])
  /\ clock' = now
  /\ pc' = "loop"
  /\ UNCHANGED <<now, ring, num, node, heap, running, fired>>

(***************************************************************************)
(* Timers come and go                                                      *)
(***************************************************************************)
\* The node for a new timer: a spare one, or a new one from malloc.
timer_add(e, type) ==
  /\ pc \in {"idle", "call"}
  /\ LET spare == ring # <<>>
         fresh == Nodes \ heap
         i     == IF spare THEN ring[1] ELSE Min(fresh)
         nd    == [node EXCEPT ![i] = [trig |-> clock + e, type |-> type, expire |-> e]]
     IN /\ spare \/ fresh # {}
        /\ ring' = IF spare THEN Tail(ring) ELSE ring
        /\ num' = IF spare THEN num ELSE num + 1
        /\ heap' = heap \cup {i}
        /\ node' = nd
        /\ list' = timer_ins_node(list, i, nd, clock)
  /\ UNCHANGED <<now, clock, hand, pc, running, fired>>

\* malloc fails; the node has been counted.
timer_add_fails ==
  /\ AllocFails
  /\ pc \in {"idle", "call"} /\ ring = <<>> /\ num < MaxNode
  /\ num' = num + 1
  /\ UNCHANGED <<now, clock, hand, list, ring, node, heap, pc, running, fired>>

\* The node goes to the ring, or back to free when the ring is full.
timer_del_node(i) ==
  LET kept == Len(ring) < RingNum
  IN /\ ring' = IF kept THEN Append(ring, i) ELSE ring
     /\ num' = IF kept THEN num ELSE num - 1
     /\ heap' = IF kept THEN heap ELSE heap \ {i}
     /\ list' = [l \in Levels |-> Without(list[l], i)]
     /\ node' = [node EXCEPT ![i] = Spare]

Waiting == UNION {Range(list[l]) : l \in Levels}

\* Callers delete timers that wait.  Timer functions must not call it, so it is called
\* outside of timer_loop.
timer_del(i) ==
  /\ pc = "idle"
  /\ i \in Waiting
  /\ timer_del_node(i)
  /\ UNCHANGED <<now, clock, hand, pc, running, fired>>

(***************************************************************************)
(* timer_loop                                                              *)
(***************************************************************************)
Due == list[0] # <<>> /\ node[list[0][1]].trig <= clock

\* The function of the first node is called.  While it runs it may add timers.  A node that
\* has run leaves its place, so what follows its predecessor is again the first of the list.
timer_loop_call ==
  /\ pc = "loop" /\ Due
  /\ pc' = "call"
  /\ running' = list[0][1] /\ fired' = node[list[0][1]].trig
  /\ UNCHANGED <<now, clock, hand, list, ring, num, node, heap>>

\* It has returned: the node is deleted, or set again.
timer_loop_return(ret) ==
  /\ pc = "call" /\ pc' = "loop" /\ running' = 0
  /\ LET i  == running
         nd == [node EXCEPT ![i].trig = clock + node[i].expire]
     IN IF ret = -3 \/ node[i].type = "ETIMER_ONCE"
        THEN timer_del_node(i)
        ELSE /\ node' = nd
             /\ list' = Moved(list, i, nd, clock)
             /\ UNCHANGED <<ring, num, heap>>
  /\ UNCHANGED <<now, clock, hand, fired>>

timer_loop_end ==
  /\ pc = "loop" /\ ~Due
  /\ pc' = "idle" /\ fired' = 0
  /\ UNCHANGED <<now, clock, hand, list, ring, num, node, heap, running>>

\* The spare nodes are freed, then the waiting ones, each after a last call of its function.
\* The fields of the timer are not read again.
timer_uninit ==
  /\ pc = "idle" /\ pc' = "down"
  /\ heap' = heap \ (Waiting \cup Range(ring))
  /\ ring' = <<>> /\ list' = [l \in Levels |-> <<>>] /\ num' = 0
  /\ node' = [i \in Nodes |-> Spare]
  /\ UNCHANGED <<now, clock, hand, running, fired>>

Next ==
  \/ lisk_time_update \/ timer_update
  \/ \E e \in Expires, type \in Types : timer_add(e, type)
  \/ timer_add_fails
  \/ \E i \in Nodes : timer_del(i)
  \/ timer_loop_call \/ timer_loop_end
  \/ \E ret \in {0, -3} : timer_loop_return(ret)
  \/ timer_uninit

Spec == Init /\ [][Next]_vars

(***************************************************************************)
(* Properties                                                              *)
(***************************************************************************)
\* The hands read as the digits of one number.
Shown == MapThenSumSet(LAMBDA l : hand[l] * ms_limit[l], Levels)

\* The hands move by exactly the time that the clock moves, forwards or back: the carries
\* of timer_update lose nothing, however the time is cut into calls.
HandsFollow ==
  Shown' = (Shown + Abs(clock' - clock)) % (limit[MAX_TIMER_LEVEL - 1] * ms_limit[MAX_TIMER_LEVEL - 1])

HandsKeepUp == [][HandsFollow]_vars

\* No timer is left behind: when timer_loop has returned, every timer that waits, in
\* whatever list, is due after the clock.  A timer that waits on a high level has come
\* down in time.
NoneOverdue ==
  pc = "idle" => \A i \in Waiting : node[i].trig > clock

\* The functions of the timers that one timer_loop finds due are called in the order in
\* which they were due, also when they came down from different lists in the same call.
FiresInOrder ==
  [][pc = "loop" /\ pc' = "call" => fired' >= fired]_vars

\* Every node that is allocated is in one place, of one list or of the ring, and only there.
\* After timer_uninit ("free the memory space that timer @timer takes up") none is left.
NodesOwned ==
  LET places == {<<l, p>> : l \in Levels, p \in Nodes}
      at(x)  == IF x[2] \in DOMAIN list[x[1]] THEN list[x[1]][x[2]] ELSE 0
  IN /\ heap = Waiting \cup Range(ring)
     /\ \A i \in heap :
          Cardinality({x \in places : at(x) = i}) + Cardinality({p \in DOMAIN ring : ring[p] = i}) = 1
=============================================================================
