------------------------------ MODULE SizedRing ------------------------------
(***************************************************************************)
(* The array ring of ring1/src/lisk_ring.c: the first version of the ring, *)
(* whose push and pop move elem_num elements at once and keep their number *)
(* in size, a word of its own beside the three cursors.                    *)
(*                                                                         *)
(* One action is one access to shared memory.  The words are u4, kept here *)
(* modulo Wrap; an element is the number of the push it came with.         *)
(***************************************************************************)
EXTENDS Integers, Sequences, FiniteSetsExt

CONSTANTS Producers, Consumers,
          Teams,      \* the sets of threads that may share a ring
          unit_num,   \* slots, a power of 2
          Wrap,       \* 2^32 in the code: a multiple of unit_num
          Nums,       \* the elem_num the callers use
          MaxElems,   \* bound: elements pushed
          Junk        \* what lies in memory before the first push

\* What is assumed of the constants.
SizedRingAssumption ==
  /\ unit_num \in Nat \ {0} /\ Wrap \in Nat \ {0} /\ Wrap % unit_num = 0
  /\ Nums \subseteq 1 .. unit_num /\ MaxElems \in Nat
  /\ Teams \subseteq SUBSET (Producers \cup Consumers)

VARIABLES size, write_pos, read_pos, max_read_idx,
          data,    \* the slots, and what lies behind them in memory
          th,      \* the threads: where they are, and their local variables
          given,   \* history: elements handed to ring_push
          queued,  \* history: the elements published and not yet taken, in order
          faults   \* history: what has gone wrong so far

vars == <<size, write_pos, read_pos, max_read_idx, data, th, given, queued, faults>>

Threads == Producers \cup Consumers
MaxNum  == CHOOSE n \in Nums : \A m \in Nums : m <= n
Memory  == 0 .. unit_num + MaxNum - 1
U4(x)   == x % Wrap
ring_index(count) == count % unit_num

\* Between two calls; ret, num and elem are what the last one has returned.
Idle == [pc |-> "idle", ret |-> 0, num |-> 0, want |-> 0, ridx |-> 0, idx |-> 0,
         elem |-> << >>]

\* ring_init
Empty ==
  /\ size = 0 /\ write_pos = 0 /\ read_pos = 0 /\ max_read_idx = 0
  /\ data = [i \in Memory |-> Junk]
  /\ queued = << >> /\ faults = {}

Init ==
  /\ Empty /\ given = 0
  /\ \E team \in Teams :
       th = [t \in Threads |-> IF t \in team THEN Idle ELSE [Idle EXCEPT !.pc = "absent"]]

At(t, l) == th[t].pc = l
Goto(t, l) == th' = [th EXCEPT ![t].pc = l]
History == <<queued, faults>>
Cursors == <<write_pos, read_pos, max_read_idx>>

\* What a call promises its caller and may fail to do.
Faults(wrong) == faults' = faults \cup {f \in DOMAIN wrong : wrong[f]}

(***************************************************************************)
(* ring_push                                                               *)
(***************************************************************************)
push_call(p, e) ==
  /\ At(p, "idle")
  /\ th' = [th EXCEPT ![p] = [Idle EXCEPT !.pc = "widx", !.num = Len(e), !.elem = e,
                                          !.ridx = read_pos]]
  /\ UNCHANGED <<size, Cursors, data, History>>

\* read_pos is loaded again when another producer was faster.
push_load_ridx(p) ==
  /\ At(p, "ridx")
  /\ th' = [th EXCEPT ![p].pc = "widx", ![p].ridx = read_pos]
  /\ UNCHANGED <<size, Cursors, data, History>>

\* The ring is full when the push would end exactly at the read_pos of the load before.
push_load_widx(p) ==
  /\ At(p, "widx")
  /\ \/ /\ ring_index(U4(write_pos + th[p].num)) = ring_index(th[p].ridx)
        /\ th' = [th EXCEPT ![p] = [Idle EXCEPT !.ret = -2]]
     \/ /\ ring_index(U4(write_pos + th[p].num)) # ring_index(th[p].ridx)
        /\ th' = [th EXCEPT ![p].pc = "cas", ![p].idx = write_pos]
  /\ UNCHANGED <<size, Cursors, data, History>>

\* Mutant: write_pos is moved without comparing.
push_cas_blind(p) ==
  /\ At(p, "cas")
  /\ write_pos' = U4(th[p].idx + th[p].num)
  /\ Goto(p, "copy")
  /\ UNCHANGED <<size, read_pos, max_read_idx, data, History>>

\* The claim. It goes too far when it reaches a slot that is still in use, or all of them.
push_cas(p) ==
  /\ At(p, "cas")
  /\ \/ /\ write_pos = th[p].idx
        /\ write_pos' = U4(write_pos + th[p].num)
        /\ th' = [th EXCEPT ![p].pc = "copy", ![p].ridx = 0]
        /\ Faults([overrun |-> U4(write_pos - read_pos) + th[p].num >= unit_num])
     \/ /\ write_pos # th[p].idx
        /\ th' = [th EXCEPT ![p].pc = "ridx", ![p].ridx = 0, ![p].idx = 0]
        /\ UNCHANGED <<write_pos, faults>>
  /\ UNCHANGED <<size, read_pos, max_read_idx, data, queued>>

\* One CPY of all elements from the slot of idx on, never wrapped to the first slot.
push_copy(p) ==
  /\ At(p, "copy")
  /\ LET at == ring_index(th[p].idx)
     IN data' = [i \in Memory |-> IF i \in at .. at + th[p].num - 1
                                  THEN th[p].elem[i - at + 1] ELSE data[i]]
  /\ Goto(p, "publish")
  /\ UNCHANGED <<size, Cursors, History>>

\* The producers publish in the order of their claims; the others yield and try again.
push_publish(p) ==
  /\ At(p, "publish") /\ max_read_idx = th[p].idx
  /\ max_read_idx' = U4(max_read_idx + th[p].num)
  /\ queued' = queued \o th[p].elem
  /\ th' = [th EXCEPT ![p].pc = "add", ![p].idx = 0, ![p].elem = << >>]
  /\ UNCHANGED <<size, write_pos, read_pos, data, faults>>

\* Mutant: the element is not counted.
push_add_forgotten(p) ==
  /\ At(p, "add")
  /\ th' = [th EXCEPT ![p] = Idle]
  /\ UNCHANGED <<size, Cursors, data, History>>

push_add(p) ==
  /\ At(p, "add")
  /\ size' = U4(size + th[p].num)
  /\ th' = [th EXCEPT ![p] = Idle]
  /\ UNCHANGED <<Cursors, data, History>>

\* ring_push, after the call.
ring_push(p) ==
  \/ push_load_ridx(p) \/ push_load_widx(p) \/ push_cas(p) \/ push_copy(p)
  \/ push_publish(p) \/ push_add(p)

(***************************************************************************)
(* ring_pop                                                                *)
(***************************************************************************)
pop_call(c, n) ==
  /\ At(c, "idle")
  /\ th' = [th EXCEPT ![c] = [Idle EXCEPT !.pc = "max", !.num = n, !.want = n,
                                          !.ridx = read_pos]]
  /\ UNCHANGED <<size, Cursors, data, History>>

\* Once more, with the num of the last attempt.
pop_load_ridx(c) ==
  /\ At(c, "again")
  /\ th' = [th EXCEPT ![c].pc = "max", ![c].ridx = read_pos]
  /\ UNCHANGED <<size, Cursors, data, History>>

pop_load_max(c) ==
  /\ At(c, "max")
  /\ \/ /\ ring_index(th[c].ridx) = ring_index(max_read_idx)
        /\ th' = [th EXCEPT ![c] = [Idle EXCEPT !.ret = -2]]
     \/ /\ ring_index(th[c].ridx) # ring_index(max_read_idx)
        /\ Goto(c, "clamp")
  /\ UNCHANGED <<size, Cursors, data, History>>

\* size is loaded to compare, and loaded again to be used.
pop_clamp(c) ==
  /\ At(c, "clamp")
  /\ Goto(c, IF th[c].num > size THEN "clamped" ELSE "read")
  /\ UNCHANGED <<size, Cursors, data, History>>

pop_clamped(c) ==
  /\ At(c, "clamped")
  /\ th' = [th EXCEPT ![c].pc = "read", ![c].num = size]
  /\ UNCHANGED <<size, Cursors, data, History>>

pop_copy(c) ==
  /\ At(c, "read")
  /\ th' = [th EXCEPT ![c].pc = "take",
                      ![c].elem = [i \in 1 .. th[c].num |->
                                     LET at == ring_index(th[c].ridx) + i - 1
                                     IN IF at \in Memory THEN data[at] ELSE Junk]]
  /\ UNCHANGED <<size, Cursors, data, History>>

\* Mutant: read_pos is moved without comparing.
pop_cas_blind(c) ==
  /\ At(c, "take")
  /\ LET n == th[c].num
     IN /\ read_pos' = U4(th[c].ridx + n)
        /\ queued' = SubSeq(queued, n + 1, Len(queued))
        /\ Faults([nothing |-> n = 0, excess |-> n > th[c].want,
                   disorder |-> n > Len(queued) \/ th[c].elem # SubSeq(queued, 1, n)])
  /\ Goto(c, "sub")
  /\ UNCHANGED <<size, write_pos, max_read_idx, data>>

\* The pop, which may have got nothing, more than it asked for, or not the oldest elements.
pop_cas(c) ==
  /\ At(c, "take")
  /\ \/ /\ read_pos = th[c].ridx
        /\ LET n == th[c].num
           IN /\ read_pos' = U4(read_pos + n)
              /\ queued' = SubSeq(queued, n + 1, Len(queued))
              /\ Faults([nothing |-> n = 0, excess |-> n > th[c].want,
                         disorder |-> n > Len(queued) \/ th[c].elem # SubSeq(queued, 1, n)])
        /\ th' = [th EXCEPT ![c].pc = "sub", ![c].ridx = 0, ![c].want = 0]
     \/ /\ read_pos # th[c].ridx
        /\ th' = [th EXCEPT ![c].pc = "again", ![c].ridx = 0, ![c].elem = << >>]
        /\ UNCHANGED <<read_pos, History>>
  /\ UNCHANGED <<size, write_pos, max_read_idx, data>>

pop_sub(c) ==
  /\ At(c, "sub")
  /\ size' = U4(size - th[c].num)
  /\ th' = [th EXCEPT ![c] = [Idle EXCEPT !.num = th[c].num, !.elem = th[c].elem]]
  /\ UNCHANGED <<Cursors, data, History>>

\* ring_pop, after the call.
ring_pop(c) ==
  \/ pop_load_ridx(c) \/ pop_load_max(c) \/ pop_clamp(c) \/ pop_clamped(c)
  \/ pop_copy(c) \/ pop_cas(c) \/ pop_sub(c)

(***************************************************************************)
(* The threads that use the ring                                           *)
(***************************************************************************)
\* The elements are numbered.
produce(p, n) ==
  /\ given + n <= MaxElems /\ given' = given + n
  /\ push_call(p, [i \in 1 .. n |-> given + i])

Next == \/ \E p \in Producers, n \in Nums : produce(p, n)
        \/ \E p \in Producers : ring_push(p) /\ UNCHANGED given
        \/ \E c \in Consumers, n \in Nums : pop_call(c, n) /\ UNCHANGED given
        \/ \E c \in Consumers : ring_pop(c) /\ UNCHANGED given

Spec == Init /\ [][Next]_vars

(***************************************************************************)
(* Properties                                                              *)
(***************************************************************************)
\* Every pop returns the oldest published elements, each of them once, as long as no push has
\* claimed a slot in use on the word of an old read_pos, and no pop has taken more elements
\* than it was asked for, on the word of an old size.
PopsInOrder == "disorder" \in faults => faults \cap {"overrun", "excess"} # {}

\* "a FIFO(first coming, first output) queue" (lisk_ring.h): every pop returns the oldest
\* published elements, each of them once, whatever the other threads do.
FirstComingFirstOutput == "disorder" \notin faults

\* The elements that the calls of the threads T have moved and not yet counted.
Uncounted(T, l) == MapThenSumSet(LAMBDA t : th[t].num, {t \in T : At(t, l)})

\* size lags behind the cursors by exactly what the calls in progress have still to add
\* and to subtract; it is never lost track of, also when it has passed through 0.
SizesAgree ==
  size = U4(max_read_idx - read_pos - Uncounted(Threads, "add") + Uncounted(Threads, "sub"))
=============================================================================
