------------------------------ MODULE LiskRing ------------------------------
(***************************************************************************)
(* The array based lock-free ring of ring-buffer/ring4 (the same code is   *)
(* win_lisk's lisk_ring.c).  A ring has one of four types, which select    *)
(* how its cursors are moved: by plain additions where a side has a single *)
(* thread, by compare-and-swap where it has several.                       *)
(*                                                                         *)
(* One action is one access to shared memory; the tests between two        *)
(* accesses only read locals and belong to the access before them.  The    *)
(* copy of an element into or out of a slot is a memmove, here of two      *)
(* halves, so that a copy racing with another is seen as a torn element.   *)
(***************************************************************************)
EXTENDS Integers, Sequences, FiniteSets

CONSTANTS Producers,   \* threads that call ring_push
          Consumers,   \* threads that call ring_pop
          Observers,   \* threads that call ring_size
          Values,      \* the elements
          Junk,        \* what malloc leaves in a slot
          unit_num,    \* number of slots
          type,        \* the type given to ring_set_type before any other call
          Wrap,        \* 2^32: the cursors are u4
          MaxPos       \* bound: no push is called once MaxPos slots were claimed

RING_SP_SC == 1
RING_SP_MC == 2
RING_MP_SC == 4
RING_MP_MC == 8

MultiProducer == type \in {RING_MP_SC, RING_MP_MC}
MultiConsumer == type \in {RING_SP_MC, RING_MP_MC}

\* A ring of a single-producer (-consumer) type is used as its type says.
ASSUME RingAssumption ==
  /\ unit_num \in Nat \ {0}
  /\ Wrap \in Nat \ {0} /\ Wrap % unit_num = 0
  /\ MaxPos \in Nat
  /\ type \in {RING_SP_SC, RING_SP_MC, RING_MP_SC, RING_MP_MC}
  /\ Junk \notin Values
  /\ \A p, r \in Producers : MultiProducer \/ p = r
  /\ \A c, d \in Consumers : MultiConsumer \/ c = d
  /\ Producers \cap Consumers = {}
  /\ Observers \cap (Producers \cup Consumers) = {}

VARIABLES
  write_pos, read_pos, max_read_idx,  \* how far each cursor has moved; the u4 in
                                      \* the ring is this count modulo Wrap
  data,   \* data[i][h]: half h of slot i
  pc,     \* where each thread is in its call
  ridx,   \* local ridx of push and pop (ring_size: its load of read_pos)
  widx,   \* local widx of push (ring_size: its load of write_pos)
  arg,    \* the element a producer pushes
  elem,   \* elem[c][h]: half h of the buffer a consumer passed to ring_pop
  ret,    \* what the last call of a thread returned
  log     \* history: the elements in the order their slots were claimed

vars == <<write_pos, read_pos, max_read_idx, data, pc, ridx, widx, arg, elem, ret, log>>
ring == <<write_pos, read_pos, max_read_idx, data>>

Threads == Producers \cup Consumers \cup Observers
Halves  == {1, 2}
Slots   == 0 .. unit_num - 1

U4(n) == n % Wrap

ring_index(count) == U4(count) % unit_num

\* ring_init followed by ring_set_type(type).
Init ==
  /\ write_pos = 0 /\ read_pos = 0 /\ max_read_idx = 0
  /\ data = [s \in Slots |-> [h \in Halves |-> Junk]]
  /\ pc = [t \in Threads |-> "idle"]
  /\ ridx = [t \in Threads |-> 0]
  /\ widx = [t \in Threads |-> 0]
  /\ arg = [p \in Producers |-> Junk]
  /\ elem = [c \in Consumers |-> [h \in Halves |-> Junk]]
  /\ ret = [t \in Threads |-> 0]
  /\ log = << >>

Goto(t, from, to) == pc[t] = from /\ pc' = [pc EXCEPT ![t] = to]

\* The call returns; its locals are gone.
Return(t, from, code) ==
  /\ Goto(t, from, "idle")
  /\ ret' = [ret EXCEPT ![t] = code]
  /\ ridx' = [ridx EXCEPT ![t] = 0]
  /\ widx' = [widx EXCEPT ![t] = 0]

(***************************************************************************)
(* ring_push: mp_ring_push, sp_mc_ring_push, sp_sc_ring_push               *)
(***************************************************************************)
push_load_ridx(p) ==
  /\ \/ /\ Goto(p, "idle", "push_widx")
        /\ write_pos < MaxPos
        /\ \E v \in Values : arg' = [arg EXCEPT ![p] = v]
     \/ /\ Goto(p, "push_ridx", "push_widx")
        /\ UNCHANGED arg
  /\ ridx' = [ridx EXCEPT ![p] = read_pos]
  /\ UNCHANGED <<ring, widx, elem, ret, log>>

\* widx is loaded and the ring found full or not.
push_load_widx(p) ==
  /\ \/ /\ ring_index(write_pos + 1) = ring_index(ridx[p])
        /\ Return(p, "push_widx", -2)
     \/ /\ ring_index(write_pos + 1) # ring_index(ridx[p])
        /\ Goto(p, "push_widx", IF MultiProducer THEN "push_cas" ELSE "push_copy1")
        /\ widx' = [widx EXCEPT ![p] = write_pos]
        /\ UNCHANGED <<ridx, ret>>
  /\ UNCHANGED <<ring, arg, elem, log>>

\* Mutant: an addition in place of the compare-and-swap.
push_cas_add(p) ==
  /\ Goto(p, "push_cas", "push_copy1")
  /\ write_pos' = write_pos + 1
  /\ log' = Append(log, arg[p])
  /\ UNCHANGED <<read_pos, max_read_idx, data, ridx, widx, arg, elem, ret>>

\* mp_ring_push claims the slot by moving write_pos, or starts again.
push_cas(p) ==
  /\ \/ /\ U4(write_pos) = U4(widx[p])
        /\ Goto(p, "push_cas", "push_copy1")
        /\ write_pos' = write_pos + 1
        /\ log' = Append(log, arg[p])
     \/ /\ U4(write_pos) # U4(widx[p])
        /\ Goto(p, "push_cas", "push_ridx")
        /\ UNCHANGED <<write_pos, log>>
  /\ UNCHANGED <<read_pos, max_read_idx, data, ridx, widx, arg, elem, ret>>

CopyIn(p, h) == data' = [data EXCEPT ![ring_index(widx[p])][h] = arg[p]]

\* Mutant: a copy that is too short.
push_copy_short(p) ==
  /\ Goto(p, "push_copy1", "push_publish") /\ CopyIn(p, 1)
  /\ UNCHANGED <<write_pos, read_pos, max_read_idx, ridx, widx, arg, elem, ret, log>>

push_copy(p) ==
  /\ \/ Goto(p, "push_copy1", "push_copy2") /\ CopyIn(p, 1)
     \/ Goto(p, "push_copy2", "push_publish") /\ CopyIn(p, 2)
  /\ UNCHANGED <<write_pos, read_pos, max_read_idx, ridx, widx, arg, elem, ret, log>>

\* Mutant: a push that returns without moving max_read_idx on.
push_publish_forgotten(p) ==
  /\ Return(p, "push_publish", 0)
  /\ MultiProducer /\ U4(max_read_idx) = U4(widx[p])
  /\ UNCHANGED <<ring, arg, elem, log>>

\* mp_ring_push yields until max_read_idx has reached its own slot, then moves
\* it on; the single producer moves write_pos.
push_publish(p) ==
  /\ Return(p, "push_publish", 0)
  /\ \/ /\ MultiProducer
        /\ U4(max_read_idx) = U4(widx[p])
        /\ max_read_idx' = max_read_idx + 1
        /\ UNCHANGED <<write_pos, log>>
     \/ /\ ~MultiProducer
        /\ write_pos' = write_pos + 1
        /\ log' = Append(log, arg[p])
        /\ UNCHANGED max_read_idx
  /\ UNCHANGED <<read_pos, data, arg, elem>>

ring_push(p) == \/ push_load_ridx(p) \/ push_load_widx(p) \/ push_cas(p)
                \/ push_copy(p) \/ push_publish(p)

(***************************************************************************)
(* ring_pop: mp_mc_ring_pop, sp_mc_ring_pop, mp_sc_ring_pop, sp_sc_ring_pop *)
(***************************************************************************)
pop_load_ridx(c) ==
  /\ Goto(c, "idle", "pop_limit") \/ Goto(c, "pop_ridx", "pop_limit")
  /\ ridx' = [ridx EXCEPT ![c] = read_pos]
  /\ UNCHANGED <<ring, widx, arg, elem, ret, log>>

\* Everything before this cursor has been copied into its slot.
Limit == IF MultiProducer THEN max_read_idx ELSE write_pos

\* Mutant: a pop does not test for an empty ring.
pop_load_limit_untested(c) ==
  /\ Goto(c, "pop_limit", "pop_copy1")
  /\ UNCHANGED <<ring, ridx, widx, ret, arg, elem, log>>

\* Mutant: the last element is taken for the end of the ring.
pop_load_limit_early(c) ==
  /\ \/ /\ ring_index(ridx[c]) = ring_index(Limit) \/ ridx[c] + 1 = Limit
        /\ Return(c, "pop_limit", -2)
     \/ /\ ring_index(ridx[c]) # ring_index(Limit) /\ ridx[c] + 1 # Limit
        /\ Goto(c, "pop_limit", "pop_copy1")
        /\ UNCHANGED <<ridx, widx, ret>>
  /\ UNCHANGED <<ring, arg, elem, log>>

\* The limit is loaded and the ring found empty or not.
pop_load_limit(c) ==
  /\ \/ /\ ring_index(ridx[c]) = ring_index(Limit)
        /\ Return(c, "pop_limit", -2)
     \/ /\ ring_index(ridx[c]) # ring_index(Limit)
        /\ Goto(c, "pop_limit", "pop_copy1")
        /\ UNCHANGED <<ridx, widx, ret>>
  /\ UNCHANGED <<ring, arg, elem, log>>

CopyOut(c, h) == elem' = [elem EXCEPT ![c][h] = data[ring_index(ridx[c])][h]]

pop_copy(c) ==
  /\ \/ Goto(c, "pop_copy1", "pop_copy2") /\ CopyOut(c, 1)
     \/ Goto(c, "pop_copy2", "pop_take") /\ CopyOut(c, 2)
  /\ UNCHANGED <<ring, ridx, widx, arg, ret, log>>

\* Mutant: read_pos is moved whatever the other consumers did.
pop_take_add(c) ==
  /\ Return(c, "pop_take", 0)
  /\ read_pos' = read_pos + 1
  /\ UNCHANGED <<write_pos, max_read_idx, data, arg, elem, log>>

\* The slot is given up: by compare-and-swap, starting again when another
\* consumer was faster, or by the single consumer.
pop_take(c) ==
  /\ \/ /\ MultiConsumer => U4(read_pos) = U4(ridx[c])
        /\ Return(c, "pop_take", 0)
        /\ read_pos' = read_pos + 1
     \/ /\ MultiConsumer /\ U4(read_pos) # U4(ridx[c])
        /\ Goto(c, "pop_take", "pop_ridx")
        /\ UNCHANGED <<read_pos, ret, ridx, widx>>
  /\ UNCHANGED <<write_pos, max_read_idx, data, arg, elem, log>>

ring_pop(c) == \/ pop_load_ridx(c) \/ pop_load_limit(c)
               \/ pop_copy(c) \/ pop_take(c)

(***************************************************************************)
(* ring_size: write_pos - read_pos, two loads whose order C leaves open    *)
(***************************************************************************)
size_first(o) ==
  /\ \/ /\ Goto(o, "idle", "size_read_pos")
        /\ widx' = [widx EXCEPT ![o] = write_pos]
        /\ UNCHANGED ridx
     \/ /\ Goto(o, "idle", "size_write_pos")
        /\ ridx' = [ridx EXCEPT ![o] = read_pos]
        /\ UNCHANGED widx
  /\ UNCHANGED <<ring, arg, elem, ret, log>>

\* Mutant: the operands swapped.
size_second_swapped(o) ==
  /\ \/ Return(o, "size_read_pos", U4(read_pos - widx[o]))
     \/ Return(o, "size_write_pos", U4(ridx[o] - write_pos))
  /\ UNCHANGED <<ring, arg, elem, log>>

size_second(o) ==
  /\ \/ Return(o, "size_read_pos", U4(widx[o] - read_pos))
     \/ Return(o, "size_write_pos", U4(write_pos - ridx[o]))
  /\ UNCHANGED <<ring, arg, elem, log>>

ring_size(o) == size_first(o) \/ size_second(o)

Next == \/ \E p \in Producers : ring_push(p)
        \/ \E c \in Consumers : ring_pop(c)
        \/ \E o \in Observers : ring_size(o)

Spec == Init /\ [][Next]_vars

\* Every thread that is inside a call is scheduled again and again; nobody has
\* to start another call.
Fairness ==
  /\ \A p \in Producers : WF_vars(ring_push(p) /\ pc[p] # "idle")
  /\ \A c \in Consumers : WF_vars(ring_pop(c) /\ pc[c] # "idle")

FairSpec == Spec /\ Fairness

(***************************************************************************)
(* Properties                                                              *)
(***************************************************************************)
PC == {"idle", "push_ridx", "push_widx", "push_cas", "push_copy1", "push_copy2",
       "push_publish", "pop_ridx", "pop_limit", "pop_copy1", "pop_copy2", "pop_take",
       "size_read_pos", "size_write_pos"}

TypeControl ==
  /\ write_pos \in Nat /\ read_pos \in Nat /\ max_read_idx \in Nat
  /\ pc \in [Threads -> PC]
  /\ ridx \in [Threads -> Nat] /\ widx \in [Threads -> Nat]

TypeData ==
  /\ data \in [Slots -> [Halves -> Values \cup {Junk}]]
  /\ arg \in [Producers -> Values \cup {Junk}]
  /\ elem \in [Consumers -> [Halves -> Values \cup {Junk}]]
  /\ ret \in [Threads -> Int]
  /\ log \in Seq(Values \cup {Junk})

\* Cursors and locals are counts, slots and buffers hold elements or what malloc left.
TypeOK == TypeControl /\ TypeData

\* The producer owns slot widx[p]: it is between its claim and its publication.
Claims(p) == MultiProducer /\ pc[p] \in {"push_copy1", "push_copy2", "push_publish"}

\* mp_ring_push: the positions between max_read_idx and write_pos are exactly the
\* ones some producer has claimed and not yet published, each of one producer, so
\* that a consumer stops in front of the oldest copy still going on.
ClaimsAreExclusive ==
  /\ \A p \in Producers : Claims(p) => widx[p] \in max_read_idx .. write_pos - 1
  /\ \A p, r \in Producers : Claims(p) /\ Claims(r) /\ widx[p] = widx[r] => p = r
  /\ MultiProducer => \A i \in max_read_idx .. write_pos - 1 :
                        \E p \in Producers : Claims(p) /\ widx[p] = i

\* ring_pop never moves read_pos past what has been published, whatever the
\* consumers compare their stale indices with.
NeverPopsUnpublished ==
  read_pos <= IF MultiProducer THEN max_read_idx ELSE write_pos

\* The element with which the next ring_pop returns 0 is the one pushed under that
\* position, in one piece: no element is lost, handed out twice, reordered or torn.
PopsInOrder ==
  \A c \in Consumers :
    pc[c] = "pop_take" /\ ridx[c] = read_pos =>
      \A h \in Halves : elem[c][h] = log[read_pos + 1]

\* The test for a full ring leaves one slot unused, so a full ring and an empty one
\* have different indices: never more than unit_num - 1 elements.
WithinCapacity == write_pos - read_pos < unit_num

\* ring_pop returns -2 ("the ring is empty") only when no published element is there.
EmptyIsReported ==
  [][\A c \in Consumers :
       pc[c] = "pop_limit" /\ pc'[c] = "idle" => read_pos = Limit]_vars

\* With several consumers ridx may be stale when the limit is loaded: ring_pop reports an
\* empty ring that is not empty only when the producer has come round to the very slot
\* of that ridx, so after a whole turn of pushes during the one call.
EmptyOrLapped ==
  [][\A c \in Consumers :
       pc[c] = "pop_limit" /\ pc'[c] = "idle" =>
         read_pos = Limit \/ Limit - ridx[c] >= unit_num]_vars

\* A push that has claimed a slot returns: the producers that wait for each other in
\* the loop on max_read_idx cannot all wait.
ClaimedPushReturns ==
  \A p \in Producers : Claims(p) ~> pc[p] = "idle"

\* A ring_size that loads read_pos first returns at least the elements the ring holds
\* when it returns; one that loads write_pos first at most those, unless the read_pos it
\* loads has passed its write_pos: the difference wraps to more than the ring can hold.
SizeErrsOneWay ==
  [][\A o \in Observers :
       LET n == write_pos - read_pos
       IN /\ pc[o] = "size_write_pos" /\ pc'[o] = "idle" => ret'[o] >= n
          /\ pc[o] = "size_read_pos" /\ pc'[o] = "idle" =>
               ret'[o] <= n \/ (read_pos > widx[o] /\ ret'[o] > unit_num)]_vars

(***************************************************************************)
(* The inductive invariant                                                 *)
(***************************************************************************)
Copying(p) == pc[p] \in {"push_copy1", "push_copy2", "push_publish"}
Loaded(c)  == pc[c] \in {"pop_limit", "pop_copy1", "pop_copy2", "pop_take"}
Taking(c)  == pc[c] \in {"pop_copy1", "pop_copy2", "pop_take"}

CursorInv == /\ read_pos <= Limit
             /\ MultiProducer => max_read_idx <= write_pos

PusherInv ==
  \A p \in Producers :
    /\ pc[p] = "push_cas" => MultiProducer /\ widx[p] <= write_pos
    /\ Copying(p) /\ ~MultiProducer => widx[p] = write_pos

PopperInv ==
  \A c \in Consumers :
    /\ Loaded(c) => ridx[c] <= read_pos
    /\ Loaded(c) /\ ~MultiConsumer => ridx[c] = read_pos
    /\ Taking(c) /\ ridx[c] = read_pos => read_pos < Limit

\* Which positions are claimed, published and popped: all four types.
ControlInv == CursorInv /\ ClaimsAreExclusive /\ PusherInv /\ PopperInv

\* No thread sleeps through 2^32 operations between a load and the compare-and-swap
\* that uses it: the u4 it compares has not come round to the same value.
NoABA ==
  /\ \A p \in Producers : pc[p] = "push_cas" => write_pos - widx[p] < Wrap
  /\ \A p \in Producers :
       pc[p] = "push_publish" /\ MultiProducer => widx[p] - max_read_idx < Wrap
  /\ \A c \in Consumers :
       pc[c] = "pop_take" /\ MultiConsumer => read_pos - ridx[c] < Wrap

\* Nor does one between the two loads of ring_size, however many operations there are in
\* all: what is bounded is how far the second cursor has moved past the first one loaded.
NoLap ==
  \A o \in Observers :
    /\ pc[o] = "size_write_pos" => write_pos - ridx[o] < Wrap
    /\ pc[o] = "size_read_pos" => read_pos - widx[o] < Wrap - unit_num

\* What ring_size has loaded first is behind the cursor.
ObserverInv ==
  \A o \in Observers :
    /\ pc[o] = "size_write_pos" => ridx[o] <= read_pos
    /\ pc[o] = "size_read_pos" => widx[o] <= write_pos

\* One producer: it sees at most what the ring can hold.
RoomInv ==
  /\ WithinCapacity
  /\ \A p \in Producers :
       /\ pc[p] = "push_widx" => ridx[p] <= read_pos /\ write_pos - ridx[p] < unit_num
       /\ Copying(p) => write_pos + 1 - read_pos < unit_num

\* One producer: every slot between read_pos and write_pos holds what was pushed there.
ElementsInSlots ==
  \A i \in read_pos .. write_pos - 1 : \A h \in Halves : data[ring_index(i)][h] = log[i + 1]

HalfPushed(p) ==
  /\ pc[p] \in {"push_copy2", "push_publish"} => data[ring_index(write_pos)][1] = arg[p]
  /\ pc[p] = "push_publish" => data[ring_index(write_pos)][2] = arg[p]

HalfPopped(c) == ridx[c] = read_pos =>
  /\ pc[c] \in {"pop_copy2", "pop_take"} => elem[c][1] = log[read_pos + 1]
  /\ pc[c] = "pop_take" => elem[c][2] = log[read_pos + 1]

ContentInv == /\ Len(log) = write_pos
              /\ ElementsInSlots
              /\ \A p \in Producers : HalfPushed(p)
              /\ \A c \in Consumers : HalfPopped(c)

\* The ring as the FIFO of RingFifo: the published elements, and what the last
\* ring_pop of each consumer returned.
Element(c) == IF elem[c][1] = elem[c][2] THEN elem[c][1] ELSE Junk
Slot(i) == LET s == ring_index(i)
           IN IF data[s][1] = data[s][2] THEN data[s][1] ELSE Junk

Fifo == INSTANCE RingFifo WITH
          Capacity <- unit_num - 1,
          Nothing  <- Junk,
          q   <- [k \in 1 .. Limit - read_pos |-> Slot(read_pos + k - 1)],
          out <- [c \in Consumers |-> IF pc[c] = "idle" /\ ret[c] = 0 THEN Element(c) ELSE Junk]

\* Every step of the ring is a push or a pop of a bounded FIFO, or no step of it.
ImplementsFifo == Fifo!Spec
=============================================================================
