------------------------------ MODULE LiskDeque ------------------------------
(***************************************************************************)
(* lisk_deque.c: a double-ended queue in blocks of unit_num elements; the  *)
(* map is an array of pointers to the blocks from start.index to           *)
(* end.index.  The last block always has room for one more element.        *)
(*                                                                         *)
(* A block is an address of the heap.  Every allocation may fail.          *)
(***************************************************************************)
EXTENDS Integers, Sequences, FiniteSets

CONSTANTS Values,
          unit_num,   \* elements in a block
          init_size,  \* the map_size given to _deque_init
          Addr,       \* addresses of blocks, a set of numbers
          MaxSize,    \* bound: no push on a deque with MaxSize elements
          Junk        \* what malloc leaves in memory, and nil

\* What is assumed of the constants.
DequeAssumption ==
  /\ unit_num \in Nat \ {0} /\ init_size \in Nat \ {0} /\ MaxSize \in Nat
  /\ Junk \notin Values \cup Addr

VARIABLES map, map_size, start, end,
          heap,   \* heap[a]: the elements of the block at a, or << >> when a is free
          out,    \* what the last pop copied out
          live    \* not yet given to _deque_uninit

vars == <<map, map_size, start, end, heap, out, live>>

Pos(i, c) == [index |-> i, cur |-> c]
NewBlock  == [k \in 0 .. unit_num - 1 |-> Junk]

\* malloc of a block: any free address; which one makes no difference.
Malloc == LET free == {a \in Addr : heap[a] = << >>}
          IN IF free = {} THEN {} ELSE {CHOOSE a \in free : TRUE}

\* _deque_init
Init ==
  /\ map_size = init_size
  /\ start = Pos(map_size \div 2, 0) /\ end = start
  /\ \E a \in Addr :
       /\ a = CHOOSE x \in Addr : \A y \in Addr : x <= y
       /\ heap = [x \in Addr |-> IF x = a THEN NewBlock ELSE << >>]
       /\ map = [i \in 0 .. map_size - 1 |-> IF i = start.index THEN a ELSE Junk]
  /\ out = Junk /\ live = TRUE

deque_empty == start = end

\* The element number pos, counted from the front.
deque_at(pos) == LET p == pos + start.cur
                 IN heap[map[start.index + p \div unit_num]][p % unit_num]

deque_front == IF deque_empty THEN Junk ELSE heap[map[start.index]][start.cur]

deque_back == CASE deque_empty -> Junk
                [] ~deque_empty /\ end.cur # 0 -> heap[map[end.index]][end.cur - 1]
                [] OTHER -> heap[map[end.index - 1]][unit_num - 1]

deque_size == IF start.index = end.index THEN end.index - start.index
              ELSE unit_num - start.cur + end.cur + (end.index - start.index - 1) * unit_num

\* How many elements there are.
Size == (end.index - start.index) * unit_num + end.cur - start.cur

(***************************************************************************)
(* deque_update_map: the blocks move to the middle of the map, or of a map *)
(* of twice the size                                                       *)
(***************************************************************************)
num == end.index - start.index + 1

InPlace == 2 * num < map_size

\* Mutant: the blocks are put one place too far up.
NewPlace_high == (IF InPlace THEN (map_size - num) \div 2 ELSE map_size - (num \div 2)) + 1

NewPlace == IF InPlace THEN (map_size - num) \div 2 ELSE map_size - (num \div 2)

\* The map with the num pointers moved to pos; in place, the old ones stay where they
\* are not overwritten.
Moved(pos) ==
  [i \in 0 .. (IF InPlace THEN map_size ELSE 2 * map_size) - 1 |->
     CASE i \in pos .. pos + num - 1 -> map[start.index + i - pos]
       [] i \notin pos .. pos + num - 1 /\ InPlace -> map[i]
       [] OTHER -> Junk]

\* One result of deque_update_map: the new map and positions.  The allocation of a new
\* map may fail.
Updated == [map |-> Moved(NewPlace), size |-> IF InPlace THEN map_size ELSE 2 * map_size,
            start |-> Pos(NewPlace, start.cur), end |-> Pos(NewPlace + num - 1, end.cur)]
Same == [map |-> map, size |-> map_size, start |-> start, end |-> end]

deque_update_map(u, ok) == \/ ok /\ u = Updated
                           \/ ~ok /\ ~InPlace /\ u = Same

(***************************************************************************)
(* Pushes                                                                  *)
(***************************************************************************)
Install(u) == map_size' = u.size /\ start' = u.start /\ end' = u.end

Fails(u) == /\ Install(u) /\ map' = u.map /\ out' = Junk

\* Mutant: the new front block is used from its first element.
deque_push_front_low(v) ==
  /\ Size < MaxSize /\ start.cur = 0 /\ start.index # 0
  /\ \E a \in Malloc :
       /\ start' = Pos(start.index - 1, 0)
       /\ map' = [map EXCEPT ![start.index - 1] = a]
       /\ heap' = [heap EXCEPT ![a] = [NewBlock EXCEPT ![0] = v]]
  /\ out' = Junk /\ UNCHANGED <<map_size, end>>

deque_push_front(v) ==
  /\ Size < MaxSize
  /\ \/ /\ start.cur # 0
        /\ start' = Pos(start.index, start.cur - 1)
        /\ heap' = [heap EXCEPT ![map[start.index]][start.cur - 1] = v]
        /\ out' = Junk /\ UNCHANGED <<map, map_size, end>>
     \/ /\ start.cur = 0
        /\ \E u \in {Updated, Same}, ok \in BOOLEAN :
             /\ IF start.index = 0 THEN deque_update_map(u, ok) ELSE u = Same /\ ok
             /\ \/ Fails(u) /\ UNCHANGED heap
                \/ \E a \in Malloc :
                     /\ ok
                     /\ Install([u EXCEPT !.start = Pos(u.start.index - 1, unit_num - 1)])
                     /\ map' = [u.map EXCEPT ![u.start.index - 1] = a]
                     /\ heap' = [heap EXCEPT ![a] = [NewBlock EXCEPT ![unit_num - 1] = v]]
                     /\ out' = Junk

\* The element is copied in before room for the next one is made; when that fails it is
\* forgotten again.
deque_push_back(v) ==
  /\ Size < MaxSize
  /\ \/ /\ end.cur + 1 # unit_num
        /\ end' = Pos(end.index, end.cur + 1)
        /\ heap' = [heap EXCEPT ![map[end.index]][end.cur] = v]
        /\ out' = Junk /\ UNCHANGED <<map, map_size, start>>
     \/ /\ end.cur + 1 = unit_num
        /\ \E u \in {Updated, Same}, ok \in BOOLEAN :
             /\ IF end.index = map_size - 1 THEN deque_update_map(u, ok) ELSE u = Same /\ ok
             /\ \/ Fails(u) /\ heap' = [heap EXCEPT ![map[end.index]][end.cur] = v]
                \/ \E a \in Malloc :
                     /\ ok
                     /\ Install([u EXCEPT !.end = Pos(u.end.index + 1, 0)])
                     /\ map' = [u.map EXCEPT ![u.end.index + 1] = a]
                     /\ heap' = [heap EXCEPT ![map[end.index]][end.cur] = v, ![a] = NewBlock]
                     /\ out' = Junk

(***************************************************************************)
(* Pops                                                                    *)
(***************************************************************************)
pop_nothing == deque_empty /\ out' = Junk /\ UNCHANGED <<map, map_size, start, end, heap>>

deque_pop_front ==
  \/ pop_nothing
  \/ /\ ~deque_empty
     /\ out' = heap[map[start.index]][start.cur]
     /\ \/ /\ start.cur + 1 = unit_num
           /\ heap' = [heap EXCEPT ![map[start.index]] = << >>]
           /\ map' = [map EXCEPT ![start.index] = Junk]
           /\ start' = Pos(start.index + 1, 0)
        \/ /\ start.cur + 1 # unit_num
           /\ start' = Pos(start.index, start.cur + 1)
           /\ UNCHANGED <<map, heap>>
     /\ UNCHANGED <<map_size, end>>

deque_pop_back ==
  \/ pop_nothing
  \/ /\ ~deque_empty
     /\ \/ /\ end.cur # 0
           /\ end' = Pos(end.index, end.cur - 1)
           /\ out' = heap[map[end.index]][end.cur - 1]
           /\ UNCHANGED <<map, heap>>
        \/ /\ end.cur = 0
           /\ heap' = [heap EXCEPT ![map[end.index]] = << >>]
           /\ map' = [map EXCEPT ![end.index] = Junk]
           /\ end' = Pos(end.index - 1, unit_num - 1)
           /\ out' = heap[map[end.index - 1]][unit_num - 1]
     /\ UNCHANGED <<map_size, start>>

_deque_uninit ==
  /\ heap' = [a \in Addr |-> IF \E i \in start.index .. end.index : map[i] = a
                             THEN << >> ELSE heap[a]]
  /\ map' = [i \in 0 .. map_size - 1 |-> Junk]
  /\ live' = FALSE /\ out' = Junk /\ UNCHANGED <<map_size, start, end>>

Operation == \/ \E v \in Values : deque_push_front(v) \/ deque_push_back(v)
             \/ deque_pop_front \/ deque_pop_back

Next == live /\ ((Operation /\ UNCHANGED live) \/ _deque_uninit)

Spec == Init /\ [][Next]_vars

(***************************************************************************)
(* Properties                                                              *)
(***************************************************************************)
\* Every operation finds its place inside the map, also right after deque_update_map moved
\* the blocks.  Of the map_size lisk_deque.h says only "it must be a power of 2".
InsideMap == start.index <= end.index /\ end.index < map_size

\* The blocks between start and end are allocated and distinct, and no other block is:
\* nothing is freed twice, used after it was freed, or leaked, and _deque_uninit frees all.
BlocksOwned ==
  LET used == IF live THEN start.index .. end.index ELSE {}
  IN /\ \A i, j \in used : map[i] = map[j] => i = j
     /\ {a \in Addr : heap[a] # << >>} = {map[i] : i \in used}

TypeOK ==
  /\ map_size \in Nat /\ map \in [0 .. map_size - 1 -> Addr \cup {Junk}]
  /\ {start, end} \subseteq [index : Nat, cur : 0 .. unit_num - 1]
  /\ heap \in [Addr -> [0 .. unit_num - 1 -> Values \cup {Junk}] \cup {<< >>}]
  /\ out \in Values \cup {Junk} /\ live \in BOOLEAN

\* The inductive invariant. In one block, the front is not behind the back.
DequeInv == /\ TypeOK /\ InsideMap /\ BlocksOwned /\ map_size > 1
            /\ start.index = end.index => start.cur <= end.cur

\* deque_front and deque_back agree with deque_at.
EndsAgree == live /\ ~deque_empty => /\ deque_front = deque_at(0)
                                     /\ deque_back = deque_at(Size - 1)

\* What the deque holds, from front to back.
Elements == IF live THEN [k \in 1 .. Size |-> deque_at(k - 1)] ELSE << >>

Abstract == INSTANCE SeqDeque WITH Nothing <- Junk, s <- Elements

\* Every operation does to the elements what a sequence would do, wherever the blocks
\* lie and whichever allocation fails.
ImplementsDeque == Abstract!Spec
=============================================================================
