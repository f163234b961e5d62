--------------------------------- MODULE Vector ---------------------------------
(***************************************************************************)
(* win_lisk/src/lisk_vector.c: an array that grows.  data is its memory,   *)
(* one value for each element that fits; capacity is counted in bytes, as  *)
(* in the code.  One action is one call; each allocation may fail.         *)
(***************************************************************************)
EXTENDS Integers, Sequences, FiniteSetsExt, SequencesExt

CONSTANTS Arrays,      \* sequences of values to insert
          init_number, \* the argument of lisk_vector_init
          length,      \* bytes of an element
          MaxNumber,   \* bound: elements a vector may get
          any,         \* what is in memory nobody has written
          nil

VARIABLES data, capacity, number,
          crashed      \* memory was written through a null pointer

vars == <<data, capacity, number, crashed>>

\* The smallest power of two that is no less than n.
next_pow_of_2(n) == Min({p \in {2^i : i \in 0..10} : p >= n})

Fresh(bytes) == [i \in 1..(bytes \div length) |-> any]

lisk_vector_init == [data |-> Fresh(next_pow_of_2(init_number * length)),
                     capacity |-> next_pow_of_2(init_number * length)]

Init == /\ data = lisk_vector_init.data /\ capacity = lisk_vector_init.capacity
        /\ number = 0 /\ crashed = FALSE

\* copy_data: s is written from element `at' on; a memmove, so s is what was there before.
Write(d, at, s) == [i \in DOMAIN d |-> IF i - at \in DOMAIN s THEN s[i - at] ELSE d[i]]

\* lisk_vector_realloc, which only insertion calls, and never for less than there is: a
\* realloc, also of the null pointer.
Moved(bytes) == IF data = nil THEN Fresh(bytes) ELSE Write(Fresh(bytes), 0, data)

\* Mutant: the elements behind pos make room for one, whatever the size.
Spread_one(d, pos, size) == Write(d, pos + 1, SubSeq(d, pos + 1, number))

Spread(d, pos, size) == Write(d, pos + size, SubSeq(d, pos + 1, number))

\* With arr = nil the new elements keep what was in memory.
Placed(d, pos, arr, size) ==
  IF arr = nil THEN Spread(d, pos, size) ELSE Write(Spread(d, pos, size), pos, arr)

Small(size) == (number + size) * length > capacity
Needed(size) == next_pow_of_2(number + size) * length

insert(pos, arr, size) ==
  /\ ~crashed /\ pos \in 0..number /\ number + size <= MaxNumber
  /\ IF Small(size)
     THEN /\ data' = Placed(Moved(Needed(size)), pos, arr, size) /\ capacity' = Needed(size)
          /\ number' = number + size /\ UNCHANGED crashed
     ELSE /\ crashed' = (data = nil /\ (pos < number \/ arr # nil))
          /\ data' = IF data = nil THEN nil ELSE Placed(data, pos, arr, size)
          /\ number' = IF crashed' THEN number ELSE number + size
          /\ UNCHANGED capacity

\* REALLOC assigns what realloc returns to vect->data, also when that is nil.
realloc_fails(size) ==
  /\ ~crashed /\ number + size <= MaxNumber /\ Small(size)
  /\ data' = nil /\ UNCHANGED <<capacity, number, crashed>>

lisk_vector_insert(pos, arr) == insert(pos, arr, Len(arr)) \/ realloc_fails(Len(arr))
insert_nil(pos, size) == insert(pos, nil, size) \/ realloc_fails(size)

lisk_vector_erase(pos, size) ==
  /\ ~crashed /\ pos + size <= number
  /\ LET rest == pos + size < number
     IN /\ crashed' = (rest /\ data = nil)
        /\ data' = IF rest /\ data # nil
                   THEN Write(data, pos, SubSeq(data, pos + size + 1, number)) ELSE data
  /\ number' = IF crashed' THEN number ELSE number - size
  /\ UNCHANGED capacity

lisk_vector_reverse ==
  /\ ~crashed /\ number > 0
  /\ crashed' = (number > 1 /\ data = nil)
  /\ data' = IF data = nil THEN nil ELSE Write(data, 0, Reverse(SubSeq(data, 1, number)))
  /\ UNCHANGED <<capacity, number>>

lisk_vector_clear == ~crashed /\ number' = 0 /\ UNCHANGED <<data, capacity, crashed>>

\* Cleared, then filled: the elements are lost also when the memory fails.
lisk_vector_assign(arr) ==
  /\ ~crashed
  /\ LET small == Len(arr) * length > capacity
         bytes == next_pow_of_2(Len(arr)) * length
     IN \/ /\ small /\ data' = Write(Moved(bytes), 0, arr) /\ capacity' = bytes
           /\ number' = Len(arr) /\ UNCHANGED crashed
        \/ small /\ data' = nil /\ number' = 0 /\ UNCHANGED <<capacity, crashed>>
        \/ /\ ~small /\ crashed' = (data = nil)
           /\ data' = IF data = nil THEN nil ELSE Write(data, 0, arr)
           /\ number' = IF crashed' THEN 0 ELSE Len(arr)
           /\ UNCHANGED capacity

\* Freed, and initialised again.
lisk_vector_uninit ==
  /\ ~crashed /\ data' = lisk_vector_init.data /\ capacity' = lisk_vector_init.capacity
  /\ number' = 0 /\ UNCHANGED crashed

\* Freed, and initialised again with the elements of an array.
lisk_vector_init_copy(arr) ==
  /\ ~crashed /\ UNCHANGED crashed
  /\ capacity' = next_pow_of_2(Len(arr) * length) /\ number' = Len(arr)
  /\ data' = Write(Fresh(capacity'), 0, arr)

Next == \/ lisk_vector_reverse \/ lisk_vector_clear \/ lisk_vector_uninit
        \/ \E arr \in Arrays : \/ lisk_vector_assign(arr) \/ lisk_vector_init_copy(arr)
                               \/ \E pos \in 0..number : lisk_vector_insert(pos, arr)
        \/ \E pos \in 0..number : insert_nil(pos, 1)
        \/ \E pos \in 0..(number - 1), size \in 1..2 : lisk_vector_erase(pos, size)

Spec == Init /\ [][Next]_vars

(***************************************************************************)
(* Properties                                                              *)
(***************************************************************************)
contents == SubSeq(data, 1, number)

\* An insertion puts its array at its place, and an erasure takes out what it names.
InPlace ==
  /\ \A arr \in Arrays, pos \in 0..number :
       lisk_vector_insert(pos, arr) =>
         contents' = SubSeq(contents, 1, pos) \o arr \o SubSeq(contents, pos + 1, number)
  /\ \A pos \in 0..number, size \in 1..2 :
       lisk_vector_erase(pos, size) =>
         contents' = SubSeq(contents, 1, pos) \o SubSeq(contents, pos + size + 1, number)

\* As long as memory suffices every call does so, across growing, moving and reversing,
\* and the memory always holds all elements.
ElementsInPlace == [][data # nil /\ data' # nil => InPlace /\ number' <= Len(data')]_vars

\* A reallocation that fails leaves the vector's memory block as it was.
BlockKept == [][\A size \in 1..2 : realloc_fails(size) => data' = data]_vars
=============================================================================
