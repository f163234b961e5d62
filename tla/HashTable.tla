------------------------------ MODULE HashTable ------------------------------
(***************************************************************************)
(* win_lisk/src/lisk_hashtable.c: a hash table that grows by putting a     *)
(* larger, empty table in front of the old ones.  A search that finds its  *)
(* key in an old table moves the whole bucket to the first table, and      *)
(* frees the old table with its last element.                              *)
(*                                                                         *)
(* An element is named by its key; a bucket is the sequence of its         *)
(* elements.  One action is one call.  Each allocation may fail; a call    *)
(* that fails before it changes anything is no action.                     *)
(***************************************************************************)
EXTENDS Integers, Sequences, FiniteSets, FiniteSetsExt, SequencesExt

CONSTANTS Keys, Values,
          hash,              \* bkdr64: a function from Keys to Nat
          size,              \* the argument of hashtable_init
          MAX_BUCKET_SIZE,   \* 5 in the code
          Weight,            \* what an element adds to the load of a table: 1 in the code
          Growth             \* a new table is larger by this factor: 4 in the code

VARIABLES table,    \* the list of tables, hashtable->table first
          value,    \* the values of the elements
          crashed   \* a null pointer was followed

vars == <<table, value, crashed>>

\* 2 and 3 are no primes here.
is_num_prime(p) == p > 1 /\ p % 2 # 0 /\ p % 3 # 0 /\ \A d \in 3..(p - 1) : p % d # 0
next_prime(n) == Min({p \in (n + 1)..(2 * n + 5) : is_num_prime(p)})

NewTable(n) == [size |-> n, number |-> 0, bucket |-> [b \in 0..(n - 1) |-> << >>]]

Init == /\ table = <<NewTable(next_prime(size))>>
        /\ value = [k \in {} |-> k] /\ crashed = FALSE

Pos(t, k) == hash[k] % t.size

push(t, k) == [t EXCEPT !.bucket[Pos(t, k)] = <<k>> \o @, !.number = @ + 1]

\* The tables of ts in whose bucket k is found; the search takes the first.
Holding(ts, k) == {i \in DOMAIN ts : Contains(ts[i].bucket[Pos(ts[i], k)], k)}

\* Mutant: the emptied bucket's elements stay counted in the old table.
Drained_number(t, b) == [t EXCEPT !.bucket[b] = << >>]

Drained(t, b) == [t EXCEPT !.bucket[b] = << >>, !.number = @ - Len(t.bucket[b])]

\* Mutant: the old table is freed with its first empty bucket.
move_early(ts, i, b) == [RemoveAt(ts, i) EXCEPT ![1] = FoldLeft(push, ts[1], ts[i].bucket[b])]

\* Bucket b of table i goes, element by element, to the first table.
move(ts, i, b) ==
  LET old == Drained(ts[i], b)
      all == [ts EXCEPT ![1] = FoldLeft(push, ts[1], ts[i].bucket[b]), ![i] = old]
  IN IF old.number = 0 THEN RemoveAt(all, i) ELSE all

hashtable_search(ts, k) ==
  LET i == Min(Holding(ts, k))
  IN IF Holding(ts, k) \subseteq {1} THEN ts ELSE move(ts, i, Pos(ts[i], k))

Found(ts, k) == Holding(ts, k) # {}

Expand(ts) == <<NewTable(next_prime(ts[1].size * Growth))>> \o ts

\* The first table is full: it is expanded if there is memory, and the call goes on if not.
Room(ts) == IF (Weight * ts[1].number) \div ts[1].size > MAX_BUCKET_SIZE THEN {ts, Expand(ts)} ELSE {ts}

\* A key that is there, or a lack of memory for the element, leaves the expansion and
\* what the search moved.
hashtable_insert(k, v) ==
  /\ ~crashed /\ UNCHANGED crashed
  /\ \E ts \in Room(table) :
       LET found == hashtable_search(ts, k)
       IN \/ table' = found /\ UNCHANGED value
          \/ /\ ~Found(ts, k)
             /\ table' = [found EXCEPT ![1] = push(@, k)]
             /\ value' = [x \in DOMAIN value \cup {k} |-> IF x = k THEN v ELSE value[x]]

hashtable_find(k) ==
  /\ ~crashed /\ Found(table, k)
  /\ table' = hashtable_search(table, k) /\ UNCHANGED <<value, crashed>>

Unlink(t, k) == [t EXCEPT !.bucket[Pos(t, k)] = SelectSeq(@, LAMBDA e : e # k), !.number = @ - 1]

hashtable_erase(k) ==
  /\ ~crashed /\ Found(table, k)
  /\ table' = [hashtable_search(table, k) EXCEPT ![1] = Unlink(@, k)]
  /\ value' = [x \in DOMAIN value \ {k} |-> value[x]]
  /\ UNCHANGED crashed

\* In place, or in a reallocated element that takes the old one's place in its bucket.
hashtable_update(k, v) ==
  /\ ~crashed /\ Found(table, k)
  /\ table' = hashtable_search(table, k)
  /\ value' = [value EXCEPT ![k] = v] /\ UNCHANGED crashed

\* realloc fails, which leaves ht_elem_ptr nil, and the malloc after it does not.
hashtable_update_crash(k) ==
  /\ ~crashed /\ Found(table, k)
  /\ table' = hashtable_search(table, k) /\ crashed' = TRUE /\ UNCHANGED value

hashtable_free ==
  /\ ~crashed
  /\ table' = <<NewTable(next_prime(size))>> /\ value' = [k \in {} |-> k] /\ UNCHANGED crashed

Next == \/ hashtable_free
        \/ \E k \in Keys : \/ hashtable_find(k) \/ hashtable_erase(k) \/ hashtable_update_crash(k)
                           \/ \E v \in Values : hashtable_insert(k, v) \/ hashtable_update(k, v)

Spec == Init /\ [][Next]_vars

(***************************************************************************)
(* Properties                                                              *)
(***************************************************************************)
Length(t) == MapThenSumSet(LAMBDA b : Len(t.bucket[b]), DOMAIN t.bucket)

\* The count of each table, by which an old table is freed, is the number of elements in
\* it, and only the first table is ever empty: the tables that growth leaves behind go.
TablesDrain ==
  \A i \in DOMAIN table : table[i].number = Length(table[i]) /\ (i > 1 => table[i].number > 0)

D == INSTANCE Dictionary
       WITH content <- [k \in {x \in Keys : Found(table, x)} |-> value[k]]

\* What the chain of tables finds is a dictionary: growing, moving buckets and freeing
\* tables lose no key and bring none back.
ImplementsDictionary == D!Spec
=============================================================================
