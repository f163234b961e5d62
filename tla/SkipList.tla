------------------------------- MODULE SkipList -------------------------------
(***************************************************************************)
(* win_lisk/src/lisk_skiplist.c: a dictionary in a skip list whose largest *)
(* key is first.  A node is named by its key; next[l] is the chain of      *)
(* level l.  One action is one call; any of its allocations may fail.      *)
(*                                                                         *)
(* get_node_level draws from 0..SKIP_LIST_MAX_LEVEL; the drawn level is    *)
(* here below SKIP_LIST_MAX_LEVEL, the length of the arrays it indexes.    *)
(* A value is a sequence of bytes at least as long as a key.               *)
(***************************************************************************)
EXTENDS Integers, Sequences, FiniteSets, FiniteSetsExt

CONSTANTS Keys, Values,
          key_size,              \* key->size, the same for every key
          SKIP_LIST_MAX_LEVEL,
          header, tail, nil      \* the two end nodes; no node

VARIABLES level,   \* list->level
          next,    \* next[l][n]: n->next[l]
          value    \* [buf, size] of each node: value.data and value.size

vars == <<level, next, value>>

Levels == 0..(SKIP_LIST_MAX_LEVEL - 1)
Fresh(v) == [buf |-> v, size |-> Len(v)]

Init == /\ level = 0
        /\ next = [l \in Levels |-> [n \in Keys \cup {header} |-> IF n = header THEN tail ELSE nil]]
        /\ value = [k \in {} |-> k]

\* The last node of the chain of level l, from the node pre on, before the place of key.
Last(l, key, pre) ==
  LET walk[n \in Keys \cup {header}] ==
        IF next[l][n] # tail /\ key < next[l][n] THEN walk[next[l][n]] ELSE n
  IN walk[pre]

\* The array update[]: on each level the node before the place of key.
Update(key) ==
  LET upd[l \in 0..level] == Last(l, key, IF l = level THEN header ELSE upd[l + 1])
  IN [l \in Levels |-> IF l <= level THEN upd[l] ELSE header]

Found(key) == next[0][Update(key)[0]] = key

Link(k, top) ==
  LET upd == Update(k)
  IN [l \in Levels |-> IF l > top THEN next[l]
                       ELSE [next[l] EXCEPT ![k] = next[l][upd[l]], ![upd[l]] = k]]

\* A key that is not there gets a node, at most one level higher than the list was.
\* Without memory for the node the new level stays.
Add(k, v) ==
  /\ ~Found(k)
  /\ \E h \in Levels :
       LET top == IF h > level THEN level + 1 ELSE h
       IN /\ level' = IF h > level THEN top ELSE level
          /\ \/ UNCHANGED <<next, value>>
             \/ /\ next' = Link(k, top)
                /\ value' = [x \in DOMAIN value \cup {k} |-> IF x = k THEN Fresh(v) ELSE value[x]]

skip_list_insert(k, v) == Add(k, v)

\* A longer value gets a new buffer, of the old size; the bytes copied are key_size.
Replaced(old, v) ==
  LET buf == IF Len(v) > old.size THEN [i \in 1..old.size |-> nil] ELSE old.buf
  IN [buf |-> [i \in DOMAIN buf |-> IF i <= key_size THEN v[i] ELSE buf[i]], size |-> Len(v)]

skip_list_update(k, v) ==
  \/ Add(k, v)
  \/ Found(k) /\ value' = [value EXCEPT ![k] = Replaced(@, v)] /\ UNCHANGED <<level, next>>

\* Mutant: the node is unlinked from the levels below the list's highest.
Unlinked_below(k) ==
  LET upd == Update(k)
      out == {l \in 0..(level - 1) : \A m \in 0..l : next[m][upd[m]] = k} \cup {0}
  IN [l \in Levels |-> IF l \in out THEN [next[l] EXCEPT ![upd[l]] = next[l][k], ![k] = nil]
                       ELSE next[l]]

\* From the bottom up, as long as the node before k's place on the level is k's predecessor.
Unlinked(k) ==
  LET upd == Update(k)
      out == {l \in 0..level : \A m \in 0..l : next[m][upd[m]] = k}
  IN [l \in Levels |-> IF l \in out THEN [next[l] EXCEPT ![upd[l]] = next[l][k], ![k] = nil]
                       ELSE next[l]]

skip_list_erase(k) ==
  /\ Found(k)
  /\ next' = Unlinked(k)
  /\ level' = Max({0} \cup {l \in 1..level : next'[l][header] # tail})
  /\ value' = [x \in DOMAIN value \ {k} |-> value[x]]

\* The list is freed and initialised again.
skip_list_uninit == level' = 0 /\ value' = [k \in {} |-> k]
                    /\ next' = [l \in Levels |-> [n \in Keys \cup {header} |->
                                                    IF n = header THEN tail ELSE nil]]

Next == \/ skip_list_uninit
        \/ \E k \in Keys : \/ skip_list_erase(k)
                           \/ \E v \in Values : skip_list_insert(k, v) \/ skip_list_update(k, v)

Spec == Init /\ [][Next]_vars

(***************************************************************************)
(* Properties                                                              *)
(***************************************************************************)
On(l) == {k \in Keys : next[l][k] # nil}

\* What skip_list_find gives for a key: the first size bytes of the buffer.
Read(k) == [i \in 1..value[k].size |-> IF i \in DOMAIN value[k].buf THEN value[k].buf[i] ELSE nil]

\* The nodes of a level are those allocated with that level and are on every level below,
\* each chain runs down through all of them to the tail, and no node is above list->level:
\* no search of an upper level meets a node that was freed, or misses the way down.
LevelsNest ==
  \A l \in Levels :
    /\ On(l) \subseteq (IF l = 0 THEN DOMAIN value ELSE On(l - 1))
    /\ l > level => On(l) = {}
    /\ \A n \in On(l) \cup {header} :
         LET after == {k \in On(l) : n = header \/ k < n}
         IN next[l][n] = IF after = {} THEN tail ELSE Max(after)

D == INSTANCE Dictionary WITH content <- [k \in {x \in Keys : Found(x)} |-> Read(k)]

\* What the searches find is a dictionary (where values have the size of keys): a failed
\* allocation that leaves the list a level higher, or an erase that lowers it, hides no key.
ImplementsDictionary == D!Spec
=============================================================================
