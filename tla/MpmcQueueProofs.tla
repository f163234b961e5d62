--------------------------- MODULE MpmcQueueProofs ---------------------------
(***************************************************************************)
(* The bounded queue of numbered cells for every number of producers,      *)
(* consumers and cells but one.                                            *)
(***************************************************************************)
EXTENDS MpmcQueue, FiniteSetTheorems, TLAPS

(***************************************************************************)
(* Cells and tickets                                                       *)
(***************************************************************************)

\* The mask takes a ticket to a cell.
LEMMA CellInRange ==
  ASSUME MpmcAssumption, NEW n \in Nat
  PROVE  Cell(n) \in Cells
  BY DEF MpmcAssumption, Cell, Cells

\* A ticket and the one of the next round have the same cell.
LEMMA CellPeriod ==
  ASSUME MpmcAssumption, NEW n \in Nat
  PROVE  Cell(n + _size) = Cell(n)
  <1> DEFINE k == n \div _size
             r == n % _size
             q == k + 1
             m == n + _size
  <1> USE DEF MpmcAssumption
  <1>1. k \in Int /\ n = k * _size + r
    OBVIOUS
  <1>2. r \in 0 .. _size - 1
    OBVIOUS
  <1> HIDE DEF k, r
  <1>3. (k + 1) * _size = k * _size + _size
    BY <1>1
  <1>4. q \in Int /\ m \in Int /\ m = q * _size + r
    BY <1>1, <1>2, <1>3
  <1> HIDE DEF q, m
  <1>5. m % _size = r
    BY <1>2, <1>4
  <1>6. QED
    BY <1>5 DEF Cell, m, r

\* Two tickets less than one round apart have cells of their own.
LEMMA CellDistinct ==
  ASSUME MpmcAssumption, NEW a \in Nat, NEW z \in Nat,
         a < z + _size, z < a + _size, Cell(a) = Cell(z)
  PROVE  a = z
  <1> DEFINE j == a \div _size
             k == z \div _size
             r == a % _size
             d == k - j
  <1> USE DEF MpmcAssumption
  <1>1. j \in Int /\ r \in Int /\ a = j * _size + r
    OBVIOUS
  <1>2. k \in Int /\ z = k * _size + r
    BY DEF Cell
  <1> HIDE DEF j, k, r
  <1>3. (k - j) * _size = k * _size - j * _size
    BY <1>1, <1>2
  <1>4. d \in Int /\ d * _size = z - a
    BY <1>1, <1>2, <1>3
  <1> HIDE DEF d
  <1>5. d <= -1 => d * _size <= -_size
    BY <1>4
  <1>6. d >= 1 => d * _size >= _size
    BY <1>4
  <1>7. d = 0 => d * _size = 0
    BY <1>4
  <1>8. QED
    BY <1>4, <1>5, <1>6, <1>7

(***************************************************************************)
(* Types                                                                   *)
(***************************************************************************)
LEMMA TypeInit == ASSUME MpmcAssumption, Init PROVE TypeOK
  BY DEF MpmcAssumption, Init, TypeOK, Cells, Threads, EnqPC, DeqPC, Items

LEMMA TypeStep == ASSUME MpmcAssumption, TypeOK, [Next]_vars PROVE TypeOK'
  <1> USE DEF TypeOK, Threads, EnqPC, DeqPC, Items, Goto, Return, Stay, words
  <1>0. Producers \cap Consumers = {}
    BY DEF MpmcAssumption
  <1>1. ASSUME NEW p \in Producers, enqueue_call(p) PROVE TypeOK'
    BY <1>0, <1>1 DEF enqueue_call
  <1>2. ASSUME NEW p \in Producers, enqueue_seq(p) PROVE TypeOK'
    <2> SUFFICES /\ pc' = [pc EXCEPT ![p] = pc'[p]]
                 /\ pc'[p] \in {"enq_cas", "idle", "enq_reload"}
                 /\ ticket' \in [Threads -> Nat] /\ item' \in [Threads -> Items]
      BY <1>0, <1>2, Zenon DEF enqueue_seq
    <2>1. CASE Goto(p, "enq_seq", "enq_cas") /\ Stay
      BY <2>1
    <2>2. CASE Return(p, "enq_seq")
      BY <2>2
    <2>3. CASE Goto(p, "enq_seq", "enq_reload") /\ Stay
      BY <2>3
    <2>4. QED
      BY <1>2, <2>1, <2>2, <2>3 DEF enqueue_seq
  <1>3. ASSUME NEW p \in Producers, enqueue_reload(p) PROVE TypeOK'
    BY <1>0, <1>3 DEF enqueue_reload
  <1>4. ASSUME NEW p \in Producers, enqueue_cas(p) PROVE TypeOK'
    BY <1>0, <1>4 DEF enqueue_cas
  <1>5. ASSUME NEW p \in Producers, enqueue_cas_fails(p) PROVE TypeOK'
    BY <1>0, <1>5 DEF enqueue_cas_fails
  <1>6. ASSUME NEW p \in Producers, enqueue_data(p) PROVE TypeOK'
    <2>1. Cell(ticket[p]) \in Cells
      BY CellInRange
    <2>2. QED
      BY <1>0, <1>6, <2>1 DEF enqueue_data
  <1>7. ASSUME NEW p \in Producers, enqueue_release(p) PROVE TypeOK'
    <2>1. Cell(ticket[p]) \in Cells
      BY CellInRange
    <2>2. QED
      BY <1>0, <1>7, <2>1 DEF enqueue_release
  <1>8. ASSUME NEW p \in Producers, enqueue_count(p) PROVE TypeOK'
    BY <1>0, <1>8 DEF enqueue_count
  <1>9. ASSUME NEW c \in Consumers, dequeue_call(c) PROVE TypeOK'
    BY <1>0, <1>9 DEF dequeue_call
  <1>10. ASSUME NEW c \in Consumers, dequeue_seq(c) PROVE TypeOK'
    <2> SUFFICES /\ pc' = [pc EXCEPT ![c] = pc'[c]]
                 /\ pc'[c] \in {"deq_cas", "idle", "deq_reload"}
                 /\ ticket' \in [Threads -> Nat] /\ item' \in [Threads -> Items]
      BY <1>0, <1>10, Zenon DEF dequeue_seq
    <2>1. CASE Goto(c, "deq_seq", "deq_cas") /\ Stay
      BY <2>1
    <2>2. CASE Return(c, "deq_seq")
      BY <2>2
    <2>3. CASE Goto(c, "deq_seq", "deq_reload") /\ Stay
      BY <2>3
    <2>4. QED
      BY <1>10, <2>1, <2>2, <2>3 DEF dequeue_seq
  <1>11. ASSUME NEW c \in Consumers, dequeue_reload(c) PROVE TypeOK'
    BY <1>0, <1>11 DEF dequeue_reload
  <1>12. ASSUME NEW c \in Consumers, dequeue_cas(c) PROVE TypeOK'
    BY <1>0, <1>12 DEF dequeue_cas
  <1>13. ASSUME NEW c \in Consumers, dequeue_cas_fails(c) PROVE TypeOK'
    BY <1>0, <1>13 DEF dequeue_cas_fails
  <1>14. ASSUME NEW c \in Consumers, dequeue_data(c) PROVE TypeOK'
    <2>1. Cell(ticket[c]) \in Cells
      BY CellInRange
    <2>2. QED
      BY <1>0, <1>14, <2>1 DEF dequeue_data
  <1>15. ASSUME NEW c \in Consumers, dequeue_release(c) PROVE TypeOK'
    <2>1. Cell(ticket[c]) \in Cells /\ ticket[c] + _size \in Nat
      BY CellInRange DEF MpmcAssumption
    <2>2. QED
      BY <1>0, <1>15, <2>1 DEF dequeue_release
  <1>16. ASSUME NEW c \in Consumers, dequeue_count(c) PROVE TypeOK'
    BY <1>0, <1>16 DEF dequeue_count
  <1>17. ASSUME NEW t \in Threads, spurious_failure(t) PROVE TypeOK'
    BY <1>0, <1>17, Zenon DEF spurious_failure
  <1>18. CASE UNCHANGED vars
    BY <1>18 DEF vars
  <1> HIDE DEF TypeOK, Threads, EnqPC, DeqPC, Items, Goto, Return, Stay, words
  <1>19. QED
    BY <1>1, <1>2, <1>3, <1>4, <1>5, <1>6, <1>7, <1>8, <1>9, <1>10, <1>11, <1>12, <1>13,
       <1>14, <1>15, <1>16, <1>17, <1>18, Zenon
    DEF Next, enqueue, dequeue

(***************************************************************************)
(* Tickets                                                                 *)
(***************************************************************************)

\* The exchange of enqueue succeeds: the cell is free, and no dequeue is still at it.
LEMMA MayEnqueue ==
  ASSUME MpmcAssumption, TypeOK, TicketsOwned, CellsNumbered, SeenIsCurrent,
         NEW p \in Producers, pc[p] = "enq_cas", ticket[p] = _head_seq
  PROVE  /\ _head_seq < _tail_seq + _size
         /\ \A c \in Consumers : Emptying(c) => ticket[c] + _size # _head_seq
  <1> USE DEF TypeOK, MpmcAssumption
  <1>1. seq[Cell(_head_seq)] = _head_seq
    BY DEF SeenIsCurrent
  <1>2. ASSUME _head_seq = _tail_seq + _size PROVE FALSE
    <2>1. Cell(_head_seq) = Cell(_tail_seq)
      BY <1>2, CellPeriod
    <2>2. seq[Cell(_tail_seq)] \in {_tail_seq, _tail_seq + 1}
      BY <1>2 DEF CellsNumbered
    <2>3. QED
      BY <1>1, <1>2, <2>1, <2>2
  <1>3. _head_seq < _tail_seq + _size
    BY <1>2 DEF TicketsOwned
  <1>4. _head_seq \in _head_seq .. _tail_seq + _size - 1
    BY <1>3
  <1>5. QED
    BY <1>1, <1>3, <1>4 DEF CellsNumbered

\* The exchange of dequeue succeeds: the cell is filled, and its enqueue is done with it.
LEMMA MayDequeue ==
  ASSUME MpmcAssumption, TypeOK, TicketsOwned, CellsNumbered, SeenIsCurrent,
         NEW c \in Consumers, pc[c] = "deq_cas", ticket[c] = _tail_seq
  PROVE  /\ _tail_seq < _head_seq
         /\ \A p \in Producers : Filling(p) => ticket[p] # _tail_seq
  <1> USE DEF TypeOK, MpmcAssumption
  <1>1. seq[Cell(_tail_seq)] = _tail_seq + 1
    BY DEF SeenIsCurrent
  <1>2. ASSUME _head_seq = _tail_seq PROVE FALSE
    <2>1. _tail_seq \in _head_seq .. _tail_seq + _size - 1
      BY <1>2
    <2>2. seq[Cell(_tail_seq)] \in {_tail_seq, _tail_seq + 1 - _size}
      BY <2>1 DEF CellsNumbered
    <2>3. QED
      BY <1>1, <2>2
  <1>3. _tail_seq < _head_seq
    BY <1>2 DEF TicketsOwned
  <1>4. _tail_seq \in _tail_seq .. _head_seq - 1
    BY <1>3
  <1>5. QED
    BY <1>1, <1>3, <1>4 DEF CellsNumbered

\* The look at the number of its cell moves no other thread, and leaves the thread outside of
\* the cells.
Looked(t) ==
  /\ UNCHANGED <<_head_seq, _tail_seq, seq, data, log>>
  /\ \A u \in Threads \ {t} : pc'[u] = pc[u] /\ ticket'[u] = ticket[u] /\ item'[u] = item[u]
  /\ pc[t] \in {"enq_seq", "deq_seq"}
  /\ pc'[t] \in {"idle", "enq_cas", "enq_reload", "deq_cas", "deq_reload"}
  /\ pc'[t] # "idle" => ticket'[t] = ticket[t] /\ item'[t] = item[t]
  /\ pc'[t] = "idle" => item'[t] = Junk

LEMMA LookMoves ==
  ASSUME TypeOK, NEW t \in Threads, enqueue_seq(t) \/ dequeue_seq(t)
  PROVE  Looked(t)
  <1> USE DEF TypeOK, Goto, Return, Stay, words, Looked
  <1>1. CASE enqueue_seq(t)
    BY <1>1 DEF enqueue_seq
  <1>2. CASE dequeue_seq(t)
    BY <1>2 DEF dequeue_seq
  <1>3. QED
    BY <1>1, <1>2, Zenon

\* Who enters no cell and keeps its ticket until it returns disturbs no ticket.
LEMMA TicketsFrame ==
  ASSUME TicketsOwned, UNCHANGED <<_head_seq, _tail_seq>>,
         \A u \in Threads : /\ pc'[u] # "idle" => pc[u] # "idle" /\ ticket'[u] = ticket[u]
                            /\ Filling(u)' => Filling(u) /\ ticket'[u] = ticket[u]
                            /\ Emptying(u)' => Emptying(u) /\ ticket'[u] = ticket[u]
  PROVE  TicketsOwned'
  <1>1. \A u \in Producers \cup Consumers :
          /\ pc'[u] # "idle" => pc[u] # "idle" /\ ticket'[u] = ticket[u]
          /\ Filling(u)' => Filling(u) /\ ticket'[u] = ticket[u]
          /\ Emptying(u)' => Emptying(u) /\ ticket'[u] = ticket[u]
    BY DEF Threads
  <1>2. QED
    BY <1>1 DEF TicketsOwned

LEMMA TicketsStep ==
  ASSUME MpmcAssumption, TypeOK, TicketsOwned, CellsNumbered, SeenIsCurrent, [Next]_vars
  PROVE  TicketsOwned'
  <1>20. \A t \in Threads : enqueue_seq(t) \/ dequeue_seq(t) => Looked(t)
    BY LookMoves
  <1> USE DEF TypeOK, TicketsOwned, Threads, Filling, Emptying, Goto, Return, Stay, words
  <1>0. Producers \cap Consumers = {} /\ _size \in Nat
    BY DEF MpmcAssumption
  <1>1. ASSUME NEW p \in Producers, enqueue_call(p) PROVE TicketsOwned'
    BY <1>0, <1>1 DEF enqueue_call
  <1>2. ASSUME NEW p \in Producers, enqueue_seq(p) PROVE TicketsOwned'
    <2>1. Looked(p)
      BY <1>20, <1>2, Zenon
    <2>2. QED
      BY <2>1, TicketsFrame DEF Looked
  <1>3. ASSUME NEW p \in Producers, enqueue_reload(p) PROVE TicketsOwned'
    BY <1>0, <1>3 DEF enqueue_reload
  <1>4. ASSUME NEW p \in Producers, enqueue_cas(p) PROVE TicketsOwned'
    <2>1. /\ _head_seq < _tail_seq + _size
          /\ \A c \in Consumers : Emptying(c) => ticket[c] + _size # _head_seq
      BY <1>4, MayEnqueue DEF enqueue_cas
    <2>2. QED
      BY <1>0, <1>4, <2>1 DEF enqueue_cas
  <1>5. ASSUME NEW p \in Producers, enqueue_cas_fails(p) PROVE TicketsOwned'
    BY <1>0, <1>5 DEF enqueue_cas_fails
  <1>6. ASSUME NEW p \in Producers, enqueue_data(p) PROVE TicketsOwned'
    BY <1>0, <1>6 DEF enqueue_data
  <1>7. ASSUME NEW p \in Producers, enqueue_release(p) PROVE TicketsOwned'
    BY <1>0, <1>7 DEF enqueue_release
  <1>8. ASSUME NEW p \in Producers, enqueue_count(p) PROVE TicketsOwned'
    BY <1>0, <1>8 DEF enqueue_count
  <1>9. ASSUME NEW c \in Consumers, dequeue_call(c) PROVE TicketsOwned'
    BY <1>0, <1>9 DEF dequeue_call
  <1>10. ASSUME NEW c \in Consumers, dequeue_seq(c) PROVE TicketsOwned'
    <2>1. Looked(c)
      BY <1>20, <1>10, Zenon
    <2>2. QED
      BY <2>1, TicketsFrame DEF Looked
  <1>11. ASSUME NEW c \in Consumers, dequeue_reload(c) PROVE TicketsOwned'
    BY <1>0, <1>11 DEF dequeue_reload
  <1>12. ASSUME NEW c \in Consumers, dequeue_cas(c) PROVE TicketsOwned'
    <2>1. /\ _tail_seq < _head_seq
          /\ \A p \in Producers : Filling(p) => ticket[p] # _tail_seq
      BY <1>12, MayDequeue DEF dequeue_cas
    <2>2. QED
      BY <1>0, <1>12, <2>1 DEF dequeue_cas
  <1>13. ASSUME NEW c \in Consumers, dequeue_cas_fails(c) PROVE TicketsOwned'
    BY <1>0, <1>13 DEF dequeue_cas_fails
  <1>14. ASSUME NEW c \in Consumers, dequeue_data(c) PROVE TicketsOwned'
    BY <1>0, <1>14 DEF dequeue_data
  <1>15. ASSUME NEW c \in Consumers, dequeue_release(c) PROVE TicketsOwned'
    BY <1>0, <1>15 DEF dequeue_release
  <1>16. ASSUME NEW c \in Consumers, dequeue_count(c) PROVE TicketsOwned'
    BY <1>0, <1>16 DEF dequeue_count
  <1>17. ASSUME NEW t \in Threads, spurious_failure(t) PROVE TicketsOwned'
    BY <1>0, <1>17, Zenon DEF spurious_failure
  <1>18. CASE UNCHANGED vars
    BY <1>18 DEF vars
  <1> HIDE DEF TypeOK, TicketsOwned, Threads, Filling, Emptying, Goto, Return, Stay, words
  <1>19. QED
    BY <1>1, <1>2, <1>3, <1>4, <1>5, <1>6, <1>7, <1>8, <1>9, <1>10, <1>11, <1>12, <1>13,
       <1>14, <1>15, <1>16, <1>17, <1>18, Zenon
    DEF Next, enqueue, dequeue

(***************************************************************************)
(* Sequence numbers                                                        *)
(***************************************************************************)

\* Between its claim and its release a thread keeps its ticket, and outside it has no cell.
LEMMA CellsFrame ==
  ASSUME CellsNumbered, UNCHANGED <<_head_seq, _tail_seq, seq>>,
         \A p \in Producers : Filling(p)' <=> Filling(p),
         \A p \in Producers : Filling(p) => ticket'[p] = ticket[p],
         \A c \in Consumers : Emptying(c)' <=> Emptying(c),
         \A c \in Consumers : Emptying(c) => ticket'[c] = ticket[c]
  PROVE  CellsNumbered'
  BY DEF CellsNumbered

LEMMA CellsStep ==
  ASSUME MpmcAssumption, TypeOK, TicketsOwned, CellsNumbered, SeenIsCurrent, [Next]_vars
  PROVE  CellsNumbered'
  <1> USE DEF TypeOK, Threads, Filling, Emptying, Goto, Return, Stay, words
  <1>0. Producers \cap Consumers = {} /\ _size \in Nat /\ _size > 1
    BY DEF MpmcAssumption
  <1>1. ASSUME NEW p \in Producers, enqueue_call(p) PROVE CellsNumbered'
    <2>1. /\ UNCHANGED <<_head_seq, _tail_seq, seq>>
          /\ \A q \in Producers : Filling(q)' <=> Filling(q)
          /\ \A q \in Producers : Filling(q) => ticket'[q] = ticket[q]
          /\ \A d \in Consumers : Emptying(d)' <=> Emptying(d)
          /\ \A d \in Consumers : Emptying(d) => ticket'[d] = ticket[d]
      BY <1>0, <1>1 DEF enqueue_call
    <2>2. QED
      BY <2>1, CellsFrame
  <1>2. ASSUME NEW p \in Producers, enqueue_seq(p) PROVE CellsNumbered'
    <2>1. /\ UNCHANGED <<_head_seq, _tail_seq, seq>>
          /\ \A q \in Producers : Filling(q)' <=> Filling(q)
          /\ \A q \in Producers : Filling(q) => ticket'[q] = ticket[q]
          /\ \A d \in Consumers : Emptying(d)' <=> Emptying(d)
          /\ \A d \in Consumers : Emptying(d) => ticket'[d] = ticket[d]
      BY <1>0, <1>2 DEF enqueue_seq
    <2>2. QED
      BY <2>1, CellsFrame
  <1>3. ASSUME NEW p \in Producers, enqueue_reload(p) PROVE CellsNumbered'
    <2>1. /\ UNCHANGED <<_head_seq, _tail_seq, seq>>
          /\ \A q \in Producers : Filling(q)' <=> Filling(q)
          /\ \A q \in Producers : Filling(q) => ticket'[q] = ticket[q]
          /\ \A d \in Consumers : Emptying(d)' <=> Emptying(d)
          /\ \A d \in Consumers : Emptying(d) => ticket'[d] = ticket[d]
      BY <1>0, <1>3 DEF enqueue_reload
    <2>2. QED
      BY <2>1, CellsFrame
  <1>4. ASSUME NEW p \in Producers, enqueue_cas(p) PROVE CellsNumbered'
    <2>1. seq[Cell(_head_seq)] = _head_seq
      BY <1>4 DEF enqueue_cas, SeenIsCurrent
    <2>2. ASSUME NEW n \in _tail_seq' .. _head_seq' - 1
          PROVE  \/ seq'[Cell(n)] = n /\ \E r \in Producers : Filling(r)' /\ ticket'[r] = n
                 \/ /\ seq'[Cell(n)] = n + 1
                    /\ \A r \in Producers : Filling(r)' => ticket'[r] # n
      <3>1. CASE n = _head_seq
        BY <1>4, <2>1, <3>1 DEF enqueue_cas
      <3>2. CASE n # _head_seq
        <4>1. n \in _tail_seq .. _head_seq - 1
          BY <1>4, <3>2 DEF enqueue_cas
        <4>2. QED
          BY <1>4, <4>1, <3>2 DEF enqueue_cas, CellsNumbered
      <3>3. QED
        BY <3>1, <3>2
    <2>3. ASSUME NEW n \in _head_seq' .. _tail_seq' + _size - 1
          PROVE  n \in _head_seq .. _tail_seq + _size - 1
      BY <1>0, <1>4 DEF enqueue_cas
    <2>4. \A d \in Consumers : (Emptying(d)' <=> Emptying(d)) /\ ticket'[d] = ticket[d]
      BY <1>0, <1>4 DEF enqueue_cas
    <2>5. QED
      BY <1>4, <2>2, <2>3, <2>4 DEF enqueue_cas, CellsNumbered
  <1>5. ASSUME NEW p \in Producers, enqueue_cas_fails(p) PROVE CellsNumbered'
    <2>1. /\ UNCHANGED <<_head_seq, _tail_seq, seq>>
          /\ \A q \in Producers : Filling(q)' <=> Filling(q)
          /\ \A q \in Producers : Filling(q) => ticket'[q] = ticket[q]
          /\ \A d \in Consumers : Emptying(d)' <=> Emptying(d)
          /\ \A d \in Consumers : Emptying(d) => ticket'[d] = ticket[d]
      BY <1>0, <1>5 DEF enqueue_cas_fails
    <2>2. QED
      BY <2>1, CellsFrame
  <1>6. ASSUME NEW p \in Producers, enqueue_data(p) PROVE CellsNumbered'
    <2>1. /\ UNCHANGED <<_head_seq, _tail_seq, seq>>
          /\ \A q \in Producers : Filling(q)' <=> Filling(q)
          /\ \A q \in Producers : Filling(q) => ticket'[q] = ticket[q]
          /\ \A d \in Consumers : Emptying(d)' <=> Emptying(d)
          /\ \A d \in Consumers : Emptying(d) => ticket'[d] = ticket[d]
      BY <1>0, <1>6 DEF enqueue_data
    <2>2. QED
      BY <2>1, CellsFrame
  <1>7. ASSUME NEW p \in Producers, enqueue_release(p) PROVE CellsNumbered'
    <2> DEFINE k == ticket[p]
    <2>1. k \in Nat /\ _tail_seq <= k /\ k < _head_seq /\ Filling(p)
      BY <1>7 DEF enqueue_release, TicketsOwned
    <2>2. /\ Cell(k) \in Cells /\ seq' = [seq EXCEPT ![Cell(k)] = k + 1]
          /\ UNCHANGED <<_head_seq, _tail_seq, ticket>>
      BY <1>7, <2>1, CellInRange DEF enqueue_release
    <2>3. \A r \in Producers : Filling(r)' <=> Filling(r) /\ r # p
      BY <1>7 DEF enqueue_release
    <2>4. \A d \in Consumers : Emptying(d)' <=> Emptying(d)
      BY <1>0, <1>7 DEF enqueue_release
    <2>5. ASSUME NEW n \in Nat, n # k, _tail_seq <= n, n < _tail_seq + _size
          PROVE  seq'[Cell(n)] = seq[Cell(n)]
      <3>1. Cell(n) # Cell(k)
        BY <1>0, <2>1, <2>5, CellDistinct DEF TicketsOwned
      <3>2. QED
        BY <2>2, <2>5, <3>1, CellInRange
    <2> HIDE DEF k
    <2>6. ASSUME NEW n \in _tail_seq .. _head_seq - 1
          PROVE  \/ seq'[Cell(n)] = n /\ \E r \in Producers : Filling(r)' /\ ticket'[r] = n
                 \/ /\ seq'[Cell(n)] = n + 1
                    /\ \A r \in Producers : Filling(r)' => ticket'[r] # n
      <3>1. CASE n = k
        BY <2>1, <2>2, <2>3, <3>1 DEF k, TicketsOwned
      <3>2. CASE n # k
        <4>1. seq'[Cell(n)] = seq[Cell(n)]
          BY <1>0, <2>5, <3>2 DEF TicketsOwned
        <4>2. QED
          BY <2>2, <2>3, <3>2, <4>1, Zenon DEF k, CellsNumbered
      <3>3. QED
        BY <3>1, <3>2
    <2>7. ASSUME NEW n \in _head_seq .. _tail_seq + _size - 1
          PROVE  seq'[Cell(n)] = seq[Cell(n)]
      BY <1>0, <2>1, <2>5 DEF TicketsOwned
    <2>8. ASSUME NEW n \in 0 .. _tail_seq - 1
          PROVE  seq'[Cell(n)] > n
      <3>1. Cell(n) \in Cells /\ seq[Cell(n)] > n
        BY CellInRange DEF CellsNumbered
      <3>2. QED
        BY <2>1, <2>2, <3>1
    <2>9. QED
      BY <2>2, <2>4, <2>6, <2>7, <2>8 DEF CellsNumbered
  <1>8. ASSUME NEW p \in Producers, enqueue_count(p) PROVE CellsNumbered'
    <2>1. /\ UNCHANGED <<_head_seq, _tail_seq, seq>>
          /\ \A q \in Producers : Filling(q)' <=> Filling(q)
          /\ \A q \in Producers : Filling(q) => ticket'[q] = ticket[q]
          /\ \A d \in Consumers : Emptying(d)' <=> Emptying(d)
          /\ \A d \in Consumers : Emptying(d) => ticket'[d] = ticket[d]
      BY <1>0, <1>8 DEF enqueue_count
    <2>2. QED
      BY <2>1, CellsFrame
  <1>9. ASSUME NEW c \in Consumers, dequeue_call(c) PROVE CellsNumbered'
    <2>1. /\ UNCHANGED <<_head_seq, _tail_seq, seq>>
          /\ \A q \in Producers : Filling(q)' <=> Filling(q)
          /\ \A q \in Producers : Filling(q) => ticket'[q] = ticket[q]
          /\ \A d \in Consumers : Emptying(d)' <=> Emptying(d)
          /\ \A d \in Consumers : Emptying(d) => ticket'[d] = ticket[d]
      BY <1>0, <1>9 DEF dequeue_call
    <2>2. QED
      BY <2>1, CellsFrame
  <1>10. ASSUME NEW c \in Consumers, dequeue_seq(c) PROVE CellsNumbered'
    <2>1. /\ UNCHANGED <<_head_seq, _tail_seq, seq>>
          /\ \A q \in Producers : Filling(q)' <=> Filling(q)
          /\ \A q \in Producers : Filling(q) => ticket'[q] = ticket[q]
          /\ \A d \in Consumers : Emptying(d)' <=> Emptying(d)
          /\ \A d \in Consumers : Emptying(d) => ticket'[d] = ticket[d]
      BY <1>0, <1>10 DEF dequeue_seq
    <2>2. QED
      BY <2>1, CellsFrame
  <1>11. ASSUME NEW c \in Consumers, dequeue_reload(c) PROVE CellsNumbered'
    <2>1. /\ UNCHANGED <<_head_seq, _tail_seq, seq>>
          /\ \A q \in Producers : Filling(q)' <=> Filling(q)
          /\ \A q \in Producers : Filling(q) => ticket'[q] = ticket[q]
          /\ \A d \in Consumers : Emptying(d)' <=> Emptying(d)
          /\ \A d \in Consumers : Emptying(d) => ticket'[d] = ticket[d]
      BY <1>0, <1>11 DEF dequeue_reload
    <2>2. QED
      BY <2>1, CellsFrame
  <1>12. ASSUME NEW c \in Consumers, dequeue_cas(c) PROVE CellsNumbered'
    <2>1. seq[Cell(_tail_seq)] = _tail_seq + 1 /\ Cell(_tail_seq + _size) = Cell(_tail_seq)
      BY <1>12, CellPeriod DEF dequeue_cas, SeenIsCurrent
    <2>2. ASSUME NEW n \in _head_seq' .. _tail_seq' + _size - 1
          PROVE  \/ /\ seq'[Cell(n)] = n + 1 - _size
                    /\ \E d \in Consumers : Emptying(d)' /\ ticket'[d] + _size = n
                 \/ /\ seq'[Cell(n)] = n
                    /\ \A d \in Consumers : Emptying(d)' => ticket'[d] + _size # n
      <3>1. CASE n = _tail_seq + _size
        <4>1. seq'[Cell(n)] = _tail_seq + 1 /\ n + 1 - _size = _tail_seq + 1
          BY <1>0, <1>12, <2>1, <3>1 DEF dequeue_cas
        <4>2. Emptying(c)' /\ ticket'[c] + _size = n
          BY <1>0, <1>12, <3>1 DEF dequeue_cas
        <4>3. QED
          BY <4>1, <4>2
      <3>2. CASE n # _tail_seq + _size
        <4>0. _head_seq' = _head_seq /\ _tail_seq' = _tail_seq + 1
          BY <1>12 DEF dequeue_cas
        <4>1. n \in _head_seq .. _tail_seq + _size - 1
          BY <1>0, <3>2, <4>0
        <4>2. \A d \in Consumers : Emptying(d)' <=> Emptying(d) \/ d = c
          BY <1>12 DEF dequeue_cas
        <4>3. seq' = seq /\ ticket' = ticket /\ ticket[c] + _size # n
          BY <1>0, <1>12, <3>2 DEF dequeue_cas
        <4>4. ~Emptying(c)
          BY <1>12 DEF dequeue_cas
        <4> HIDE DEF Emptying
        <4>5. QED
          BY <4>1, <4>2, <4>3, <4>4 DEF CellsNumbered
      <3>3. QED
        BY <3>1, <3>2
    <2>3. ASSUME NEW n \in _tail_seq' .. _head_seq' - 1
          PROVE  n \in _tail_seq .. _head_seq - 1
      BY <1>12 DEF dequeue_cas
    <2>4. ASSUME NEW n \in 0 .. _tail_seq' - 1
          PROVE  seq'[Cell(n)] > n
      BY <1>12, <2>1 DEF dequeue_cas, CellsNumbered
    <2>5. \A r \in Producers : (Filling(r)' <=> Filling(r)) /\ ticket'[r] = ticket[r]
      BY <1>0, <1>12 DEF dequeue_cas
    <2>6. QED
      BY <1>12, <2>2, <2>3, <2>4, <2>5 DEF dequeue_cas, CellsNumbered
  <1>13. ASSUME NEW c \in Consumers, dequeue_cas_fails(c) PROVE CellsNumbered'
    <2>1. /\ UNCHANGED <<_head_seq, _tail_seq, seq>>
          /\ \A q \in Producers : Filling(q)' <=> Filling(q)
          /\ \A q \in Producers : Filling(q) => ticket'[q] = ticket[q]
          /\ \A d \in Consumers : Emptying(d)' <=> Emptying(d)
          /\ \A d \in Consumers : Emptying(d) => ticket'[d] = ticket[d]
      BY <1>0, <1>13 DEF dequeue_cas_fails
    <2>2. QED
      BY <2>1, CellsFrame
  <1>14. ASSUME NEW c \in Consumers, dequeue_data(c) PROVE CellsNumbered'
    <2>1. /\ UNCHANGED <<_head_seq, _tail_seq, seq>>
          /\ \A q \in Producers : Filling(q)' <=> Filling(q)
          /\ \A q \in Producers : Filling(q) => ticket'[q] = ticket[q]
          /\ \A d \in Consumers : Emptying(d)' <=> Emptying(d)
          /\ \A d \in Consumers : Emptying(d) => ticket'[d] = ticket[d]
      BY <1>0, <1>14 DEF dequeue_data
    <2>2. QED
      BY <2>1, CellsFrame
  <1>15. ASSUME NEW c \in Consumers, dequeue_release(c) PROVE CellsNumbered'
    <2> DEFINE k == ticket[c] + _size
    <2>1. k \in Nat /\ _head_seq <= k /\ k < _tail_seq + _size /\ Emptying(c)
      BY <1>0, <1>15 DEF dequeue_release, TicketsOwned
    <2>2. /\ Cell(k) \in Cells /\ seq' = [seq EXCEPT ![Cell(k)] = k]
          /\ UNCHANGED <<_head_seq, _tail_seq, ticket>>
      BY <1>15, CellInRange, CellPeriod, Zenon DEF dequeue_release
    <2>3. \A d \in Consumers : Emptying(d)' <=> Emptying(d) /\ d # c
      BY <1>15 DEF dequeue_release
    <2>4. \A r \in Producers : Filling(r)' <=> Filling(r)
      BY <1>0, <1>15 DEF dequeue_release
    <2>5. ASSUME NEW n \in Nat, n # k, _tail_seq <= n, n < _tail_seq + _size
          PROVE  seq'[Cell(n)] = seq[Cell(n)]
      <3>1. Cell(n) # Cell(k)
        BY <1>0, <2>1, <2>5, CellDistinct DEF TicketsOwned
      <3>2. QED
        BY <2>2, <2>5, <3>1, CellInRange
    <2> HIDE DEF k
    <2>6. ASSUME NEW n \in _head_seq .. _tail_seq + _size - 1
          PROVE  \/ /\ seq'[Cell(n)] = n + 1 - _size
                    /\ \E d \in Consumers : Emptying(d)' /\ ticket'[d] + _size = n
                 \/ /\ seq'[Cell(n)] = n
                    /\ \A d \in Consumers : Emptying(d)' => ticket'[d] + _size # n
      <3>1. CASE n = k
        BY <1>0, <2>1, <2>2, <2>3, <3>1 DEF k, TicketsOwned
      <3>2. CASE n # k
        <4>1. seq'[Cell(n)] = seq[Cell(n)]
          BY <1>0, <2>5, <3>2 DEF TicketsOwned
        <4>2. QED
          BY <2>2, <2>3, <3>2, <4>1 DEF k, CellsNumbered
      <3>3. QED
        BY <3>1, <3>2
    <2>7. ASSUME NEW n \in _tail_seq .. _head_seq - 1
          PROVE  seq'[Cell(n)] = seq[Cell(n)]
      BY <1>0, <2>1, <2>5 DEF TicketsOwned
    <2>8. ASSUME NEW n \in 0 .. _tail_seq - 1
          PROVE  seq'[Cell(n)] > n
      <3>1. Cell(n) \in Cells /\ seq[Cell(n)] > n
        BY CellInRange DEF CellsNumbered
      <3>2. QED
        BY <2>1, <2>2, <3>1 DEF TicketsOwned
    <2>9. QED
      BY <2>2, <2>4, <2>6, <2>7, <2>8 DEF CellsNumbered
  <1>16. ASSUME NEW c \in Consumers, dequeue_count(c) PROVE CellsNumbered'
    <2>1. /\ UNCHANGED <<_head_seq, _tail_seq, seq>>
          /\ \A q \in Producers : Filling(q)' <=> Filling(q)
          /\ \A q \in Producers : Filling(q) => ticket'[q] = ticket[q]
          /\ \A d \in Consumers : Emptying(d)' <=> Emptying(d)
          /\ \A d \in Consumers : Emptying(d) => ticket'[d] = ticket[d]
      BY <1>0, <1>16 DEF dequeue_count
    <2>2. QED
      BY <2>1, CellsFrame
  <1>17. ASSUME NEW t \in Threads, spurious_failure(t) PROVE CellsNumbered'
    <2>1. /\ UNCHANGED <<_head_seq, _tail_seq, seq>>
          /\ \A q \in Producers : Filling(q)' <=> Filling(q)
          /\ \A q \in Producers : Filling(q) => ticket'[q] = ticket[q]
          /\ \A d \in Consumers : Emptying(d)' <=> Emptying(d)
          /\ \A d \in Consumers : Emptying(d) => ticket'[d] = ticket[d]
      BY <1>0, <1>17 DEF spurious_failure
    <2>2. QED
      BY <2>1, CellsFrame
  <1>18. CASE UNCHANGED vars
    BY <1>18, CellsFrame DEF vars
  <1> HIDE DEF TypeOK, Threads, Filling, Emptying, Goto, Return, Stay, words
  <1>19. QED
    BY <1>1, <1>2, <1>3, <1>4, <1>5, <1>6, <1>7, <1>8, <1>9, <1>10, <1>11, <1>12, <1>13,
       <1>14, <1>15, <1>16, <1>17, <1>18, Zenon
    DEF Next, enqueue, dequeue

\* A release changes no cell but its own.
LEMMA OtherCells ==
  ASSUME MpmcAssumption, TypeOK, NEW k \in Nat, NEW n \in Nat,
         seq' = [seq EXCEPT ![Cell(k)] = seq'[Cell(k)]],
         _tail_seq <= k, k < _tail_seq + _size, _tail_seq <= n, n < _tail_seq + _size, n # k
  PROVE  seq'[Cell(n)] = seq[Cell(n)]
  <1>1. Cell(n) # Cell(k)
    BY CellDistinct DEF MpmcAssumption, TypeOK
  <1>2. QED
    BY <1>1, CellInRange DEF TypeOK

LEMMA SeenStep ==
  ASSUME MpmcAssumption, TypeOK, TicketsOwned, CellsNumbered, SeenIsCurrent, [Next]_vars
  PROVE  SeenIsCurrent'
  <1> USE DEF TypeOK, Threads, Goto, Return, Stay, words
  <1>0. Producers \cap Consumers = {} /\ _size \in Nat /\ _size > 1
    BY DEF MpmcAssumption
  <1>1. ASSUME NEW p \in Producers, enqueue_call(p) PROVE SeenIsCurrent'
    BY <1>0, <1>1 DEF enqueue_call, SeenIsCurrent
  <1>2. ASSUME NEW p \in Producers, enqueue_seq(p) PROVE SeenIsCurrent'
    <2>1. seq[Cell(ticket[p])] \in Nat
      BY CellInRange
    <2>2. pc'[p] = "enq_cas" => seq[Cell(ticket[p])] = ticket[p] /\ ticket' = ticket
      BY <1>0, <1>2, <2>1 DEF enqueue_seq, Turn
    <2>3. QED
      BY <1>0, <1>2, <2>2 DEF enqueue_seq, SeenIsCurrent
  <1>3. ASSUME NEW p \in Producers, enqueue_reload(p) PROVE SeenIsCurrent'
    BY <1>0, <1>3 DEF enqueue_reload, SeenIsCurrent
  <1>4. ASSUME NEW p \in Producers, enqueue_cas(p) PROVE SeenIsCurrent'
    <2>1. /\ _head_seq' = _head_seq + 1 /\ UNCHANGED <<_tail_seq, seq, ticket>>
          /\ pc' = [pc EXCEPT ![p] = "enq_data"]
      BY <1>4 DEF enqueue_cas
    <2>2. \A r \in Producers : pc'[r] = "enq_cas" => ticket[r] < _head_seq'
      BY <2>1 DEF TicketsOwned
    <2>3. \A r \in Producers : ~(pc'[r] = "enq_cas" /\ ticket'[r] = _head_seq')
      BY <2>1, <2>2
    <2>4. \A c \in Consumers : pc'[c] = pc[c]
      BY <1>0, <2>1
    <2>5. QED
      BY <2>1, <2>3, <2>4 DEF SeenIsCurrent
  <1>5. ASSUME NEW p \in Producers, enqueue_cas_fails(p) PROVE SeenIsCurrent'
    BY <1>0, <1>5 DEF enqueue_cas_fails, SeenIsCurrent
  <1>6. ASSUME NEW p \in Producers, enqueue_data(p) PROVE SeenIsCurrent'
    BY <1>0, <1>6 DEF enqueue_data, SeenIsCurrent
  <1>7. ASSUME NEW p \in Producers, enqueue_release(p) PROVE SeenIsCurrent'
    <2> DEFINE k == ticket[p]
    <2>1. k \in Nat /\ _tail_seq <= k /\ k < _head_seq /\ Filling(p)
      BY <1>7 DEF enqueue_release, TicketsOwned, Filling
    <2>2. /\ seq' = [seq EXCEPT ![Cell(k)] = seq'[Cell(k)]]
          /\ UNCHANGED <<_head_seq, _tail_seq, ticket>>
      BY <1>7, CellInRange, Zenon DEF enqueue_release
    <2> HIDE DEF k
    <2>3. ASSUME NEW r \in Producers, pc'[r] = "enq_cas", ticket'[r] = _head_seq'
          PROVE  seq'[Cell(_head_seq)] = _head_seq
      <3>1. pc[r] = "enq_cas" /\ ticket[r] = _head_seq
        BY <1>7, <2>3 DEF enqueue_release
      <3>2. _head_seq < _tail_seq + _size /\ seq[Cell(_head_seq)] = _head_seq
        BY <3>1, MayEnqueue DEF k, SeenIsCurrent
      <3>3. _tail_seq <= _head_seq /\ k < _tail_seq + _size /\ _tail_seq <= k /\ _head_seq # k
        BY <1>0, <2>1, <3>2 DEF TicketsOwned
      <3>4. seq'[Cell(_head_seq)] = seq[Cell(_head_seq)]
        BY <1>0, <2>1, <2>2, <3>2, <3>3, OtherCells
      <3>5. QED
        BY <3>2, <3>4
    <2>4. ASSUME NEW d \in Consumers, pc'[d] = "deq_cas", ticket'[d] = _tail_seq'
          PROVE  seq'[Cell(_tail_seq)] = _tail_seq + 1
      <3>1. pc[d] = "deq_cas" /\ ticket[d] = _tail_seq
        BY <1>0, <1>7, <2>4 DEF enqueue_release
      <3>2. k # _tail_seq /\ seq[Cell(_tail_seq)] = _tail_seq + 1
        BY <2>1, <3>1, MayDequeue DEF k, SeenIsCurrent
      <3>3. _tail_seq <= _head_seq /\ k < _tail_seq + _size /\ _tail_seq <= k /\ _tail_seq # k
        BY <1>0, <2>1, <3>2 DEF TicketsOwned
      <3>4. seq'[Cell(_tail_seq)] = seq[Cell(_tail_seq)]
        BY <1>0, <2>1, <2>2, <3>2, <3>3, OtherCells
      <3>5. QED
        BY <3>2, <3>4
    <2>5. QED
      BY <2>2, <2>3, <2>4 DEF SeenIsCurrent
  <1>8. ASSUME NEW p \in Producers, enqueue_count(p) PROVE SeenIsCurrent'
    BY <1>0, <1>8 DEF enqueue_count, SeenIsCurrent
  <1>9. ASSUME NEW c \in Consumers, dequeue_call(c) PROVE SeenIsCurrent'
    BY <1>0, <1>9 DEF dequeue_call, SeenIsCurrent
  <1>10. ASSUME NEW c \in Consumers, dequeue_seq(c) PROVE SeenIsCurrent'
    <2>1. seq[Cell(ticket[c])] \in Nat
      BY CellInRange
    <2>2. pc'[c] = "deq_cas" => seq[Cell(ticket[c])] = ticket[c] + 1 /\ ticket' = ticket
      BY <1>0, <1>10, <2>1 DEF dequeue_seq, Turn
    <2>3. QED
      BY <1>0, <1>10, <2>2, Zenon DEF dequeue_seq, SeenIsCurrent
  <1>11. ASSUME NEW c \in Consumers, dequeue_reload(c) PROVE SeenIsCurrent'
    BY <1>0, <1>11 DEF dequeue_reload, SeenIsCurrent
  <1>12. ASSUME NEW c \in Consumers, dequeue_cas(c) PROVE SeenIsCurrent'
    <2>1. /\ _tail_seq' = _tail_seq + 1 /\ UNCHANGED <<_head_seq, seq, ticket>>
          /\ pc' = [pc EXCEPT ![c] = "deq_data"]
      BY <1>12 DEF dequeue_cas
    <2>2. \A d \in Consumers : pc'[d] = "deq_cas" => ticket[d] < _tail_seq'
      BY <2>1 DEF TicketsOwned
    <2>3. \A d \in Consumers : ~(pc'[d] = "deq_cas" /\ ticket'[d] = _tail_seq')
      BY <2>1, <2>2
    <2>4. \A p \in Producers : pc'[p] = pc[p]
      BY <1>0, <2>1
    <2>5. QED
      BY <2>1, <2>3, <2>4 DEF SeenIsCurrent
  <1>13. ASSUME NEW c \in Consumers, dequeue_cas_fails(c) PROVE SeenIsCurrent'
    BY <1>0, <1>13 DEF dequeue_cas_fails, SeenIsCurrent
  <1>14. ASSUME NEW c \in Consumers, dequeue_data(c) PROVE SeenIsCurrent'
    BY <1>0, <1>14 DEF dequeue_data, SeenIsCurrent
  <1>15. ASSUME NEW c \in Consumers, dequeue_release(c) PROVE SeenIsCurrent'
    <2> DEFINE k == ticket[c] + _size
    <2>1. k \in Nat /\ _head_seq <= k /\ k < _tail_seq + _size /\ Emptying(c)
      BY <1>0, <1>15 DEF dequeue_release, TicketsOwned, Emptying
    <2>2. /\ seq' = [seq EXCEPT ![Cell(k)] = seq'[Cell(k)]]
          /\ UNCHANGED <<_head_seq, _tail_seq, ticket>>
      BY <1>15, CellInRange, CellPeriod, Zenon DEF dequeue_release
    <2> HIDE DEF k
    <2>3. ASSUME NEW r \in Producers, pc'[r] = "enq_cas", ticket'[r] = _head_seq'
          PROVE  seq'[Cell(_head_seq)] = _head_seq
      <3>1. pc[r] = "enq_cas" /\ ticket[r] = _head_seq
        BY <1>0, <1>15, <2>3 DEF dequeue_release
      <3>2. k # _head_seq /\ _head_seq < _tail_seq + _size /\ seq[Cell(_head_seq)] = _head_seq
        BY <2>1, <3>1, MayEnqueue DEF k, SeenIsCurrent
      <3>3. _tail_seq <= _head_seq /\ k < _tail_seq + _size /\ _tail_seq <= k /\ _head_seq # k
        BY <1>0, <2>1, <3>2 DEF TicketsOwned
      <3>4. seq'[Cell(_head_seq)] = seq[Cell(_head_seq)]
        BY <1>0, <2>1, <2>2, <3>2, <3>3, OtherCells
      <3>5. QED
        BY <3>2, <3>4
    <2>4. ASSUME NEW d \in Consumers, pc'[d] = "deq_cas", ticket'[d] = _tail_seq'
          PROVE  seq'[Cell(_tail_seq)] = _tail_seq + 1
      <3>1. pc[d] = "deq_cas" /\ ticket[d] = _tail_seq
        BY <1>15, <2>4 DEF dequeue_release
      <3>2. k # _tail_seq /\ seq[Cell(_tail_seq)] = _tail_seq + 1
        BY <2>1, <3>1, MayDequeue DEF k, SeenIsCurrent
      <3>3. _tail_seq <= _head_seq /\ k < _tail_seq + _size /\ _tail_seq <= k /\ _tail_seq # k
        BY <1>0, <2>1, <3>2 DEF TicketsOwned
      <3>4. seq'[Cell(_tail_seq)] = seq[Cell(_tail_seq)]
        BY <1>0, <2>1, <2>2, <3>2, <3>3, OtherCells
      <3>5. QED
        BY <3>2, <3>4
    <2>5. QED
      BY <2>2, <2>3, <2>4 DEF SeenIsCurrent
  <1>16. ASSUME NEW c \in Consumers, dequeue_count(c) PROVE SeenIsCurrent'
    BY <1>0, <1>16 DEF dequeue_count, SeenIsCurrent
  <1>17. ASSUME NEW t \in Threads, spurious_failure(t) PROVE SeenIsCurrent'
    BY <1>0, <1>17 DEF spurious_failure, SeenIsCurrent
  <1>18. CASE UNCHANGED vars
    BY <1>18 DEF vars, SeenIsCurrent
  <1> HIDE DEF TypeOK, Threads, Goto, Return, Stay, words
  <1>19. QED
    BY <1>1, <1>2, <1>3, <1>4, <1>5, <1>6, <1>7, <1>8, <1>9, <1>10, <1>11, <1>12, <1>13,
       <1>14, <1>15, <1>16, <1>17, <1>18, Zenon
    DEF Next, enqueue, dequeue

(***************************************************************************)
(* Items                                                                   *)
(***************************************************************************)
LEMMA ItemsLook ==
  ASSUME TypeOK, ItemsKept, NEW t \in Threads, Looked(t)
  PROVE  ItemsKept'
  <1>1. ASSUME NEW p \in Producers
        PROVE  /\ pc'[p] # "idle" => pc[p] # "idle" /\ item'[p] = item[p]
               /\ Filling(p)' => Filling(p) /\ ticket'[p] = ticket[p]
               /\ pc'[p] = "enq_release" => pc[p] = "enq_release" /\ ticket'[p] = ticket[p]
    BY DEF Looked, Threads, Filling
  <1>2. ASSUME NEW c \in Consumers, pc'[c] = "deq_data"
        PROVE  pc[c] = "deq_data" /\ ticket'[c] = ticket[c]
    BY <1>2 DEF Looked, Threads
  <1>3. ASSUME NEW c \in Consumers, pc'[c] \in {"idle", "deq_seq", "deq_reload", "deq_cas"}
        PROVE  item'[c] = Junk
    <2>1. CASE c = t
      BY <1>3, <2>1 DEF Looked, ItemsKept, TypeOK, DeqPC
    <2>2. CASE c # t
      BY <1>3, <2>2 DEF Looked, ItemsKept, Threads
    <2>3. QED
      BY <2>1, <2>2
  <1>4. UNCHANGED <<_head_seq, _tail_seq, seq, data, log>>
    BY DEF Looked
  <1>5. QED
    BY <1>1, <1>2, <1>3, <1>4 DEF ItemsKept

LEMMA ItemsStep ==
  ASSUME MpmcAssumption, TypeOK, TicketsOwned, CellsNumbered, SeenIsCurrent, ItemsKept,
         [Next]_vars
  PROVE  ItemsKept'
  <1>20. \A t \in Threads : enqueue_seq(t) \/ dequeue_seq(t) => ItemsKept'
    BY LookMoves, ItemsLook
  <1> USE DEF TypeOK, Threads, Goto, Return, Stay, words, Filling
  <1>0. Producers \cap Consumers = {} /\ _size \in Nat /\ _size > 1
    BY DEF MpmcAssumption
  <1>1. ASSUME NEW p \in Producers, enqueue_call(p) PROVE ItemsKept'
    BY <1>0, <1>1 DEF enqueue_call, ItemsKept
  <1>2. ASSUME NEW p \in Producers, enqueue_seq(p) PROVE ItemsKept'
    BY <1>20, <1>2, Zenon
  <1>3. ASSUME NEW p \in Producers, enqueue_reload(p) PROVE ItemsKept'
    BY <1>0, <1>3 DEF enqueue_reload, ItemsKept
  <1>4. ASSUME NEW p \in Producers, enqueue_cas(p) PROVE ItemsKept'
    <2>1. /\ item[p] = p /\ ticket[p] = _head_seq /\ pc[p] = "enq_cas"
          /\ pc' = [pc EXCEPT ![p] = "enq_data"] /\ _head_seq' = _head_seq + 1
          /\ log' = Append(log, p)
          /\ UNCHANGED <<_tail_seq, seq, data, ticket, item>>
      BY <1>4 DEF enqueue_cas, ItemsKept
    <2>2. \A n \in 0 .. _head_seq - 1 : log'[n + 1] = log[n + 1]
      BY <2>1
    <2>3. log'[_head_seq + 1] = p
      BY <2>1
    <2>4. seq[Cell(_head_seq)] = _head_seq
      BY <2>1 DEF SeenIsCurrent
    <2>5. \A r \in Producers : Filling(r)' => log'[ticket'[r] + 1] = r
      BY <2>1, <2>2, <2>3 DEF TicketsOwned, ItemsKept
    <2>6. ASSUME NEW n \in _tail_seq' .. _head_seq' - 1, seq'[Cell(n)] = n + 1
          PROVE  data'[Cell(n)] = log'[n + 1]
      <3>1. n # _head_seq
        BY <2>1, <2>4, <2>6
      <3>2. n \in _tail_seq .. _head_seq - 1
        BY <2>1, <3>1
      <3>3. seq[Cell(n)] = n + 1 /\ data' = data /\ log'[n + 1] = log[n + 1]
        BY <2>1, <2>2, <2>6, <3>2
      <3>4. QED
        BY <3>2, <3>3 DEF ItemsKept
    <2>7. \A c \in Consumers : pc'[c] = "deq_data" => data'[Cell(ticket'[c])] = log'[ticket'[c] + 1]
      BY <1>0, <2>1, <2>2 DEF TicketsOwned, Emptying, ItemsKept
    <2>8. QED
      BY <1>0, <2>1, <2>5, <2>6, <2>7, Zenon DEF ItemsKept
  <1>5. ASSUME NEW p \in Producers, enqueue_cas_fails(p) PROVE ItemsKept'
    BY <1>0, <1>5 DEF enqueue_cas_fails, ItemsKept
  <1>6. ASSUME NEW p \in Producers, enqueue_data(p) PROVE ItemsKept'
    <2> DEFINE k == ticket[p]
    <2>1. k \in Nat /\ _tail_seq <= k /\ k < _head_seq /\ Filling(p) /\ item[p] = p
      BY <1>6 DEF enqueue_data, TicketsOwned, ItemsKept
    <2>2. /\ data' = [data EXCEPT ![Cell(k)] = p] /\ pc' = [pc EXCEPT ![p] = "enq_release"]
          /\ UNCHANGED <<_head_seq, _tail_seq, seq, ticket, item, log>>
      BY <1>6, <2>1 DEF enqueue_data
    <2>3. ASSUME NEW n \in Nat, n # k, _tail_seq <= n, n < _tail_seq + _size
          PROVE  data'[Cell(n)] = data[Cell(n)]
      <3>1. Cell(n) # Cell(k)
        BY <1>0, <2>1, <2>3, CellDistinct DEF TicketsOwned
      <3>2. QED
        BY <2>2, <3>1, CellInRange
    <2>4. data'[Cell(k)] = p
      BY <2>1, <2>2, CellInRange
    <2>5. ASSUME NEW r \in Producers, pc'[r] = "enq_release"
          PROVE  data'[Cell(ticket[r])] = r
      <3>1. CASE r = p
        BY <2>4, <3>1
      <3>2. CASE r # p
        <4>1. pc[r] = "enq_release" /\ ticket[r] # k /\ _tail_seq <= ticket[r] /\ ticket[r] < _head_seq
          BY <2>1, <2>2, <2>5, <3>2 DEF TicketsOwned
        <4>2. data'[Cell(ticket[r])] = data[Cell(ticket[r])]
          BY <1>0, <2>3, <4>1 DEF TicketsOwned
        <4>3. QED
          BY <4>1, <4>2 DEF ItemsKept
      <3>3. QED
        BY <3>1, <3>2
    <2>6. ASSUME NEW n \in _tail_seq .. _head_seq - 1, seq[Cell(n)] = n + 1
          PROVE  data'[Cell(n)] = log[n + 1]
      <3>1. n # k
        BY <2>1, <2>6 DEF CellsNumbered
      <3>2. data'[Cell(n)] = data[Cell(n)]
        BY <1>0, <2>3, <3>1 DEF TicketsOwned
      <3>3. QED
        BY <2>6, <3>2 DEF ItemsKept
    <2>7. ASSUME NEW c \in Consumers, pc'[c] = "deq_data"
          PROVE  data'[Cell(ticket[c])] = log[ticket[c] + 1]
      <3>1. pc[c] = "deq_data"
        BY <1>0, <2>2, <2>7
      <3>2. _head_seq <= ticket[c] + _size /\ ticket[c] < _tail_seq
        BY <3>1 DEF TicketsOwned, Emptying
      <3> DEFINE n == ticket[c] + _size
      <3>3. n \in Nat /\ n # k /\ _tail_seq <= n /\ n < _tail_seq + _size
        BY <1>0, <2>1, <3>2 DEF TicketsOwned
      <3>4. Cell(n) = Cell(ticket[c])
        BY CellPeriod
      <3> HIDE DEF n
      <3>5. data'[Cell(n)] = data[Cell(n)]
        BY <2>3, <3>3
      <3>6. QED
        BY <3>1, <3>4, <3>5 DEF ItemsKept
    <2>8. QED
      BY <1>0, <2>1, <2>2, <2>5, <2>6, <2>7 DEF ItemsKept
  <1>7. ASSUME NEW p \in Producers, enqueue_release(p) PROVE ItemsKept'
    <2> DEFINE k == ticket[p]
    <2>1. k \in Nat /\ _tail_seq <= k /\ k < _head_seq /\ pc[p] = "enq_release"
      BY <1>7 DEF enqueue_release, TicketsOwned
    <2>2. /\ seq' = [seq EXCEPT ![Cell(k)] = seq'[Cell(k)]]
          /\ pc' = [pc EXCEPT ![p] = "enq_count"]
          /\ UNCHANGED <<_head_seq, _tail_seq, data, ticket, item, log>>
      BY <1>7, CellInRange, Zenon DEF enqueue_release
    <2>3. ASSUME NEW n \in _tail_seq .. _head_seq - 1, seq'[Cell(n)] = n + 1
          PROVE  data[Cell(n)] = log[n + 1]
      <3>1. CASE n = k
        BY <2>1, <3>1 DEF ItemsKept
      <3>2. CASE n # k
        <4>1. seq'[Cell(n)] = seq[Cell(n)]
          BY <1>0, <2>1, <2>2, <3>2, OtherCells DEF TicketsOwned
        <4>2. QED
          BY <2>3, <4>1 DEF ItemsKept
      <3>3. QED
        BY <3>1, <3>2
    <2>4. QED
      BY <1>0, <2>1, <2>2, <2>3 DEF ItemsKept
  <1>8. ASSUME NEW p \in Producers, enqueue_count(p) PROVE ItemsKept'
    BY <1>0, <1>8 DEF enqueue_count, ItemsKept
  <1>9. ASSUME NEW c \in Consumers, dequeue_call(c) PROVE ItemsKept'
    BY <1>0, <1>9 DEF dequeue_call, ItemsKept
  <1>10. ASSUME NEW c \in Consumers, dequeue_seq(c) PROVE ItemsKept'
    BY <1>20, <1>10, Zenon
  <1>11. ASSUME NEW c \in Consumers, dequeue_reload(c) PROVE ItemsKept'
    BY <1>0, <1>11 DEF dequeue_reload, ItemsKept
  <1>12. ASSUME NEW c \in Consumers, dequeue_cas(c) PROVE ItemsKept'
    <2>1. /\ ticket[c] = _tail_seq /\ pc[c] = "deq_cas"
          /\ pc' = [pc EXCEPT ![c] = "deq_data"] /\ _tail_seq' = _tail_seq + 1
          /\ UNCHANGED <<_head_seq, seq, data, ticket, item, log>>
      BY <1>12 DEF dequeue_cas
    <2>2. _tail_seq < _head_seq /\ seq[Cell(_tail_seq)] = _tail_seq + 1
      BY <2>1, MayDequeue DEF SeenIsCurrent
    <2>3. data[Cell(_tail_seq)] = log[_tail_seq + 1]
      BY <2>2 DEF ItemsKept
    <2>4. \A n \in _tail_seq' .. _head_seq' - 1 : n \in _tail_seq .. _head_seq - 1
      BY <2>1
    <2>5. QED
      BY <1>0, <2>1, <2>3, <2>4 DEF ItemsKept
  <1>13. ASSUME NEW c \in Consumers, dequeue_cas_fails(c) PROVE ItemsKept'
    BY <1>0, <1>13 DEF dequeue_cas_fails, ItemsKept
  <1>14. ASSUME NEW c \in Consumers, dequeue_data(c) PROVE ItemsKept'
    BY <1>0, <1>14 DEF dequeue_data, ItemsKept
  <1>15. ASSUME NEW c \in Consumers, dequeue_release(c) PROVE ItemsKept'
    <2> DEFINE k == ticket[c] + _size
    <2>1. k \in Nat /\ _head_seq <= k /\ k < _tail_seq + _size
      BY <1>0, <1>15 DEF dequeue_release, TicketsOwned, Emptying
    <2>2. /\ seq' = [seq EXCEPT ![Cell(k)] = seq'[Cell(k)]]
          /\ pc' = [pc EXCEPT ![c] = "deq_count"]
          /\ UNCHANGED <<_head_seq, _tail_seq, data, ticket, item, log>>
      BY <1>15, CellInRange, CellPeriod, Zenon DEF dequeue_release
    <2> HIDE DEF k
    <2>3. ASSUME NEW n \in _tail_seq .. _head_seq - 1
          PROVE  seq'[Cell(n)] = seq[Cell(n)]
      BY <1>0, <2>1, <2>2, OtherCells DEF TicketsOwned
    <2>4. QED
      BY <1>0, <2>2, <2>3 DEF ItemsKept
  <1>16. ASSUME NEW c \in Consumers, dequeue_count(c) PROVE ItemsKept'
    BY <1>0, <1>16 DEF dequeue_count, ItemsKept
  <1>17. ASSUME NEW t \in Threads, spurious_failure(t) PROVE ItemsKept'
    BY <1>0, <1>17 DEF spurious_failure, ItemsKept
  <1>18. CASE UNCHANGED vars
    BY <1>18 DEF vars, ItemsKept
  <1> HIDE DEF TypeOK, Threads, Goto, Return, Stay, words, Filling
  <1>19. QED
    BY <1>1, <1>2, <1>3, <1>4, <1>5, <1>6, <1>7, <1>8, <1>9, <1>10, <1>11, <1>12, <1>13,
       <1>14, <1>15, <1>16, <1>17, <1>18, Zenon
    DEF Next, enqueue, dequeue

(***************************************************************************)
(* The invariant, and what follows from it                                 *)
(***************************************************************************)
LEMMA InvInit == ASSUME MpmcAssumption, Init PROVE QueueInv
  <1>1. TypeOK
    BY TypeInit
  <1>2. \A n \in 0 .. _size - 1 : Cell(n) = n
    BY DEF MpmcAssumption, Cell
  <1>3. CellsNumbered
    BY <1>2 DEF MpmcAssumption, Init, CellsNumbered, Emptying, Threads, Cells
  <1>4. TicketsOwned /\ SeenIsCurrent /\ ItemsKept
    BY DEF MpmcAssumption, Init, TicketsOwned, SeenIsCurrent, ItemsKept, Filling, Emptying,
           Threads
  <1>5. QED
    BY <1>1, <1>3, <1>4 DEF QueueInv

\* Every step of enqueue and dequeue keeps the tickets, the numbers in the cells and the
\* items together.
THEOREM InvCorrect ==
  ASSUME MpmcAssumption
  PROVE  Spec => []QueueInv
  <1>1. Init => QueueInv
    BY InvInit
  <1>2. QueueInv /\ [Next]_vars => QueueInv'
    BY TypeStep, TicketsStep, CellsStep, SeenStep, ItemsStep DEF QueueInv
  <1>3. QED
    BY <1>1, <1>2, PTL DEF Spec

\* From its claim to its release a cell belongs to one thread: node->data, which is not
\* atomic, is never written by two threads or written and read at a time.
THEOREM OneOwner ==
  ASSUME MpmcAssumption
  PROVE  Spec => []CellsOwned
  <1>1. QueueInv => CellsOwned
    <2> SUFFICES ASSUME QueueInv, NEW t \in Threads, NEW u \in Threads,
                        Filling(t) \/ Emptying(t), Filling(u) \/ Emptying(u),
                        Cell(ticket[t]) = Cell(ticket[u])
                 PROVE  t = u
      BY DEF CellsOwned
    <2> USE DEF QueueInv, TypeOK, MpmcAssumption
    <2> DEFINE N(v) == IF Filling(v) THEN ticket[v] ELSE ticket[v] + _size
    <2>1. ASSUME NEW v \in Threads, Filling(v) \/ Emptying(v)
          PROVE  /\ N(v) \in Nat /\ _tail_seq <= N(v) /\ N(v) < _tail_seq + _size
                 /\ Cell(N(v)) = Cell(ticket[v])
                 /\ Filling(v) => v \in Producers /\ N(v) < _head_seq
                 /\ ~Filling(v) => v \in Consumers /\ Emptying(v) /\ N(v) >= _head_seq
      <3>1. CASE Filling(v)
        <4>1. v \in Producers
          BY <3>1, Zenon DEF Threads, Filling, DeqPC
        <4>2. QED
          BY <3>1, <4>1 DEF TicketsOwned
      <3>2. CASE ~Filling(v)
        <4>1. v \in Consumers /\ Emptying(v)
          BY <2>1, <3>2, Zenon DEF Threads, Emptying, EnqPC
        <4>2. ticket[v] \in Nat
          OBVIOUS
        <4>3. /\ _head_seq <= ticket[v] + _size /\ ticket[v] < _tail_seq
              /\ _tail_seq <= _head_seq
          BY <4>1 DEF TicketsOwned
        <4>4. Cell(ticket[v] + _size) = Cell(ticket[v])
          BY <4>2, CellPeriod
        <4>5. QED
          BY <3>2, <4>1, <4>2, <4>3, <4>4
      <3>3. QED
        BY <3>1, <3>2
    <2>2. N(t) \in Nat /\ N(u) \in Nat /\ N(t) = N(u)
      BY <2>1, CellDistinct
    <2>3. (Filling(t) <=> Filling(u)) /\ ticket[t] = ticket[u]
      BY <2>1, <2>2
    <2>4. QED
      BY <2>1, <2>3 DEF TicketsOwned
  <1>2. QED
    BY <1>1, InvCorrect, PTL

\* enqueue returns false only when the queue is full or a dequeue still holds the cell;
\* dequeue only when it is empty or an enqueue still holds the cell.  A ticket that others
\* have overtaken makes neither of them return.
THEOREM FailuresAreRight ==
  ASSUME MpmcAssumption
  PROVE  Spec => FailsForAReason
  <1>1. QueueInv /\ [Next]_vars => [FailsRightly]_vars
    <2> SUFFICES ASSUME QueueInv, Next PROVE FailsRightly
      OBVIOUS
    <2> USE DEF QueueInv, TypeOK, MpmcAssumption
    <2>1. ASSUME NEW p \in Producers, pc[p] = "enq_seq", pc'[p] = "idle"
          PROVE  FullFor(p)
      <3>1. enqueue_seq(p) /\ Turn(p) < 0
        BY <2>1 DEF Next, enqueue, dequeue, spurious_failure, enqueue_call, enqueue_seq,
           enqueue_reload, enqueue_cas, enqueue_cas_fails, enqueue_data, enqueue_release,
           enqueue_count, dequeue_call, dequeue_seq, dequeue_reload, dequeue_cas,
           dequeue_cas_fails, dequeue_data, dequeue_release, dequeue_count, Goto, Return,
           Threads
      <3>2. ticket[p] \in Nat /\ seq[Cell(ticket[p])] \in Nat
        BY CellInRange DEF Threads
      <3>3. ticket[p] <= _head_seq /\ seq[Cell(ticket[p])] < ticket[p]
        <4>1. ticket[p] <= _head_seq
          BY <2>1 DEF TicketsOwned
        <4>2. seq[Cell(ticket[p])] < ticket[p]
          BY <3>1, <3>2 DEF Turn
        <4>3. QED
          BY <4>1, <4>2
      <3>4. ~(ticket[p] < _tail_seq) /\ ~(ticket[p] < _head_seq)
        <4>1. ticket[p] < _tail_seq => seq[Cell(ticket[p])] > ticket[p]
          BY <3>2 DEF CellsNumbered
        <4>2. _tail_seq <= ticket[p] /\ ticket[p] < _head_seq
                => seq[Cell(ticket[p])] \in {ticket[p], ticket[p] + 1}
          BY <3>2 DEF CellsNumbered
        <4>3. QED
          BY <3>2, <3>3, <4>1, <4>2
      <3>5. CASE _head_seq = _tail_seq + _size
        BY <3>5 DEF FullFor
      <3>6. CASE _head_seq # _tail_seq + _size
        <4>1. ticket[p] = _head_seq /\ ticket[p] \in _head_seq .. _tail_seq + _size - 1
          BY <3>2, <3>3, <3>4, <3>6 DEF TicketsOwned
        <4>2. PICK c \in Consumers : Emptying(c) /\ ticket[c] + _size = ticket[p]
          BY <3>2, <3>3, <4>1 DEF CellsNumbered
        <4>3. ticket[c] \in Nat
          BY DEF Threads
        <4>4. QED
          BY <3>2, <4>2, <4>3 DEF FullFor
      <3>7. QED
        BY <3>5, <3>6
    <2>2. ASSUME NEW c \in Consumers, pc[c] = "deq_seq", pc'[c] = "idle"
          PROVE  EmptyFor(c)
      <3>1. dequeue_seq(c) /\ Turn(c) < 1
        BY <2>2 DEF Next, enqueue, dequeue, spurious_failure, enqueue_call, enqueue_seq,
           enqueue_reload, enqueue_cas, enqueue_cas_fails, enqueue_data, enqueue_release,
           enqueue_count, dequeue_call, dequeue_seq, dequeue_reload, dequeue_cas,
           dequeue_cas_fails, dequeue_data, dequeue_release, dequeue_count, Goto, Return,
           Threads
      <3>2. ticket[c] \in Nat /\ seq[Cell(ticket[c])] \in Nat
        BY CellInRange DEF Threads
      <3>3. ticket[c] <= _tail_seq /\ seq[Cell(ticket[c])] <= ticket[c]
        <4>1. ticket[c] <= _tail_seq
          BY <2>2 DEF TicketsOwned
        <4>2. seq[Cell(ticket[c])] <= ticket[c]
          BY <3>1, <3>2 DEF Turn
        <4>3. QED
          BY <4>1, <4>2
      <3>4. ticket[c] = _tail_seq
        BY <3>2, <3>3 DEF CellsNumbered
      <3>5. CASE _head_seq = _tail_seq
        BY <3>5 DEF EmptyFor
      <3>6. CASE _head_seq # _tail_seq
        <4>1. ticket[c] \in _tail_seq .. _head_seq - 1
          BY <3>4, <3>6 DEF TicketsOwned
        <4>2. QED
          BY <3>2, <3>3, <4>1 DEF CellsNumbered, EmptyFor
      <3>7. QED
        BY <3>5, <3>6
    <2>3. QED
      BY <2>1, <2>2 DEF FailsRightly
  <1>2. QED
    BY <1>1, InvCorrect, PTL DEF Spec, FailsForAReason

\* A thread claims, or is counted: one more or one less.
LEMMA CountInOut ==
  ASSUME NEW S, NEW x, IsFiniteSet(S)
  PROVE  /\ Cardinality(S) \in Nat
         /\ x \notin S => Cardinality(S \cup {x}) = Cardinality(S) + 1
         /\ x \in S => Cardinality(S \ {x}) = Cardinality(S) - 1
  BY FS_CardinalityType, FS_AddElement, FS_RemoveElement, Zenon

LEMMA CallsFinite ==
  ASSUME MpmcAssumption
  PROVE  /\ IsFiniteSet(Enqueuing) /\ Cardinality(Enqueuing) \in Nat
         /\ IsFiniteSet(Dequeuing) /\ Cardinality(Dequeuing) \in Nat
  BY FS_Subset, FS_CardinalityType DEF MpmcAssumption, Enqueuing, Dequeuing

LEMMA SizeStep ==
  ASSUME MpmcAssumption, TypeOK, SizesAgree, [Next]_vars
  PROVE  SizesAgree'
  <1> USE DEF TypeOK, Threads, Goto, Return, Stay, words, Filling, Emptying
  <1>0. Producers \cap Consumers = {}
    BY DEF MpmcAssumption
  <1>1. ASSUME NEW p \in Producers, enqueue_call(p) PROVE SizesAgree'
    <2>1. UNCHANGED <<words, Enqueuing, Dequeuing>>
      BY <1>0, <1>1 DEF enqueue_call, Enqueuing, Dequeuing
    <2>2. QED
      BY <2>1 DEF SizesAgree
  <1>2. ASSUME NEW p \in Producers, enqueue_seq(p) PROVE SizesAgree'
    <2>1. UNCHANGED <<words, Enqueuing, Dequeuing>>
      BY <1>0, <1>2 DEF enqueue_seq, Enqueuing, Dequeuing
    <2>2. QED
      BY <2>1 DEF SizesAgree
  <1>3. ASSUME NEW p \in Producers, enqueue_reload(p) PROVE SizesAgree'
    <2>1. UNCHANGED <<words, Enqueuing, Dequeuing>>
      BY <1>0, <1>3 DEF enqueue_reload, Enqueuing, Dequeuing
    <2>2. QED
      BY <2>1 DEF SizesAgree
  <1>4. ASSUME NEW p \in Producers, enqueue_cas(p) PROVE SizesAgree'
    <2>1. /\ p \notin Enqueuing /\ Enqueuing' = Enqueuing \cup {p} /\ Dequeuing' = Dequeuing
          /\ _head_seq' = _head_seq + 1 /\ UNCHANGED <<_tail_seq, _queue_size>>
      BY <1>0, <1>4 DEF enqueue_cas, Enqueuing, Dequeuing
    <2>2. Cardinality(Enqueuing') = Cardinality(Enqueuing) + 1
      BY <2>1, CallsFinite, CountInOut
    <2>3. QED
      BY <2>1, <2>2, CallsFinite DEF SizesAgree
  <1>5. ASSUME NEW p \in Producers, enqueue_cas_fails(p) PROVE SizesAgree'
    <2>1. UNCHANGED <<words, Enqueuing, Dequeuing>>
      BY <1>0, <1>5 DEF enqueue_cas_fails, Enqueuing, Dequeuing
    <2>2. QED
      BY <2>1 DEF SizesAgree
  <1>6. ASSUME NEW p \in Producers, enqueue_data(p) PROVE SizesAgree'
    <2>1. UNCHANGED <<words, Enqueuing, Dequeuing>>
      BY <1>0, <1>6 DEF enqueue_data, Enqueuing, Dequeuing
    <2>2. QED
      BY <2>1 DEF SizesAgree
  <1>7. ASSUME NEW p \in Producers, enqueue_release(p) PROVE SizesAgree'
    <2>1. UNCHANGED <<words, Enqueuing, Dequeuing>>
      BY <1>0, <1>7 DEF enqueue_release, Enqueuing, Dequeuing
    <2>2. QED
      BY <2>1 DEF SizesAgree
  <1>8. ASSUME NEW p \in Producers, enqueue_count(p) PROVE SizesAgree'
    <2>1. /\ p \in Enqueuing /\ Enqueuing' = Enqueuing \ {p} /\ Dequeuing' = Dequeuing
          /\ _queue_size' = _queue_size + 1 /\ UNCHANGED <<_head_seq, _tail_seq>>
      BY <1>0, <1>8 DEF enqueue_count, Enqueuing, Dequeuing
    <2>2. Cardinality(Enqueuing') = Cardinality(Enqueuing) - 1
      BY <2>1, CallsFinite, CountInOut, Zenon
    <2>3. QED
      BY <2>1, <2>2, CallsFinite DEF SizesAgree
  <1>9. ASSUME NEW c \in Consumers, dequeue_call(c) PROVE SizesAgree'
    <2>1. UNCHANGED <<words, Enqueuing, Dequeuing>>
      BY <1>0, <1>9 DEF dequeue_call, Enqueuing, Dequeuing
    <2>2. QED
      BY <2>1 DEF SizesAgree
  <1>10. ASSUME NEW c \in Consumers, dequeue_seq(c) PROVE SizesAgree'
    <2>1. UNCHANGED <<words, Enqueuing, Dequeuing>>
      BY <1>0, <1>10 DEF dequeue_seq, Enqueuing, Dequeuing
    <2>2. QED
      BY <2>1 DEF SizesAgree
  <1>11. ASSUME NEW c \in Consumers, dequeue_reload(c) PROVE SizesAgree'
    <2>1. UNCHANGED <<words, Enqueuing, Dequeuing>>
      BY <1>0, <1>11 DEF dequeue_reload, Enqueuing, Dequeuing
    <2>2. QED
      BY <2>1 DEF SizesAgree
  <1>12. ASSUME NEW c \in Consumers, dequeue_cas(c) PROVE SizesAgree'
    <2>1. /\ c \notin Dequeuing /\ Dequeuing' = Dequeuing \cup {c} /\ Enqueuing' = Enqueuing
          /\ _tail_seq' = _tail_seq + 1 /\ UNCHANGED <<_head_seq, _queue_size>>
      BY <1>0, <1>12 DEF dequeue_cas, Enqueuing, Dequeuing
    <2>2. Cardinality(Dequeuing') = Cardinality(Dequeuing) + 1
      BY <2>1, CallsFinite, CountInOut
    <2>3. QED
      BY <2>1, <2>2, CallsFinite DEF SizesAgree
  <1>13. ASSUME NEW c \in Consumers, dequeue_cas_fails(c) PROVE SizesAgree'
    <2>1. UNCHANGED <<words, Enqueuing, Dequeuing>>
      BY <1>0, <1>13 DEF dequeue_cas_fails, Enqueuing, Dequeuing
    <2>2. QED
      BY <2>1 DEF SizesAgree
  <1>14. ASSUME NEW c \in Consumers, dequeue_data(c) PROVE SizesAgree'
    <2>1. UNCHANGED <<words, Enqueuing, Dequeuing>>
      BY <1>0, <1>14 DEF dequeue_data, Enqueuing, Dequeuing
    <2>2. QED
      BY <2>1 DEF SizesAgree
  <1>15. ASSUME NEW c \in Consumers, dequeue_release(c) PROVE SizesAgree'
    <2>1. UNCHANGED <<words, Enqueuing, Dequeuing>>
      BY <1>0, <1>15 DEF dequeue_release, Enqueuing, Dequeuing
    <2>2. QED
      BY <2>1 DEF SizesAgree
  <1>16. ASSUME NEW c \in Consumers, dequeue_count(c) PROVE SizesAgree'
    <2>1. /\ c \in Dequeuing /\ Dequeuing' = Dequeuing \ {c} /\ Enqueuing' = Enqueuing
          /\ _queue_size' = _queue_size - 1 /\ UNCHANGED <<_head_seq, _tail_seq>>
      BY <1>0, <1>16 DEF dequeue_count, Enqueuing, Dequeuing
    <2>2. Cardinality(Dequeuing') = Cardinality(Dequeuing) - 1
      BY <2>1, CallsFinite, CountInOut, Zenon
    <2>3. QED
      BY <2>1, <2>2, CallsFinite DEF SizesAgree
  <1>17. ASSUME NEW t \in Threads, spurious_failure(t) PROVE SizesAgree'
    <2>1. UNCHANGED <<words, Enqueuing, Dequeuing>>
      BY <1>0, <1>17 DEF spurious_failure, Enqueuing, Dequeuing
    <2>2. QED
      BY <2>1 DEF SizesAgree
  <1>18. CASE UNCHANGED vars
    BY <1>18 DEF vars, SizesAgree, Enqueuing, Dequeuing
  <1> HIDE DEF TypeOK, Threads, Goto, Return, Stay, words, Filling, Emptying
  <1>19. QED
    BY <1>1, <1>2, <1>3, <1>4, <1>5, <1>6, <1>7, <1>8, <1>9, <1>10, <1>11, <1>12, <1>13,
       <1>14, <1>15, <1>16, <1>17, <1>18, Zenon
    DEF Next, enqueue, dequeue

\* size() is off by what the calls under way have still to count, and by nothing else.
THEOREM SizeIsExact ==
  ASSUME MpmcAssumption
  PROVE  Spec => []SizesAgree
  <1>1. Init => TypeOK /\ SizesAgree
    <2> SUFFICES ASSUME Init PROVE SizesAgree
      BY TypeInit
    <2>1. Enqueuing = {} /\ Dequeuing = {}
      BY DEF Init, Enqueuing, Dequeuing, Filling, Emptying, Threads
    <2>2. QED
      BY <2>1, FS_EmptySet DEF Init, SizesAgree
  <1>2. TypeOK /\ SizesAgree /\ [Next]_vars => TypeOK' /\ SizesAgree'
    BY TypeStep, SizeStep
  <1>3. QED
    BY <1>1, <1>2, PTL DEF Spec

(***************************************************************************)
(* The queue implements a bounded FIFO                                     *)
(***************************************************************************)

\* The part of a sequence from m to n.
LEMMA PartOf ==
  ASSUME NEW S, NEW s \in Seq(S), NEW m \in Nat \ {0}, NEW n \in Nat, m <= n + 1, n <= Len(s)
  PROVE  /\ SubSeq(s, m, n) \in Seq(S) /\ Len(SubSeq(s, m, n)) = n + 1 - m
         /\ \A i \in 1 .. n + 1 - m : SubSeq(s, m, n)[i] = s[m + i - 1]
  OBVIOUS

LEMMA SameSeq ==
  ASSUME NEW S, NEW s \in Seq(S), NEW t \in Seq(S), Len(s) = Len(t),
         \A i \in 1 .. Len(s) : s[i] = t[i]
  PROVE  s = t
  OBVIOUS

LEMMA Appended ==
  ASSUME NEW S, NEW s \in Seq(S), NEW x \in S
  PROVE  /\ Append(s, x) \in Seq(S) /\ Len(Append(s, x)) = Len(s) + 1
         /\ \A i \in 1 .. Len(s) : Append(s, x)[i] = s[i]
         /\ Append(s, x)[Len(s) + 1] = x
  OBVIOUS

\* A suffix of a sequence grows with the sequence.
LEMMA SuffixGrows ==
  ASSUME NEW S, NEW s \in Seq(S), NEW x \in S, NEW m \in 1 .. Len(s) + 1
  PROVE  /\ SubSeq(s, m, Len(s)) \in Seq(S)
         /\ Len(SubSeq(s, m, Len(s))) = Len(s) + 1 - m
         /\ SubSeq(Append(s, x), m, Len(s) + 1) = Append(SubSeq(s, m, Len(s)), x)
  <1> DEFINE t == Append(s, x)
             n == Len(s)
             a == SubSeq(s, m, n)
             z == SubSeq(t, m, n + 1)
  <1>1. n \in Nat /\ t \in Seq(S) /\ Len(t) = n + 1 /\ t[n + 1] = x
        /\ \A i \in 1 .. n : t[i] = s[i]
    OBVIOUS
  <1>2. /\ a \in Seq(S) /\ Len(a) = n + 1 - m
        /\ \A i \in 1 .. n + 1 - m : a[i] = s[m + i - 1]
    BY <1>1, PartOf
  <1> HIDE DEF t, n
  <1>3. /\ z \in Seq(S) /\ Len(z) = n + 2 - m
        /\ \A i \in 1 .. n + 2 - m : z[i] = t[m + i - 1]
    <2>1. m \in Nat \ {0} /\ n + 1 \in Nat /\ m <= n + 2
      BY <1>1 DEF n
    <2>2. QED
      BY <1>1, <2>1, PartOf
  <1> HIDE DEF a, z
  <1>4. /\ Append(a, x) \in Seq(S) /\ Len(Append(a, x)) = n + 2 - m
        /\ \A i \in 1 .. n + 1 - m : Append(a, x)[i] = a[i]
        /\ Append(a, x)[n + 2 - m] = x
    <2>1. Len(a) + 1 = n + 2 - m
      BY <1>1, <1>2
    <2>2. QED
      BY <1>2, <2>1, Appended
  <1>5. ASSUME NEW i \in 1 .. n + 2 - m PROVE z[i] = Append(a, x)[i]
    <2>1. CASE i = n + 2 - m
      <3>1. m + i - 1 = n + 1
        BY <1>1, <2>1
      <3>2. QED
        BY <1>1, <1>3, <1>4, <2>1, <3>1
    <2>2. CASE i # n + 2 - m
      <3>1. i \in 1 .. n + 1 - m /\ m + i - 1 \in 1 .. n
        BY <1>1, <2>2
      <3>2. QED
        BY <1>1, <1>2, <1>3, <1>4, <3>1
    <2>3. QED
      BY <2>1, <2>2, Zenon
  <1>6. z = Append(a, x)
    BY <1>3, <1>4, <1>5, SameSeq
  <1>7. QED
    BY <1>2, <1>6 DEF a, z, t, n

\* And it loses its head when the suffix starts one later.
LEMMA SuffixShrinks ==
  ASSUME NEW S, NEW s \in Seq(S), NEW m \in Nat \ {0}, NEW n \in Nat, m <= n, n <= Len(s)
  PROVE  /\ SubSeq(s, m, n) # << >> /\ Head(SubSeq(s, m, n)) = s[m]
         /\ Tail(SubSeq(s, m, n)) = SubSeq(s, m + 1, n)
  <1> DEFINE a == SubSeq(s, m, n)
             z == SubSeq(s, m + 1, n)
  <1>1. /\ a \in Seq(S) /\ Len(a) = n + 1 - m /\ Len(a) > 0
        /\ \A i \in 1 .. n + 1 - m : a[i] = s[m + i - 1]
    BY PartOf
  <1>2. /\ z \in Seq(S) /\ Len(z) = n - m
        /\ \A i \in 1 .. n - m : z[i] = s[m + i]
    <2>1. m + 1 \in Nat \ {0} /\ m + 1 <= n + 1
      OBVIOUS
    <2>2. QED
      BY <2>1, PartOf
  <1> HIDE DEF a, z
  <1>3. a # << >> /\ Head(a) = s[m]
    BY <1>1
  <1>4. Tail(a) \in Seq(S) /\ Len(Tail(a)) = n - m /\ \A i \in 1 .. n - m : Tail(a)[i] = a[i + 1]
    BY <1>1
  <1>5. ASSUME NEW i \in 1 .. n - m PROVE Tail(a)[i] = z[i]
    BY <1>1, <1>2, <1>4
  <1>6. Tail(a) = z
    BY <1>2, <1>4, <1>5, SameSeq
  <1>7. QED
    BY <1>3, <1>6 DEF a, z

\* The queue and the results as the refinement sees them.
Content == SubSeq(log, _tail_seq + 1, _head_seq)
Results == [c \in Consumers |-> Result(c)]

LEMMA FifoInit == ASSUME Init PROVE Fifo!Init
  <1>1. SubSeq(log, _tail_seq + 1, _head_seq) = << >>
    BY DEF Init
  <1>2. [c \in Consumers |-> Result(c)] = [c \in Consumers |-> Junk]
    BY DEF Init, Result, Threads
  <1>3. QED
    BY <1>1, <1>2 DEF Fifo!Init

LEMMA FifoStutters ==
  ASSUME UNCHANGED Content, UNCHANGED Results
  PROVE  [Fifo!Next]_(Fifo!vars)
  BY Zenon DEF Content, Results, Fifo!vars

LEMMA FifoStep ==
  ASSUME MpmcAssumption, QueueInv, [Next]_vars
  PROVE  [Fifo!Next]_(Fifo!vars)
  <1> USE DEF QueueInv, TypeOK, Threads, Goto, Return, Stay, words
  <1>0. Producers \cap Consumers = {} /\ _size \in Nat
    BY DEF MpmcAssumption
  <1>1. ASSUME NEW p \in Producers, enqueue_call(p) PROVE [Fifo!Next]_(Fifo!vars)
    <2>1. UNCHANGED Content
      BY <1>1 DEF enqueue_call, Content
    <2>2. \A d \in Consumers : Result(d)' = Result(d)
      BY <1>0, <1>1 DEF enqueue_call, Result, ItemsKept
    <2>3. QED
      BY <2>1, <2>2, FifoStutters DEF Results
  <1>2. ASSUME NEW p \in Producers, enqueue_seq(p) PROVE [Fifo!Next]_(Fifo!vars)
    <2>1. UNCHANGED Content
      BY <1>2 DEF enqueue_seq, Content
    <2>2. \A d \in Consumers : Result(d)' = Result(d)
      BY <1>0, <1>2 DEF enqueue_seq, Result, ItemsKept
    <2>3. QED
      BY <2>1, <2>2, FifoStutters DEF Results
  <1>3. ASSUME NEW p \in Producers, enqueue_reload(p) PROVE [Fifo!Next]_(Fifo!vars)
    <2>1. UNCHANGED Content
      BY <1>3 DEF enqueue_reload, Content
    <2>2. \A d \in Consumers : Result(d)' = Result(d)
      BY <1>0, <1>3 DEF enqueue_reload, Result, ItemsKept
    <2>3. QED
      BY <2>1, <2>2, FifoStutters DEF Results
  <1>4. ASSUME NEW p \in Producers, enqueue_cas(p) PROVE [Fifo!Next]_(Fifo!vars)
    <2>1. /\ item[p] = p /\ ticket[p] = _head_seq /\ pc[p] = "enq_cas"
          /\ pc' = [pc EXCEPT ![p] = "enq_data"] /\ _head_seq' = _head_seq + 1
          /\ log' = Append(log, p)
          /\ UNCHANGED <<_tail_seq, ticket, item>>
      BY <1>4 DEF enqueue_cas, ItemsKept
    <2>2. _head_seq < _tail_seq + _size
      BY <2>1, MayEnqueue
    <2>3. p \in Items /\ _tail_seq + 1 \in 1 .. Len(log) + 1
      BY DEF Items, TicketsOwned
    <2>4. Content' = Append(Content, p) /\ Len(Content) = _head_seq - _tail_seq
      BY <2>1, <2>3, SuffixGrows DEF Content
    <2>5. \A d \in Consumers : Result(d)' = Result(d)
      <3>1. \A n \in 0 .. _head_seq - 1 : log'[n + 1] = log[n + 1]
        BY <2>1
      <3>2. QED
        BY <1>0, <2>1, <3>1, SMTT(20) DEF Result, TicketsOwned, Emptying
    <2>6. Results' = Results
      BY <2>5 DEF Results
    <2>7. Len(Content) < _size
      BY <1>0, <2>2, <2>4
    <2>8. Fifo!Push(p)
      BY <2>4, <2>6, <2>7, Zenon DEF Fifo!Push, Content, Results
    <2>9. QED
      BY <2>8 DEF Fifo!Next
  <1>5. ASSUME NEW p \in Producers, enqueue_cas_fails(p) PROVE [Fifo!Next]_(Fifo!vars)
    <2>1. UNCHANGED Content
      BY <1>5 DEF enqueue_cas_fails, Content
    <2>2. \A d \in Consumers : Result(d)' = Result(d)
      BY <1>0, <1>5 DEF enqueue_cas_fails, Result, ItemsKept
    <2>3. QED
      BY <2>1, <2>2, FifoStutters DEF Results
  <1>6. ASSUME NEW p \in Producers, enqueue_data(p) PROVE [Fifo!Next]_(Fifo!vars)
    <2>1. UNCHANGED Content
      BY <1>6 DEF enqueue_data, Content
    <2>2. \A d \in Consumers : Result(d)' = Result(d)
      BY <1>0, <1>6 DEF enqueue_data, Result, ItemsKept
    <2>3. QED
      BY <2>1, <2>2, FifoStutters DEF Results
  <1>7. ASSUME NEW p \in Producers, enqueue_release(p) PROVE [Fifo!Next]_(Fifo!vars)
    <2>1. UNCHANGED Content
      BY <1>7 DEF enqueue_release, Content
    <2>2. \A d \in Consumers : Result(d)' = Result(d)
      BY <1>0, <1>7 DEF enqueue_release, Result, ItemsKept
    <2>3. QED
      BY <2>1, <2>2, FifoStutters DEF Results
  <1>8. ASSUME NEW p \in Producers, enqueue_count(p) PROVE [Fifo!Next]_(Fifo!vars)
    <2>1. UNCHANGED Content
      BY <1>8 DEF enqueue_count, Content
    <2>2. \A d \in Consumers : Result(d)' = Result(d)
      BY <1>0, <1>8 DEF enqueue_count, Result, ItemsKept
    <2>3. QED
      BY <2>1, <2>2, FifoStutters DEF Results
  <1>9. ASSUME NEW c \in Consumers, dequeue_call(c) PROVE [Fifo!Next]_(Fifo!vars)
    <2>1. UNCHANGED Content
      BY <1>9 DEF dequeue_call, Content
    <2>2. \A d \in Consumers : Result(d)' = Result(d)
      BY <1>0, <1>9 DEF dequeue_call, Result, ItemsKept
    <2>3. QED
      BY <2>1, <2>2, FifoStutters DEF Results
  <1>10. ASSUME NEW c \in Consumers, dequeue_seq(c) PROVE [Fifo!Next]_(Fifo!vars)
    <2>1. UNCHANGED Content
      BY <1>10 DEF dequeue_seq, Content
    <2>2. \A d \in Consumers : Result(d)' = Result(d)
      BY <1>0, <1>10 DEF dequeue_seq, Result, ItemsKept
    <2>3. QED
      BY <2>1, <2>2, FifoStutters DEF Results
  <1>11. ASSUME NEW c \in Consumers, dequeue_reload(c) PROVE [Fifo!Next]_(Fifo!vars)
    <2>1. UNCHANGED Content
      BY <1>11 DEF dequeue_reload, Content
    <2>2. \A d \in Consumers : Result(d)' = Result(d)
      BY <1>0, <1>11 DEF dequeue_reload, Result, ItemsKept
    <2>3. QED
      BY <2>1, <2>2, FifoStutters DEF Results
  <1>12. ASSUME NEW c \in Consumers, dequeue_cas(c) PROVE [Fifo!Next]_(Fifo!vars)
    <2>1. /\ ticket[c] = _tail_seq /\ pc[c] = "deq_cas"
          /\ pc' = [pc EXCEPT ![c] = "deq_data"] /\ _tail_seq' = _tail_seq + 1
          /\ UNCHANGED <<_head_seq, ticket, item, log>>
      BY <1>12 DEF dequeue_cas
    <2>2. _tail_seq < _head_seq
      BY <2>1, MayDequeue
    <2>3. /\ _tail_seq + 1 \in Nat \ {0} /\ _tail_seq + 1 <= _head_seq
          /\ _head_seq <= Len(log) /\ (_tail_seq + 1) + 1 = _tail_seq' + 1
      BY <2>1, <2>2
    <2>4. /\ Content # << >> /\ Head(Content) = log[_tail_seq + 1]
          /\ Tail(Content) = Content'
      <3> DEFINE m == _tail_seq + 1
      <3>1. Content = SubSeq(log, m, _head_seq) /\ Content' = SubSeq(log, m + 1, _head_seq)
        BY <2>1, <2>3 DEF Content
      <3>2. /\ log \in Seq(Items) /\ _head_seq \in Nat /\ m \in Nat \ {0}
            /\ m <= _head_seq /\ _head_seq <= Len(log)
        BY <2>3
      <3> HIDE DEF m, QueueInv, TypeOK
      <3>3. SubSeq(log, m, _head_seq) # << >> /\ Head(SubSeq(log, m, _head_seq)) = log[m]
            /\ Tail(SubSeq(log, m, _head_seq)) = SubSeq(log, m + 1, _head_seq)
        BY <3>2, SuffixShrinks
      <3>4. QED
        BY <3>1, <3>3 DEF m
    <2>6. Result(c) = Junk /\ Result(c)' = log[_tail_seq + 1]
      BY <2>1 DEF Result, ItemsKept
    <2>7. \A d \in Consumers : d # c => Result(d)' = Result(d)
      BY <2>1 DEF Result
    <2>8. Results' = [Results EXCEPT ![c] = Head(Content)] /\ Results[c] = Junk
      BY <2>4, <2>6, <2>7, Zenon DEF Results
    <2>9. Fifo!Pop(c)
      BY <2>4, <2>8, Zenon DEF Fifo!Pop, Content, Results
    <2>10. QED
      BY <2>9 DEF Fifo!Next
  <1>13. ASSUME NEW c \in Consumers, dequeue_cas_fails(c) PROVE [Fifo!Next]_(Fifo!vars)
    <2>1. UNCHANGED Content
      BY <1>13 DEF dequeue_cas_fails, Content
    <2>2. \A d \in Consumers : Result(d)' = Result(d)
      BY <1>0, <1>13 DEF dequeue_cas_fails, Result, ItemsKept
    <2>3. QED
      BY <2>1, <2>2, FifoStutters DEF Results
  <1>14. ASSUME NEW c \in Consumers, dequeue_data(c) PROVE [Fifo!Next]_(Fifo!vars)
    <2>1. UNCHANGED Content
      BY <1>14 DEF dequeue_data, Content
    <2>2. \A d \in Consumers : Result(d)' = Result(d)
      BY <1>0, <1>14 DEF dequeue_data, Result, ItemsKept
    <2>3. QED
      BY <2>1, <2>2, FifoStutters DEF Results
  <1>15. ASSUME NEW c \in Consumers, dequeue_release(c) PROVE [Fifo!Next]_(Fifo!vars)
    <2>1. UNCHANGED Content
      BY <1>15 DEF dequeue_release, Content
    <2>2. \A d \in Consumers : Result(d)' = Result(d)
      BY <1>0, <1>15 DEF dequeue_release, Result, ItemsKept
    <2>3. QED
      BY <2>1, <2>2, FifoStutters DEF Results
  <1>16. ASSUME NEW c \in Consumers, dequeue_count(c) PROVE [Fifo!Next]_(Fifo!vars)
    <2>1. UNCHANGED Content
      BY <1>16 DEF dequeue_count, Content
    <2>2. \A d \in Consumers : Result(d)' = IF d = c THEN Junk ELSE Result(d)
      BY <1>16 DEF dequeue_count, Result
    <2>3. Results' = [Results EXCEPT ![c] = Junk]
      BY <2>2, Zenon DEF Results
    <2>4. Fifo!Call(c)
      BY <2>1, <2>3, Zenon DEF Fifo!Call, Content, Results
    <2>5. QED
      BY <2>4 DEF Fifo!Next
  <1>17. ASSUME NEW t \in Threads, spurious_failure(t) PROVE [Fifo!Next]_(Fifo!vars)
    <2>1. UNCHANGED Content
      BY <1>17 DEF spurious_failure, Content
    <2>2. \A d \in Consumers : Result(d)' = Result(d)
      BY <1>0, <1>17 DEF spurious_failure, Result, ItemsKept
    <2>3. QED
      BY <2>1, <2>2, FifoStutters DEF Results
  <1>18. CASE UNCHANGED vars
    BY <1>18, FifoStutters DEF vars, Content, Results, Result
  <1> HIDE DEF QueueInv, TypeOK, Threads, Goto, Return, Stay, words
  <1>19. QED
    BY <1>1, <1>2, <1>3, <1>4, <1>5, <1>6, <1>7, <1>8, <1>9, <1>10, <1>11, <1>12, <1>13,
       <1>14, <1>15, <1>16, <1>17, <1>18, Zenon
    DEF Next, enqueue, dequeue

\* enqueue and dequeue, with their claims, copies and releases, are the push and pop of a
\* FIFO of _size elements that take place at once.
THEOREM QueueIsFifo ==
  ASSUME MpmcAssumption
  PROVE  Spec => ImplementsFifo
  <1>1. Init => Fifo!Init
    BY FifoInit
  <1>2. QueueInv /\ [Next]_vars => [Fifo!Next]_(Fifo!vars)
    BY FifoStep
  <1>3. QED
    BY <1>1, <1>2, InvCorrect, PTL DEF Spec, ImplementsFifo, Fifo!Spec
=============================================================================
