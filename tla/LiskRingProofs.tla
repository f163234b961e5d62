--------------------------- MODULE LiskRingProofs ---------------------------
(***************************************************************************)
(* Theorems about LiskRing, for every set of threads and every number of   *)
(* slots.  The control part of the argument (which positions are claimed,  *)
(* published, popped) holds for all four ring types; the content part      *)
(* (what is in the slots) for the single-producer types, and with it that  *)
(* such a ring is a FIFO.  The last part is about the size word that       *)
(* CountedRing adds, for any number of threads on both sides.              *)
(***************************************************************************)
EXTENDS CountedRing, FiniteSetTheorems, TLAPS

(***************************************************************************)
(* Slot indices                                                            *)
(***************************************************************************)

\* The assumptions on the numbers, apart from those on the threads.
LEMMA Params ==
  unit_num \in Nat /\ unit_num > 0 /\ Wrap \in Nat /\ Wrap > 0 /\ Wrap % unit_num = 0
  BY RingAssumption

\* ring_index maps a cursor to a slot.
LEMMA IndexInRange ==
  ASSUME NEW n \in Int
  PROVE  ring_index(n) \in Slots /\ U4(n) \in Nat
  <1>1. U4(n) \in Nat
    BY RingAssumption DEF U4
  <1>2. QED
    BY <1>1, RingAssumption DEF ring_index, Slots

\* The u4 wraps at a multiple of unit_num: the mask sees the unwrapped count.
LEMMA IndexUnwrapped ==
  ASSUME NEW a \in Nat
  PROVE  ring_index(a) = a % unit_num
  <1> DEFINE k == a \div Wrap
             m == Wrap \div unit_num
             j == (a % Wrap) \div unit_num
             r == (a % Wrap) % unit_num
  <1>1. k \in Int /\ a = k * Wrap + (a % Wrap)
    BY Params
  <1>2. m \in Int /\ Wrap = m * unit_num
    BY Params
  <1>3. j \in Int /\ a % Wrap = j * unit_num + r
    BY Params
  <1>4. r \in 0 .. unit_num - 1
    BY Params
  <1> HIDE DEF k, m, j, r
  <1>5. a = (k * m + j) * unit_num + r
    <2>1. a = k * (m * unit_num) + (j * unit_num + r)
      BY <1>1, <1>2, <1>3
    <2>2. k * (m * unit_num) = (k * m) * unit_num
      BY <1>1, <1>2, Params
    <2>3. (k * m) * unit_num + j * unit_num = (k * m + j) * unit_num
      BY <1>1, <1>2, <1>3, Params
    <2>4. QED
      BY <1>1, <1>2, <1>3, <1>4, <2>1, <2>2, <2>3, Params
  <1>6. a % unit_num = r
    <2> DEFINE q == k * m + j
    <2>1. q \in Int /\ a = q * unit_num + r
      BY <1>1, <1>2, <1>3, <1>5
    <2> HIDE DEF q
    <2>2. QED
      BY <1>4, <2>1, Params
  <1>7. QED
    BY <1>6 DEF ring_index, U4, r

\* A cursor and the one unit_num ahead share a slot.
LEMMA IndexPeriod ==
  ASSUME NEW a \in Nat
  PROVE  ring_index(a + unit_num) = ring_index(a)
  <1> DEFINE k == a \div unit_num
             r == a % unit_num
  <1>1. k \in Int /\ a = k * unit_num + r
    BY Params
  <1>2. r \in 0 .. unit_num - 1
    BY Params
  <1> HIDE DEF k, r
  <1>3. a + unit_num = (k + 1) * unit_num + r
    <2>1. (k + 1) * unit_num = k * unit_num + unit_num
      BY <1>1, Params
    <2>2. QED
      BY <1>1, <1>2, <2>1, Params
  <1>4. (a + unit_num) % unit_num = r
    <2> DEFINE q == k + 1
               b == a + unit_num
    <2>1. q \in Int /\ b \in Int /\ b = q * unit_num + r
      BY <1>1, <1>3, Params
    <2> HIDE DEF q, b
    <2>2. b % unit_num = r
      BY <1>2, <2>1, Params
    <2>3. QED
      BY <2>2 DEF b
  <1>5. a + unit_num \in Nat
    BY Params
  <1>6. QED
    BY <1>4, <1>5, IndexUnwrapped DEF r

\* Two numbers less than n apart differ modulo n.
LEMMA ModDistinct ==
  ASSUME NEW n \in Nat, n > 0, NEW a \in Nat, NEW b \in Nat, a < b, b - a < n
  PROVE  a % n # b % n
  <1> SUFFICES ASSUME a % n = b % n PROVE FALSE
    OBVIOUS
  <1> DEFINE j == a \div n
             k == b \div n
             r == a % n
             d == k - j
  <1>1. j \in Int /\ r \in Int /\ a = j * n + r
    OBVIOUS
  <1>2. k \in Int /\ b = k * n + r
    OBVIOUS
  <1> HIDE DEF j, k, r
  <1>3. (k - j) * n = k * n - j * n
    BY <1>1, <1>2
  <1>4. d \in Int /\ d * n = b - a
    BY <1>1, <1>2, <1>3
  <1> HIDE DEF d
  <1>5. d <= 0 => d * n <= 0
    BY <1>4
  <1>6. d >= 1 => d * n >= n
    BY <1>4
  <1>7. QED
    BY <1>4, <1>5, <1>6

\* Two cursors less than unit_num apart have slots of their own.
LEMMA IndexDistinct ==
  ASSUME NEW a \in Nat, NEW b \in Nat, a < b, b - a < unit_num
  PROVE  ring_index(a) # ring_index(b)
  <1>1. a % unit_num # b % unit_num
    BY ModDistinct, Params
  <1>2. QED
    BY <1>1, IndexUnwrapped

\* A compare-and-swap on a u4 less than Wrap behind sees whether it has moved.
LEMMA U4Distinct ==
  ASSUME NEW a \in Nat, NEW b \in Nat, a <= b, b - a < Wrap, U4(a) = U4(b)
  PROVE  a = b
  <1>1. a < b => a % Wrap # b % Wrap
    BY ModDistinct, Params, Zenon
  <1>2. QED
    BY <1>1 DEF U4

(***************************************************************************)
(* Types                                                                   *)
(***************************************************************************)
LEMMA TypeInit == Init => TypeOK
  <1> SUFFICES ASSUME Init PROVE TypeOK
    OBVIOUS
  <1>1. TypeControl
    BY DEF Init, TypeControl, PC
  <1>2. TypeData
    BY DEF Init, TypeData
  <1>3. QED
    BY <1>1, <1>2 DEF TypeOK

LEMMA TypeControlStep == TypeControl /\ [Next]_vars => TypeControl'
  <1> SUFFICES ASSUME TypeControl PROVE [Next]_vars => TypeControl'
    OBVIOUS
  <1> USE DEF TypeControl, Goto, Return, Threads, PC, ring
  <1>1. ASSUME NEW p \in Producers, push_load_ridx(p) PROVE TypeControl'
    BY <1>1 DEF push_load_ridx
  <1>2. ASSUME NEW p \in Producers, push_load_widx(p) PROVE TypeControl'
    BY <1>2 DEF push_load_widx
  <1>3. ASSUME NEW p \in Producers, push_cas(p) PROVE TypeControl'
    BY <1>3 DEF push_cas
  <1>4. ASSUME NEW p \in Producers, push_copy(p) PROVE TypeControl'
    BY <1>4 DEF push_copy
  <1>5. ASSUME NEW p \in Producers, push_publish(p) PROVE TypeControl'
    BY <1>5 DEF push_publish
  <1>6. ASSUME NEW c \in Consumers, pop_load_ridx(c) PROVE TypeControl'
    BY <1>6 DEF pop_load_ridx
  <1>7. ASSUME NEW c \in Consumers, pop_load_limit(c) PROVE TypeControl'
    BY <1>7 DEF pop_load_limit
  <1>8. ASSUME NEW c \in Consumers, pop_copy(c) PROVE TypeControl'
    BY <1>8 DEF pop_copy
  <1>9. ASSUME NEW c \in Consumers, pop_take(c) PROVE TypeControl'
    BY <1>9 DEF pop_take
  <1>10. ASSUME NEW o \in Observers, size_first(o) PROVE TypeControl'
    BY <1>10 DEF size_first
  <1>11. ASSUME NEW o \in Observers, size_second(o) PROVE TypeControl'
    BY <1>11 DEF size_second
  <1>12. CASE UNCHANGED vars
    BY <1>12 DEF vars
  <1> HIDE DEF TypeControl, Goto, Return, Threads, PC, ring
  <1>13. QED
    BY <1>1, <1>2, <1>3, <1>4, <1>5, <1>6, <1>7, <1>8, <1>9, <1>10, <1>11, <1>12, Zenon
    DEF Next, ring_push, ring_pop, ring_size

\* Half an element is written into a slot or a buffer.
LEMMA HalfWritten ==
  ASSUME NEW S, NEW H, NEW V, NEW f \in [S -> [H -> V]], NEW s \in S, NEW h \in H, NEW v \in V
  PROVE  [f EXCEPT ![s][h] = v] \in [S -> [H -> V]]
  OBVIOUS

LEMMA TypeDataStep == TypeControl /\ TypeData /\ [Next]_vars => TypeData'
  <1> SUFFICES ASSUME TypeControl, TypeData PROVE [Next]_vars => TypeData'
    OBVIOUS
  <1> USE DEF TypeData, Goto, Return, Threads, ring
  <1>1. ASSUME NEW p \in Producers, push_load_ridx(p) PROVE TypeData'
    BY <1>1, Zenon DEF push_load_ridx
  <1>2. ASSUME NEW p \in Producers, push_load_widx(p) PROVE TypeData'
    BY <1>2 DEF push_load_widx
  <1>3. ASSUME NEW p \in Producers, push_cas(p) PROVE TypeData'
    <2>1. log' \in Seq(Values \cup {Junk})
      <3>1. Append(log, arg[p]) \in Seq(Values \cup {Junk})
        OBVIOUS
      <3>2. log' = log \/ log' = Append(log, arg[p])
        BY <1>3 DEF push_cas
      <3>3. QED
        BY <3>1, <3>2, Zenon
    <2>2. QED
      BY <1>3, <2>1 DEF push_cas
  <1>4. ASSUME NEW p \in Producers, push_copy(p) PROVE TypeData'
    <2>1. widx[p] \in Int
      BY DEF TypeControl
    <2>2. ring_index(widx[p]) \in Slots
      BY <2>1, IndexInRange, Zenon
    <2>3. ASSUME NEW h \in Halves, CopyIn(p, h)
          PROVE  data' \in [Slots -> [Halves -> Values \cup {Junk}]]
      <3>1. arg[p] \in Values \cup {Junk} /\ data \in [Slots -> [Halves -> Values \cup {Junk}]]
        OBVIOUS
      <3> HIDE DEF TypeData
      <3>2. QED
        BY <2>2, <2>3, <3>1, HalfWritten DEF CopyIn
    <2>4. data' \in [Slots -> [Halves -> Values \cup {Junk}]]
      BY <1>4, <2>3 DEF push_copy, Halves
    <2>5. QED
      BY <1>4, <2>4 DEF push_copy
  <1>5. ASSUME NEW p \in Producers, push_publish(p) PROVE TypeData'
    <2>1. log' \in Seq(Values \cup {Junk})
      <3>1. Append(log, arg[p]) \in Seq(Values \cup {Junk})
        OBVIOUS
      <3>2. log' = log \/ log' = Append(log, arg[p])
        BY <1>5 DEF push_publish
      <3>3. QED
        BY <3>1, <3>2, Zenon
    <2>2. ret' \in [Threads -> Int]
      BY <1>5 DEF push_publish
    <2>3. QED
      BY <1>5, <2>1, <2>2 DEF push_publish
  <1>6. ASSUME NEW c \in Consumers, pop_load_ridx(c) PROVE TypeData'
    BY <1>6 DEF pop_load_ridx
  <1>7. ASSUME NEW c \in Consumers, pop_load_limit(c) PROVE TypeData'
    BY <1>7 DEF pop_load_limit
  <1>8. ASSUME NEW c \in Consumers, pop_copy(c) PROVE TypeData'
    <2>1. ridx[c] \in Int
      BY DEF TypeControl
    <2>2. ring_index(ridx[c]) \in Slots
      BY <2>1, IndexInRange, Zenon
    <2>3. ASSUME NEW h \in Halves, CopyOut(c, h)
          PROVE  elem' \in [Consumers -> [Halves -> Values \cup {Junk}]]
      <3>1. /\ data[ring_index(ridx[c])][h] \in Values \cup {Junk}
            /\ elem \in [Consumers -> [Halves -> Values \cup {Junk}]]
        BY <2>2
      <3> HIDE DEF TypeData
      <3>2. QED
        BY <2>3, <3>1, HalfWritten DEF CopyOut
    <2>4. elem' \in [Consumers -> [Halves -> Values \cup {Junk}]]
      BY <1>8, <2>3 DEF pop_copy, Halves
    <2>5. QED
      BY <1>8, <2>4 DEF pop_copy
  <1>9. ASSUME NEW c \in Consumers, pop_take(c) PROVE TypeData'
    BY <1>9 DEF pop_take
  <1>10. ASSUME NEW o \in Observers, size_first(o) PROVE TypeData'
    BY <1>10 DEF size_first
  <1>11. ASSUME NEW o \in Observers, size_second(o) PROVE TypeData'
    <2> DEFINE m == widx[o] - read_pos
               n == write_pos - ridx[o]
    <2>1. m \in Int /\ n \in Int
      BY DEF TypeControl
    <2>2. U4(m) \in Int /\ U4(n) \in Int
      <3> HIDE DEF m, n, TypeData
      <3>1. QED
        BY <2>1, IndexInRange
    <2>3. ret' \in [Threads -> Int]
      BY <1>11, <2>2 DEF size_second
    <2>4. QED
      BY <1>11, <2>3 DEF size_second
  <1>12. CASE UNCHANGED vars
    BY <1>12 DEF vars
  <1> HIDE DEF TypeData, Goto, Return, Threads, ring
  <1>13. QED
    BY <1>1, <1>2, <1>3, <1>4, <1>5, <1>6, <1>7, <1>8, <1>9, <1>10, <1>11, <1>12, Zenon
    DEF Next, ring_push, ring_pop, ring_size

\* Cursors, locals, slots and buffers keep their types in every ring of every size.
THEOREM TypeCorrect == Spec => []TypeOK
  <1>1. TypeOK /\ [Next]_vars => TypeOK'
    BY TypeControlStep, TypeDataStep DEF TypeOK
  <1>2. QED
    BY TypeInit, <1>1, PTL DEF Spec

(***************************************************************************)
(* Control: which positions are claimed, published and popped              *)
(***************************************************************************)

\* A thread has one role.
LEMMA Roles ==
  ASSUME NEW p \in Producers, NEW c \in Consumers, NEW o \in Observers
  PROVE  p # c /\ p # o /\ c # o
  BY RingAssumption

LEMMA ControlInit == Init => ControlInv
  BY DEF Init, ControlInv, CursorInv, ClaimsAreExclusive, PusherInv, PopperInv, Claims,
         Copying, Loaded, Taking, Limit, Threads

\* A step of a consumer or an observer, and a step of a producer that only loads,
\* leave the claims alone; so do the steps of one copy.
LEMMA ClaimsStep ==
  TypeControl /\ CursorInv /\ ClaimsAreExclusive /\ PusherInv /\ NoABA /\ [Next]_vars
    => ClaimsAreExclusive'
  <1> SUFFICES ASSUME TypeControl, CursorInv, ClaimsAreExclusive, PusherInv, NoABA
               PROVE  [Next]_vars => ClaimsAreExclusive'
    OBVIOUS
  <1> USE DEF TypeControl, Goto, Return, Threads, ClaimsAreExclusive, Claims, ring
  <1>1. ASSUME NEW p \in Producers, push_load_ridx(p) PROVE ClaimsAreExclusive'
    BY <1>1 DEF push_load_ridx
  <1>2. ASSUME NEW p \in Producers, push_load_widx(p) PROVE ClaimsAreExclusive'
    BY <1>2 DEF push_load_widx
  <1>3. ASSUME NEW p \in Producers, push_cas(p) PROVE ClaimsAreExclusive'
    <2>1. pc[p] = "push_cas" /\ widx' = widx /\ max_read_idx' = max_read_idx /\ MultiProducer
      BY <1>3 DEF push_cas, PusherInv
    <2>2. CASE U4(write_pos) # U4(widx[p])
      <3>1. write_pos' = write_pos /\ pc' = [pc EXCEPT ![p] = "push_ridx"]
        BY <1>3, <2>2 DEF push_cas
      <3>2. \A r \in Producers : Claims(r)' <=> Claims(r)
        BY <2>1, <3>1
      <3>3. QED
        BY <2>1, <3>1, <3>2
    <2>3. CASE U4(write_pos) = U4(widx[p])
      <3>1. widx[p] = write_pos
        BY <2>1, <2>3, U4Distinct DEF PusherInv, NoABA
      <3>2. write_pos' = write_pos + 1 /\ pc' = [pc EXCEPT ![p] = "push_copy1"]
        BY <1>3, <2>3 DEF push_cas
      <3>3. \A r \in Producers : Claims(r)' <=> Claims(r) \/ r = p
        BY <2>1, <3>2
      <3>4. max_read_idx <= write_pos
        BY <2>1 DEF CursorInv
      <3>5. \A r \in Producers : Claims(r)' => widx'[r] \in max_read_idx' .. write_pos' - 1
        BY <2>1, <3>1, <3>2, <3>3, <3>4
      <3>6. \A q, r \in Producers : Claims(q)' /\ Claims(r)' /\ widx'[q] = widx'[r] => q = r
        BY <2>1, <3>1, <3>3
      <3>7. ASSUME NEW i \in max_read_idx .. write_pos
            PROVE  \E r \in Producers : Claims(r)' /\ widx'[r] = i
        BY <2>1, <3>1, <3>3
      <3>8. QED
        BY <2>1, <3>2, <3>5, <3>6, <3>7
    <2>4. QED
      BY <2>2, <2>3
  <1>4. ASSUME NEW p \in Producers, push_copy(p) PROVE ClaimsAreExclusive'
    BY <1>4 DEF push_copy
  <1>5. ASSUME NEW p \in Producers, push_publish(p) PROVE ClaimsAreExclusive'
    <2>1. CASE ~MultiProducer
      BY <1>5, <2>1 DEF push_publish
    <2>2. CASE MultiProducer
      <3>1. /\ pc[p] = "push_publish" /\ pc' = [pc EXCEPT ![p] = "idle"]
            /\ max_read_idx' = max_read_idx + 1 /\ write_pos' = write_pos
            /\ widx' = [widx EXCEPT ![p] = 0]
            /\ U4(max_read_idx) = U4(widx[p])
        BY <1>5, <2>2 DEF push_publish
      <3>2. widx[p] \in max_read_idx .. write_pos - 1
        BY <2>2, <3>1
      <3>3. widx[p] = max_read_idx
        BY <2>2, <3>1, <3>2, U4Distinct DEF NoABA
      <3>4. \A r \in Producers : Claims(r)' <=> Claims(r) /\ r # p
        BY <2>2, <3>1
      <3>5. \A r \in Producers : r # p => widx'[r] = widx[r]
        BY <3>1
      <3>6. \A r \in Producers : Claims(r)' => widx'[r] \in max_read_idx' .. write_pos' - 1
        BY <2>2, <3>1, <3>3, <3>4, <3>5
      <3>7. \A q, r \in Producers : Claims(q)' /\ Claims(r)' /\ widx'[q] = widx'[r] => q = r
        BY <3>4, <3>5
      <3>8. ASSUME NEW i \in max_read_idx + 1 .. write_pos - 1
            PROVE  \E r \in Producers : Claims(r)' /\ widx'[r] = i
        BY <2>2, <3>3, <3>4, <3>5
      <3>9. QED
        BY <3>1, <3>6, <3>7, <3>8
    <2>3. QED
      BY <2>1, <2>2
  <1>6. ASSUME NEW c \in Consumers, pop_load_ridx(c) PROVE ClaimsAreExclusive'
    BY <1>6, RingAssumption DEF pop_load_ridx
  <1>7. ASSUME NEW c \in Consumers, pop_load_limit(c) PROVE ClaimsAreExclusive'
    BY <1>7, RingAssumption DEF pop_load_limit
  <1>8. ASSUME NEW c \in Consumers, pop_copy(c) PROVE ClaimsAreExclusive'
    BY <1>8, RingAssumption DEF pop_copy
  <1>9. ASSUME NEW c \in Consumers, pop_take(c) PROVE ClaimsAreExclusive'
    BY <1>9, RingAssumption DEF pop_take
  <1>10. ASSUME NEW o \in Observers, ring_size(o) PROVE ClaimsAreExclusive'
    BY <1>10, RingAssumption DEF ring_size, size_first, size_second
  <1>12. CASE UNCHANGED vars
    BY <1>12 DEF vars
  <1> HIDE DEF TypeControl, Goto, Return, Threads, ClaimsAreExclusive, Claims, ring
  <1>13. QED
    BY <1>1, <1>2, <1>3, <1>4, <1>5, <1>6, <1>7, <1>8, <1>9, <1>10, <1>12, Zenon
    DEF Next, ring_push, ring_pop

LEMMA CursorStep ==
  TypeControl /\ ControlInv /\ NoABA /\ [Next]_vars => CursorInv'
  <1> SUFFICES ASSUME TypeControl, ControlInv, NoABA
               PROVE  [Next]_vars => CursorInv'
    OBVIOUS
  <1> USE DEF TypeControl, ControlInv, Goto, Return, Threads, CursorInv, Limit, ring
  <1>1. ASSUME NEW p \in Producers, push_load_ridx(p) PROVE CursorInv'
    BY <1>1 DEF push_load_ridx
  <1>2. ASSUME NEW p \in Producers, push_load_widx(p) PROVE CursorInv'
    BY <1>2 DEF push_load_widx
  <1>3. ASSUME NEW p \in Producers, push_cas(p) PROVE CursorInv'
    BY <1>3 DEF push_cas, PusherInv
  <1>4. ASSUME NEW p \in Producers, push_copy(p) PROVE CursorInv'
    BY <1>4 DEF push_copy
  <1>5. ASSUME NEW p \in Producers, push_publish(p) PROVE CursorInv'
    <2>1. pc[p] = "push_publish"
      BY <1>5 DEF push_publish
    <2>2. MultiProducer => max_read_idx <= write_pos - 1
      BY <2>1 DEF ClaimsAreExclusive, Claims
    <2>3. QED
      BY <1>5, <2>2 DEF push_publish
  <1>6. ASSUME NEW c \in Consumers, pop_load_ridx(c) PROVE CursorInv'
    BY <1>6 DEF pop_load_ridx
  <1>7. ASSUME NEW c \in Consumers, pop_load_limit(c) PROVE CursorInv'
    BY <1>7 DEF pop_load_limit
  <1>8. ASSUME NEW c \in Consumers, pop_copy(c) PROVE CursorInv'
    BY <1>8 DEF pop_copy
  <1>9. ASSUME NEW c \in Consumers, pop_take(c) PROVE CursorInv'
    <2>1. CASE read_pos' = read_pos
      BY <1>9, <2>1 DEF pop_take
    <2>2. CASE read_pos' = read_pos + 1 /\ (MultiConsumer => U4(read_pos) = U4(ridx[c]))
      <3>1. pc[c] = "pop_take"
        BY <1>9 DEF pop_take
      <3>2. ridx[c] = read_pos
        BY <2>2, <3>1, U4Distinct DEF PopperInv, Loaded, NoABA
      <3>3. read_pos < Limit
        BY <3>1, <3>2 DEF PopperInv, Taking
      <3>4. QED
        BY <1>9, <2>2, <3>3 DEF pop_take
    <2>3. QED
      BY <1>9, <2>1, <2>2 DEF pop_take
  <1>10. ASSUME NEW o \in Observers, ring_size(o) PROVE CursorInv'
    BY <1>10 DEF ring_size, size_first, size_second
  <1>12. CASE UNCHANGED vars
    BY <1>12 DEF vars
  <1> HIDE DEF TypeControl, ControlInv, Goto, Return, Threads, CursorInv, Limit, ring
  <1>13. QED
    BY <1>1, <1>2, <1>3, <1>4, <1>5, <1>6, <1>7, <1>8, <1>9, <1>10, <1>12, Zenon
    DEF Next, ring_push, ring_pop

LEMMA PusherStep ==
  TypeControl /\ ControlInv /\ [Next]_vars => PusherInv'
  <1> SUFFICES ASSUME TypeControl, ControlInv
               PROVE  [Next]_vars => PusherInv'
    OBVIOUS
  <1> USE DEF TypeControl, ControlInv, Goto, Return, Threads, PusherInv, Copying, ring
  <1>1. ASSUME NEW p \in Producers, push_load_ridx(p) PROVE PusherInv'
    BY <1>1 DEF push_load_ridx
  <1>2. ASSUME NEW p \in Producers, push_load_widx(p) PROVE PusherInv'
    BY <1>2 DEF push_load_widx
  <1>3. ASSUME NEW p \in Producers, push_cas(p) PROVE PusherInv'
    BY <1>3 DEF push_cas
  <1>4. ASSUME NEW p \in Producers, push_copy(p) PROVE PusherInv'
    BY <1>4 DEF push_copy
  <1>5. ASSUME NEW p \in Producers, push_publish(p) PROVE PusherInv'
    BY <1>5, RingAssumption DEF push_publish
  <1>6. ASSUME NEW c \in Consumers, pop_load_ridx(c) PROVE PusherInv'
    BY <1>6, RingAssumption DEF pop_load_ridx
  <1>7. ASSUME NEW c \in Consumers, pop_load_limit(c) PROVE PusherInv'
    BY <1>7, RingAssumption DEF pop_load_limit
  <1>8. ASSUME NEW c \in Consumers, pop_copy(c) PROVE PusherInv'
    BY <1>8, RingAssumption DEF pop_copy
  <1>9. ASSUME NEW c \in Consumers, pop_take(c) PROVE PusherInv'
    BY <1>9, RingAssumption DEF pop_take
  <1>10. ASSUME NEW o \in Observers, ring_size(o) PROVE PusherInv'
    BY <1>10, RingAssumption DEF ring_size, size_first, size_second
  <1>12. CASE UNCHANGED vars
    BY <1>12, SMTT(20) DEF vars
  <1> HIDE DEF TypeControl, ControlInv, Goto, Return, Threads, PusherInv, Copying, ring
  <1>13. QED
    BY <1>1, <1>2, <1>3, <1>4, <1>5, <1>6, <1>7, <1>8, <1>9, <1>10, <1>12, Zenon
    DEF Next, ring_push, ring_pop

LEMMA PopperStep ==
  TypeControl /\ ControlInv /\ [Next]_vars => PopperInv'
  <1> SUFFICES ASSUME TypeControl, ControlInv
               PROVE  [Next]_vars => PopperInv'
    OBVIOUS
  <1> USE DEF TypeControl, ControlInv, Goto, Return, Threads, PopperInv, Loaded, Taking,
              Limit, ring
  <1>1. ASSUME NEW p \in Producers, push_load_ridx(p) PROVE PopperInv'
    BY <1>1, RingAssumption DEF push_load_ridx
  <1>2. ASSUME NEW p \in Producers, push_load_widx(p) PROVE PopperInv'
    BY <1>2, RingAssumption DEF push_load_widx
  <1>3. ASSUME NEW p \in Producers, push_cas(p) PROVE PopperInv'
    BY <1>3, RingAssumption DEF push_cas
  <1>4. ASSUME NEW p \in Producers, push_copy(p) PROVE PopperInv'
    BY <1>4, RingAssumption DEF push_copy
  <1>5. ASSUME NEW p \in Producers, push_publish(p) PROVE PopperInv'
    BY <1>5, RingAssumption DEF push_publish
  <1>6. ASSUME NEW c \in Consumers, pop_load_ridx(c) PROVE PopperInv'
    BY <1>6 DEF pop_load_ridx
  <1>7. ASSUME NEW c \in Consumers, pop_load_limit(c) PROVE PopperInv'
    BY <1>7 DEF pop_load_limit, CursorInv
  <1>8. ASSUME NEW c \in Consumers, pop_copy(c) PROVE PopperInv'
    BY <1>8 DEF pop_copy
  <1>9. ASSUME NEW c \in Consumers, pop_take(c) PROVE PopperInv'
    BY <1>9, RingAssumption DEF pop_take
  <1>10. ASSUME NEW o \in Observers, ring_size(o) PROVE PopperInv'
    BY <1>10, RingAssumption DEF ring_size, size_first, size_second
  <1>12. CASE UNCHANGED vars
    BY <1>12 DEF vars
  <1> HIDE DEF TypeControl, ControlInv, Goto, Return, Threads, PopperInv, Loaded, Taking,
             Limit, ring
  <1>13. QED
    BY <1>1, <1>2, <1>3, <1>4, <1>5, <1>6, <1>7, <1>8, <1>9, <1>10, <1>12, Zenon
    DEF Next, ring_push, ring_pop

LEMMA ControlCorrect == Spec /\ []NoABA => []ControlInv
  <1>1. TypeControl /\ ControlInv /\ NoABA /\ [Next]_vars => ControlInv'
    BY ClaimsStep, CursorStep, PusherStep, PopperStep DEF ControlInv
  <1>2. TypeOK => TypeControl
    BY DEF TypeOK
  <1>3. QED
    BY <1>1, <1>2, ControlInit, TypeCorrect, PTL DEF Spec

\* mp_ring_push, for any number of threads and any size of ring: the positions between
\* max_read_idx and write_pos belong to one producer each.
THEOREM ClaimsExclusive == Spec /\ []NoABA => []ClaimsAreExclusive
  <1>1. ControlInv => ClaimsAreExclusive
    BY DEF ControlInv
  <1>2. QED
    BY <1>1, ControlCorrect, PTL

\* ring_pop, all four types: read_pos never passes the published elements.
THEOREM PublishedOnly == Spec /\ []NoABA => []NeverPopsUnpublished
  <1>1. ControlInv => NeverPopsUnpublished
    BY DEF ControlInv, CursorInv, NeverPopsUnpublished, Limit
  <1>2. QED
    BY <1>1, ControlCorrect, PTL

(***************************************************************************)
(* One producer: room and content                                          *)
(***************************************************************************)
LEMMA RoomInit == Init => RoomInv
  BY Params DEF Init, RoomInv, WithinCapacity, Copying, Threads

\* The full test on a stale ridx errs on the safe side: when it passes, there is a
\* slot more than the element about to be copied needs.
LEMMA NotFull ==
  ASSUME NEW w \in Nat, NEW r \in Nat, r <= w, w - r < unit_num,
         ring_index(w + 1) # ring_index(r)
  PROVE  w + 1 - r < unit_num
  <1>1. w + 1 - r <= unit_num /\ unit_num \in Nat
    BY Params
  <1>2. ASSUME w + 1 - r = unit_num PROVE FALSE
    <2>1. w + 1 = r + unit_num
      BY <1>1, <1>2
    <2>2. ring_index(r + unit_num) = ring_index(r)
      BY IndexPeriod, SMTT(20)
    <2>3. QED
      BY <2>1, <2>2
  <1>3. QED
    BY <1>1, <1>2, SMTT(20)

LEMMA RoomStep ==
  ASSUME ~MultiProducer
  PROVE  TypeControl /\ ControlInv /\ RoomInv /\ [Next]_vars => RoomInv'
  <1> SUFFICES ASSUME TypeControl, ControlInv, RoomInv
               PROVE  [Next]_vars => RoomInv'
    OBVIOUS
  <1>0. unit_num \in Nat /\ read_pos <= write_pos
    BY Params DEF ControlInv, CursorInv, Limit
  <1> USE <1>0 DEF TypeControl, Goto, Return, Threads, RoomInv, WithinCapacity, Copying, ring
  <1>1. ASSUME NEW p \in Producers, push_load_ridx(p) PROVE RoomInv'
    BY <1>1 DEF push_load_ridx
  <1>2. ASSUME NEW p \in Producers, push_load_widx(p) PROVE RoomInv'
    <2>1. pc[p] = "push_widx" /\ write_pos' = write_pos /\ read_pos' = read_pos
      BY <1>2 DEF push_load_widx
    <2>2. CASE Return(p, "push_widx", -2)
      BY <1>2, <2>1, <2>2
    <2>3. CASE /\ ring_index(write_pos + 1) # ring_index(ridx[p])
               /\ Goto(p, "push_widx", IF MultiProducer THEN "push_cas" ELSE "push_copy1")
               /\ UNCHANGED ridx
      <3>1. ridx[p] \in Nat /\ ridx[p] <= read_pos /\ write_pos - ridx[p] < unit_num
        BY <2>1
      <3>2. write_pos + 1 - ridx[p] < unit_num
        BY <2>3, <3>1, NotFull
      <3>3. write_pos + 1 - read_pos < unit_num
        BY <3>1, <3>2
      <3>4. QED
        BY <2>1, <2>3, <3>3
    <2>4. QED
      BY <1>2, <2>2, <2>3 DEF push_load_widx
  <1>3. ASSUME NEW p \in Producers, push_cas(p) PROVE RoomInv'
    BY <1>3 DEF push_cas, ControlInv, PusherInv
  <1>4. ASSUME NEW p \in Producers, push_copy(p) PROVE RoomInv'
    BY <1>4 DEF push_copy
  <1>5. ASSUME NEW p \in Producers, push_publish(p) PROVE RoomInv'
    BY <1>5, RingAssumption DEF push_publish
  <1>6. ASSUME NEW c \in Consumers, pop_load_ridx(c) PROVE RoomInv'
    BY <1>6, RingAssumption DEF pop_load_ridx
  <1>7. ASSUME NEW c \in Consumers, pop_load_limit(c) PROVE RoomInv'
    BY <1>7, RingAssumption DEF pop_load_limit
  <1>8. ASSUME NEW c \in Consumers, pop_copy(c) PROVE RoomInv'
    BY <1>8, RingAssumption DEF pop_copy
  <1>9. ASSUME NEW c \in Consumers, pop_take(c) PROVE RoomInv'
    BY <1>9, RingAssumption DEF pop_take
  <1>10. ASSUME NEW o \in Observers, ring_size(o) PROVE RoomInv'
    BY <1>10, RingAssumption DEF ring_size, size_first, size_second
  <1>12. CASE UNCHANGED vars
    BY <1>12 DEF vars
  <1>13. QED
    BY <1>1, <1>2, <1>3, <1>4, <1>5, <1>6, <1>7, <1>8, <1>9, <1>10, <1>12, Zenon
    DEF Next, ring_push, ring_pop

LEMMA ContentInit == Init => ContentInv
  <1> SUFFICES ASSUME Init PROVE ContentInv
    OBVIOUS
  <1>1. Len(log) = write_pos /\ read_pos .. write_pos - 1 = {}
    BY DEF Init
  <1>2. \A p \in Producers : pc[p] = "idle"
    BY DEF Init, Threads
  <1>3. \A c \in Consumers : pc[c] = "idle"
    BY DEF Init, Threads
  <1>4. QED
    BY <1>1, <1>2, <1>3 DEF ContentInv, ElementsInSlots, HalfPushed, HalfPopped

\* The slot being written is none of those that hold an element.
LEMMA FreshSlot ==
  ASSUME TypeControl, write_pos + 1 - read_pos < unit_num,
         NEW i \in read_pos .. write_pos - 1
  PROVE  ring_index(i) # ring_index(write_pos)
  <1>1. i \in Nat /\ write_pos \in Nat /\ i < write_pos /\ write_pos - i < unit_num
    BY Params DEF TypeControl
  <1>2. QED
    BY <1>1, IndexDistinct

\* What a step leaves alone keeps its part of ContentInv.
LEMMA SlotsFrame ==
  ASSUME ElementsInSlots, UNCHANGED <<write_pos, read_pos, data, log>>
  PROVE  ElementsInSlots'
  BY DEF ElementsInSlots

LEMMA PushFrame ==
  ASSUME NEW p \in Producers, HalfPushed(p), UNCHANGED <<write_pos, data>>,
         pc'[p] = pc[p], arg'[p] = arg[p]
  PROVE  HalfPushed(p)'
  BY DEF HalfPushed

LEMMA PopFrame ==
  ASSUME NEW c \in Consumers, HalfPopped(c), UNCHANGED <<read_pos, log>>,
         pc'[c] = pc[c], ridx'[c] = ridx[c], elem'[c] = elem[c]
  PROVE  HalfPopped(c)'
  BY DEF HalfPopped

\* A thread that is not copying has nothing to show.
LEMMA PushIdle ==
  ASSUME NEW p \in Producers, pc'[p] \notin {"push_copy2", "push_publish"}
  PROVE  HalfPushed(p)'
  BY DEF HalfPushed

LEMMA PopIdle ==
  ASSUME NEW c \in Consumers, pc'[c] \notin {"pop_copy2", "pop_take"}
  PROVE  HalfPopped(c)'
  BY DEF HalfPopped

\* A consumer that only moves on to a step before its copy is complete.
LEMMA PopperMoves ==
  ASSUME NEW c \in Consumers, pc'[c] \notin {"pop_copy2", "pop_take"},
         \A d \in Consumers : d # c => ridx'[d] = ridx[d] /\ pc'[d] = pc[d],
         \A p \in Producers : pc'[p] = pc[p],
         UNCHANGED <<write_pos, read_pos, data, arg, elem, log>>, ContentInv
  PROVE  ContentInv'
  <1>1. ElementsInSlots'
    BY SlotsFrame DEF ContentInv
  <1>2. \A p \in Producers : HalfPushed(p)'
    BY PushFrame DEF ContentInv
  <1>3. ASSUME NEW d \in Consumers PROVE HalfPopped(d)'
    <2>1. CASE d = c
      BY <2>1, PopIdle
    <2>2. CASE d # c
      BY <2>2, PopFrame DEF ContentInv
    <2>3. QED
      BY <2>1, <2>2
  <1>4. QED
    BY <1>1, <1>2, <1>3 DEF ContentInv

LEMMA ContentStep ==
  ASSUME ~MultiProducer
  PROVE  TypeOK /\ ControlInv /\ RoomInv /\ ContentInv /\ NoABA /\ [Next]_vars => ContentInv'
  <1> SUFFICES ASSUME TypeOK, ControlInv, RoomInv, ContentInv, NoABA
               PROVE  [Next]_vars => ContentInv'
    OBVIOUS
  <1>a. TypeControl /\ TypeData /\ Len(log) = write_pos /\ ElementsInSlots
    BY DEF TypeOK, ContentInv
  <1>b. \A p \in Producers : HalfPushed(p)
    BY DEF ContentInv
  <1>c. \A c \in Consumers : HalfPopped(c)
    BY DEF ContentInv
  <1>d. \A p, r \in Producers : p = r
    BY RingAssumption
  <1>e. \A t \in Producers, c \in Consumers : t # c
    BY RingAssumption
  <1>1. ASSUME NEW p \in Producers, push_load_ridx(p) PROVE ContentInv'
    <2>1. /\ pc' = [pc EXCEPT ![p] = "push_widx"] /\ ridx' = [ridx EXCEPT ![p] = read_pos]
          /\ UNCHANGED <<write_pos, read_pos, data, elem, log>>
      BY <1>1 DEF push_load_ridx, Goto, ring
    <2>2. pc'[p] = "push_widx" /\ \A c \in Consumers : ridx'[c] = ridx[c] /\ pc'[c] = pc[c]
      BY <1>a, <1>e, <2>1 DEF TypeControl, Threads
    <2>3. ElementsInSlots'
      BY <1>a, <2>1, SlotsFrame
    <2>4. \A r \in Producers : HalfPushed(r)'
      BY <1>d, <2>2, PushIdle
    <2>5. \A c \in Consumers : HalfPopped(c)'
      BY <1>c, <2>1, <2>2, PopFrame
    <2>6. QED
      BY <1>a, <2>1, <2>3, <2>4, <2>5 DEF ContentInv
  <1>2. ASSUME NEW p \in Producers, push_load_widx(p) PROVE ContentInv'
    <2>1. /\ pc' \in {[pc EXCEPT ![p] = "idle"], [pc EXCEPT ![p] = "push_copy1"]}
          /\ ridx' \in {ridx, [ridx EXCEPT ![p] = 0]}
          /\ UNCHANGED <<write_pos, read_pos, data, elem, log>>
      BY <1>2 DEF push_load_widx, Goto, Return, ring
    <2>2. /\ pc'[p] \in {"idle", "push_copy1"}
          /\ \A c \in Consumers : ridx'[c] = ridx[c] /\ pc'[c] = pc[c]
      BY <1>a, <1>e, <2>1 DEF TypeControl, Threads
    <2>3. ElementsInSlots'
      BY <1>a, <2>1, SlotsFrame
    <2>4. \A r \in Producers : HalfPushed(r)'
      BY <1>d, <2>2, PushIdle
    <2>5. \A c \in Consumers : HalfPopped(c)'
      BY <1>c, <2>1, <2>2, PopFrame
    <2>6. QED
      BY <1>a, <2>1, <2>3, <2>4, <2>5 DEF ContentInv
  <1>3. ASSUME NEW p \in Producers, push_cas(p) PROVE ContentInv'
    BY <1>3 DEF push_cas, Goto, ControlInv, PusherInv
  <1>4. ASSUME NEW p \in Producers, push_copy(p) PROVE ContentInv'
    <2> DEFINE s == ring_index(write_pos)
    <2>1. /\ UNCHANGED <<write_pos, read_pos, ridx, arg, elem, log>>
          /\ Copying(p)
      BY <1>4 DEF push_copy, Goto, Copying
    <2>2. widx[p] = write_pos /\ write_pos + 1 - read_pos < unit_num
      BY <2>1 DEF ControlInv, PusherInv, RoomInv
    <2>3. s \in Slots /\ \A i \in read_pos .. write_pos - 1 : ring_index(i) \in Slots
      BY <1>a, IndexInRange DEF TypeControl
    <2>4. \A i \in read_pos .. write_pos - 1 : ring_index(i) # s
      BY <1>a, <2>2, FreshSlot
    <2>5. \A c \in Consumers : pc'[c] = pc[c]
      BY <1>4, <1>a, <1>e DEF push_copy, Goto, TypeControl, Threads
    <2>6. \A c \in Consumers : HalfPopped(c)'
      BY <1>c, <2>1, <2>5, PopFrame
    <2>7. ASSUME \A t \in Slots : t # s => data'[t] = data[t]
          PROVE  ElementsInSlots'
      <3>1. \A i \in read_pos .. write_pos - 1 : data'[ring_index(i)] = data[ring_index(i)]
        BY <2>3, <2>4, <2>7
      <3>2. QED
        BY <1>a, <2>1, <3>1 DEF ElementsInSlots
    <2>8. CASE Goto(p, "push_copy1", "push_copy2") /\ CopyIn(p, 1)
      <3>1. data' = [data EXCEPT ![s][1] = arg[p]]
        BY <2>2, <2>8 DEF CopyIn
      <3>2. data'[s][1] = arg[p] /\ \A t \in Slots : t # s => data'[t] = data[t]
        BY <1>a, <2>3, <3>1 DEF TypeData, Halves
      <3>3. pc'[p] = "push_copy2"
        BY <1>a, <2>8 DEF Goto, TypeControl, Threads
      <3>4. HalfPushed(p)'
        BY <2>1, <3>2, <3>3 DEF HalfPushed
      <3>5. QED
        BY <1>a, <1>d, <2>1, <2>6, <2>7, <3>2, <3>4 DEF ContentInv
    <2>9. CASE Goto(p, "push_copy2", "push_publish") /\ CopyIn(p, 2)
      <3>1. data' = [data EXCEPT ![s][2] = arg[p]]
        BY <2>2, <2>9 DEF CopyIn
      <3>2. /\ data'[s][2] = arg[p] /\ data'[s][1] = data[s][1]
            /\ \A t \in Slots : t # s => data'[t] = data[t]
        BY <1>a, <2>3, <3>1 DEF TypeData, Halves
      <3>3. data[s][1] = arg[p]
        BY <1>b, <2>9 DEF Goto, HalfPushed
      <3>4. HalfPushed(p)'
        BY <2>1, <3>2, <3>3 DEF HalfPushed
      <3>5. QED
        BY <1>a, <1>d, <2>1, <2>6, <2>7, <3>2, <3>4 DEF ContentInv
    <2>10. QED
      BY <1>4, <2>8, <2>9 DEF push_copy
  <1>5. ASSUME NEW p \in Producers, push_publish(p) PROVE ContentInv'
    <2>1. /\ write_pos' = write_pos + 1 /\ log' = Append(log, arg[p])
          /\ UNCHANGED <<read_pos, data, arg, elem>>
          /\ pc[p] = "push_publish" /\ pc' = [pc EXCEPT ![p] = "idle"]
          /\ ridx' = [ridx EXCEPT ![p] = 0]
      BY <1>5 DEF push_publish, Return, Goto
    <2>2. pc'[p] = "idle" /\ \A c \in Consumers : ridx'[c] = ridx[c] /\ pc'[c] = pc[c]
      BY <1>a, <1>e, <2>1 DEF TypeControl, Threads
    <2>3. write_pos \in Nat /\ read_pos \in Nat /\ read_pos <= write_pos
      BY <1>a DEF TypeControl, ControlInv, CursorInv, Limit
    <2>4. arg[p] \in Values \cup {Junk} /\ log \in Seq(Values \cup {Junk})
      BY <1>a DEF TypeData
    <2>5. /\ Len(log') = write_pos + 1 /\ log'[write_pos + 1] = arg[p]
          /\ \A k \in 1 .. write_pos : log'[k] = log[k]
      BY <1>a, <2>1, <2>3, <2>4
    <2>6. \A h \in Halves : data[ring_index(write_pos)][h] = arg[p]
      BY <1>b, <2>1 DEF HalfPushed, Halves
    <2>7. ElementsInSlots'
      <3> SUFFICES ASSUME NEW i \in read_pos .. write_pos, NEW h \in Halves
                   PROVE  data[ring_index(i)][h] = log'[i + 1]
        <4>1. read_pos' .. write_pos' - 1 = read_pos .. write_pos
          BY <2>1, <2>3
        <4>2. QED
          BY <2>1, <4>1, Zenon DEF ElementsInSlots
      <3>1. CASE i = write_pos
        BY <2>5, <2>6, <3>1
      <3>2. CASE i # write_pos
        <4>1. i \in read_pos .. write_pos - 1 /\ i + 1 \in 1 .. write_pos
          BY <2>3, <3>2
        <4>2. QED
          BY <1>a, <2>5, <4>1 DEF ElementsInSlots
      <3>3. QED
        BY <3>1, <3>2
    <2>8. ASSUME NEW c \in Consumers PROVE HalfPopped(c)'
      <3>1. CASE ridx[c] = read_pos /\ pc[c] \in {"pop_copy2", "pop_take"}
        <4>1. read_pos < write_pos
          BY <3>1 DEF ControlInv, PopperInv, Taking, Limit
        <4>2. log'[read_pos + 1] = log[read_pos + 1]
          BY <2>3, <2>5, <4>1
        <4>3. QED
          BY <1>c, <2>1, <2>2, <4>2 DEF HalfPopped
      <3>2. CASE ~(ridx[c] = read_pos /\ pc[c] \in {"pop_copy2", "pop_take"})
        BY <2>1, <2>2, <3>2 DEF HalfPopped
      <3>3. QED
        BY <3>1, <3>2
    <2>9. \A r \in Producers : HalfPushed(r)'
      BY <1>d, <2>2, PushIdle
    <2>10. QED
      BY <2>1, <2>5, <2>7, <2>8, <2>9 DEF ContentInv
  <1>6. ASSUME NEW c \in Consumers, pop_load_ridx(c) PROVE ContentInv'
    <2>1. /\ pc' = [pc EXCEPT ![c] = "pop_limit"] /\ ridx' = [ridx EXCEPT ![c] = read_pos]
          /\ UNCHANGED <<write_pos, read_pos, data, arg, elem, log>>
      BY <1>6 DEF pop_load_ridx, Goto, ring
    <2>2. /\ pc'[c] = "pop_limit"
          /\ \A d \in Consumers : d # c => ridx'[d] = ridx[d] /\ pc'[d] = pc[d]
          /\ \A p \in Producers : pc'[p] = pc[p]
      BY <1>a, <1>e, <2>1 DEF TypeControl, Threads
    <2>3. QED
      BY <1>a, <1>b, <1>c, <2>1, <2>2, PopperMoves
  <1>7. ASSUME NEW c \in Consumers, pop_load_limit(c) PROVE ContentInv'
    <2>1. /\ pc' \in {[pc EXCEPT ![c] = "idle"], [pc EXCEPT ![c] = "pop_copy1"]}
          /\ ridx' \in {ridx, [ridx EXCEPT ![c] = 0]}
          /\ UNCHANGED <<write_pos, read_pos, data, arg, elem, log>>
      BY <1>7 DEF pop_load_limit, Goto, Return, ring
    <2>2. /\ pc'[c] \in {"idle", "pop_copy1"}
          /\ \A d \in Consumers : d # c => ridx'[d] = ridx[d] /\ pc'[d] = pc[d]
          /\ \A p \in Producers : pc'[p] = pc[p]
      BY <1>a, <1>e, <2>1 DEF TypeControl, Threads
    <2>3. QED
      BY <1>a, <1>b, <1>c, <2>1, <2>2, PopperMoves
  <1>8. ASSUME NEW c \in Consumers, pop_copy(c) PROVE ContentInv'
    <2>1. /\ UNCHANGED <<write_pos, read_pos, data, ridx, arg, log>> /\ Taking(c)
          /\ \A d \in Consumers : d # c => pc'[d] = pc[d] /\ elem'[d] = elem[d]
          /\ \A p \in Producers : pc'[p] = pc[p]
      <3>1. /\ UNCHANGED <<write_pos, read_pos, data, ridx, arg, log>> /\ Taking(c)
            /\ \E l \in {"pop_copy2", "pop_take"} : pc' = [pc EXCEPT ![c] = l]
            /\ CopyOut(c, 1) \/ CopyOut(c, 2)
        BY <1>8 DEF pop_copy, Goto, Taking, ring
      <3>2. \A d \in Consumers : d # c => elem'[d] = elem[d]
        BY <1>a, <3>1 DEF CopyOut, TypeData
      <3>3. /\ \A d \in Consumers : d # c => pc'[d] = pc[d]
            /\ \A p \in Producers : pc'[p] = pc[p]
        BY <1>a, <1>e, <3>1 DEF TypeControl, Threads
      <3>4. QED
        BY <3>1, <3>2, <3>3
    <2>2. ASSUME ridx[c] = read_pos
          PROVE  \A h \in Halves : data[ring_index(ridx[c])][h] = log[read_pos + 1]
      <3>1. read_pos < write_pos
        BY <2>1, <2>2 DEF ControlInv, PopperInv, Limit
      <3>2. read_pos \in read_pos .. write_pos - 1
        BY <1>a, <3>1 DEF TypeControl
      <3>3. QED
        BY <1>a, <2>2, <3>2 DEF ElementsInSlots
    <2>3. HalfPopped(c)'
      <3>1. CASE Goto(c, "pop_copy1", "pop_copy2") /\ CopyOut(c, 1)
        <4>1. pc'[c] = "pop_copy2" /\ elem'[c][1] = data[ring_index(ridx[c])][1]
          BY <1>a, <3>1 DEF Goto, CopyOut, TypeControl, TypeData, Threads, Halves
        <4>2. QED
          BY <2>1, <2>2, <4>1 DEF HalfPopped, Halves
      <3>2. CASE Goto(c, "pop_copy2", "pop_take") /\ CopyOut(c, 2)
        <4>1. /\ pc[c] = "pop_copy2" /\ elem'[c][1] = elem[c][1]
              /\ elem'[c][2] = data[ring_index(ridx[c])][2]
          BY <1>a, <3>2, SMTT(20) DEF Goto, CopyOut, TypeData, Halves
        <4>2. QED
          BY <1>c, <2>1, <2>2, <4>1 DEF HalfPopped, Halves
      <3>3. QED
        BY <1>8, <3>1, <3>2 DEF pop_copy
    <2>4. \A d \in Consumers : HalfPopped(d)'
      BY <1>c, <2>1, <2>3, PopFrame
    <2>5. ElementsInSlots'
      BY <1>a, <2>1, SlotsFrame
    <2>6. \A p \in Producers : HalfPushed(p)'
      BY <1>b, <2>1, PushFrame
    <2>7. QED
      BY <1>a, <2>1, <2>4, <2>5, <2>6 DEF ContentInv
  <1>9. ASSUME NEW c \in Consumers, pop_take(c) PROVE ContentInv'
    <2>1. /\ UNCHANGED <<write_pos, data, arg, elem, log>>
          /\ pc' \in {[pc EXCEPT ![c] = "idle"], [pc EXCEPT ![c] = "pop_ridx"]}
          /\ ridx' \in {ridx, [ridx EXCEPT ![c] = 0]}
          /\ read_pos' \in {read_pos, read_pos + 1}
      BY <1>9 DEF pop_take, Return, Goto
    <2>2. /\ pc'[c] \in {"idle", "pop_ridx"}
          /\ \A d \in Consumers : d # c => ridx'[d] = ridx[d] /\ pc'[d] = pc[d]
          /\ \A p \in Producers : pc'[p] = pc[p]
      BY <1>a, <1>e, <2>1 DEF TypeControl, Threads
    <2>3. CASE read_pos' = read_pos
      BY <1>a, <1>b, <1>c, <2>1, <2>2, <2>3, PopperMoves
    <2>4. CASE read_pos' = read_pos + 1
      <3>1. ASSUME NEW d \in Consumers PROVE HalfPopped(d)'
        <4>1. CASE pc'[d] \in {"pop_copy2", "pop_take"}
          <5>1. d # c /\ Loaded(d) /\ ridx'[d] = ridx[d]
            BY <2>2, <4>1 DEF Loaded
          <5>2. ridx[d] <= read_pos /\ ridx[d] \in Nat /\ read_pos \in Nat
            BY <1>a, <5>1 DEF ControlInv, PopperInv, TypeControl, Threads
          <5>3. ridx'[d] # read_pos'
            BY <2>4, <5>1, <5>2
          <5>4. QED
            BY <5>3 DEF HalfPopped
        <4>2. CASE pc'[d] \notin {"pop_copy2", "pop_take"}
          BY <4>2, PopIdle
        <4>3. QED
          BY <4>1, <4>2
      <3>2. \A i \in read_pos' .. write_pos - 1 : i \in read_pos .. write_pos - 1
        BY <1>a, <2>4 DEF TypeControl
      <3>3. ElementsInSlots'
        BY <1>a, <2>1, <3>2 DEF ElementsInSlots
      <3>4. \A p \in Producers : HalfPushed(p)'
        BY <1>b, <2>1, <2>2, PushFrame
      <3>5. QED
        BY <1>a, <2>1, <3>1, <3>3, <3>4 DEF ContentInv
    <2>5. QED
      BY <2>1, <2>3, <2>4
  <1>10. ASSUME NEW o \in Observers, ring_size(o) PROVE ContentInv'
    <2>1. /\ \E l \in PC : pc' = [pc EXCEPT ![o] = l]
          /\ \E n \in Nat : ridx' = [ridx EXCEPT ![o] = n] \/ ridx' = ridx
          /\ UNCHANGED <<write_pos, read_pos, data, arg, elem, log>>
      BY <1>10, <1>a DEF ring_size, size_first, size_second, Goto, Return, ring, PC, TypeControl
    <2>2. \A t \in Producers \cup Consumers : t # o
      BY RingAssumption
    <2>3. /\ \A p \in Producers : pc'[p] = pc[p]
          /\ \A c \in Consumers : ridx'[c] = ridx[c] /\ pc'[c] = pc[c]
      BY <1>a, <2>1, <2>2 DEF TypeControl, Threads
    <2>4. ElementsInSlots'
      BY <1>a, <2>1, SlotsFrame
    <2>5. \A p \in Producers : HalfPushed(p)'
      BY <1>b, <2>1, <2>3, PushFrame
    <2>6. \A c \in Consumers : HalfPopped(c)'
      BY <1>c, <2>1, <2>3, PopFrame
    <2>7. QED
      BY <1>a, <2>1, <2>4, <2>5, <2>6 DEF ContentInv
  <1>12. CASE UNCHANGED vars
    <2>1. ElementsInSlots'
      BY <1>a, <1>12, SlotsFrame DEF vars
    <2>2. \A p \in Producers : HalfPushed(p)'
      BY <1>b, <1>12, PushFrame DEF vars
    <2>3. \A c \in Consumers : HalfPopped(c)'
      BY <1>c, <1>12, PopFrame DEF vars
    <2>4. QED
      BY <1>a, <1>12, <2>1, <2>2, <2>3 DEF vars, ContentInv
  <1>13. QED
    BY <1>1, <1>2, <1>3, <1>4, <1>5, <1>6, <1>7, <1>8, <1>9, <1>10, <1>12, Zenon
    DEF Next, ring_push, ring_pop

LEMMA SingleProducerInv ==
  ASSUME ~MultiProducer
  PROVE  Spec /\ []NoABA => [](ControlInv /\ RoomInv /\ ContentInv)
  <1>1. TypeOK /\ ControlInv /\ RoomInv /\ NoABA /\ [Next]_vars => RoomInv'
    BY RoomStep DEF TypeOK
  <1>2. TypeOK /\ ControlInv /\ RoomInv /\ ContentInv /\ NoABA /\ [Next]_vars => ContentInv'
    BY ContentStep
  <1>3. QED
    BY <1>1, <1>2, RoomInit, ContentInit, ControlCorrect, TypeCorrect, PTL DEF Spec

\* sp_sc and sp_mc rings of every size: the full test keeps one slot free, although the
\* ridx it uses may be stale.
THEOREM CapacityKept ==
  ASSUME ~MultiProducer
  PROVE  Spec /\ []NoABA => []WithinCapacity
  <1>1. RoomInv => WithinCapacity
    BY DEF RoomInv
  <1>2. QED
    BY <1>1, SingleProducerInv, PTL

\* sp_sc and sp_mc rings of every size, any number of consumers: what ring_pop returns
\* is what was pushed under that position, in one piece.
THEOREM OrderKept ==
  ASSUME ~MultiProducer
  PROVE  Spec /\ []NoABA => []PopsInOrder
  <1>1. ContentInv => PopsInOrder
    BY DEF ContentInv, HalfPopped, PopsInOrder, Halves
  <1>2. QED
    BY <1>1, SingleProducerInv, PTL

\* A ring with one producer and one consumer compares no cursor for a swap: nothing to
\* assume about how long a thread sleeps.
LEMMA NothingToWrap ==
  ASSUME type = RING_SP_SC
  PROVE  Spec => []NoABA
  <1>1. ~MultiProducer /\ ~MultiConsumer
    BY DEF MultiProducer, MultiConsumer, RING_SP_SC, RING_SP_MC, RING_MP_SC, RING_MP_MC
  <1>2. ControlInv => NoABA
    BY <1>1 DEF ControlInv, PusherInv, NoABA
  <1>3. TypeControl /\ ControlInv /\ NoABA /\ [Next]_vars => ControlInv'
    BY ClaimsStep, CursorStep, PusherStep, PopperStep DEF ControlInv
  <1>4. TypeOK => TypeControl
    BY DEF TypeOK
  <1>5. QED
    BY <1>2, <1>3, <1>4, ControlInit, TypeCorrect, PTL DEF Spec

\* A pop that returns -2 has just found the index of its ridx equal to that of the limit.
LEMMA LimitLoads ==
  ASSUME TypeControl, Next, NEW c \in Consumers, pc[c] = "pop_limit", pc'[c] = "idle"
  PROVE  ring_index(ridx[c]) = ring_index(Limit)
  <1>1. ASSUME NEW p \in Producers, ring_push(p) PROVE pc'[c] = pc[c]
    BY <1>1, RingAssumption
    DEF ring_push, push_load_ridx, push_load_widx, push_cas, push_copy, push_publish,
        Return, Goto, TypeControl, Threads
  <1>2. ASSUME NEW o \in Observers, ring_size(o) PROVE pc'[c] = pc[c]
    BY <1>2, RingAssumption
    DEF ring_size, size_first, size_second, Return, Goto, TypeControl, Threads
  <1>3. ASSUME NEW d \in Consumers, ring_pop(d) PROVE d = c
    BY <1>3 DEF ring_pop, pop_load_ridx, pop_load_limit, pop_copy, pop_take, Return,
        Goto, TypeControl, Threads
  <1>4. ring_pop(c)
    BY <1>1, <1>2, <1>3, SMTT(20) DEF Next
  <1>5. pop_load_limit(c)
    BY <1>4 DEF ring_pop, pop_load_ridx, pop_copy, pop_take, Return, Goto
  <1>6. QED
    BY <1>5, SMTT(20) DEF pop_load_limit, Goto, TypeControl, Threads

\* sp_sc_ring_pop: -2 is returned only by an empty ring.
THEOREM EmptyReported ==
  ASSUME type = RING_SP_SC
  PROVE  Spec => EmptyIsReported
  <1>1. ~MultiProducer /\ ~MultiConsumer
    BY DEF MultiProducer, MultiConsumer, RING_SP_SC, RING_SP_MC, RING_MP_SC, RING_MP_MC
  <1> DEFINE A == \A c \in Consumers : pc[c] = "pop_limit" /\ pc'[c] = "idle" => read_pos = Limit
  <1>2. TypeControl /\ ControlInv /\ RoomInv /\ [Next]_vars => [A]_vars
    <2> SUFFICES ASSUME TypeControl, ControlInv, RoomInv, Next,
                        NEW c \in Consumers, pc[c] = "pop_limit", pc'[c] = "idle"
                 PROVE  read_pos = Limit
      OBVIOUS
    <2>2. ring_index(ridx[c]) = ring_index(Limit)
      BY LimitLoads
    <2>3. ridx[c] = read_pos /\ Limit = write_pos /\ read_pos <= write_pos
      BY <1>1 DEF ControlInv, PopperInv, CursorInv, Loaded, Limit
    <2>4. write_pos - read_pos < unit_num /\ write_pos \in Nat /\ read_pos \in Nat
      BY DEF RoomInv, WithinCapacity, TypeControl
    <2>5. QED
      BY <2>2, <2>3, <2>4, IndexDistinct
  <1>3. TypeOK => TypeControl
    BY DEF TypeOK
  <1>4. Spec => [](ControlInv /\ RoomInv /\ ContentInv)
    BY <1>1, NothingToWrap, SingleProducerInv, PTL
  <1>5. Spec => [][A]_vars
    BY <1>2, <1>3, <1>4, TypeCorrect, PTL DEF Spec
  <1>6. QED
    BY <1>5 DEF EmptyIsReported

(***************************************************************************)
(* A pop that finds the ring empty                                         *)
(***************************************************************************)

\* All four types: -2 is returned by an empty ring, or after a whole turn of pushes during
\* the one call of ring_pop.
THEOREM EmptyReportedOrLapped == Spec /\ []NoABA => EmptyOrLapped
  <1> DEFINE A == \A c \in Consumers :
                    pc[c] = "pop_limit" /\ pc'[c] = "idle" =>
                      read_pos = Limit \/ Limit - ridx[c] >= unit_num
  <1>1. TypeControl /\ ControlInv /\ [Next]_vars => [A]_vars
    <2> SUFFICES ASSUME TypeControl, ControlInv, Next,
                        NEW c \in Consumers, pc[c] = "pop_limit", pc'[c] = "idle"
                 PROVE  read_pos = Limit \/ Limit - ridx[c] >= unit_num
      OBVIOUS
    <2>1. ring_index(ridx[c]) = ring_index(Limit)
      BY LimitLoads
    <2>2. ridx[c] <= read_pos /\ read_pos <= Limit
      BY DEF ControlInv, PopperInv, CursorInv, Loaded
    <2>3. ridx[c] \in Nat /\ Limit \in Nat /\ read_pos \in Nat /\ unit_num \in Nat
      BY Params DEF TypeControl, Threads, Limit
    <2>4. ridx[c] < Limit /\ Limit - ridx[c] < unit_num => FALSE
      BY <2>1, <2>3, IndexDistinct
    <2>5. QED
      BY <2>2, <2>3, <2>4
  <1>2. TypeOK => TypeControl
    BY DEF TypeOK
  <1>3. Spec /\ []NoABA => [][A]_vars
    BY <1>1, <1>2, ControlCorrect, TypeCorrect, PTL DEF Spec
  <1>4. QED
    BY <1>3 DEF EmptyOrLapped

(***************************************************************************)
(* ring_size                                                               *)
(***************************************************************************)
LEMMA ObserverStep == TypeControl /\ ObserverInv /\ [Next]_vars => ObserverInv'
  <1> SUFFICES ASSUME TypeControl, ObserverInv
               PROVE  [Next]_vars => ObserverInv'
    OBVIOUS
  <1> USE DEF TypeControl, Goto, Return, Threads, ObserverInv, ring
  <1>1. ASSUME NEW p \in Producers, push_load_ridx(p) PROVE ObserverInv'
    BY <1>1, RingAssumption DEF push_load_ridx
  <1>2. ASSUME NEW p \in Producers, push_load_widx(p) PROVE ObserverInv'
    BY <1>2, RingAssumption DEF push_load_widx
  <1>3. ASSUME NEW p \in Producers, push_cas(p) PROVE ObserverInv'
    BY <1>3, RingAssumption DEF push_cas
  <1>4. ASSUME NEW p \in Producers, push_copy(p) PROVE ObserverInv'
    BY <1>4, RingAssumption DEF push_copy
  <1>5. ASSUME NEW p \in Producers, push_publish(p) PROVE ObserverInv'
    BY <1>5, RingAssumption DEF push_publish
  <1>6. ASSUME NEW c \in Consumers, pop_load_ridx(c) PROVE ObserverInv'
    BY <1>6, RingAssumption DEF pop_load_ridx
  <1>7. ASSUME NEW c \in Consumers, pop_load_limit(c) PROVE ObserverInv'
    BY <1>7, RingAssumption DEF pop_load_limit
  <1>8. ASSUME NEW c \in Consumers, pop_copy(c) PROVE ObserverInv'
    BY <1>8, RingAssumption DEF pop_copy
  <1>9. ASSUME NEW c \in Consumers, pop_take(c) PROVE ObserverInv'
    BY <1>9, RingAssumption DEF pop_take
  <1>10. ASSUME NEW o \in Observers, ring_size(o) PROVE ObserverInv'
    BY <1>10 DEF ring_size, size_first, size_second
  <1>11. CASE UNCHANGED vars
    BY <1>11 DEF vars
  <1> HIDE DEF TypeControl, Goto, Return, Threads, ObserverInv, ring
  <1>12. QED
    BY <1>1, <1>2, <1>3, <1>4, <1>5, <1>6, <1>7, <1>8, <1>9, <1>10, <1>11, Zenon
    DEF Next, ring_push, ring_pop

\* The call of a thread that is in ring_size returns only by its second load.
LEMMA SizeReturns ==
  ASSUME TypeControl, Next, NEW o \in Observers,
         pc[o] \in {"size_write_pos", "size_read_pos"}, pc'[o] = "idle"
  PROVE  size_second(o)
  <1>1. ASSUME NEW t \in Threads, t # o, ring_push(t) \/ ring_pop(t) \/ ring_size(t)
        PROVE  pc'[o] = pc[o]
    BY <1>1
    DEF TypeControl, Threads, Goto, Return, ring_push, push_load_ridx, push_load_widx, push_cas,
        push_copy, push_publish, ring_pop, pop_load_ridx, pop_load_limit, pop_copy, pop_take,
        ring_size, size_first, size_second
  <1>2. \A t \in Producers \cup Consumers : t # o
    BY RingAssumption
  <1>3. ~size_first(o)
    BY DEF size_first, Goto
  <1>4. QED
    BY <1>1, <1>2, <1>3 DEF Next, Threads, ring_size

\* A difference of two cursors, as u4 sees it.
LEMMA U4Differs ==
  ASSUME NEW a \in Nat, NEW b \in Nat
  PROVE  /\ b <= a => U4(a - b) <= a - b
         /\ b <= a /\ a - b < Wrap => U4(a - b) = a - b
         /\ a < b /\ b - a < Wrap => U4(a - b) = Wrap - (b - a)
  <1>1. Wrap \in Nat \ {0}
    BY Params
  <1>2. ASSUME b <= a PROVE U4(a - b) <= a - b
    <2> DEFINE k == (a - b) \div Wrap
               m == (a - b) % Wrap
    <2>1. k \in Nat /\ m \in 0 .. Wrap - 1 /\ a - b = k * Wrap + m
      BY <1>1, <1>2
    <2> HIDE DEF k, m
    <2>2. k * Wrap \in Nat
      BY <1>1, <2>1
    <2>3. QED
      BY <2>1, <2>2 DEF U4, m
  <1>3. ASSUME b <= a, a - b < Wrap PROVE U4(a - b) = a - b
    BY <1>1, <1>3 DEF U4
  <1>4. ASSUME a < b, b - a < Wrap PROVE U4(a - b) = Wrap - (b - a)
    BY <1>1, <1>4 DEF U4
  <1>5. QED
    BY <1>2, <1>3, <1>4

\* For all four types and any number of threads: where ring_size loads read_pos first, what
\* it returns is not too low for the moment of its return; where it loads write_pos first,
\* not too high, unless read_pos has passed that write_pos, which shows: it is more than the
\* ring can hold. The number of pushes in all is not bounded.
THEOREM SizeErrs == Spec /\ []NoLap => SizeErrsOneWay
  <1> DEFINE n == write_pos - read_pos
             A == \A o \in Observers :
                    /\ pc[o] = "size_write_pos" /\ pc'[o] = "idle" => ret'[o] >= n
                    /\ pc[o] = "size_read_pos" /\ pc'[o] = "idle" =>
                         ret'[o] <= n \/ (read_pos > widx[o] /\ ret'[o] > unit_num)
  <1>1. TypeOK /\ ObserverInv /\ NoLap /\ [Next]_vars => [A]_vars
    <2> SUFFICES ASSUME TypeOK, ObserverInv, NoLap, Next,
                        NEW o \in Observers, pc'[o] = "idle",
                        pc[o] \in {"size_write_pos", "size_read_pos"}
                 PROVE  IF pc[o] = "size_write_pos" THEN ret'[o] >= n
                        ELSE ret'[o] <= n \/ (read_pos > widx[o] /\ ret'[o] > unit_num)
      BY SMTT(20)
    <2>1. size_second(o)
      BY SizeReturns DEF TypeOK
    <2>2. /\ write_pos \in Nat /\ read_pos \in Nat /\ ridx[o] \in Nat /\ widx[o] \in Nat
          /\ o \in DOMAIN ret /\ unit_num \in Nat /\ Wrap \in Nat
      BY RingAssumption DEF TypeOK, TypeControl, TypeData, Threads
    <2>3. CASE pc[o] = "size_write_pos"
      <3>1. ret'[o] = U4(write_pos - ridx[o])
        <4>1. Return(o, "size_write_pos", U4(write_pos - ridx[o]))
          BY <2>1, <2>3 DEF size_second, Return, Goto
        <4>2. QED
          BY <2>2, <4>1, Zenon DEF Return
      <3>2. ridx[o] <= read_pos /\ write_pos - ridx[o] < Wrap
        BY <2>3 DEF ObserverInv, NoLap
      <3>3. CASE ridx[o] <= write_pos
        <4>1. U4(write_pos - ridx[o]) = write_pos - ridx[o]
          BY <2>2, <3>2, <3>3, U4Differs, Zenon
        <4>2. QED
          BY <2>2, <2>3, <3>1, <3>2, <4>1
      <3>4. CASE write_pos < ridx[o]
        <4>1. U4(write_pos - ridx[o]) \in Nat
          BY <2>2, IndexInRange
        <4>2. QED
          BY <2>2, <2>3, <3>1, <3>2, <3>4, <4>1
      <3>5. QED
        BY <2>2, <3>3, <3>4
    <2>4. CASE pc[o] = "size_read_pos"
      <3>1. ret'[o] = U4(widx[o] - read_pos)
        <4>1. Return(o, "size_read_pos", U4(widx[o] - read_pos))
          BY <2>1, <2>4 DEF size_second, Return, Goto
        <4>2. QED
          BY <2>2, <4>1, Zenon DEF Return
      <3>2. widx[o] <= write_pos /\ read_pos - widx[o] < Wrap - unit_num
        BY <2>4 DEF ObserverInv, NoLap
      <3>3. CASE read_pos <= widx[o]
        <4>1. U4(widx[o] - read_pos) <= widx[o] - read_pos /\ U4(widx[o] - read_pos) \in Nat
          <5>1. U4(widx[o] - read_pos) <= widx[o] - read_pos
            BY <2>2, <3>3, U4Differs, Zenon
          <5>2. QED
            BY <2>2, <5>1, IndexInRange
        <4>2. QED
          BY <2>2, <2>4, <3>1, <3>2, <4>1
      <3>4. CASE widx[o] < read_pos
        <4>1. read_pos - widx[o] < Wrap
          BY <2>2, <3>2
        <4>2. U4(widx[o] - read_pos) = Wrap - (read_pos - widx[o])
          BY <2>2, <3>4, <4>1, U4Differs, Zenon
        <4>3. QED
          BY <2>2, <2>4, <3>1, <3>2, <3>4, <4>2
      <3>5. QED
        BY <2>2, <3>3, <3>4
    <2>5. QED
      BY <2>3, <2>4
  <1>2. Init => ObserverInv
    BY DEF Init, ObserverInv, Threads
  <1>3. TypeOK => TypeControl
    BY DEF TypeOK
  <1>4. Spec /\ []NoLap => [][A]_vars
    BY <1>1, <1>2, <1>3, ObserverStep, TypeCorrect, PTL DEF Spec
  <1>5. QED
    BY <1>4 DEF SizeErrsOneWay

(***************************************************************************)
(* The ring of one producer implements a bounded FIFO                      *)
(***************************************************************************)

\* The elements in the ring and the results of the consumers, as the refinement sees them.
Content == [k \in 1 .. Limit - read_pos |-> Slot(read_pos + k - 1)]
Results == [c \in Consumers |-> IF pc[c] = "idle" /\ ret[c] = 0 THEN Element(c) ELSE Junk]

\* They are the part of the log between the cursors.
ContentIsLogged == /\ Content \in Seq(Values \cup {Junk})
                   /\ Len(Content) = write_pos - read_pos
                   /\ \A k \in 1 .. write_pos - read_pos : Content[k] = log[read_pos + k]

LEMMA SeqOf ==
  ASSUME NEW S, NEW n \in Nat, NEW s \in [1 .. n -> S]
  PROVE  s \in Seq(S) /\ Len(s) = n
  OBVIOUS

LEMMA SameSeq ==
  ASSUME NEW S, NEW s \in Seq(S), NEW t \in Seq(S), Len(s) = Len(t),
         \A i \in 1 .. Len(s) : s[i] = t[i]
  PROVE  s = t
  OBVIOUS

LEMMA Appended ==
  ASSUME NEW S, NEW s \in Seq(S), NEW x \in S
  PROVE  /\ Append(s, x) \in Seq(S) /\ Len(Append(s, x)) = Len(s) + 1
         /\ \A i \in 1 .. Len(s) : Append(s, x)[i] = s[i]
         /\ Append(s, x)[Len(s) + 1] = x
  OBVIOUS

LEMMA Tailed ==
  ASSUME NEW S, NEW s \in Seq(S), Len(s) > 0
  PROVE  /\ s # << >> /\ Head(s) = s[1]
         /\ Tail(s) \in Seq(S) /\ Len(Tail(s)) = Len(s) - 1
         /\ \A i \in 1 .. Len(s) - 1 : Tail(s)[i] = s[i + 1]
  OBVIOUS

LEMMA ContentLogged ==
  ASSUME ~MultiProducer
  PROVE  TypeOK /\ ControlInv /\ ContentInv => ContentIsLogged
  <1> SUFFICES ASSUME TypeOK, ControlInv, ContentInv PROVE ContentIsLogged
    OBVIOUS
  <1> DEFINE n == write_pos - read_pos
  <1>1. Limit = write_pos /\ read_pos \in Nat /\ write_pos \in Nat /\ n \in Nat
    BY DEF Limit, TypeOK, TypeControl, ControlInv, CursorInv
  <1>2. ASSUME NEW k \in 1 .. n
        PROVE  Slot(read_pos + k - 1) = log[read_pos + k] /\ log[read_pos + k] \in Values \cup {Junk}
    <2>1. read_pos + k - 1 \in read_pos .. write_pos - 1 /\ read_pos + k \in 1 .. write_pos
          /\ (read_pos + k - 1) + 1 = read_pos + k
      BY <1>1
    <2>2. \A h \in Halves : data[ring_index(read_pos + k - 1)][h] = log[read_pos + k]
      BY <2>1 DEF ContentInv, ElementsInSlots
    <2>3. log[read_pos + k] \in Values \cup {Junk}
      BY <2>1 DEF ContentInv, TypeOK, TypeData
    <2>4. QED
      BY <2>2, <2>3 DEF Slot, Halves
  <1>3. Content = [k \in 1 .. n |-> Slot(read_pos + k - 1)]
    BY <1>1 DEF Content
  <1> HIDE DEF n
  <1>4. Content \in [1 .. n -> Values \cup {Junk}] /\ \A k \in 1 .. n : Content[k] = log[read_pos + k]
    BY <1>2, <1>3
  <1>5. Content \in Seq(Values \cup {Junk}) /\ Len(Content) = n
    BY <1>1, <1>4, SeqOf
  <1>6. QED
    BY <1>4, <1>5 DEF ContentIsLogged, n

\* The element of a push is one of the caller's.
ArgsGiven == \A p \in Producers : pc[p] # "idle" => arg[p] \in Values

LEMMA ArgsStep == TypeControl /\ TypeData /\ ArgsGiven /\ [Next]_vars => ArgsGiven'
  <1> SUFFICES ASSUME TypeControl, TypeData, ArgsGiven PROVE [Next]_vars => ArgsGiven'
    OBVIOUS
  <1> USE DEF TypeControl, TypeData, ArgsGiven, Goto, Return, Threads
  <1>1. ASSUME NEW p \in Producers, ring_push(p) PROVE ArgsGiven'
    <2>1. CASE push_load_ridx(p)
      BY <2>1 DEF push_load_ridx
    <2>2. CASE push_load_widx(p) \/ push_cas(p) \/ push_copy(p) \/ push_publish(p)
      BY <2>2 DEF push_load_widx, push_cas, push_copy, push_publish
    <2>3. QED
      BY <1>1, <2>1, <2>2 DEF ring_push
  <1>2. ASSUME NEW c \in Consumers, ring_pop(c) PROVE ArgsGiven'
    <2>1. \A p \in Producers : p # c
      BY RingAssumption
    <2>2. QED
      BY <1>2, <2>1 DEF ring_pop, pop_load_ridx, pop_load_limit, pop_copy, pop_take
  <1>3. ASSUME NEW o \in Observers, ring_size(o) PROVE ArgsGiven'
    <2>1. \A p \in Producers : p # o
      BY RingAssumption
    <2>2. QED
      BY <1>3, <2>1 DEF ring_size, size_first, size_second
  <1>4. CASE UNCHANGED vars
    BY <1>4 DEF vars
  <1>5. QED
    BY <1>1, <1>2, <1>3, <1>4 DEF Next

LEMMA FifoInit ==
  ASSUME ~MultiProducer
  PROVE  Init => Fifo!Init
  <1> SUFFICES ASSUME Init PROVE Content = << >> /\ Results = [c \in Consumers |-> Junk]
    BY DEF Fifo!Init, Content, Results
  <1>1. Len(Content) = 0 /\ Content \in Seq(Values \cup {Junk})
    BY ContentLogged, TypeInit, ControlInit, ContentInit DEF ContentIsLogged, Init
  <1>2. Content = << >>
    BY <1>1
  <1>3. \A c \in Consumers : Element(c) = Junk
    BY DEF Init, Element, Halves
  <1>4. QED
    BY <1>2, <1>3 DEF Results

LEMMA FifoStutters ==
  ASSUME UNCHANGED Content, UNCHANGED Results
  PROVE  [Fifo!Next]_(Fifo!vars)
  BY DEF Content, Results, Fifo!vars

\* A result changes with its own consumer only.
LEMMA ResultsFrame ==
  ASSUME \A c \in Consumers : pc'[c] = pc[c] /\ ret'[c] = ret[c] /\ elem'[c] = elem[c]
  PROVE  Results' = Results
  BY DEF Results, Element

\* As long as the cursors and the log stay, so do the elements of the ring.
LEMMA ContentFrame ==
  ASSUME TypeControl, ControlInv, ~MultiProducer, ContentIsLogged, ContentIsLogged',
         UNCHANGED <<write_pos, read_pos, log>>
  PROVE  Content' = Content
  BY SameSeq DEF ContentIsLogged

LEMMA FifoStep ==
  ASSUME ~MultiProducer, TypeOK, ControlInv, RoomInv, ContentInv, NoABA, ArgsGiven,
         ContentIsLogged, ContentIsLogged', [Next]_vars
  PROVE  [Fifo!Next]_(Fifo!vars)
  <1>a. TypeControl /\ TypeData /\ Len(log) = write_pos
    BY DEF TypeOK, ContentInv
  <1>b. write_pos \in Nat /\ read_pos \in Nat /\ read_pos <= write_pos
    BY <1>a DEF TypeControl, ControlInv, CursorInv, Limit
  <1>c. \A t \in Producers, c \in Consumers : t # c
    BY RingAssumption
  <1>d. ASSUME UNCHANGED <<write_pos, read_pos, log>>,
               \A c \in Consumers : pc'[c] = pc[c] /\ ret'[c] = ret[c] /\ elem'[c] = elem[c]
        PROVE  [Fifo!Next]_(Fifo!vars)
    BY <1>a, <1>d, ContentFrame, ResultsFrame, FifoStutters
  <1>e. ASSUME NEW p \in Producers, NEW l, pc' = [pc EXCEPT ![p] = l],
               ret' = ret \/ \E n : ret' = [ret EXCEPT ![p] = n], elem' = elem
        PROVE  \A c \in Consumers : pc'[c] = pc[c] /\ ret'[c] = ret[c] /\ elem'[c] = elem[c]
    BY <1>a, <1>c, <1>e DEF TypeControl, TypeData, Threads
  <1>1. ASSUME NEW p \in Producers, push_load_ridx(p) PROVE [Fifo!Next]_(Fifo!vars)
    BY <1>1, <1>d, <1>e DEF push_load_ridx, Goto, ring
  <1>2. ASSUME NEW p \in Producers, push_load_widx(p) PROVE [Fifo!Next]_(Fifo!vars)
    BY <1>2, <1>d, <1>e DEF push_load_widx, Goto, Return, ring
  <1>3. ASSUME NEW p \in Producers, push_cas(p) PROVE FALSE
    BY <1>3 DEF push_cas, Goto, ControlInv, PusherInv
  <1>4. ASSUME NEW p \in Producers, push_copy(p) PROVE [Fifo!Next]_(Fifo!vars)
    BY <1>4, <1>d, <1>e DEF push_copy, Goto
  <1>5. ASSUME NEW p \in Producers, push_publish(p) PROVE [Fifo!Next]_(Fifo!vars)
    <2> DEFINE n == write_pos - read_pos
    <2>1. /\ write_pos' = write_pos + 1 /\ log' = Append(log, arg[p])
          /\ UNCHANGED <<read_pos, elem>>
          /\ pc[p] = "push_publish" /\ pc' = [pc EXCEPT ![p] = "idle"]
          /\ ret' = [ret EXCEPT ![p] = 0]
      BY <1>5 DEF push_publish, Return, Goto
    <2>2. arg[p] \in Values /\ log \in Seq(Values \cup {Junk})
      BY <1>a, <2>1 DEF ArgsGiven, TypeData
    <2>3. n \in Nat /\ n < unit_num - 1
      BY <1>b, <2>1, Params DEF RoomInv, Copying
    <2>4. /\ log'[write_pos + 1] = arg[p]
          /\ \A k \in 1 .. write_pos : log'[k] = log[k]
      BY <1>a, <1>b, <2>1, <2>2
    <2>5. /\ Content \in Seq(Values \cup {Junk}) /\ Len(Content) = n
          /\ \A k \in 1 .. n : Content[k] = log[read_pos + k]
      BY DEF ContentIsLogged
    <2>6. write_pos' - read_pos' = n + 1
      BY <1>b, <2>1
    <2>7. /\ Content' \in Seq(Values \cup {Junk}) /\ Len(Content') = n + 1
          /\ \A k \in 1 .. n + 1 : Content'[k] = log'[read_pos + k]
      BY <2>1, <2>6, Zenon DEF ContentIsLogged
    <2>8. ASSUME NEW k \in 1 .. n + 1 PROVE Content'[k] = IF k = n + 1 THEN arg[p] ELSE Content[k]
      <3>1. CASE k = n + 1
        BY <1>b, <2>4, <2>7, <3>1
      <3>2. CASE k # n + 1
        <4>1. k \in 1 .. n /\ read_pos + k \in 1 .. write_pos
          BY <1>b, <2>3, <3>2
        <4>2. QED
          BY <2>4, <2>5, <2>7, <3>2, <4>1
      <3>3. QED
        BY <3>1, <3>2
    <2> HIDE DEF n
    <2>9. /\ Append(Content, arg[p]) \in Seq(Values \cup {Junk})
          /\ Len(Append(Content, arg[p])) = n + 1
          /\ \A k \in 1 .. n : Append(Content, arg[p])[k] = Content[k]
          /\ Append(Content, arg[p])[n + 1] = arg[p]
      BY <2>2, <2>5, Appended
    <2>10. Content' = Append(Content, arg[p])
      <3>1. \A k \in 1 .. n + 1 : Content'[k] = Append(Content, arg[p])[k]
        BY <2>3, <2>8, <2>9
      <3>2. QED
        BY <2>7, <2>9, <3>1, SameSeq
    <2>11. Results' = Results
      BY <1>e, <2>1, ResultsFrame, Zenon
    <2>12. Len(Content) < unit_num - 1
      BY <2>3, <2>5
    <2>13. Fifo!Push(arg[p])
      BY <2>10, <2>11, <2>12, Zenon DEF Fifo!Push, Content, Results
    <2>14. QED
      BY <2>2, <2>13 DEF Fifo!Next
  <1>6. ASSUME NEW c \in Consumers, pop_load_ridx(c) PROVE [Fifo!Next]_(Fifo!vars)
    <2>1. /\ pc' = [pc EXCEPT ![c] = "pop_limit"]
          /\ UNCHANGED <<write_pos, read_pos, log, elem, ret>>
      BY <1>6 DEF pop_load_ridx, Goto, ring
    <2>2. Content' = Content
      BY <1>a, <2>1, ContentFrame
    <2>3. /\ pc'[c] = "pop_limit"
          /\ \A d \in Consumers : d # c => pc'[d] = pc[d]
      BY <1>a, <2>1 DEF TypeControl, Threads
    <2>4. Results' = [Results EXCEPT ![c] = Junk]
      BY <2>1, <2>3, Zenon DEF Results, Element
    <2>5. Fifo!Call(c)
      BY <2>2, <2>4 DEF Fifo!Call, Content, Results
    <2>6. QED
      BY <2>5 DEF Fifo!Next
  <1>7. ASSUME NEW c \in Consumers, pop_load_limit(c) PROVE [Fifo!Next]_(Fifo!vars)
    <2>1. /\ pc[c] = "pop_limit"
          /\ \/ pc' = [pc EXCEPT ![c] = "idle"] /\ ret' = [ret EXCEPT ![c] = -2]
             \/ pc' = [pc EXCEPT ![c] = "pop_copy1"] /\ ret' = ret
          /\ UNCHANGED <<write_pos, read_pos, log, elem>>
      BY <1>7 DEF pop_load_limit, Goto, Return, ring
    <2>2. Content' = Content
      BY <1>a, <2>1, ContentFrame
    <2>3. /\ \A d \in Consumers : d # c => pc'[d] = pc[d] /\ ret'[d] = ret[d]
          /\ ~(pc'[c] = "idle" /\ ret'[c] = 0)
      BY <1>a, <2>1 DEF TypeControl, TypeData, Threads
    <2>4. Results' = Results
      BY <2>1, <2>3 DEF Results, Element
    <2>5. QED
      BY <2>2, <2>4, FifoStutters
  <1>8. ASSUME NEW c \in Consumers, pop_copy(c) PROVE [Fifo!Next]_(Fifo!vars)
    <2>1. /\ pc[c] \in {"pop_copy1", "pop_copy2"}
          /\ pc' = [pc EXCEPT ![c] = "pop_copy2"] \/ pc' = [pc EXCEPT ![c] = "pop_take"]
          /\ CopyOut(c, 1) \/ CopyOut(c, 2)
          /\ UNCHANGED <<write_pos, read_pos, log, ret>>
      BY <1>8 DEF pop_copy, Goto, ring
    <2>2. Content' = Content
      BY <1>a, <2>1, ContentFrame
    <2>3. \A d \in Consumers : d # c => elem'[d] = elem[d]
      BY <1>a, <2>1 DEF TypeData, CopyOut
    <2>4. /\ \A d \in Consumers : d # c => pc'[d] = pc[d]
          /\ pc'[c] # "idle"
      BY <1>a, <2>1 DEF TypeControl, Threads
    <2>5. Results' = Results
      BY <2>1, <2>3, <2>4 DEF Results, Element
    <2>6. QED
      BY <2>2, <2>5, FifoStutters
  <1>9. ASSUME NEW c \in Consumers, pop_take(c) PROVE [Fifo!Next]_(Fifo!vars)
    <2>1. CASE MultiConsumer /\ U4(read_pos) # U4(ridx[c])
      <3>1. /\ pc[c] = "pop_take" /\ pc' = [pc EXCEPT ![c] = "pop_ridx"]
            /\ UNCHANGED <<write_pos, read_pos, log, elem, ret>>
        BY <1>9, <2>1 DEF pop_take, Goto
      <3>2. Content' = Content
        BY <1>a, <3>1, ContentFrame
      <3>3. Results' = Results
        BY <1>a, <3>1 DEF Results, Element, TypeControl, Threads
      <3>4. QED
        BY <3>2, <3>3, FifoStutters
    <2>2. CASE MultiConsumer => U4(read_pos) = U4(ridx[c])
      <3> DEFINE n == write_pos - read_pos
      <3>1. /\ pc[c] = "pop_take" /\ pc' = [pc EXCEPT ![c] = "idle"]
            /\ ret' = [ret EXCEPT ![c] = 0] /\ read_pos' = read_pos + 1
            /\ UNCHANGED <<write_pos, log, elem>>
        BY <1>9, <2>2 DEF pop_take, Goto, Return
      <3>2. ridx[c] = read_pos
        <4>1. ridx[c] \in Nat /\ ridx[c] <= read_pos
          BY <1>a, <3>1 DEF TypeControl, Threads, ControlInv, PopperInv, Loaded
        <4>2. CASE MultiConsumer
          <5>1. read_pos - ridx[c] < Wrap
            BY <3>1, <4>2 DEF NoABA
          <5>2. QED
            BY <1>b, <2>2, <4>1, <4>2, <5>1, U4Distinct
        <4>3. CASE ~MultiConsumer
          BY <3>1, <4>3 DEF ControlInv, PopperInv, Loaded
        <4>4. QED
          BY <4>2, <4>3
      <3>3. read_pos < write_pos
        BY <3>1, <3>2 DEF ControlInv, PopperInv, Taking, Limit
      <3>4. /\ Content \in Seq(Values \cup {Junk}) /\ Len(Content) = n /\ n \in Nat \ {0}
            /\ \A k \in 1 .. n : Content[k] = log[read_pos + k]
        BY <1>b, <3>3 DEF ContentIsLogged
      <3>5. write_pos' - read_pos' = n - 1
        BY <1>b, <3>1
      <3>6. /\ Content' \in Seq(Values \cup {Junk}) /\ Len(Content') = n - 1
            /\ \A k \in 1 .. n - 1 : Content'[k] = log[(read_pos + 1) + k]
        BY <3>1, <3>5 DEF ContentIsLogged
      <3> HIDE DEF n
      <3>7. Content # << >> /\ Head(Content) = log[read_pos + 1]
        BY <3>4, Tailed
      <3>8. /\ Tail(Content) \in Seq(Values \cup {Junk}) /\ Len(Tail(Content)) = n - 1
            /\ \A k \in 1 .. n - 1 : Tail(Content)[k] = Content[k + 1]
        BY <3>4, Tailed
      <3>9. Content' = Tail(Content)
        <4>1. ASSUME NEW k \in 1 .. n - 1 PROVE Content'[k] = Tail(Content)[k]
          <5>1. k + 1 \in 1 .. n /\ read_pos + (k + 1) = (read_pos + 1) + k
            BY <1>b, <3>4
          <5>2. QED
            BY <3>4, <3>6, <3>8, <5>1
        <4>2. QED
          BY <3>6, <3>8, <4>1, SameSeq
      <3>10. Element(c) = log[read_pos + 1]
        BY <3>1, <3>2 DEF ContentInv, HalfPopped, Element
      <3>11. /\ pc'[c] = "idle" /\ ret'[c] = 0
             /\ \A d \in Consumers : d # c => pc'[d] = pc[d] /\ ret'[d] = ret[d]
        BY <1>a, <3>1 DEF TypeControl, TypeData, Threads
      <3>12. Results[c] = Junk /\ Results' = [Results EXCEPT ![c] = Head(Content)]
        BY <3>1, <3>7, <3>10, <3>11, Zenon DEF Results, Element
      <3>13. Fifo!Pop(c)
        BY <3>7, <3>9, <3>12, Zenon DEF Fifo!Pop, Content, Results
      <3>14. QED
        BY <3>13 DEF Fifo!Next
    <2>3. QED
      BY <2>1, <2>2
  <1>10. ASSUME NEW o \in Observers, ring_size(o) PROVE [Fifo!Next]_(Fifo!vars)
    <2>1. /\ UNCHANGED <<write_pos, read_pos, log, elem>>
          /\ \E l : pc' = [pc EXCEPT ![o] = l]
          /\ ret' = ret \/ \E n : ret' = [ret EXCEPT ![o] = n]
      BY <1>10 DEF ring_size, size_first, size_second, Goto, Return, ring
    <2>2. \A c \in Consumers : c # o
      BY RingAssumption
    <2>3. \A c \in Consumers : pc'[c] = pc[c] /\ ret'[c] = ret[c]
      BY <1>a, <2>1, <2>2 DEF TypeControl, TypeData, Threads
    <2>4. QED
      BY <1>d, <2>1, <2>3
  <1>11. CASE UNCHANGED vars
    BY <1>11, <1>d DEF vars
  <1>12. QED
    BY <1>1, <1>2, <1>3, <1>4, <1>5, <1>6, <1>7, <1>8, <1>9, <1>10, <1>11, Zenon
    DEF Next, ring_push, ring_pop

\* sp_sc and sp_mc rings of every size, any number of consumers: the steps of a push and of
\* a pop, however they interleave, are one push or one pop of a FIFO of unit_num - 1
\* elements that takes place at once.
THEOREM RingIsFifo ==
  ASSUME ~MultiProducer
  PROVE  Spec /\ []NoABA => ImplementsFifo
  <1>1. Init => ArgsGiven
    BY DEF Init, ArgsGiven, Threads
  <1>2. TypeOK /\ ArgsGiven /\ [Next]_vars => ArgsGiven'
    BY ArgsStep DEF TypeOK
  <1>3. Init => Fifo!Init
    BY FifoInit
  <1>4. TypeOK /\ ControlInv /\ RoomInv /\ ContentInv /\ NoABA /\ ArgsGiven
        /\ ContentIsLogged /\ ContentIsLogged' /\ [Next]_vars
          => [Fifo!Next]_(Fifo!vars)
    BY FifoStep
  <1>5. TypeOK /\ ControlInv /\ ContentInv => ContentIsLogged
    BY ContentLogged
  <1>6. QED
    BY <1>1, <1>2, <1>3, <1>4, <1>5, SingleProducerInv, TypeCorrect, PTL
    DEF Spec, ImplementsFifo, Fifo!Spec

(***************************************************************************)
(* The counted ring of ring2                                               *)
(***************************************************************************)

\* The counter of ring2 changes nothing of the ring: what is proved of LiskRing holds of it.
THEOREM CountedIsRing == CSpec => Spec
  <1>1. CInit => Init
    BY DEF CInit
  <1>2. [ring2_next]_cvars => [Next]_vars
    BY DEF ring2_next, push_step, pop_step, count, cvars, Next
  <1>3. QED
    BY <1>1, <1>2, PTL DEF CSpec, Spec

\* An addition to a u4 is an addition to the number it stands for.
LEMMA U4Add ==
  ASSUME NEW n \in Int, NEW d \in Int
  PROVE  U4(U4(n) + d) = U4(n + d)
  <1> DEFINE k == n \div Wrap
             r == n % Wrap
             j == (r + d) \div Wrap
             s == (r + d) % Wrap
             q == k + j
             m == n + d
  <1>1. k \in Int /\ r \in Int /\ n = k * Wrap + r
    BY Params
  <1> HIDE DEF k, r
  <1>2. j \in Int /\ s \in 0 .. Wrap - 1 /\ r + d = j * Wrap + s
    BY <1>1, Params
  <1> HIDE DEF j, s
  <1>3. (k + j) * Wrap = k * Wrap + j * Wrap
    BY <1>1, <1>2, Params
  <1>4. q \in Int /\ m \in Int /\ m = q * Wrap + s
    BY <1>1, <1>2, <1>3, Params
  <1> HIDE DEF q, m
  <1>5. m % Wrap = s
    BY <1>2, <1>4, Params
  <1>6. QED
    BY <1>5 DEF U4, m, s, r

LEMMA CountersFinite ==
  ASSUME IsFiniteSet(Threads)
  PROVE  /\ IsFiniteSet(Adding) /\ Cardinality(Adding) \in Nat
         /\ IsFiniteSet(Subtracting) /\ Cardinality(Subtracting) \in Nat
  BY FS_Subset, FS_CardinalityType DEF Adding, Subtracting

LEMMA CountInOut ==
  ASSUME NEW S, NEW x, IsFiniteSet(S)
  PROVE  /\ Cardinality(S) \in Nat
         /\ x \notin S => Cardinality(S \cup {x}) = Cardinality(S) + 1
         /\ x \in S => Cardinality(S \ {x}) = Cardinality(S) - 1
  BY FS_CardinalityType, FS_AddElement, FS_RemoveElement, Zenon

TodoTyped == todo \in [Threads -> {"nothing", "add", "sub"}]

LEMMA TodoStep == TodoTyped /\ [ring2_next]_cvars => TodoTyped'
  BY DEF TodoTyped, ring2_next, push_step, pop_step, count, cvars, Threads

\* The compare-and-swap on write_pos is code of the multi-producer types.
CasIsMulti == \A p \in Producers : pc[p] = "push_cas" => MultiProducer

LEMMA CasStep == TypeControl /\ CasIsMulti /\ [Next]_vars => CasIsMulti'
  <1> SUFFICES ASSUME TypeControl, CasIsMulti, [Next]_vars PROVE CasIsMulti'
    OBVIOUS
  <1>1. CASE UNCHANGED vars
    BY <1>1 DEF vars, CasIsMulti
  <1>2. CASE \E p \in Producers : push_load_widx(p)
    BY <1>2 DEF CasIsMulti, push_load_widx, Goto, Return, TypeControl, Threads
  <1>3. CASE Next /\ ~\E p \in Producers : push_load_widx(p)
    <2>1. \E t \in Threads, l \in PC \ {"push_cas"} : pc' = [pc EXCEPT ![t] = l]
      <3> DEFINE Moves == \E t \in Threads, l \in PC \ {"push_cas"} : pc' = [pc EXCEPT ![t] = l]
      <3>1. ASSUME NEW p \in Producers, ring_push(p), ~push_load_widx(p) PROVE Moves
        BY <3>1 DEF ring_push, push_load_ridx, push_cas, push_copy, push_publish, Goto, Return,
                    Threads, PC
      <3>2. ASSUME NEW c \in Consumers, ring_pop(c) PROVE Moves
        BY <3>2 DEF ring_pop, pop_load_ridx, pop_load_limit, pop_copy, pop_take, Goto, Return,
                    Threads, PC
      <3>3. ASSUME NEW o \in Observers, ring_size(o) PROVE Moves
        BY <3>3 DEF ring_size, size_first, size_second, Goto, Return, Threads, PC
      <3> HIDE DEF Moves
      <3>4. Moves
        BY <1>3, <3>1, <3>2, <3>3, Zenon DEF Next
      <3>5. QED
        BY <3>4, Zenon DEF Moves
    <2>2. QED
      BY <2>1 DEF CasIsMulti, TypeControl, Threads
  <1>4. QED
    BY <1>1, <1>2, <1>3

\* A push moves the limit on when it publishes, and only then.
LEMMA PushMoves ==
  ASSUME TypeControl, CasIsMulti, NEW p \in Producers, ring_push(p)
  PROVE  /\ read_pos' = read_pos
         /\ Limit' = IF pc[p] = "push_publish" THEN Limit + 1 ELSE Limit
  <1> USE DEF TypeControl, Limit, Goto, Return, ring
  <1>1. CASE push_load_ridx(p)
    BY <1>1 DEF push_load_ridx
  <1>2. CASE push_load_widx(p)
    BY <1>2 DEF push_load_widx
  <1>3. CASE push_cas(p)
    BY <1>3, Zenon DEF push_cas, CasIsMulti
  <1>4. CASE push_copy(p)
    BY <1>4 DEF push_copy
  <1>5. CASE push_publish(p)
    BY <1>5 DEF push_publish
  <1>6. QED
    BY <1>1, <1>2, <1>3, <1>4, <1>5 DEF ring_push

\* A pop moves read_pos on when it returns an element, and only then.
LEMMA PopMoves ==
  ASSUME TypeControl, NEW c \in Consumers, ring_pop(c)
  PROVE  /\ Limit' = Limit
         /\ read_pos' = IF pc[c] = "pop_take" /\ pc'[c] = "idle" THEN read_pos + 1 ELSE read_pos
  <1> USE DEF TypeControl, Limit, Goto, Return, ring, Threads
  <1>1. CASE pop_load_ridx(c)
    BY <1>1 DEF pop_load_ridx
  <1>2. CASE pop_load_limit(c)
    BY <1>2 DEF pop_load_limit
  <1>3. CASE pop_copy(c)
    BY <1>3 DEF pop_copy
  <1>4. CASE pop_take(c)
    BY <1>4 DEF pop_take
  <1>5. QED
    BY <1>1, <1>2, <1>3, <1>4 DEF ring_pop

LEMMA SizeStep ==
  ASSUME IsFiniteSet(Threads), TypeControl, CasIsMulti, TodoTyped, SizesAgree, [ring2_next]_cvars
  PROVE  SizesAgree'
  <1> DEFINE n == Limit - read_pos - Cardinality(Adding) + Cardinality(Subtracting)
  <1>a. Limit \in Nat /\ read_pos \in Nat
    BY DEF TypeControl, Limit
  <1>b. n \in Int /\ size = U4(n)
    BY <1>a, CountersFinite DEF SizesAgree
  <1>c. ASSUME size' = size, n' = n PROVE SizesAgree'
    BY <1>b, <1>c DEF SizesAgree, U4
  <1>d. ASSUME NEW d \in {-1, 1}, size' = U4(size + d), n' = n + d PROVE SizesAgree'
    <2>1. U4(U4(n) + d) = U4(n + d)
      <3> HIDE DEF n
      <3>1. QED
        BY <1>b, U4Add
    <2>2. QED
      BY <1>b, <1>d, <2>1 DEF SizesAgree, U4
  <1>1. ASSUME NEW p \in Producers, push_step(p, "add") PROVE SizesAgree'
    <2>1. /\ todo[p] = "nothing" /\ ring_push(p) /\ size' = size
          /\ todo' = [todo EXCEPT ![p] = IF pc[p] = "push_publish" THEN "add" ELSE @]
      BY <1>1 DEF push_step
    <2>2. CASE pc[p] = "push_publish"
      <3>1. Limit' = Limit + 1 /\ read_pos' = read_pos
        BY <2>1, <2>2, PushMoves
      <3>2. p \notin Adding /\ Adding' = Adding \cup {p} /\ Subtracting' = Subtracting
        BY <2>1, <2>2 DEF Adding, Subtracting, TodoTyped, Threads
      <3>3. Cardinality(Adding') = Cardinality(Adding) + 1
        BY <3>2, CountersFinite, CountInOut
      <3>4. n' = n
        BY <1>a, <3>1, <3>2, <3>3, CountersFinite
      <3>5. QED
        BY <1>c, <2>1, <3>4
    <2>3. CASE pc[p] # "push_publish"
      <3>1. Limit' = Limit /\ read_pos' = read_pos
        BY <2>1, <2>3, PushMoves
      <3>2. Adding' = Adding /\ Subtracting' = Subtracting
        BY <2>1, <2>3 DEF Adding, Subtracting, TodoTyped, Threads
      <3>3. QED
        BY <1>c, <2>1, <3>1, <3>2
    <2>4. QED
      BY <2>2, <2>3
  <1>2. ASSUME NEW c \in Consumers, pop_step(c, "sub") PROVE SizesAgree'
    <2> DEFINE took == pc[c] = "pop_take" /\ pc'[c] = "idle"
    <2>1. /\ todo[c] = "nothing" /\ ring_pop(c) /\ size' = size
          /\ todo' = [todo EXCEPT ![c] = IF took THEN "sub" ELSE @]
      BY <1>2 DEF pop_step
    <2>2. CASE took
      <3>1. Limit' = Limit /\ read_pos' = read_pos + 1
        BY <2>1, <2>2, PopMoves
      <3>2. c \notin Subtracting /\ Subtracting' = Subtracting \cup {c} /\ Adding' = Adding
        BY <2>1, <2>2 DEF Adding, Subtracting, TodoTyped, Threads
      <3>3. Cardinality(Subtracting') = Cardinality(Subtracting) + 1
        BY <3>2, CountersFinite, CountInOut
      <3>4. n' = n
        BY <1>a, <3>1, <3>2, <3>3, CountersFinite
      <3>5. QED
        BY <1>c, <2>1, <3>4
    <2>3. CASE ~took
      <3>1. Limit' = Limit /\ read_pos' = read_pos
        BY <2>1, <2>3, PopMoves
      <3>2. Adding' = Adding /\ Subtracting' = Subtracting
        BY <2>1, <2>3 DEF Adding, Subtracting, TodoTyped, Threads
      <3>3. QED
        BY <1>c, <2>1, <3>1, <3>2
    <2>4. QED
      BY <2>2, <2>3
  <1>3. ASSUME NEW t \in Threads, count(t) PROVE SizesAgree'
    <2>1. Limit' = Limit /\ read_pos' = read_pos /\ todo' = [todo EXCEPT ![t] = "nothing"]
      BY <1>3 DEF count, vars, Limit
    <2>2. CASE todo[t] = "add"
      <3>1. t \in Adding /\ Adding' = Adding \ {t} /\ Subtracting' = Subtracting
        BY <2>1, <2>2 DEF Adding, Subtracting, TodoTyped
      <3>2. Cardinality(Adding') = Cardinality(Adding) - 1
        BY <3>1, CountersFinite, CountInOut
      <3>3. n' = n + 1
        BY <1>a, <2>1, <3>1, <3>2, CountersFinite
      <3>4. size' = U4(size + 1)
        BY <1>3, <2>2 DEF count
      <3>5. QED
        BY <1>d, <3>3, <3>4
    <2>3. CASE todo[t] = "sub"
      <3>1. t \in Subtracting /\ Subtracting' = Subtracting \ {t} /\ Adding' = Adding
        BY <2>1, <2>3 DEF Adding, Subtracting, TodoTyped
      <3>2. Cardinality(Subtracting') = Cardinality(Subtracting) - 1
        BY <3>1, CountersFinite, CountInOut
      <3>3. n' = n + (-1)
        BY <1>a, <2>1, <3>1, <3>2, CountersFinite
      <3>4. size' = U4(size + (-1))
        <4>1. size \in Int
          BY <1>b, IndexInRange
        <4>2. size - 1 = size + (-1)
          BY <4>1
        <4>3. QED
          BY <1>3, <2>3, <4>2 DEF count
      <3>5. QED
        BY <1>d, <3>3, <3>4
    <2>4. QED
      BY <1>3, <2>2, <2>3 DEF count
  <1>4. CASE UNCHANGED cvars
    <2>1. size' = size /\ n' = n
      BY <1>4 DEF cvars, vars, Limit, Adding, Subtracting
    <2>2. QED
      BY <1>c, <2>1
  <1>5. QED
    BY <1>1, <1>2, <1>3, <1>4 DEF ring2_next

\* ring2 with any number of threads, and whatever its cursors have wrapped to: size differs
\* from the number of elements by exactly the calls that have still to count theirs.
THEOREM CountIsExact ==
  ASSUME IsFiniteSet(Threads)
  PROVE  CSpec => []SizesAgree
  <1>1. CInit => TodoTyped /\ SizesAgree
    <2> SUFFICES ASSUME CInit PROVE TodoTyped /\ SizesAgree
      OBVIOUS
    <2>1. TodoTyped
      BY DEF CInit, TodoTyped
    <2>2. Adding = {} /\ Subtracting = {} /\ Limit = 0 /\ read_pos = 0 /\ size = 0
      BY DEF CInit, Init, Adding, Subtracting, Limit
    <2>3. Cardinality(Adding) = 0 /\ Cardinality(Subtracting) = 0
      BY <2>2, FS_EmptySet
    <2>4. U4(0) = 0
      BY Params DEF U4
    <2>5. QED
      BY <2>1, <2>2, <2>3, <2>4 DEF SizesAgree
  <1>2. TypeOK /\ CasIsMulti /\ TodoTyped /\ SizesAgree /\ [ring2_next]_cvars => SizesAgree'
    BY SizeStep DEF TypeOK
  <1>3. Spec => []CasIsMulti
    <2>1. Init => CasIsMulti
      BY DEF Init, CasIsMulti, Threads
    <2>2. TypeOK /\ CasIsMulti /\ [Next]_vars => CasIsMulti'
      BY CasStep DEF TypeOK
    <2>3. QED
      BY <2>1, <2>2, TypeCorrect, PTL DEF Spec
  <1>4. QED
    BY <1>1, <1>2, <1>3, TodoStep, CountedIsRing, TypeCorrect, PTL DEF CSpec
=============================================================================
