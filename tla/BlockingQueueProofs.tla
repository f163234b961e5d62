------------------------- MODULE BlockingQueueProofs -------------------------
(***************************************************************************)
(* The two queues with a mutex, for any number of threads and elements:    *)
(* BlockingQueue, and BoundedQueue as the instance B in the second part.   *)
(*                                                                         *)
(* In both a condition variable may wake one thread only, so a wake-up     *)
(* must not be lost: the invariants count the threads that are going to    *)
(* look at the queue against what there is for them.                       *)
(***************************************************************************)
EXTENDS BlockingQueue, FiniteSetTheorems, SequenceTheorems, TLAPS

LEMMA TypeStep ==
  TypeOK /\ NeverPopsEmpty /\ [Next]_vars => TypeOK'
  <1> SUFFICES ASSUME TypeOK, NeverPopsEmpty
               PROVE  [Next]_vars => TypeOK'
    OBVIOUS
  <1> USE DEF TypeOK, Threads, Goto, lock, unlock, PC
  <1>1. ASSUME NEW p \in Inputs, put_lock(p) PROVE TypeOK'
    BY <1>1 DEF put_lock
  <1>2. ASSUME NEW p \in Inputs, put_push(p) PROVE TypeOK'
    BY <1>2 DEF put_push
  <1>3. ASSUME NEW p \in Inputs, put_notify(p) PROVE TypeOK'
    <2>1. /\ waiting' \in SUBSET Outputs /\ pc' \in [Threads -> PC]
          /\ UNCHANGED <<mutex_, queue_, idx, main, puts, taken>>
      <3>1. CASE waiting = {}
        BY <1>3, <3>1, Zenon DEF put_notify
      <3>2. CASE waiting # {}
        BY <1>3, <3>2, Zenon DEF put_notify
      <3>3. QED
        BY <3>1, <3>2
    <2>2. QED
      BY <2>1
  <1>4. ASSUME NEW p \in Inputs, put_unlock(p) PROVE TypeOK'
    BY <1>4 DEF put_unlock
  <1>5. ASSUME NEW p \in Inputs, input_exit(p) PROVE TypeOK'
    BY <1>5 DEF input_exit
  <1>6. ASSUME NEW c \in Outputs, size_lock(c) PROVE TypeOK'
    BY <1>6 DEF size_lock
  <1>7. ASSUME NEW c \in Outputs, size_unlock(c) PROVE TypeOK'
    BY <1>7 DEF size_unlock
  <1>8. ASSUME NEW c \in Outputs, take_lock(c) PROVE TypeOK'
    BY <1>8 DEF take_lock
  <1>9. ASSUME NEW c \in Outputs, take_wait(c) PROVE TypeOK'
    BY <1>9 DEF take_wait
  <1>10. ASSUME NEW c \in Outputs, spurious_wakeup(c) PROVE TypeOK'
    BY <1>10 DEF spurious_wakeup
  <1>11. ASSUME NEW c \in Outputs, take_relock(c) PROVE TypeOK'
    BY <1>11 DEF take_relock
  <1>12. ASSUME NEW c \in Outputs, take_front(c) PROVE TypeOK'
    BY <1>12 DEF take_front
  <1>13. ASSUME NEW c \in Outputs, take_pop(c) PROVE TypeOK'
    <2>1. queue_ # << >> /\ Head(queue_) \in Nat /\ Tail(queue_) \in Seq(Nat)
      BY <1>13 DEF take_pop, NeverPopsEmpty
    <2>2. QED
      BY <1>13, <2>1 DEF take_pop
  <1>14. ASSUME NEW c \in Outputs, take_unlock(c) PROVE TypeOK'
    BY <1>14 DEF take_unlock
  <1>15. ASSUME NEW t \in Threads, create(t) PROVE TypeOK'
    BY <1>15, Zenon DEF create
  <1>16. ASSUME create_end PROVE TypeOK'
    BY <1>16 DEF create_end
  <1>17. ASSUME join PROVE TypeOK'
    BY <1>17 DEF join
  <1>18. CASE UNCHANGED vars
    BY <1>18 DEF vars
  <1>19. QED
    BY <1>1, <1>2, <1>3, <1>4, <1>5, <1>6, <1>7, <1>8, <1>9, <1>10, <1>11, <1>12,
       <1>13, <1>14, <1>15, <1>16, <1>17, <1>18, Zenon
    DEF Next, input, output

LEMMA MutexStep ==
  TypeOK /\ MutexInv /\ [Next]_vars => MutexInv'
  <1> SUFFICES ASSUME TypeOK, MutexInv
               PROVE  [Next]_vars => MutexInv'
    OBVIOUS
  <1> USE DEF TypeOK, Threads, Goto, lock, unlock, MutexInv, Inside
  <1>1. ASSUME NEW p \in Inputs, put_lock(p) PROVE MutexInv'
    BY <1>1, QueueAssumption DEF put_lock
  <1>2. ASSUME NEW p \in Inputs, put_push(p) PROVE MutexInv'
    BY <1>2, QueueAssumption DEF put_push
  <1>3. ASSUME NEW p \in Inputs, put_notify(p) PROVE MutexInv'
    BY <1>3, QueueAssumption, Zenon DEF put_notify
  <1>4. ASSUME NEW p \in Inputs, put_unlock(p) PROVE MutexInv'
    BY <1>4, QueueAssumption DEF put_unlock
  <1>5. ASSUME NEW p \in Inputs, input_exit(p) PROVE MutexInv'
    BY <1>5, QueueAssumption DEF input_exit
  <1>6. ASSUME NEW c \in Outputs, size_lock(c) PROVE MutexInv'
    BY <1>6, QueueAssumption DEF size_lock
  <1>7. ASSUME NEW c \in Outputs, size_unlock(c) PROVE MutexInv'
    BY <1>7, QueueAssumption DEF size_unlock
  <1>8. ASSUME NEW c \in Outputs, take_lock(c) PROVE MutexInv'
    BY <1>8, QueueAssumption DEF take_lock
  <1>9. ASSUME NEW c \in Outputs, take_wait(c) PROVE MutexInv'
    BY <1>9, QueueAssumption DEF take_wait
  <1>10. ASSUME NEW c \in Outputs, spurious_wakeup(c) PROVE MutexInv'
    BY <1>10, QueueAssumption DEF spurious_wakeup
  <1>11. ASSUME NEW c \in Outputs, take_relock(c) PROVE MutexInv'
    BY <1>11, QueueAssumption DEF take_relock
  <1>12. ASSUME NEW c \in Outputs, take_front(c) PROVE MutexInv'
    BY <1>12, QueueAssumption DEF take_front
  <1>13. ASSUME NEW c \in Outputs, take_pop(c) PROVE MutexInv'
    BY <1>13, QueueAssumption DEF take_pop
  <1>14. ASSUME NEW c \in Outputs, take_unlock(c) PROVE MutexInv'
    BY <1>14, QueueAssumption DEF take_unlock
  <1>15. ASSUME NEW t \in Threads, create(t) PROVE MutexInv'
    BY <1>15, QueueAssumption, Zenon DEF create
  <1>16. ASSUME create_end PROVE MutexInv'
    BY <1>16, QueueAssumption DEF create_end
  <1>17. ASSUME join PROVE MutexInv'
    BY <1>17, QueueAssumption DEF join
  <1>18. CASE UNCHANGED vars
    BY <1>18 DEF vars
  <1>19. QED
    BY <1>1, <1>2, <1>3, <1>4, <1>5, <1>6, <1>7, <1>8, <1>9, <1>10, <1>11, <1>12,
       <1>13, <1>14, <1>15, <1>16, <1>17, <1>18
    DEF Next, input, output

LEMMA PopStep ==
  TypeOK /\ MutexInv /\ NeverPopsEmpty /\ [Next]_vars => NeverPopsEmpty'
  <1> SUFFICES ASSUME TypeOK, MutexInv, NeverPopsEmpty
               PROVE  [Next]_vars => NeverPopsEmpty'
    OBVIOUS
  <1> USE DEF TypeOK, Threads, Goto, NeverPopsEmpty
  <1>1. ASSUME NEW p \in Inputs, put_lock(p) PROVE NeverPopsEmpty'
    BY <1>1, QueueAssumption DEF put_lock
  <1>2. ASSUME NEW p \in Inputs, put_push(p) PROVE NeverPopsEmpty'
    <2>1. queue_' # << >>
      BY <1>2 DEF put_push
    <2>2. QED
      BY <2>1
  <1>3. ASSUME NEW p \in Inputs, put_notify(p) PROVE NeverPopsEmpty'
    BY <1>3, QueueAssumption DEF put_notify
  <1>4. ASSUME NEW p \in Inputs, put_unlock(p) PROVE NeverPopsEmpty'
    BY <1>4, QueueAssumption DEF put_unlock
  <1>5. ASSUME NEW p \in Inputs, input_exit(p) PROVE NeverPopsEmpty'
    BY <1>5, QueueAssumption DEF input_exit
  <1>6. ASSUME NEW c \in Outputs, size_lock(c) PROVE NeverPopsEmpty'
    BY <1>6, QueueAssumption DEF size_lock
  <1>7. ASSUME NEW c \in Outputs, size_unlock(c) PROVE NeverPopsEmpty'
    BY <1>7, QueueAssumption DEF size_unlock
  <1>8. ASSUME NEW c \in Outputs, take_lock(c) PROVE NeverPopsEmpty'
    BY <1>8, QueueAssumption DEF take_lock
  <1>9. ASSUME NEW c \in Outputs, take_wait(c) PROVE NeverPopsEmpty'
    BY <1>9, QueueAssumption DEF take_wait
  <1>10. ASSUME NEW c \in Outputs, spurious_wakeup(c) PROVE NeverPopsEmpty'
    BY <1>10, QueueAssumption DEF spurious_wakeup
  <1>11. ASSUME NEW c \in Outputs, take_relock(c) PROVE NeverPopsEmpty'
    BY <1>11, QueueAssumption DEF take_relock
  <1>12. ASSUME NEW c \in Outputs, take_front(c) PROVE NeverPopsEmpty'
    BY <1>12, QueueAssumption DEF take_front
  <1>13. ASSUME NEW c \in Outputs, take_pop(c) PROVE NeverPopsEmpty'
    <2>1. \A d \in Outputs : pc[d] = "take_pop" => d = c
      BY <1>13 DEF take_pop, MutexInv, Inside
    <2>2. QED
      BY <1>13, <2>1 DEF take_pop
  <1>14. ASSUME NEW c \in Outputs, take_unlock(c) PROVE NeverPopsEmpty'
    BY <1>14, QueueAssumption DEF take_unlock
  <1>15. ASSUME NEW t \in Threads, create(t) PROVE NeverPopsEmpty'
    BY <1>15, QueueAssumption DEF create
  <1>16. ASSUME create_end PROVE NeverPopsEmpty'
    BY <1>16, QueueAssumption DEF create_end
  <1>17. ASSUME join PROVE NeverPopsEmpty'
    BY <1>17, QueueAssumption DEF join
  <1>18. CASE UNCHANGED vars
    BY <1>18 DEF vars
  <1>19. QED
    BY <1>1, <1>2, <1>3, <1>4, <1>5, <1>6, <1>7, <1>8, <1>9, <1>10, <1>11, <1>12,
       <1>13, <1>14, <1>15, <1>16, <1>17, <1>18
    DEF Next, input, output

LEMMA ConcatAppend ==
  ASSUME NEW s \in Seq(Nat), NEW t \in Seq(Nat), NEW x \in Nat
  PROVE  Append(s \o t, x) = s \o Append(t, x)
  <1>1. <<x>> \in Seq(Nat) /\ s \o t \in Seq(Nat)
    BY ConcatProperties
  <1>2. Append(s \o t, x) = (s \o t) \o <<x>> /\ Append(t, x) = t \o <<x>>
    BY <1>1, AppendIsConcat, Zenon
  <1>3. QED
    BY <1>1, <1>2, ConcatAssociative

LEMMA MoveHead ==
  ASSUME NEW S, NEW s \in Seq(S), NEW t \in Seq(S), t # << >>
  PROVE  s \o t = Append(s, Head(t)) \o Tail(t)
  <1>1. Head(t) \in S /\ Tail(t) \in Seq(S) /\ <<Head(t)>> \in Seq(S)
    BY HeadTailProperties
  <1>2. t = <<Head(t)>> \o Tail(t)
    OBVIOUS
  <1>3. Append(s, Head(t)) = s \o <<Head(t)>>
    BY <1>1, AppendIsConcat
  <1>4. QED
    BY <1>1, <1>2, <1>3, ConcatAssociative

LEMMA ConservedStep ==
  TypeOK /\ NeverPopsEmpty /\ Conserved /\ [Next]_vars => Conserved'
  <1> SUFFICES ASSUME TypeOK, NeverPopsEmpty, Conserved
               PROVE  [Next]_vars => Conserved'
    OBVIOUS
  <1> USE DEF TypeOK, Conserved
  <1>1. ASSUME NEW p \in Inputs, put_lock(p) PROVE Conserved'
    BY <1>1 DEF put_lock
  <1>2. ASSUME NEW p \in Inputs, put_push(p) PROVE Conserved'
    <2>1. idx[p] \in Nat /\ puts' = Append(puts, idx[p]) /\ queue_' = Append(queue_, idx[p])
          /\ taken' = taken
      BY <1>2 DEF put_push
    <2>2. Append(taken \o queue_, idx[p]) = taken \o Append(queue_, idx[p])
      <3> HIDE DEF Conserved
      <3>1. taken \in Seq(Nat) /\ queue_ \in Seq(Nat) /\ idx[p] \in Nat
        BY <2>1
      <3>2. QED
        BY <3>1, ConcatAppend, Zenon
    <2>3. QED
      BY <2>1, <2>2
  <1>3. ASSUME NEW p \in Inputs, put_notify(p) PROVE Conserved'
    BY <1>3 DEF put_notify
  <1>4. ASSUME NEW p \in Inputs, put_unlock(p) PROVE Conserved'
    BY <1>4 DEF put_unlock
  <1>5. ASSUME NEW p \in Inputs, input_exit(p) PROVE Conserved'
    BY <1>5 DEF input_exit
  <1>6. ASSUME NEW c \in Outputs, size_lock(c) PROVE Conserved'
    BY <1>6 DEF size_lock
  <1>7. ASSUME NEW c \in Outputs, size_unlock(c) PROVE Conserved'
    BY <1>7 DEF size_unlock
  <1>8. ASSUME NEW c \in Outputs, take_lock(c) PROVE Conserved'
    BY <1>8 DEF take_lock
  <1>9. ASSUME NEW c \in Outputs, take_wait(c) PROVE Conserved'
    BY <1>9 DEF take_wait
  <1>10. ASSUME NEW c \in Outputs, spurious_wakeup(c) PROVE Conserved'
    BY <1>10 DEF spurious_wakeup
  <1>11. ASSUME NEW c \in Outputs, take_relock(c) PROVE Conserved'
    BY <1>11 DEF take_relock
  <1>12. ASSUME NEW c \in Outputs, take_front(c) PROVE Conserved'
    BY <1>12 DEF take_front
  <1>13. ASSUME NEW c \in Outputs, take_pop(c) PROVE Conserved'
    <2>1. /\ queue_ # << >> /\ puts' = puts
          /\ queue_' = Tail(queue_) /\ taken' = Append(taken, Head(queue_))
      BY <1>13 DEF take_pop, NeverPopsEmpty, Goto
    <2>2. QED
      BY <2>1, MoveHead, Zenon
  <1>14. ASSUME NEW c \in Outputs, take_unlock(c) PROVE Conserved'
    BY <1>14 DEF take_unlock
  <1>15. ASSUME NEW t \in Threads, create(t) PROVE Conserved'
    BY <1>15 DEF create
  <1>16. ASSUME create_end PROVE Conserved'
    BY <1>16 DEF create_end
  <1>17. ASSUME join PROVE Conserved'
    BY <1>17 DEF join
  <1>18. CASE UNCHANGED vars
    BY <1>18 DEF vars
  <1>19. QED
    BY <1>1, <1>2, <1>3, <1>4, <1>5, <1>6, <1>7, <1>8, <1>9, <1>10, <1>11, <1>12,
       <1>13, <1>14, <1>15, <1>16, <1>17, <1>18
    DEF Next, input, output

LEMMA CardAdd ==
  ASSUME NEW S, NEW x, IsFiniteSet(S)
  PROVE  Cardinality(S \cup {x}) >= Cardinality(S)
  <1>1. Cardinality(S \cup {x}) = IF x \in S THEN Cardinality(S) ELSE Cardinality(S) + 1
    BY FS_AddElement
  <1>2. Cardinality(S) \in Nat
    BY FS_CardinalityType
  <1>3. QED
    BY <1>1, <1>2

LEMMA CardSwap ==
  ASSUME NEW S, NEW x \in S, NEW y, y \notin S, IsFiniteSet(S)
  PROVE  Cardinality((S \ {x}) \cup {y}) = Cardinality(S)
  <1>1. IsFiniteSet(S \ {x}) /\ Cardinality(S \ {x}) = Cardinality(S) - 1
    BY FS_RemoveElement
  <1>2. Cardinality((S \ {x}) \cup {y}) = Cardinality(S \ {x}) + 1
    BY <1>1, FS_AddElement
  <1>3. Cardinality(S) \in Nat
    BY FS_CardinalityType
  <1>4. QED
    BY <1>1, <1>2, <1>3

LEMMA PendingFinite ==
  /\ IsFiniteSet(Pending) /\ Cardinality(Pending) \in Nat
  /\ IsFiniteSet(Pending') /\ Cardinality(Pending') \in Nat
  <1>1. IsFiniteSet(Threads)
    BY QueueAssumption, FS_Union, Zenon DEF Threads
  <1>2. Pending \in SUBSET Threads /\ Pending' \in SUBSET Threads
    BY DEF Pending
  <1>3. IsFiniteSet(Pending) /\ IsFiniteSet(Pending')
    BY <1>1, <1>2, FS_Subset
  <1>4. QED
    BY <1>3, FS_CardinalityType

LEMMA WakeupStep ==
  TypeOK /\ MutexInv /\ NeverPopsEmpty /\ NoLostWakeup /\ [Next]_vars => NoLostWakeup'
  <1> SUFFICES ASSUME TypeOK, MutexInv, NeverPopsEmpty, NoLostWakeup
               PROVE  [Next]_vars => NoLostWakeup'
    OBVIOUS
  <1> USE DEF TypeOK, Threads, NoLostWakeup
  <1>1. ASSUME NEW p \in Inputs, put_lock(p) PROVE NoLostWakeup'
    <2>1. Pending' = Pending
      BY <1>1, QueueAssumption DEF put_lock, Goto, Pending
    <2>2. QED
      BY <1>1, <2>1 DEF put_lock
  <1>2. ASSUME NEW p \in Inputs, put_push(p) PROVE NoLostWakeup'
    <2>1. Pending' = Pending \cup {p} /\ p \notin Pending
      BY <1>2, QueueAssumption DEF put_push, Goto, Pending
    <2>2. Cardinality(Pending') = Cardinality(Pending) + 1
      BY <2>1, PendingFinite, FS_AddElement
    <2>3. Len(queue_') = Len(queue_) + 1 /\ waiting' = waiting
      BY <1>2 DEF put_push
    <2>4. QED
      BY <2>2, <2>3, PendingFinite
  <1>3. ASSUME NEW p \in Inputs, put_notify(p) PROVE NoLostWakeup'
    <2>1. CASE waiting' = {}
      BY <2>1
    <2>2. CASE \E c \in waiting : /\ waiting' = waiting \ {c}
                                  /\ pc' = [pc EXCEPT ![p] = "put_unlock", ![c] = "woken"]
      <3>1. PICK c \in waiting : pc' = [pc EXCEPT ![p] = "put_unlock", ![c] = "woken"]
        BY <2>2
      <3>2. pc[p] = "put_notify" /\ pc[c] = "waiting" /\ c # p /\ c \in Threads /\ queue_' = queue_
        BY <1>3 DEF put_notify, MutexInv
      <3>3. Pending' = (Pending \ {p}) \cup {c} /\ p \in Pending /\ c \notin Pending
        BY <3>1, <3>2 DEF Pending
      <3>4. Cardinality(Pending') = Cardinality(Pending)
        BY <3>3, PendingFinite, CardSwap
      <3>5. QED
        BY <2>2, <3>2, <3>4
    <2>3. QED
      BY <1>3, <2>1, <2>2, Zenon DEF put_notify
  <1>4. ASSUME NEW p \in Inputs, put_unlock(p) PROVE NoLostWakeup'
    <2>1. Pending' = Pending
      BY <1>4, QueueAssumption DEF put_unlock, Goto, Pending
    <2>2. QED
      BY <1>4, <2>1 DEF put_unlock
  <1>5. ASSUME NEW p \in Inputs, input_exit(p) PROVE NoLostWakeup'
    <2>1. Pending' = Pending
      BY <1>5, QueueAssumption DEF input_exit, Goto, Pending
    <2>2. QED
      BY <1>5, <2>1 DEF input_exit
  <1>6. ASSUME NEW c \in Outputs, size_lock(c) PROVE NoLostWakeup'
    <2>1. Pending' = Pending
      BY <1>6, QueueAssumption DEF size_lock, Goto, Pending
    <2>2. QED
      BY <1>6, <2>1 DEF size_lock
  <1>7. ASSUME NEW c \in Outputs, size_unlock(c) PROVE NoLostWakeup'
    <2>1. Pending' = Pending
      BY <1>7, QueueAssumption DEF size_unlock, Goto, Pending
    <2>2. QED
      BY <1>7, <2>1 DEF size_unlock
  <1>8. ASSUME NEW c \in Outputs, take_lock(c) PROVE NoLostWakeup'
    <2>1. Pending' = Pending \cup {c}
      BY <1>8, QueueAssumption DEF take_lock, Goto, Pending
    <2>2. Cardinality(Pending') >= Cardinality(Pending)
      BY <2>1, PendingFinite, CardAdd, Zenon
    <2>3. queue_' = queue_ /\ waiting' = waiting
      BY <1>8 DEF take_lock
    <2>4. QED
      BY <2>2, <2>3, PendingFinite
  <1>9. ASSUME NEW c \in Outputs, take_wait(c) PROVE NoLostWakeup'
    <2>1. Len(queue_') = 0
      BY <1>9 DEF take_wait
    <2>2. QED
      BY <2>1, PendingFinite
  <1>10. ASSUME NEW c \in Outputs, spurious_wakeup(c) PROVE NoLostWakeup'
    <2>1. Pending' = Pending \cup {c}
      BY <1>10, QueueAssumption DEF spurious_wakeup, Goto, Pending
    <2>2. Cardinality(Pending') >= Cardinality(Pending)
      BY <2>1, PendingFinite, CardAdd, Zenon
    <2>3. queue_' = queue_ /\ waiting # {}
      BY <1>10 DEF spurious_wakeup
    <2>4. QED
      BY <2>2, <2>3, PendingFinite
  <1>11. ASSUME NEW c \in Outputs, take_relock(c) PROVE NoLostWakeup'
    <2>1. Pending' = Pending
      BY <1>11, QueueAssumption DEF take_relock, Goto, Pending
    <2>2. QED
      BY <1>11, <2>1 DEF take_relock
  <1>12. ASSUME NEW c \in Outputs, take_front(c) PROVE NoLostWakeup'
    <2>1. Pending' = Pending
      BY <1>12, QueueAssumption DEF take_front, Goto, Pending
    <2>2. QED
      BY <1>12, <2>1 DEF take_front
  <1>13. ASSUME NEW c \in Outputs, take_pop(c) PROVE NoLostWakeup'
    <2>1. Pending' = Pending \ {c} /\ c \in Pending
      BY <1>13, QueueAssumption DEF take_pop, Goto, Pending
    <2>2. Cardinality(Pending') = Cardinality(Pending) - 1
      BY <2>1, PendingFinite, FS_RemoveElement
    <2>3. Len(queue_') = Len(queue_) - 1 /\ waiting' = waiting
      BY <1>13 DEF take_pop, Goto, NeverPopsEmpty
    <2>4. QED
      BY <2>2, <2>3, PendingFinite
  <1>14. ASSUME NEW c \in Outputs, take_unlock(c) PROVE NoLostWakeup'
    <2>1. Pending' = Pending
      BY <1>14, QueueAssumption DEF take_unlock, Goto, Pending
    <2>2. QED
      BY <1>14, <2>1 DEF take_unlock
  <1>15. ASSUME NEW t \in Threads, create(t) PROVE NoLostWakeup'
    <2>1. Pending' = Pending
      BY <1>15, QueueAssumption DEF create, Goto, Pending
    <2>2. QED
      BY <1>15, <2>1 DEF create
  <1>16. ASSUME create_end PROVE NoLostWakeup'
    BY <1>16 DEF create_end, Pending
  <1>17. ASSUME join PROVE NoLostWakeup'
    BY <1>17 DEF join, Pending
  <1>18. CASE UNCHANGED vars
    BY <1>18 DEF vars, Pending
  <1>19. QED
    BY <1>1, <1>2, <1>3, <1>4, <1>5, <1>6, <1>7, <1>8, <1>9, <1>10, <1>11, <1>12,
       <1>13, <1>14, <1>15, <1>16, <1>17, <1>18
    DEF Next, input, output

LEMMA Initially == Init => TypeOK /\ MutexInv /\ NeverPopsEmpty /\ Conserved /\ NoLostWakeup
  <1> SUFFICES ASSUME Init PROVE TypeOK /\ MutexInv /\ NeverPopsEmpty /\ Conserved /\ NoLostWakeup
    OBVIOUS
  <1>1. TypeOK
    BY DEF Init, TypeOK, PC
  <1>2. MutexInv /\ NeverPopsEmpty /\ NoLostWakeup
    BY DEF Init, MutexInv, NeverPopsEmpty, NoLostWakeup, Inside, Threads
  <1>3. Conserved
    BY ConcatEmptySeq DEF Init, Conserved
  <1>4. QED
    BY <1>1, <1>2, <1>3

LEMMA Invariance ==
  Spec => [](TypeOK /\ MutexInv /\ NeverPopsEmpty /\ Conserved /\ NoLostWakeup)
  BY Initially, TypeStep, MutexStep, PopStep, ConservedStep, WakeupStep, PTL DEF Spec

\* The types of the queue's state; they need that take never pops an empty deque.
THEOREM TypeCorrect == Spec => []TypeOK
  BY Invariance, PTL

\* take reaches pop_front only with an element, whatever wakes its thread.
THEOREM PopsAnElement == Spec => []NeverPopsEmpty
  BY Invariance, PTL

\* put and take neither lose, double nor reorder an element.
THEOREM ElementsConserved == Spec => []Conserved
  BY Invariance, PTL

\* notify in put and wait in take lose no wake-up.
THEOREM WakeupsKept == Spec => []NoLostWakeup
  BY Invariance, PTL

(***************************************************************************)
(* BoundedQueue                                                            *)
(***************************************************************************)
CONSTANTS Pushers, Poppers, capacity_, test_num, Junk

VARIABLES buffer_, read_pos_, write_pos_, notEmpty_, notFull_, bpc, push_num, pop_num, out

B == INSTANCE BoundedQueue WITH pc <- bpc

\* The operators of FiniteSets are the same in both.
LEMMA SameSets ==
  ASSUME NEW S
  PROVE  (B!IsFiniteSet(S) <=> IsFiniteSet(S)) /\ B!Cardinality(S) = Cardinality(S)
  BY DEF B!IsFiniteSet, IsFiniteSet, B!Cardinality, Cardinality

(***************************************************************************)
(* Positions in the circular buffer                                        *)
(***************************************************************************)

\* The remainder of a number less than twice the divisor.
LEMMA ModOnce ==
  ASSUME NEW n \in Nat \ {0}, NEW x \in 0 .. 2 * n - 1
  PROVE  x % n = IF x < n THEN x ELSE x - n
  <1>1. CASE x < n
    BY <1>1
  <1>2. CASE x >= n
    <2> DEFINE q == 1
               r == x - n
    <2>1. q \in Int /\ r \in 0 .. n - 1 /\ x = q * n + r
      BY <1>2
    <2> HIDE DEF q
    <2>2. x % n = r
      BY <2>1
    <2>3. QED
      BY <1>2, <2>2
  <1>3. QED
    BY <1>1, <1>2

\* The number of cells from one position on to another.
LEMMA Distance ==
  ASSUME B!BoundedAssumption, NEW r \in 0 .. capacity_ - 1, NEW w \in 0 .. capacity_ - 1
  PROVE  (w + capacity_ - r) % capacity_ = IF r <= w THEN w - r ELSE w + capacity_ - r
  <1> DEFINE x == w + capacity_ - r
  <1>1. capacity_ \in Nat \ {0}
    BY DEF B!BoundedAssumption
  <1>2. x \in 0 .. 2 * capacity_ - 1
    BY <1>1
  <1> HIDE DEF x
  <1>3. x % capacity_ = IF x < capacity_ THEN x ELSE x - capacity_
    BY <1>1, <1>2, ModOnce, Zenon
  <1>4. QED
    BY <1>1, <1>3 DEF x

\* The cell behind another, size, and full, without remainders.
LEMMA Positions ==
  ASSUME B!BoundedAssumption, B!TypeOK
  PROVE  /\ read_pos_ \in Nat /\ write_pos_ \in Nat /\ capacity_ \in Nat
         /\ \A i \in 0 .. capacity_ - 1 :
              (i + 1) % capacity_ = IF i + 1 = capacity_ THEN 0 ELSE i + 1
         /\ B!size = IF read_pos_ <= write_pos_ THEN write_pos_ - read_pos_
                                              ELSE write_pos_ + capacity_ - read_pos_
         /\ B!size \in 0 .. capacity_ - 1
         /\ B!full <=> B!size = capacity_ - 1
         /\ B!empty <=> B!size = 0
  <1> USE DEF B!BoundedAssumption, B!TypeOK
  <1>1. capacity_ \in Nat \ {0} /\ read_pos_ \in 0 .. capacity_ - 1
        /\ write_pos_ \in 0 .. capacity_ - 1
    OBVIOUS
  <1> HIDE DEF B!BoundedAssumption, B!TypeOK
  <1>2. ASSUME NEW i \in 0 .. capacity_ - 1
        PROVE  (i + 1) % capacity_ = IF i + 1 = capacity_ THEN 0 ELSE i + 1
    <2> DEFINE x == i + 1
    <2>1. x \in 0 .. 2 * capacity_ - 1
      BY <1>1
    <2> HIDE DEF x
    <2>2. x % capacity_ = IF x < capacity_ THEN x ELSE x - capacity_
      BY <1>1, <2>1, ModOnce, Zenon
    <2>3. QED
      BY <1>1, <2>2 DEF x
  <1>3. B!size = IF read_pos_ <= write_pos_ THEN write_pos_ - read_pos_
                                          ELSE write_pos_ + capacity_ - read_pos_
    BY <1>1, Distance DEF B!size
  <1>4. B!size \in 0 .. capacity_ - 1
    BY <1>1, <1>3
  <1>5. B!full <=> B!size = capacity_ - 1
    BY <1>1, <1>2, <1>3 DEF B!full
  <1>6. B!empty <=> B!size = 0
    BY <1>1, <1>3 DEF B!empty
  <1>7. QED
    BY <1>1, <1>2, <1>3, <1>4, <1>5, <1>6

\* A cell of the content: the k-th from read_pos_ on.
LEMMA Cells ==
  ASSUME B!BoundedAssumption, NEW r \in 0 .. capacity_ - 1, NEW k \in 1 .. capacity_
  PROVE  (r + k - 1) % capacity_ = IF r + k - 1 < capacity_ THEN r + k - 1
                                                            ELSE r + k - 1 - capacity_
  <1> DEFINE x == r + k - 1
  <1>1. capacity_ \in Nat \ {0}
    BY DEF B!BoundedAssumption
  <1>2. x \in 0 .. 2 * capacity_ - 1
    BY <1>1
  <1> HIDE DEF x
  <1>3. x % capacity_ = IF x < capacity_ THEN x ELSE x - capacity_
    BY <1>1, <1>2, ModOnce, Zenon
  <1>4. QED
    BY <1>1, <1>3 DEF x

(***************************************************************************)
(* Types                                                                   *)
(***************************************************************************)

\* What notify does to the threads: one that sleeps wakes up, if there is one.
LEMMA NotifyWakes ==
  ASSUME B!BoundedAssumption, B!TypeOK, NEW W, NEW t \in B!Threads, NEW l,
         \A w \in W : w \in B!Threads /\ bpc[w] = "waiting",
         bpc[t] # "waiting", l # "waiting", B!Notify(W, t, l)
  PROVE  \/ W = {} /\ bpc' = [bpc EXCEPT ![t] = l] /\ B!Woken(W) = {}
         \/ \E w \in W :
              /\ w # t /\ B!Woken(W) = {w}
              /\ bpc' = [bpc EXCEPT ![t] = l, ![w] = IF w \in Pushers THEN "put" ELSE "take"]
  <1>1. CASE W = {}
    BY <1>1 DEF B!Notify, B!Woken
  <1>2. CASE W # {}
    <2>1. PICK w \in W :
            bpc' = [bpc EXCEPT ![t] = l, ![w] = IF w \in Pushers THEN "put" ELSE "take"]
      BY <1>2 DEF B!Notify
    <2>2. w # t /\ w \in B!Threads
      OBVIOUS
    <2>3. B!Woken(W) = {w}
      BY <2>1, <2>2 DEF B!Woken, B!TypeOK
    <2>4. QED
      BY <2>1, <2>2, <2>3, Zenon
  <1>3. QED
    BY <1>1, <1>2

LEMMA BoundedTypeStep ==
  ASSUME B!BoundedAssumption, B!TypeOK, B!SleepersListed, [B!Next]_(B!vars)
  PROVE  B!TypeOK'
  <1>0. Pushers \cap Poppers = {} /\ capacity_ \in Nat \ {0}
    BY DEF B!BoundedAssumption
  <1>a. /\ buffer_ \in [0 .. capacity_ - 1 -> Pushers \cup {Junk}]
        /\ (read_pos_ + 1) % capacity_ \in 0 .. capacity_ - 1
        /\ (write_pos_ + 1) % capacity_ \in 0 .. capacity_ - 1
    BY <1>0, Positions DEF B!TypeOK
  <1> USE DEF B!TypeOK, B!Threads, B!PushPC, B!PopPC, B!queue_
  <1>1. ASSUME NEW p \in Pushers, B!put_wait(p) PROVE B!TypeOK'
    BY <1>0, <1>1 DEF B!put_wait
  <1>2. ASSUME NEW p \in Pushers, B!put(p) PROVE B!TypeOK'
    <2>1. /\ B!Notify(notEmpty_, p, "pushed") /\ bpc[p] = "put"
          /\ \A w \in notEmpty_ : w \in Poppers /\ bpc[w] = "waiting"
      BY <1>2 DEF B!put, B!SleepersListed
    <2>2. \/ bpc' = [bpc EXCEPT ![p] = "pushed"]
          \/ \E w \in Poppers : bpc' = [bpc EXCEPT ![p] = "pushed", ![w] = "take"]
      BY <1>0, <2>1, Zenon DEF B!Notify
    <2>3. /\ bpc' \in [B!Threads -> B!PushPC \cup B!PopPC]
          /\ \A r \in Pushers : bpc'[r] \in B!PushPC
          /\ \A c \in Poppers : bpc'[c] \in B!PopPC
      BY <1>0, <2>2
    <2>4. buffer_' \in [0 .. capacity_ - 1 -> Pushers \cup {Junk}]
      BY <1>2 DEF B!put, B!push_back
    <2>5. QED
      BY <1>2, <1>a, <2>3, <2>4 DEF B!put, B!push_back
  <1>3. ASSUME NEW p \in Pushers, B!push_count(p) PROVE B!TypeOK'
    BY <1>0, <1>3 DEF B!push_count
  <1>4. ASSUME NEW p \in Pushers, B!push_test(p) PROVE B!TypeOK'
    BY <1>0, <1>4 DEF B!push_test
  <1>5. ASSUME NEW c \in Poppers, B!take_wait(c) PROVE B!TypeOK'
    BY <1>0, <1>5 DEF B!take_wait
  <1>6. ASSUME NEW c \in Poppers, B!take(c) PROVE B!TypeOK'
    <2>1. /\ B!Notify(notFull_, c, "popped") /\ bpc[c] = "take"
          /\ \A w \in notFull_ : w \in Pushers /\ bpc[w] = "waiting"
      BY <1>6 DEF B!take, B!SleepersListed
    <2>2. \/ bpc' = [bpc EXCEPT ![c] = "popped"]
          \/ \E w \in Pushers : bpc' = [bpc EXCEPT ![c] = "popped", ![w] = "put"]
      BY <1>0, <2>1, Zenon DEF B!Notify
    <2>3. /\ bpc' \in [B!Threads -> B!PushPC \cup B!PopPC]
          /\ \A p \in Pushers : bpc'[p] \in B!PushPC
          /\ \A d \in Poppers : bpc'[d] \in B!PopPC
      BY <1>0, <2>2
    <2>4. out' \in [Poppers -> Pushers \cup {Junk}]
      BY <1>6 DEF B!take
    <2>5. QED
      BY <1>6, <1>a, <2>3, <2>4 DEF B!take
  <1>7. ASSUME NEW c \in Poppers, B!pop_count(c) PROVE B!TypeOK'
    BY <1>0, <1>7 DEF B!pop_count
  <1>8. ASSUME NEW c \in Poppers, B!pop_test(c) PROVE B!TypeOK'
    BY <1>0, <1>8 DEF B!pop_test
  <1>9. ASSUME NEW t \in B!Threads, B!spurious_wakeup(t) PROVE B!TypeOK'
    BY <1>0, <1>9 DEF B!spurious_wakeup
  <1>10. CASE UNCHANGED B!vars
    BY <1>10 DEF B!vars
  <1>11. QED
    BY <1>1, <1>2, <1>3, <1>4, <1>5, <1>6, <1>7, <1>8, <1>9, <1>10 DEF B!Next, B!push, B!pop

(***************************************************************************)
(* The two conditions                                                      *)
(***************************************************************************)

\* put tells one of those who wait for an element, take one of those who wait for room; what
\* that does to the sleepers and to those who are going to put or to take.
LEMMA PutWakes ==
  ASSUME B!BoundedAssumption, B!TypeOK, B!SleepersListed, NEW p \in Pushers, B!put(p)
  PROVE  /\ p \in B!Putting /\ B!Putting' = B!Putting \ {p}
         /\ notFull_' = notFull_
         /\ notFull_' = {r \in Pushers : bpc'[r] = "waiting"}
         /\ notEmpty_' = {c \in Poppers : bpc'[c] = "waiting"}
         /\ \/ notEmpty_ = {} /\ notEmpty_' = {} /\ B!Taking' = B!Taking
            \/ \E w : w \notin B!Taking /\ B!Taking' = B!Taking \cup {w}
  <1>0. Pushers \cap Poppers = {}
    BY DEF B!BoundedAssumption
  <1>1. /\ B!Notify(notEmpty_, p, "pushed") /\ bpc[p] = "put" /\ notFull_' = notFull_
        /\ \A w \in notEmpty_ : w \in B!Threads /\ bpc[w] = "waiting"
        /\ notEmpty_' = notEmpty_ \ B!Woken(notEmpty_)
    BY DEF B!put, B!SleepersListed, B!Threads
  <1>2. CASE notEmpty_ = {} /\ bpc' = [bpc EXCEPT ![p] = "pushed"] /\ B!Woken(notEmpty_) = {}
    BY <1>0, <1>1, <1>2 DEF B!Putting, B!Taking, B!SleepersListed, B!TypeOK, B!Threads
  <1>3. ASSUME NEW w \in notEmpty_, w # p, B!Woken(notEmpty_) = {w},
               bpc' = [bpc EXCEPT ![p] = "pushed", ![w] = IF w \in Pushers THEN "put" ELSE "take"]
        PROVE  /\ p \in B!Putting /\ B!Putting' = B!Putting \ {p}
               /\ notFull_' = {r \in Pushers : bpc'[r] = "waiting"}
               /\ notEmpty_' = {c \in Poppers : bpc'[c] = "waiting"}
               /\ w \notin B!Taking /\ B!Taking' = B!Taking \cup {w}
    <2>1. w \in Poppers /\ w \notin Pushers /\ bpc[w] = "waiting"
      BY <1>0 DEF B!SleepersListed
    <2>2. /\ \A r \in Pushers : bpc'[r] = IF r = p THEN "pushed" ELSE bpc[r]
          /\ \A c \in Poppers : bpc'[c] = IF c = w THEN "take" ELSE bpc[c]
      BY <1>0, <1>3, <2>1 DEF B!TypeOK, B!Threads
    <2>3. p \in B!Putting /\ B!Putting' = B!Putting \ {p} /\ w \notin B!Taking
          /\ B!Taking' = B!Taking \cup {w}
      BY <1>1, <2>1, <2>2 DEF B!Putting, B!Taking
    <2>4. /\ notFull_' = {r \in Pushers : bpc'[r] = "waiting"}
          /\ notEmpty_' = {c \in Poppers : bpc'[c] = "waiting"}
      <3>1. notFull_' = notFull_ /\ notEmpty_' = notEmpty_ \ {w}
        BY <1>1, <1>3
      <3>2. /\ notFull_ = {r \in Pushers : bpc[r] = "waiting"}
            /\ notEmpty_ = {c \in Poppers : bpc[c] = "waiting"}
        BY DEF B!SleepersListed
      <3>3. {r \in Pushers : bpc'[r] = "waiting"} = {r \in Pushers : bpc[r] = "waiting"}
        BY <1>1, <2>2
      <3>4. {c \in Poppers : bpc'[c] = "waiting"} = {c \in Poppers : bpc[c] = "waiting"} \ {w}
        BY <2>1, <2>2
      <3>5. QED
        BY <3>1, <3>2, <3>3, <3>4
    <2>5. QED
      BY <2>3, <2>4
  <1>4. QED
    BY <1>1, <1>2, <1>3, NotifyWakes DEF B!Threads

LEMMA TakeWakes ==
  ASSUME B!BoundedAssumption, B!TypeOK, B!SleepersListed, NEW c \in Poppers, B!take(c)
  PROVE  /\ c \in B!Taking /\ B!Taking' = B!Taking \ {c}
         /\ notEmpty_' = notEmpty_
         /\ notEmpty_' = {d \in Poppers : bpc'[d] = "waiting"}
         /\ notFull_' = {p \in Pushers : bpc'[p] = "waiting"}
         /\ \/ notFull_ = {} /\ notFull_' = {} /\ B!Putting' = B!Putting
            \/ \E w : w \notin B!Putting /\ B!Putting' = B!Putting \cup {w}
  <1>0. Pushers \cap Poppers = {}
    BY DEF B!BoundedAssumption
  <1>1. /\ B!Notify(notFull_, c, "popped") /\ bpc[c] = "take" /\ notEmpty_' = notEmpty_
        /\ \A w \in notFull_ : w \in B!Threads /\ bpc[w] = "waiting"
        /\ notFull_' = notFull_ \ B!Woken(notFull_)
    BY DEF B!take, B!SleepersListed, B!Threads
  <1>2. CASE notFull_ = {} /\ bpc' = [bpc EXCEPT ![c] = "popped"] /\ B!Woken(notFull_) = {}
    BY <1>0, <1>1, <1>2 DEF B!Putting, B!Taking, B!SleepersListed, B!TypeOK, B!Threads
  <1>3. ASSUME NEW w \in notFull_, w # c, B!Woken(notFull_) = {w},
               bpc' = [bpc EXCEPT ![c] = "popped", ![w] = IF w \in Pushers THEN "put" ELSE "take"]
        PROVE  /\ c \in B!Taking /\ B!Taking' = B!Taking \ {c}
               /\ notEmpty_' = {d \in Poppers : bpc'[d] = "waiting"}
               /\ notFull_' = {p \in Pushers : bpc'[p] = "waiting"}
               /\ w \notin B!Putting /\ B!Putting' = B!Putting \cup {w}
    <2>1. w \in Pushers /\ bpc[w] = "waiting"
      BY DEF B!SleepersListed
    <2>2. /\ \A d \in Poppers : bpc'[d] = IF d = c THEN "popped" ELSE bpc[d]
          /\ \A p \in Pushers : bpc'[p] = IF p = w THEN "put" ELSE bpc[p]
      BY <1>0, <1>3, <2>1 DEF B!TypeOK, B!Threads
    <2>3. c \in B!Taking /\ B!Taking' = B!Taking \ {c} /\ w \notin B!Putting
          /\ B!Putting' = B!Putting \cup {w}
      BY <1>1, <2>1, <2>2 DEF B!Putting, B!Taking
    <2>4. /\ notEmpty_' = {d \in Poppers : bpc'[d] = "waiting"}
          /\ notFull_' = {p \in Pushers : bpc'[p] = "waiting"}
      <3>1. notEmpty_' = notEmpty_ /\ notFull_' = notFull_ \ {w}
        BY <1>1, <1>3
      <3>2. /\ notFull_ = {p \in Pushers : bpc[p] = "waiting"}
            /\ notEmpty_ = {d \in Poppers : bpc[d] = "waiting"}
        BY DEF B!SleepersListed
      <3>3. {d \in Poppers : bpc'[d] = "waiting"} = {d \in Poppers : bpc[d] = "waiting"}
        BY <1>1, <2>2
      <3>4. {p \in Pushers : bpc'[p] = "waiting"} = {p \in Pushers : bpc[p] = "waiting"} \ {w}
        BY <2>1, <2>2
      <3>5. QED
        BY <3>1, <3>2, <3>3, <3>4
    <2>5. QED
      BY <2>3, <2>4
  <1>4. QED
    BY <1>1, <1>2, <1>3, NotifyWakes DEF B!Threads

LEMMA SleepersStep ==
  ASSUME B!BoundedAssumption, B!TypeOK, B!SleepersListed, [B!Next]_(B!vars)
  PROVE  B!SleepersListed'
  <1>0. Pushers \cap Poppers = {}
    BY DEF B!BoundedAssumption
  <1> USE DEF B!TypeOK, B!Threads, B!SleepersListed
  <1>1. ASSUME NEW p \in Pushers, B!put_wait(p) PROVE B!SleepersListed'
    BY <1>0, <1>1 DEF B!put_wait
  <1>2. ASSUME NEW p \in Pushers, B!put(p) PROVE B!SleepersListed'
    BY <1>2, PutWakes
  <1>3. ASSUME NEW p \in Pushers, B!push_count(p) PROVE B!SleepersListed'
    BY <1>0, <1>3 DEF B!push_count
  <1>4. ASSUME NEW p \in Pushers, B!push_test(p) PROVE B!SleepersListed'
    BY <1>0, <1>4 DEF B!push_test
  <1>5. ASSUME NEW c \in Poppers, B!take_wait(c) PROVE B!SleepersListed'
    BY <1>0, <1>5 DEF B!take_wait
  <1>6. ASSUME NEW c \in Poppers, B!take(c) PROVE B!SleepersListed'
    BY <1>6, TakeWakes
  <1>7. ASSUME NEW c \in Poppers, B!pop_count(c) PROVE B!SleepersListed'
    BY <1>0, <1>7 DEF B!pop_count
  <1>8. ASSUME NEW c \in Poppers, B!pop_test(c) PROVE B!SleepersListed'
    BY <1>0, <1>8 DEF B!pop_test
  <1>9. ASSUME NEW t \in B!Threads, B!spurious_wakeup(t) PROVE B!SleepersListed'
    BY <1>0, <1>9 DEF B!spurious_wakeup
  <1>10. CASE UNCHANGED B!vars
    BY <1>10 DEF B!vars
  <1>11. QED
    BY <1>1, <1>2, <1>3, <1>4, <1>5, <1>6, <1>7, <1>8, <1>9, <1>10 DEF B!Next, B!push, B!pop

LEMMA CountInOut ==
  ASSUME NEW S, NEW x, IsFiniteSet(S)
  PROVE  /\ Cardinality(S) \in Nat
         /\ x \notin S => Cardinality(S \cup {x}) = Cardinality(S) + 1
         /\ x \in S => Cardinality(S \ {x}) = Cardinality(S) - 1
  BY FS_CardinalityType, FS_AddElement, FS_RemoveElement, Zenon

LEMMA RunnersFinite ==
  ASSUME B!BoundedAssumption
  PROVE  /\ IsFiniteSet(B!Putting) /\ Cardinality(B!Putting) \in Nat
         /\ IsFiniteSet(B!Taking) /\ Cardinality(B!Taking) \in Nat
  BY SameSets, FS_Subset, FS_CardinalityType DEF B!BoundedAssumption, B!Putting, B!Taking

\* The buffer holds one element more after a put, one less after a take.
LEMMA SizeSteps ==
  ASSUME B!BoundedAssumption, B!TypeOK
  PROVE  /\ \A p \in Pushers : B!put(p) => B!size' = B!size + 1 /\ B!size < capacity_ - 1
         /\ \A c \in Poppers : B!take(c) => B!size' = B!size - 1 /\ B!size > 0
         /\ UNCHANGED B!queue_ => B!size' = B!size
  <1>0. /\ capacity_ \in Nat \ {0} /\ read_pos_ \in 0 .. capacity_ - 1
        /\ write_pos_ \in 0 .. capacity_ - 1
    BY DEF B!BoundedAssumption, B!TypeOK
  <1>1. ASSUME NEW p \in Pushers, B!put(p) PROVE B!size' = B!size + 1 /\ B!size < capacity_ - 1
    <2>1. ~B!full /\ write_pos_' = (write_pos_ + 1) % capacity_ /\ read_pos_' = read_pos_
      BY <1>1 DEF B!put, B!push_back
    <2>2. write_pos_' = IF write_pos_ + 1 = capacity_ THEN 0 ELSE write_pos_ + 1
      BY <1>0, <2>1, Positions
    <2>3. write_pos_' \in 0 .. capacity_ - 1
      BY <1>0, <2>2
    <2>4. B!size' = IF read_pos_ <= write_pos_' THEN write_pos_' - read_pos_
                                              ELSE write_pos_' + capacity_ - read_pos_
      BY <1>0, <2>1, <2>3, Distance, Zenon DEF B!size
    <2>5. QED
      BY <1>0, <2>1, <2>2, <2>4, Positions
  <1>2. ASSUME NEW c \in Poppers, B!take(c) PROVE B!size' = B!size - 1 /\ B!size > 0
    <2>1. ~B!empty /\ read_pos_' = (read_pos_ + 1) % capacity_ /\ write_pos_' = write_pos_
      BY <1>2 DEF B!take
    <2>2. read_pos_' = IF read_pos_ + 1 = capacity_ THEN 0 ELSE read_pos_ + 1
      BY <1>0, <2>1, Positions
    <2>3. read_pos_' \in 0 .. capacity_ - 1
      BY <1>0, <2>2
    <2>4. B!size' = IF read_pos_' <= write_pos_ THEN write_pos_ - read_pos_'
                                              ELSE write_pos_ + capacity_ - read_pos_'
      BY <1>0, <2>1, <2>3, Distance DEF B!size
    <2>5. QED
      BY <1>0, <2>1, <2>2, <2>4, Positions
  <1>3. UNCHANGED B!queue_ => B!size' = B!size
    BY DEF B!queue_, B!size
  <1>4. QED
    BY <1>1, <1>2, <1>3

LEMMA CoveredStep ==
  ASSUME B!BoundedAssumption, B!TypeOK, B!SleepersListed, B!WaitersCovered, [B!Next]_(B!vars)
  PROVE  B!WaitersCovered'
  <1>0. /\ Pushers \cap Poppers = {} /\ B!size \in Nat /\ capacity_ \in Nat
        /\ B!full <=> B!size = capacity_ - 1
        /\ B!empty <=> B!size = 0
    BY Positions DEF B!BoundedAssumption
  <1>a. /\ Cardinality(B!Putting) \in Nat /\ Cardinality(B!Taking) \in Nat
        /\ notFull_ # {} => capacity_ - 1 - B!size <= Cardinality(B!Putting)
        /\ notEmpty_ # {} => B!size <= Cardinality(B!Taking)
    BY RunnersFinite, SameSets DEF B!WaitersCovered
  \* Some of those who are going to put or to take are added, and nothing else changes.
  <1>b. ASSUME B!size' = B!size, notFull_' \subseteq notFull_, notEmpty_' \subseteq notEmpty_,
               \/ B!Putting' = B!Putting
               \/ \E t : t \notin B!Putting /\ B!Putting' = B!Putting \cup {t},
               \/ B!Taking' = B!Taking
               \/ \E t : t \notin B!Taking /\ B!Taking' = B!Taking \cup {t}
        PROVE  B!WaitersCovered'
    <2>1. Cardinality(B!Putting') = Cardinality(B!Putting)
          \/ Cardinality(B!Putting') = Cardinality(B!Putting) + 1
      BY <1>b, RunnersFinite, CountInOut
    <2>2. Cardinality(B!Taking') = Cardinality(B!Taking)
          \/ Cardinality(B!Taking') = Cardinality(B!Taking) + 1
      BY <1>b, RunnersFinite, CountInOut
    <2>3. notFull_' # {} => capacity_ - 1 - B!size' <= Cardinality(B!Putting')
      BY <1>0, <1>a, <1>b, <2>1
    <2>4. notEmpty_' # {} => B!size' <= Cardinality(B!Taking')
      BY <1>0, <1>a, <1>b, <2>2
    <2>5. QED
      BY <2>3, <2>4, SameSets DEF B!WaitersCovered
  <1> USE DEF B!Threads
  <1>1. ASSUME NEW p \in Pushers, B!put_wait(p) PROVE B!WaitersCovered'
    <2>1. B!size' = B!size /\ B!size = capacity_ - 1 /\ notEmpty_' = notEmpty_
      BY <1>0, <1>1, SizeSteps DEF B!put_wait
    <2>2. p \in B!Putting /\ B!Putting' = B!Putting \ {p} /\ B!Taking' = B!Taking
      BY <1>0, <1>1 DEF B!put_wait, B!Putting, B!Taking, B!TypeOK
    <2>3. Cardinality(B!Putting') \in Nat
      BY <2>2, RunnersFinite, FS_RemoveElement, FS_CardinalityType
    <2>4. capacity_ - 1 - B!size' <= Cardinality(B!Putting')
      BY <1>0, <2>1, <2>3
    <2>5. notEmpty_' # {} => B!size' <= Cardinality(B!Taking')
      BY <1>a, <2>1, <2>2
    <2>6. QED
      BY <2>4, <2>5, SameSets DEF B!WaitersCovered
  <1>2. ASSUME NEW p \in Pushers, B!put(p) PROVE B!WaitersCovered'
    <2>1. B!size' = B!size + 1
      BY <1>2, SizeSteps
    <2>2. Cardinality(B!Putting') = Cardinality(B!Putting) - 1 /\ notFull_' = notFull_
      BY <1>2, PutWakes, RunnersFinite, CountInOut
    <2>3. notFull_' # {} => capacity_ - 1 - B!size' <= Cardinality(B!Putting')
      BY <1>0, <1>a, <2>1, <2>2
    <2>4. notEmpty_' # {} => /\ notEmpty_ # {}
                             /\ Cardinality(B!Taking') = Cardinality(B!Taking) + 1
      <3>1. \/ notEmpty_' = {}
            \/ \E w : w \notin B!Taking /\ B!Taking' = B!Taking \cup {w}
        BY <1>2, PutWakes
      <3>2. notEmpty_' \subseteq notEmpty_
        BY <1>2 DEF B!put
      <3>3. QED
        BY <3>1, <3>2, RunnersFinite, CountInOut
    <2>5. notEmpty_' # {} => B!size' <= Cardinality(B!Taking')
      BY <1>0, <1>a, <2>1, <2>4
    <2>6. QED
      BY <2>3, <2>5, SameSets DEF B!WaitersCovered
  <1>3. ASSUME NEW p \in Pushers, B!push_count(p) PROVE B!WaitersCovered'
    <2>1. B!Putting' = B!Putting /\ B!Taking' = B!Taking
      BY <1>0, <1>3 DEF B!push_count, B!Putting, B!Taking, B!TypeOK
    <2>2. QED
      BY <1>3, <1>b, <2>1, SizeSteps DEF B!push_count
  <1>4. ASSUME NEW p \in Pushers, B!push_test(p) PROVE B!WaitersCovered'
    <2>1. /\ B!Putting' = B!Putting \/ (p \notin B!Putting /\ B!Putting' = B!Putting \cup {p})
          /\ B!Taking' = B!Taking
      BY <1>0, <1>4 DEF B!push_test, B!Putting, B!Taking, B!TypeOK
    <2>2. QED
      BY <1>4, <1>b, <2>1, SizeSteps DEF B!push_test
  <1>5. ASSUME NEW c \in Poppers, B!take_wait(c) PROVE B!WaitersCovered'
    <2>1. B!size' = B!size /\ B!size = 0 /\ notFull_' = notFull_
      BY <1>0, <1>5, SizeSteps DEF B!take_wait
    <2>2. c \in B!Taking /\ B!Taking' = B!Taking \ {c} /\ B!Putting' = B!Putting
      BY <1>0, <1>5 DEF B!take_wait, B!Putting, B!Taking, B!TypeOK
    <2>3. Cardinality(B!Taking') \in Nat
      BY <2>2, RunnersFinite, FS_RemoveElement, FS_CardinalityType
    <2>4. B!size' <= Cardinality(B!Taking')
      BY <1>0, <2>1, <2>3
    <2>5. notFull_' # {} => capacity_ - 1 - B!size' <= Cardinality(B!Putting')
      BY <1>a, <2>1, <2>2
    <2>6. QED
      BY <2>4, <2>5, SameSets DEF B!WaitersCovered
  <1>6. ASSUME NEW c \in Poppers, B!take(c) PROVE B!WaitersCovered'
    <2>1. B!size' = B!size - 1
      BY <1>6, SizeSteps
    <2>2. Cardinality(B!Taking') = Cardinality(B!Taking) - 1 /\ notEmpty_' = notEmpty_
      BY <1>6, TakeWakes, RunnersFinite, CountInOut
    <2>3. notEmpty_' # {} => B!size' <= Cardinality(B!Taking')
      BY <1>0, <1>a, <2>1, <2>2
    <2>4. notFull_' # {} => /\ notFull_ # {}
                            /\ Cardinality(B!Putting') = Cardinality(B!Putting) + 1
      <3>1. \/ notFull_' = {}
            \/ \E w : w \notin B!Putting /\ B!Putting' = B!Putting \cup {w}
        BY <1>6, TakeWakes
      <3>2. notFull_' \subseteq notFull_
        BY <1>6 DEF B!take
      <3>3. QED
        BY <3>1, <3>2, RunnersFinite, CountInOut
    <2>5. notFull_' # {} => capacity_ - 1 - B!size' <= Cardinality(B!Putting')
      BY <1>0, <1>a, <2>1, <2>4
    <2>6. QED
      BY <2>3, <2>5, SameSets DEF B!WaitersCovered
  <1>7. ASSUME NEW c \in Poppers, B!pop_count(c) PROVE B!WaitersCovered'
    <2>1. B!Putting' = B!Putting /\ B!Taking' = B!Taking
      BY <1>0, <1>7 DEF B!pop_count, B!Putting, B!Taking, B!TypeOK
    <2>2. QED
      BY <1>7, <1>b, <2>1, SizeSteps DEF B!pop_count
  <1>8. ASSUME NEW c \in Poppers, B!pop_test(c) PROVE B!WaitersCovered'
    <2>1. /\ B!Taking' = B!Taking \/ (c \notin B!Taking /\ B!Taking' = B!Taking \cup {c})
          /\ B!Putting' = B!Putting
      BY <1>0, <1>8 DEF B!pop_test, B!Putting, B!Taking, B!TypeOK
    <2>2. QED
      BY <1>8, <1>b, <2>1, SizeSteps DEF B!pop_test
  <1>9. ASSUME NEW t \in B!Threads, B!spurious_wakeup(t) PROVE B!WaitersCovered'
    <2>1. /\ B!Putting' = B!Putting \/ (t \notin B!Putting /\ B!Putting' = B!Putting \cup {t})
          /\ B!Taking' = B!Taking \/ (t \notin B!Taking /\ B!Taking' = B!Taking \cup {t})
      BY <1>0, <1>9 DEF B!spurious_wakeup, B!Putting, B!Taking, B!TypeOK
    <2>2. QED
      BY <1>9, <1>b, <2>1, SizeSteps DEF B!spurious_wakeup
  <1>10. CASE UNCHANGED B!vars
    <2>1. B!Putting' = B!Putting /\ B!Taking' = B!Taking /\ UNCHANGED <<B!queue_, notFull_, notEmpty_>>
      BY <1>10 DEF B!vars, B!Putting, B!Taking, B!queue_
    <2>2. QED
      BY <1>b, <2>1, SizeSteps
  <1>11. QED
    BY <1>1, <1>2, <1>3, <1>4, <1>5, <1>6, <1>7, <1>8, <1>9, <1>10 DEF B!Next, B!push, B!pop

LEMMA OutStep ==
  ASSUME B!BoundedAssumption, B!TypeOK, B!SleepersListed, B!OutCounted, [B!Next]_(B!vars)
  PROVE  B!OutCounted'
  <1>0. Pushers \cap Poppers = {}
    BY DEF B!BoundedAssumption
  <1> USE DEF B!TypeOK, B!Threads, B!OutCounted
  <1>1. ASSUME NEW p \in Pushers, B!put_wait(p) PROVE B!OutCounted'
    BY <1>0, <1>1 DEF B!put_wait
  <1>2. ASSUME NEW p \in Pushers, B!put(p) PROVE B!OutCounted'
    <2>1. \A w \in notEmpty_ : w \in Poppers /\ bpc[w] = "waiting"
      BY DEF B!SleepersListed
    <2>2. \A c \in Poppers : bpc[c] # "popped" => bpc'[c] # "popped"
      BY <1>0, <1>2, <2>1 DEF B!put, B!Notify
    <2>3. \A c \in Poppers : bpc'[c] # "popped" => bpc[c] # "popped"
      BY <1>0, <1>2, <2>1 DEF B!put, B!Notify
    <2>4. QED
      BY <1>2, <2>3 DEF B!put
  <1>3. ASSUME NEW p \in Pushers, B!push_count(p) PROVE B!OutCounted'
    BY <1>0, <1>3 DEF B!push_count
  <1>4. ASSUME NEW p \in Pushers, B!push_test(p) PROVE B!OutCounted'
    BY <1>0, <1>4 DEF B!push_test
  <1>5. ASSUME NEW c \in Poppers, B!take_wait(c) PROVE B!OutCounted'
    BY <1>0, <1>5 DEF B!take_wait
  <1>6. ASSUME NEW c \in Poppers, B!take(c) PROVE B!OutCounted'
    <2>1. \A w \in notFull_ : w \in Pushers /\ bpc[w] = "waiting"
      BY DEF B!SleepersListed
    <2>2. bpc'[c] = "popped" /\ \A d \in Poppers : d # c => bpc'[d] = bpc[d] /\ out'[d] = out[d]
      BY <1>0, <1>6, <2>1 DEF B!take, B!Notify
    <2>3. QED
      BY <2>2
  <1>7. ASSUME NEW c \in Poppers, B!pop_count(c) PROVE B!OutCounted'
    BY <1>0, <1>7 DEF B!pop_count
  <1>8. ASSUME NEW c \in Poppers, B!pop_test(c) PROVE B!OutCounted'
    BY <1>0, <1>8 DEF B!pop_test
  <1>9. ASSUME NEW t \in B!Threads, B!spurious_wakeup(t) PROVE B!OutCounted'
    BY <1>0, <1>9 DEF B!spurious_wakeup
  <1>10. CASE UNCHANGED B!vars
    BY <1>10 DEF B!vars
  <1>11. QED
    BY <1>1, <1>2, <1>3, <1>4, <1>5, <1>6, <1>7, <1>8, <1>9, <1>10 DEF B!Next, B!push, B!pop

LEMMA BoundedInit == ASSUME B!BoundedAssumption, B!Init PROVE B!BoundedInv
  <1>1. B!TypeOK
    BY DEF B!Init, B!TypeOK, B!BoundedAssumption, B!Threads, B!PushPC, B!PopPC
  <1>2. B!SleepersListed /\ B!OutCounted /\ B!WaitersCovered
    BY DEF B!Init, B!SleepersListed, B!OutCounted, B!WaitersCovered, B!BoundedAssumption, B!Threads
  <1>3. QED
    BY <1>1, <1>2 DEF B!BoundedInv

\* Everybody who sleeps in put or take is listed with the condition waited for, and every
\* element and every free place has a thread that is going to use it while one sleeps.
THEOREM BoundedInvCorrect == ASSUME B!BoundedAssumption PROVE B!Spec => []B!BoundedInv
  <1>1. B!Init => B!BoundedInv
    BY BoundedInit
  <1>2. B!BoundedInv /\ [B!Next]_(B!vars) => B!BoundedInv'
    BY BoundedTypeStep, SleepersStep, OutStep, CoveredStep DEF B!BoundedInv
  <1>3. QED
    BY <1>1, <1>2, PTL DEF B!Spec

\* Any number of threads, any capacity, and whatever wake-ups come without a reason: one
\* notify for each put and each take is enough. While a push waits for room, every free
\* slot has a push that is going to fill it; while a pop waits for an element, every element
\* has a pop that is going to take it.
THEOREM WakeupsSuffice == ASSUME B!BoundedAssumption PROVE B!Spec => []B!WaitersCovered
  <1>1. B!BoundedInv => B!WaitersCovered
    BY DEF B!BoundedInv
  <1>2. QED
    BY <1>1, BoundedInvCorrect, PTL

(***************************************************************************)
(* The buffer is a FIFO                                                    *)
(***************************************************************************)
Content == [k \in 1 .. B!size |-> buffer_[(read_pos_ + k - 1) % capacity_]]

ContentRead ==
  /\ Content \in Seq(Pushers \cup {Junk}) /\ Len(Content) = B!size /\ B!size \in Nat
  /\ \A k \in 1 .. B!size : Content[k] = buffer_[(read_pos_ + k - 1) % capacity_]

LEMMA ContentType ==
  ASSUME B!BoundedAssumption, B!TypeOK
  PROVE  ContentRead
  <1>1. B!size \in 0 .. capacity_ - 1 /\ capacity_ \in Nat /\ read_pos_ \in 0 .. capacity_ - 1
    BY Positions DEF B!TypeOK
  <1>2. \A k \in 1 .. B!size : (read_pos_ + k - 1) % capacity_ \in 0 .. capacity_ - 1
    <2> SUFFICES ASSUME NEW k \in 1 .. B!size
                 PROVE  (read_pos_ + k - 1) % capacity_ \in 0 .. capacity_ - 1
      OBVIOUS
    <2>1. k \in 1 .. capacity_
      BY <1>1
    <2>2. QED
      BY <1>1, <2>1, Cells
  <1>3. \A k \in 1 .. B!size : buffer_[(read_pos_ + k - 1) % capacity_] \in Pushers \cup {Junk}
    BY <1>2 DEF B!TypeOK
  <1>4. B!size \in Nat
    BY <1>1
  <1>5. QED
    BY <1>3, <1>4, IsASeq DEF Content, ContentRead

LEMMA FifoStep ==
  ASSUME B!BoundedAssumption, B!TypeOK, B!SleepersListed, B!OutCounted, ContentRead, ContentRead',
         [B!Next]_(B!vars)
  PROVE  [B!Fifo!Next]_(B!Fifo!vars)
  <1>0. /\ capacity_ \in Nat \ {0} /\ B!size \in 0 .. capacity_ - 1
        /\ read_pos_ \in 0 .. capacity_ - 1 /\ write_pos_ \in 0 .. capacity_ - 1
        /\ buffer_ \in [0 .. capacity_ - 1 -> Pushers \cup {Junk}]
        /\ B!size = IF read_pos_ <= write_pos_ THEN write_pos_ - read_pos_
                                             ELSE write_pos_ + capacity_ - read_pos_
    BY Positions DEF B!BoundedAssumption, B!TypeOK
  <1>a. ASSUME UNCHANGED <<B!queue_, out>> PROVE [B!Fifo!Next]_(B!Fifo!vars)
    <2>1. B!size' = B!size /\ buffer_' = buffer_ /\ read_pos_' = read_pos_
      BY <1>a, SizeSteps DEF B!queue_
    <2>2. Content' = Content
      BY <2>1 DEF Content
    <2>3. QED
      BY <1>a, <2>2 DEF B!Fifo!vars, Content
  <1>1. ASSUME NEW p \in Pushers, B!put_wait(p) PROVE [B!Fifo!Next]_(B!Fifo!vars)
    BY <1>1, <1>a DEF B!put_wait
  <1>2. ASSUME NEW p \in Pushers, B!put(p) PROVE [B!Fifo!Next]_(B!Fifo!vars)
    <2> DEFINE n == B!size
    <2>1. /\ buffer_' = [buffer_ EXCEPT ![write_pos_] = p] /\ read_pos_' = read_pos_
          /\ out' = out /\ B!size' = n + 1 /\ n < capacity_ - 1
      BY <1>2, SizeSteps, Zenon DEF B!put, B!push_back
    <2>2. /\ Content \in Seq(Pushers \cup {Junk}) /\ Len(Content) = n /\ n \in Nat
          /\ \A k \in 1 .. n : Content[k] = buffer_[(read_pos_ + k - 1) % capacity_]
      BY DEF ContentRead
    <2>3. /\ Content' \in Seq(Pushers \cup {Junk}) /\ Len(Content') = n + 1
          /\ \A k \in 1 .. n + 1 : Content'[k] = buffer_'[(read_pos_ + k - 1) % capacity_]
      BY <2>1 DEF ContentRead
    <2>4. ASSUME NEW k \in 1 .. n PROVE Content'[k] = Content[k]
      <3>1. k \in 1 .. capacity_ /\ k \in 1 .. n + 1
        BY <1>0, <2>2
      <3>2. (read_pos_ + k - 1) % capacity_ = IF read_pos_ + k - 1 < capacity_
                                              THEN read_pos_ + k - 1
                                              ELSE read_pos_ + k - 1 - capacity_
        BY <1>0, <3>1, Cells
      <3> DEFINE i == (read_pos_ + k - 1) % capacity_
      <3>3. i \in 0 .. capacity_ - 1 /\ i # write_pos_
        BY <1>0, <3>1, <3>2
      <3>4. Content'[k] = buffer_'[i] /\ Content[k] = buffer_[i]
        BY <2>2, <2>3, <3>1
      <3> HIDE DEF i, n
      <3>5. QED
        BY <1>0, <2>1, <3>3, <3>4
    <2>5. Content'[n + 1] = p
      <3>1. n + 1 \in 1 .. capacity_ /\ n + 1 \in 1 .. n + 1
        BY <1>0, <2>1, <2>2
      <3>2. (read_pos_ + (n + 1) - 1) % capacity_ = IF read_pos_ + (n + 1) - 1 < capacity_
                                                    THEN read_pos_ + (n + 1) - 1
                                                    ELSE read_pos_ + (n + 1) - 1 - capacity_
        BY <1>0, <3>1, Cells
      <3> DEFINE i == (read_pos_ + (n + 1) - 1) % capacity_
      <3>3. i = write_pos_
        BY <1>0, <3>2
      <3>4. Content'[n + 1] = buffer_'[i]
        BY <2>3, <3>1
      <3> HIDE DEF i, n
      <3>5. QED
        BY <1>0, <2>1, <3>3, <3>4
    <2> HIDE DEF n
    <2>6. /\ Append(Content, p) \in Seq(Pushers \cup {Junk})
          /\ Len(Append(Content, p)) = n + 1
          /\ \A k \in 1 .. n : Append(Content, p)[k] = Content[k]
          /\ Append(Content, p)[n + 1] = p
      BY <2>2, AppendProperties
    <2>7. Content' = Append(Content, p)
      <3>1. \A k \in 1 .. n + 1 : Content'[k] = Append(Content, p)[k]
        BY <2>2, <2>4, <2>5, <2>6
      <3>2. QED
        BY <2>3, <2>6, <3>1, SeqEqual
    <2>8. Len(Content) < capacity_ - 1
      BY <2>1, <2>2
    <2>9. B!Fifo!Push(p)
      BY <2>1, <2>7, <2>8, Zenon DEF B!Fifo!Push, Content
    <2>10. QED
      BY <2>9 DEF B!Fifo!Next
  <1>3. ASSUME NEW p \in Pushers, B!push_count(p) PROVE [B!Fifo!Next]_(B!Fifo!vars)
    BY <1>3, <1>a DEF B!push_count
  <1>4. ASSUME NEW p \in Pushers, B!push_test(p) PROVE [B!Fifo!Next]_(B!Fifo!vars)
    BY <1>4, <1>a DEF B!push_test
  <1>5. ASSUME NEW c \in Poppers, B!take_wait(c) PROVE [B!Fifo!Next]_(B!Fifo!vars)
    BY <1>5, <1>a DEF B!take_wait
  <1>6. ASSUME NEW c \in Poppers, B!take(c) PROVE [B!Fifo!Next]_(B!Fifo!vars)
    <2> DEFINE n == B!size
               r == read_pos_'
    <2>1. /\ buffer_' = buffer_ /\ r = (read_pos_ + 1) % capacity_
          /\ out' = [out EXCEPT ![c] = buffer_[read_pos_]] /\ out[c] = Junk
          /\ B!size' = n - 1 /\ n > 0
      BY <1>6, SizeSteps, Zenon DEF B!take, B!OutCounted
    <2>2. /\ Content \in Seq(Pushers \cup {Junk}) /\ Len(Content) = n /\ n \in Nat \ {0}
          /\ \A k \in 1 .. n : Content[k] = buffer_[(read_pos_ + k - 1) % capacity_]
      BY <2>1 DEF ContentRead
    <2>3. /\ Content' \in Seq(Pushers \cup {Junk}) /\ Len(Content') = n - 1
          /\ \A k \in 1 .. n - 1 : Content'[k] = buffer_[(r + k - 1) % capacity_]
      BY <2>1 DEF ContentRead
    <2>4. r = IF read_pos_ + 1 = capacity_ THEN 0 ELSE read_pos_ + 1
      BY <1>0, <2>1, Positions
    <2>5. r \in 0 .. capacity_ - 1
      BY <1>0, <2>4
    <2> HIDE DEF r
    <2>6. ASSUME NEW k \in 1 .. n - 1 PROVE Content'[k] = Content[k + 1]
      <3>1. k \in 1 .. capacity_ /\ k + 1 \in 1 .. capacity_ /\ k + 1 \in 1 .. n
        BY <1>0, <2>2
      <3>2. (r + k - 1) % capacity_ = IF r + k - 1 < capacity_ THEN r + k - 1
                                                               ELSE r + k - 1 - capacity_
        BY <2>5, <3>1, Cells
      <3>3. (read_pos_ + (k + 1) - 1) % capacity_
               = IF read_pos_ + (k + 1) - 1 < capacity_ THEN read_pos_ + (k + 1) - 1
                                                        ELSE read_pos_ + (k + 1) - 1 - capacity_
        BY <1>0, <3>1, Cells
      <3>4. (r + k - 1) % capacity_ = (read_pos_ + (k + 1) - 1) % capacity_
        BY <1>0, <2>4, <3>1, <3>2, <3>3
      <3>5. QED
        BY <2>2, <2>3, <3>1, <3>4, Zenon
    <2>7. Content[1] = buffer_[read_pos_]
      <3>1. 1 \in 1 .. capacity_ /\ 1 \in 1 .. n /\ read_pos_ + 1 - 1 = read_pos_
        BY <1>0, <2>2
      <3>2. (read_pos_ + 1 - 1) % capacity_ = read_pos_
        BY <1>0, <3>1
      <3>3. QED
        BY <2>2, <3>1, <3>2
    <2> HIDE DEF n
    <2>8. Content # << >> /\ Head(Content) = buffer_[read_pos_]
      BY <2>2, <2>7, EmptySeq
    <2>9. /\ Tail(Content) \in Seq(Pushers \cup {Junk}) /\ Len(Tail(Content)) = n - 1
          /\ \A k \in 1 .. n - 1 : Tail(Content)[k] = Content[k + 1]
      BY <2>2, <2>8, HeadTailProperties
    <2>10. Content' = Tail(Content)
      BY <2>3, <2>6, <2>9, SeqEqual
    <2>11. B!Fifo!Pop(c)
      BY <2>1, <2>8, <2>10, Zenon DEF B!Fifo!Pop, Content
    <2>12. QED
      BY <2>11 DEF B!Fifo!Next
  <1>7. ASSUME NEW c \in Poppers, B!pop_count(c) PROVE [B!Fifo!Next]_(B!Fifo!vars)
    <2>1. B!size' = B!size /\ buffer_' = buffer_ /\ read_pos_' = read_pos_
          /\ out' = [out EXCEPT ![c] = Junk]
      BY <1>7, SizeSteps DEF B!pop_count, B!queue_
    <2>2. Content' = Content
      BY <2>1 DEF Content
    <2>3. B!Fifo!Call(c)
      BY <2>1, <2>2 DEF B!Fifo!Call, Content
    <2>4. QED
      BY <2>3 DEF B!Fifo!Next
  <1>8. ASSUME NEW c \in Poppers, B!pop_test(c) PROVE [B!Fifo!Next]_(B!Fifo!vars)
    BY <1>8, <1>a DEF B!pop_test
  <1>9. ASSUME NEW t \in B!Threads, B!spurious_wakeup(t) PROVE [B!Fifo!Next]_(B!Fifo!vars)
    BY <1>9, <1>a DEF B!spurious_wakeup
  <1>10. CASE UNCHANGED B!vars
    BY <1>10, <1>a DEF B!vars, B!queue_
  <1>11. QED
    BY <1>1, <1>2, <1>3, <1>4, <1>5, <1>6, <1>7, <1>8, <1>9, <1>10 DEF B!Next, B!push, B!pop

\* put and take of a buffer of any capacity, by any number of threads, are the pushes and
\* pops of a FIFO of capacity_ - 1 elements: none is lost, doubled, overtaken or
\* overwritten where the positions wrap.
THEOREM BufferIsFifo == ASSUME B!BoundedAssumption PROVE B!Spec => B!BoundedIsFifo
  <1>1. B!Init => B!Fifo!Init
    <2> SUFFICES ASSUME B!Init PROVE B!Fifo!Init
      OBVIOUS
    <2>1. B!size = 0 /\ B!TypeOK
      BY BoundedInit, Positions DEF B!BoundedInv, B!Init
    <2>2. Content = << >>
      BY <2>1, ContentType, EmptySeq DEF ContentRead
    <2>3. QED
      BY <2>2 DEF B!Init, B!Fifo!Init, Content
  <1>2. B!BoundedInv /\ ContentRead /\ ContentRead' /\ [B!Next]_(B!vars) => [B!Fifo!Next]_(B!Fifo!vars)
    BY FifoStep DEF B!BoundedInv
  <1>3. B!BoundedInv => ContentRead
    BY ContentType DEF B!BoundedInv
  <1>4. QED
    BY <1>1, <1>2, <1>3, BoundedInvCorrect, PTL DEF B!Spec, B!BoundedIsFifo, B!Fifo!Spec
=============================================================================
