---------------------------- MODULE PcQueueProofs ----------------------------
(***************************************************************************)
(* Proofs about the ring with a semaphore, for any number of producers and *)
(* consumers, any capacity, and whatever ring_pop and pthread_create do.   *)
(*                                                                         *)
(* A producer pushes and then posts, so the elements of the ring cover the *)
(* permits, those in the hands of consumers and those still owed           *)
(* (PermitsOwed).  That no block is lost or freed twice needs to know that *)
(* blocks in different places are different (BlocksApart); a count alone   *)
(* does not say which block a thread frees.                                *)
(***************************************************************************)
EXTENDS PcQueue, SequenceTheorems, FiniteSetTheorems, TLAPS

LEMMA CountOne ==
  ASSUME NEW S, IsFiniteSet(S), NEW x
  PROVE  /\ Cardinality(S) \in Nat
         /\ IsFiniteSet(S \cup {x}) /\ IsFiniteSet(S \ {x})
         /\ x \notin S => Cardinality(S \cup {x}) = Cardinality(S) + 1
         /\ x \in S => Cardinality(S \ {x}) = Cardinality(S) - 1
  BY FS_CardinalityType, FS_AddElement, FS_RemoveElement

LEMMA RangeOfAppend ==
  ASSUME NEW S, NEW s \in Seq(S), NEW x \in S
  PROVE  Range(Append(s, x)) = Range(s) \cup {x}
  <1>1. /\ DOMAIN Append(s, x) = 1 .. Len(s) + 1 /\ DOMAIN s = 1 .. Len(s) /\ Len(s) \in Nat
        /\ \A i \in 1 .. Len(s) : Append(s, x)[i] = s[i]
        /\ Append(s, x)[Len(s) + 1] = x
    BY AppendProperties, LenProperties
  <1>2. 1 .. Len(s) + 1 = (1 .. Len(s)) \cup {Len(s) + 1}
    BY <1>1
  <1>3. QED
    BY <1>1, <1>2 DEF Range

LEMMA TailOf ==
  ASSUME NEW S, NEW s \in Seq(S), s # << >>
  PROVE  /\ Len(s) \in Nat /\ Len(s) > 0 /\ DOMAIN s = 1 .. Len(s)
         /\ Head(s) = s[1] /\ Head(s) \in S
         /\ Tail(s) \in Seq(S) /\ Len(Tail(s)) = Len(s) - 1 /\ DOMAIN Tail(s) = 1 .. Len(s) - 1
         /\ \A i \in 1 .. Len(s) - 1 : Tail(s)[i] = s[i + 1]
  BY HeadTailProperties, LenProperties, EmptySeq

\* An element that is nowhere else in the sequence is gone when it is popped.
LEMMA RangeOfTail ==
  ASSUME NEW S, NEW s \in Seq(S), s # << >>,
         \A i, j \in DOMAIN s : s[i] = s[j] => i = j
  PROVE  Range(Tail(s)) = Range(s) \ {Head(s)}
  <1>1. ASSUME NEW b \in Range(Tail(s)) PROVE b \in Range(s) \ {Head(s)}
    <2>1. PICK i \in 1 .. Len(s) - 1 : b = s[i + 1]
      BY TailOf DEF Range
    <2>2. i + 1 \in 1 .. Len(s) /\ i + 1 # 1 /\ 1 \in 1 .. Len(s)
      BY TailOf
    <2>3. QED
      BY <2>1, <2>2, TailOf DEF Range
  <1>2. ASSUME NEW b \in Range(s), b # Head(s) PROVE b \in Range(Tail(s))
    <2>1. PICK i \in 1 .. Len(s) : b = s[i]
      BY TailOf DEF Range
    <2>2. i # 1 /\ Len(s) \in Nat
      BY <1>2, <2>1, TailOf
    <2>3. i - 1 \in 1 .. Len(s) - 1 /\ (i - 1) + 1 = i
      BY <2>2
    <2>4. PICK j \in 1 .. Len(s) - 1 : i = j + 1
      BY <2>3
    <2>5. b = Tail(s)[j] /\ j \in DOMAIN Tail(s)
      BY <2>1, <2>4, TailOf
    <2>6. QED
      BY <2>5, Zenon DEF Range
  <1>3. QED
    BY <1>1, <1>2

(***************************************************************************)
(* Types                                                                   *)
(***************************************************************************)
LEMMA TypeStep ==
  ASSUME PcQueueAssumption, TypeOK, [Next]_vars
  PROVE  TypeOK'
  <1> USE DEF TypeOK, Threads, At, Holders
  <1>0. Producers \cap Consumers = {}
    BY DEF PcQueueAssumption
  <1>1. ASSUME NEW t \in Threads, generate_thread(t) PROVE TypeOK'
    BY <1>1 DEF generate_thread, ToMake
  <1>2. CASE generate_thread_fails
    BY <1>2 DEF generate_thread_fails
  <1>3. CASE main_next
    BY <1>3 DEF main_next
  <1>4. ASSUME NEW p \in Producers, producer_alloc(p) PROVE TypeOK'
    <2>1. <<p, th[p].idx>> \in Blocks
      BY DEF Blocks
    <2>2. CASE /\ live' = live \cup {<<p, th[p].idx>>}
               /\ th' = [th EXCEPT ![p].pc = "push", ![p].ptr = <<p, th[p].idx>>]
      <3> DEFINE b == <<p, th[p].idx>>
      <3> HIDE DEF b
      <3>1. /\ live' = live \cup {b} /\ b \in Blocks
            /\ th' = [th EXCEPT ![p].pc = "push", ![p].ptr = b]
        BY <2>1, <2>2 DEF b
      <3>2. QED
        BY <1>0, <1>4, <3>1 DEF producer_alloc
    <2>3. CASE live' = live /\ th' = [th EXCEPT ![p].pc = "exit"]
      BY <1>0, <1>4, <2>3 DEF producer_alloc
    <2>4. QED
      BY <1>4, <2>2, <2>3 DEF producer_alloc
  <1>5. ASSUME NEW p \in Producers, pc_queue_push(p) PROVE TypeOK'
    <2>1. th[p].ptr \in Blocks
      BY <1>5 DEF pc_queue_push
    <2>2. ring' \in Seq(Blocks)
      BY <1>5, <2>1 DEF pc_queue_push
    <2>3. QED
      BY <1>0, <1>5, <2>2 DEF pc_queue_push
  <1>6. ASSUME NEW p \in Producers, pc_queue_post(p) PROVE TypeOK'
    BY <1>0, <1>6 DEF pc_queue_post
  <1>7. ASSUME NEW c \in Consumers, pc_queue_wait(c) PROVE TypeOK'
    BY <1>0, <1>7 DEF pc_queue_wait
  <1>8. ASSUME NEW c \in Consumers, pc_queue_pop(c) PROVE TypeOK'
    <2>1. CASE ring # << >> /\ ring' = Tail(ring)
               /\ th' = [th EXCEPT ![c].pc = "free", ![c].ptr = Head(ring)]
      <3>1. Head(ring) \in Blocks /\ ring' \in Seq(Blocks)
        BY <2>1, TailOf
      <3>2. QED
        BY <1>0, <1>8, <2>1, <3>1 DEF pc_queue_pop
    <2>2. CASE ring' = ring /\ th' = [th EXCEPT ![c].pc = "top"]
      BY <1>0, <1>8, <2>2 DEF pc_queue_pop
    <2>3. QED
      BY <1>8, <2>1, <2>2, Zenon DEF pc_queue_pop
  <1>9. ASSUME NEW c \in Consumers, consumer_free(c) PROVE TypeOK'
    BY <1>0, <1>9 DEF consumer_free
  <1>10. CASE UNCHANGED vars
    BY <1>10 DEF vars
  <1>11. QED
    BY <1>1, <1>2, <1>3, <1>4, <1>5, <1>6, <1>7, <1>8, <1>9, <1>10 DEF Next, producer, consumer
(***************************************************************************)
(* Counting                                                                *)
(***************************************************************************)
LEMMA Finite ==
  ASSUME PcQueueAssumption
  PROVE  IsFiniteSet(Holders) /\ IsFiniteSet(Popping) /\ IsFiniteSet(Posting)
  <1>1. IsFiniteSet(Threads)
    BY FS_Union, Zenon DEF PcQueueAssumption, Threads
  <1>2. Holders \subseteq Threads /\ Popping \subseteq Threads /\ Posting \subseteq Threads
    BY DEF Holders, Popping, Posting, Threads
  <1>3. QED
    BY <1>1, <1>2, FS_Subset

\* What a step of one thread does to the three sets.
LEMMA Moves ==
  ASSUME TypeOK, TypeOK', NEW t \in Threads, \A u \in Threads : u # t => th'[u] = th[u]
  PROVE  /\ t \in Holders <=> th[t].pc \in {"push", "free"}
         /\ t \in Popping <=> th[t].pc = "pop"
         /\ t \in Posting <=> th[t].pc = "post"
         /\ Holders' = IF th'[t].pc \in {"push", "free"} THEN Holders \cup {t} ELSE Holders \ {t}
         /\ Popping' = IF th'[t].pc = "pop" THEN Popping \cup {t} ELSE Popping \ {t}
         /\ Posting' = IF th'[t].pc = "post" THEN Posting \cup {t} ELSE Posting \ {t}
  <1>1. /\ \A p \in Producers : th[p].pc \notin {"pop", "free"} /\ th'[p].pc \notin {"pop", "free"}
        /\ \A c \in Consumers : th[c].pc \notin {"push", "post"} /\ th'[c].pc \notin {"push", "post"}
    BY DEF TypeOK
  <1>2. /\ Holders = {u \in Threads : th[u].pc \in {"push", "free"}}
        /\ Popping = {u \in Threads : th[u].pc = "pop"}
        /\ Posting = {u \in Threads : th[u].pc = "post"}
    BY <1>1 DEF Holders, Popping, Posting, At, Threads
  <1>3. /\ Holders' = {u \in Threads : th'[u].pc \in {"push", "free"}}
        /\ Popping' = {u \in Threads : th'[u].pc = "pop"}
        /\ Posting' = {u \in Threads : th'[u].pc = "post"}
    BY <1>1 DEF Holders, Popping, Posting, At, Threads
  <1>4. QED
    BY <1>2, <1>3

\* The element is pushed before its permit is posted, and taken after its permit.
LEMMA PermitsStep ==
  ASSUME PcQueueAssumption, TypeOK, TypeOK', PermitsOwed, [Next]_vars
  PROVE  PermitsOwed'
  <1> DEFINE m == Cardinality(Popping)
             n == Cardinality(Posting)
  <1>0. /\ IsFiniteSet(Popping) /\ IsFiniteSet(Posting) /\ m \in Nat /\ n \in Nat
        /\ sem \in Nat /\ Len(ring) \in Nat /\ sem + m + n <= Len(ring) /\ ring \in Seq(Blocks)
        /\ th \in [Threads -> [pc : {"none", "top", "push", "post", "pop", "free", "exit"},
                                idx : Nat, ptr : Blocks \cup {Nil}]]
        /\ Producers \subseteq Threads /\ Consumers \subseteq Threads
    BY Finite, FS_CardinalityType, LenProperties DEF TypeOK, PermitsOwed, Threads
  <1>a. ASSUME UNCHANGED <<ring, sem, Popping, Posting>> PROVE PermitsOwed'
    BY <1>a DEF PermitsOwed
  <1>1. ASSUME NEW t \in Threads, generate_thread(t) PROVE PermitsOwed'
    <2>1. /\ \A u \in Threads : u # t => th'[u] = th[u]
          /\ th[t].pc = "none" /\ th'[t].pc = "top"
      BY <1>0, <1>1 DEF generate_thread, ToMake, At
    <2>2. Popping' = Popping /\ Posting' = Posting
      BY <2>1, Moves
    <2>3. QED
      BY <1>1, <1>a, <2>2 DEF generate_thread
  <1>2. CASE generate_thread_fails
    BY <1>2 DEF generate_thread_fails, PermitsOwed, Popping, Posting, At
  <1>3. CASE main_next
    BY <1>3 DEF main_next, PermitsOwed, Popping, Posting, At
  <1>4. ASSUME NEW p \in Producers, producer_alloc(p) PROVE PermitsOwed'
    <2>1. /\ p \in Threads /\ \A u \in Threads : u # p => th'[u] = th[u]
          /\ th[p].pc = "top" /\ th'[p].pc \in {"push", "exit"}
      BY <1>0, <1>4 DEF producer_alloc, At
    <2>2. Popping' = Popping /\ Posting' = Posting
      BY <2>1, Moves
    <2>3. QED
      BY <1>4, <1>a, <2>2 DEF producer_alloc
  <1>5. ASSUME NEW p \in Producers, pc_queue_push(p) PROVE PermitsOwed'
    <2>1. /\ p \in Threads /\ \A u \in Threads : u # p => th'[u] = th[u]
          /\ th[p].pc = "push" /\ th'[p].pc = "post"
      BY <1>0, <1>5 DEF pc_queue_push, At
    <2>2. Popping' = Popping /\ Posting' = Posting \cup {p} /\ p \notin Posting
      BY <2>1, Moves
    <2>3. Cardinality(Posting') = n + 1 /\ Cardinality(Popping') = m
      BY <1>0, <2>2, CountOne
    <2>4. Len(ring') = Len(ring) + 1 /\ sem' = sem
      BY <1>0, <1>5 DEF pc_queue_push
    <2> HIDE DEF m, n
    <2>5. QED
      BY <1>0, <2>3, <2>4 DEF PermitsOwed
  <1>6. ASSUME NEW p \in Producers, pc_queue_post(p) PROVE PermitsOwed'
    <2>1. /\ p \in Threads /\ \A u \in Threads : u # p => th'[u] = th[u]
          /\ th[p].pc = "post" /\ th'[p].pc = "top"
      BY <1>0, <1>6 DEF pc_queue_post, At
    <2>2. Popping' = Popping /\ Posting' = Posting \ {p} /\ p \in Posting
      BY <2>1, Moves
    <2>3. Cardinality(Posting') = n - 1 /\ Cardinality(Popping') = m
      BY <1>0, <2>2, CountOne
    <2>4. ring' = ring /\ sem' = sem + 1
      BY <1>6 DEF pc_queue_post
    <2> HIDE DEF m, n
    <2>5. QED
      BY <1>0, <2>3, <2>4 DEF PermitsOwed
  <1>7. ASSUME NEW c \in Consumers, pc_queue_wait(c) PROVE PermitsOwed'
    <2>1. /\ c \in Threads /\ \A u \in Threads : u # c => th'[u] = th[u]
          /\ th[c].pc = "top" /\ ring' = ring
          /\ \/ th'[c].pc = "pop" /\ sem > 0 /\ sem' = sem - 1
             \/ th'[c].pc = "exit" /\ sem' = sem
      BY <1>0, <1>7 DEF pc_queue_wait, At
    <2>2. Posting' = Posting
      BY <2>1, Moves
    <2>3. CASE th'[c].pc = "pop" /\ sem > 0 /\ sem' = sem - 1
      <3>1. Popping' = Popping \cup {c} /\ c \notin Popping
        BY <2>1, <2>3, Moves
      <3>2. Cardinality(Posting') = n /\ Cardinality(Popping') = m + 1
        BY <1>0, <2>2, <3>1, CountOne
      <3> HIDE DEF m, n
      <3>3. QED
        BY <1>0, <2>1, <2>3, <3>2 DEF PermitsOwed
    <2>4. CASE th'[c].pc = "exit" /\ sem' = sem
      <3>1. Popping' = Popping
        BY <2>1, <2>4, Moves
      <3>2. QED
        BY <1>a, <2>1, <2>2, <2>4, <3>1
    <2>5. QED
      BY <2>1, <2>3, <2>4
  <1>8. ASSUME NEW c \in Consumers, pc_queue_pop(c) PROVE PermitsOwed'
    <2>1. /\ c \in Threads /\ \A u \in Threads : u # c => th'[u] = th[u]
          /\ th[c].pc = "pop" /\ th'[c].pc # "pop" /\ th'[c].pc # "post" /\ sem' = sem
          /\ ring' = ring \/ (ring # << >> /\ ring' = Tail(ring))
      BY <1>0, <1>8 DEF pc_queue_pop, At
    <2>2. Posting' = Posting /\ Popping' = Popping \ {c} /\ c \in Popping
      BY <2>1, Moves, Zenon
    <2>3. Cardinality(Posting') = n /\ Cardinality(Popping') = m - 1
      BY <1>0, <2>2, CountOne
    <2>4. Len(ring') \in Nat /\ Len(ring') >= Len(ring) - 1
      BY <1>0, <2>1, TailOf
    <2> HIDE DEF m, n
    <2>5. QED
      BY <1>0, <2>1, <2>3, <2>4 DEF PermitsOwed
  <1>9. ASSUME NEW c \in Consumers, consumer_free(c) PROVE PermitsOwed'
    <2>1. /\ c \in Threads /\ \A u \in Threads : u # c => th'[u] = th[u]
          /\ th[c].pc = "free" /\ th'[c].pc = "top"
      BY <1>0, <1>9 DEF consumer_free, At
    <2>2. Popping' = Popping /\ Posting' = Posting
      BY <2>1, Moves
    <2>3. QED
      BY <1>9, <1>a, <2>2 DEF consumer_free
  <1>10. CASE UNCHANGED vars
    BY <1>10 DEF vars, PermitsOwed, Popping, Posting, At
  <1>11. QED
    BY <1>1, <1>2, <1>3, <1>4, <1>5, <1>6, <1>7, <1>8, <1>9, <1>10 DEF Next, producer, consumer

(***************************************************************************)
(* The owners of the blocks                                                *)
(***************************************************************************)
Owned == BlocksOwned /\ BlocksApart /\ IsFiniteSet(live)

\* A thread that holds no block, before and after its step, changes no owner.
LEMMA OwnersKept ==
  ASSUME TypeOK, TypeOK', Owned, UNCHANGED <<ring, live>>,
         NEW t \in Threads, \A u \in Threads : u # t => th'[u] = th[u],
         th[t].pc \notin {"push", "free"}, th'[t].pc \notin {"push", "free"},
         th'[t].idx = IF th[t].pc = "post" THEN th[t].idx + 1 ELSE th[t].idx
  PROVE  Owned'
  <1>1. Holders' = Holders /\ t \notin Holders
    BY Moves
  <1>2. \A u \in Holders : th'[u] = th[u]
    BY <1>1 DEF Holders, Threads
  <1>3. BlocksOwned'
    BY <1>1, <1>2 DEF Owned, BlocksOwned
  <1>4. ASSUME NEW b \in live
        PROVE  \/ b[2] < th'[b[1]].idx
               \/ b[2] = th'[b[1]].idx /\ th'[b[1]].pc \in {"push", "post"}
    <2>1. b[1] \in Threads /\ b[2] \in Nat /\ th[t].idx \in Nat
      BY DEF TypeOK, Blocks, Threads
    <2>2. \/ b[2] < th[b[1]].idx
          \/ b[2] = th[b[1]].idx /\ th[b[1]].pc \in {"push", "post"}
      BY DEF Owned, BlocksApart
    <2>3. QED
      BY <2>1, <2>2
  <1>5. BlocksApart'
    BY <1>1, <1>2, <1>4 DEF Owned, BlocksApart
  <1>6. QED
    BY <1>3, <1>5 DEF Owned

LEMMA OwnedStep ==
  ASSUME PcQueueAssumption, TypeOK, TypeOK', Owned, [Next]_vars
  PROVE  Owned'
  <1>0. /\ ring \in Seq(Blocks) /\ live \subseteq Blocks /\ IsFiniteSet(live)
        /\ IsFiniteSet(Holders) /\ Holders \subseteq Threads
        /\ th \in [Threads -> [pc : {"none", "top", "push", "post", "pop", "free", "exit"},
                                idx : Nat, ptr : Blocks \cup {Nil}]]
        /\ Producers \subseteq Threads /\ Consumers \subseteq Threads
        /\ Len(ring) \in Nat /\ DOMAIN ring = 1 .. Len(ring)
        /\ Cardinality(Holders) \in Nat /\ Cardinality(live) \in Nat
        /\ Cardinality(live) = Len(ring) + Cardinality(Holders)
        /\ live = Range(ring) \cup {th[t].ptr : t \in Holders}
    BY Finite, FS_CardinalityType, LenProperties DEF TypeOK, Threads, Holders, Owned, BlocksOwned
  <1>b. /\ \A i, j \in DOMAIN ring : ring[i] = ring[j] => i = j
        /\ \A s, t \in Holders : th[s].ptr = th[t].ptr => s = t
        /\ \A t \in Holders : \A i \in DOMAIN ring : th[t].ptr # ring[i]
        /\ \A b \in live : \/ b[2] < th[b[1]].idx
                           \/ b[2] = th[b[1]].idx /\ th[b[1]].pc \in {"push", "post"}
    BY DEF Owned, BlocksApart
  <1>c. \A b \in live : b = <<b[1], b[2]>> /\ b[1] \in Producers /\ b[2] \in Nat
    BY <1>0 DEF Blocks
  <1>a. ASSUME UNCHANGED <<ring, live, th>> PROVE Owned'
    BY <1>a DEF Owned, BlocksOwned, BlocksApart, Holders, At
  <1>1. ASSUME NEW t \in Threads, generate_thread(t) PROVE Owned'
    <2>1. /\ t \in Threads /\ \A u \in Threads : u # t => th'[u] = th[u]
          /\ th[t].pc = "none" /\ th'[t].pc = "top" /\ th'[t].idx = th[t].idx
          /\ UNCHANGED <<ring, live>>
      BY <1>0, <1>1 DEF generate_thread, ToMake, At
    <2>2. QED
      BY <2>1, OwnersKept
  <1>2. CASE generate_thread_fails
    BY <1>2, <1>a DEF generate_thread_fails
  <1>3. CASE main_next
    BY <1>3, <1>a DEF main_next
  <1>4. ASSUME NEW p \in Producers, producer_alloc(p) PROVE Owned'
    <2> DEFINE b == <<p, th[p].idx>>
    <2>0. p \in Threads /\ th[p].pc = "top"
      BY <1>0, <1>4 DEF producer_alloc, At
    <2>1. CASE live' = live /\ th' = [th EXCEPT ![p].pc = "exit"]
      <3>1. /\ p \in Threads /\ \A u \in Threads : u # p => th'[u] = th[u]
            /\ th'[p].pc = "exit" /\ th'[p].idx = th[p].idx
            /\ UNCHANGED <<ring, live>>
        BY <1>0, <1>4, <2>0, <2>1 DEF producer_alloc
      <3>2. QED
        BY <2>0, <3>1, OwnersKept
    <2>2. CASE live' = live \cup {b} /\ th' = [th EXCEPT ![p].pc = "push", ![p].ptr = b]
      <3>1. b \notin live /\ b[1] = p /\ b[2] = th[p].idx
        BY <1>b, <1>c, <1>0, <2>0
      <3> HIDE DEF b
      <3>2. /\ p \in Threads /\ \A u \in Threads : u # p => th'[u] = th[u]
            /\ th'[p].pc = "push" /\ th'[p].idx = th[p].idx /\ th'[p].ptr = b
            /\ ring' = ring /\ live' = live \cup {b}
        BY <1>0, <1>4, <2>0, <2>2 DEF producer_alloc
      <3>3. Holders' = Holders \cup {p} /\ p \notin Holders
        BY <2>0, <3>2, Moves
      <3>4. \A u \in Holders : th'[u] = th[u]
        BY <1>0, <3>2, <3>3
      <3>5. /\ Cardinality(live') = Cardinality(live) + 1 /\ IsFiniteSet(live')
            /\ Cardinality(Holders') = Cardinality(Holders) + 1
        BY <1>0, <3>1, <3>2, <3>3, CountOne, Zenon
      <3>6. live' = Range(ring') \cup {th'[t].ptr : t \in Holders'}
        BY <1>0, <3>2, <3>3, <3>4
      <3>7. \A t \in Holders : th[t].ptr # b
        BY <1>0, <3>1
      <3>8. \A i \in DOMAIN ring : ring[i] # b
        BY <1>0, <3>1 DEF Range
      <3>9. /\ \A s, t \in Holders' : th'[s].ptr = th'[t].ptr => s = t
            /\ \A t \in Holders' : \A i \in DOMAIN ring' : th'[t].ptr # ring'[i]
        BY <1>b, <3>2, <3>3, <3>4, <3>7, <3>8
      <3>10. \A d \in live' : \/ d[2] < th'[d[1]].idx
                              \/ d[2] = th'[d[1]].idx /\ th'[d[1]].pc \in {"push", "post"}
        BY <1>b, <1>c, <1>0, <2>0, <3>1, <3>2
      <3>11. QED
        BY <1>0, <1>b, <3>2, <3>5, <3>6, <3>9, <3>10 DEF Owned, BlocksOwned, BlocksApart
    <2>3. QED
      BY <1>4, <2>1, <2>2 DEF producer_alloc

  <1>5. ASSUME NEW p \in Producers, pc_queue_push(p) PROVE Owned'
    <2> DEFINE b == th[p].ptr
               n == Len(ring)
    <2>1. /\ p \in Threads /\ \A u \in Threads : u # p => th'[u] = th[u]
          /\ th[p].pc = "push" /\ th'[p].pc = "post" /\ th'[p].idx = th[p].idx
          /\ ring' = Append(ring, b) /\ live' = live
      BY <1>0, <1>5 DEF pc_queue_push, At
    <2>2. Holders' = Holders \ {p} /\ p \in Holders
      BY <2>1, Moves
    <2>3. b \in Blocks
      BY <2>2 DEF TypeOK
    <2> HIDE DEF b, n
    <2>4. \A u \in Holders' : u \in Holders /\ u # p /\ th'[u] = th[u]
      BY <1>0, <2>1, <2>2
    <2>5. /\ Range(ring') = Range(ring) \cup {b}
          /\ DOMAIN ring' = 1 .. n + 1 /\ Len(ring') = n + 1
          /\ \A i \in 1 .. n : ring'[i] = ring[i]
          /\ ring'[n + 1] = b /\ n \in Nat /\ DOMAIN ring = 1 .. n
      BY <1>0, <2>1, <2>3, RangeOfAppend, AppendProperties, LenProperties DEF n
    <2>6. Cardinality(Holders') = Cardinality(Holders) - 1
      BY <1>0, <2>2, CountOne
    <2>7. \A t \in Holders' : th'[t].ptr # b
      BY <1>b, <2>2, <2>4 DEF b
    <2>8. live' = Range(ring') \cup {th'[t].ptr : t \in Holders'}
      <3>1. {th[t].ptr : t \in Holders} = {th'[t].ptr : t \in Holders'} \cup {b}
        BY <2>2, <2>4 DEF b
      <3>2. QED
        BY <1>0, <2>1, <2>5, <3>1, Zenon
    <2>9. \A i \in 1 .. n : ring[i] # b
      BY <1>b, <2>2, <2>5 DEF b
    <2>10. /\ \A i, j \in DOMAIN ring' : ring'[i] = ring'[j] => i = j
           /\ \A t \in Holders' : \A i \in DOMAIN ring' : th'[t].ptr # ring'[i]
      <3>1. \A i \in 1 .. n + 1 : i \in 1 .. n \/ i = n + 1
        BY <2>5
      <3>2. QED
        BY <1>b, <2>4, <2>5, <2>7, <2>9, <3>1
    <2>11. \A d \in live' : \/ d[2] < th'[d[1]].idx
                            \/ d[2] = th'[d[1]].idx /\ th'[d[1]].pc \in {"push", "post"}
      <3>1. \A d \in live' : d \in live /\ d[1] \in Threads
        BY <1>0, <1>c, <2>1
      <3>2. \A t \in Threads :
              /\ th'[t].idx = th[t].idx
              /\ th[t].pc \in {"push", "post"} => th'[t].pc \in {"push", "post"}
        BY <2>1
      <3>3. QED
        BY <1>b, <3>1, <3>2
    <2>12. \A s, t \in Holders' : th'[s].ptr = th'[t].ptr => s = t
      BY <1>b, <2>4
    <2>13. Cardinality(live') = Len(ring') + Cardinality(Holders')
      BY <1>0, <2>1, <2>5, <2>6 DEF n
    <2>14. QED
      BY <1>0, <2>1, <2>8, <2>10, <2>11, <2>12, <2>13 DEF Owned, BlocksOwned, BlocksApart
  <1>6. ASSUME NEW p \in Producers, pc_queue_post(p) PROVE Owned'
    <2>1. /\ p \in Threads /\ \A u \in Threads : u # p => th'[u] = th[u]
          /\ th[p].pc = "post" /\ th'[p].pc = "top" /\ th'[p].idx = th[p].idx + 1
          /\ UNCHANGED <<ring, live>>
      BY <1>0, <1>6 DEF pc_queue_post, At
    <2>2. QED
      BY <2>1, OwnersKept
  <1>7. ASSUME NEW c \in Consumers, pc_queue_wait(c) PROVE Owned'
    <2>1. /\ c \in Threads /\ \A u \in Threads : u # c => th'[u] = th[u]
          /\ th[c].pc = "top" /\ th'[c].pc \notin {"push", "free"} /\ th'[c].idx = th[c].idx
          /\ UNCHANGED <<ring, live>>
      BY <1>0, <1>7 DEF pc_queue_wait, At
    <2>2. QED
      BY <2>1, OwnersKept
  <1>8. ASSUME NEW c \in Consumers, pc_queue_pop(c) PROVE Owned'
    <2>0. c \in Threads /\ th[c].pc = "pop" /\ live' = live
      BY <1>0, <1>8 DEF pc_queue_pop, At
    <2>1. CASE ring' = ring /\ th' = [th EXCEPT ![c].pc = "top"]
      <3>1. /\ \A u \in Threads : u # c => th'[u] = th[u]
            /\ th'[c].pc = "top" /\ th'[c].idx = th[c].idx
        BY <1>0, <2>0, <2>1
      <3>2. QED
        BY <2>0, <2>1, <3>1, OwnersKept
    <2>2. CASE ring # << >> /\ ring' = Tail(ring)
               /\ th' = [th EXCEPT ![c].pc = "free", ![c].ptr = Head(ring)]
      <3> DEFINE b == Head(ring)
                 n == Len(ring)
      <3>1. /\ \A u \in Threads : u # c => th'[u] = th[u]
            /\ th'[c].pc = "free" /\ th'[c].idx = th[c].idx /\ th'[c].ptr = b
        BY <1>0, <2>0, <2>2
      <3>2. Holders' = Holders \cup {c} /\ c \notin Holders
        BY <2>0, <3>1, Moves
      <3>3. \A u \in Holders : th'[u] = th[u]
        BY <1>0, <3>1, <3>2
      <3>4. /\ n \in Nat /\ n > 0 /\ DOMAIN ring = 1 .. n /\ b = ring[1]
            /\ DOMAIN ring' = 1 .. n - 1 /\ Len(ring') = n - 1
            /\ \A i \in 1 .. n - 1 : ring'[i] = ring[i + 1]
        BY <1>0, <2>2, TailOf
      <3>5. Range(ring') = Range(ring) \ {b}
        BY <1>0, <1>b, <2>2, RangeOfTail, Zenon
      <3> HIDE DEF b, n
      <3>6. b \in Range(ring)
        BY <3>4 DEF Range
      <3>7. Cardinality(Holders') = Cardinality(Holders) + 1
        BY <1>0, <3>2, CountOne
      <3>8. live' = Range(ring') \cup {th'[t].ptr : t \in Holders'}
        <4>1. {th'[t].ptr : t \in Holders'} = {th[t].ptr : t \in Holders} \cup {b}
          BY <3>1, <3>2, <3>3
        <4>2. QED
          BY <1>0, <2>0, <3>5, <3>6, <4>1, Zenon
      <3>9. \A i \in 1 .. n - 1 : i + 1 \in 1 .. n /\ 1 \in 1 .. n /\ i + 1 # 1
        BY <3>4
      <3>10. \A i \in 1 .. n - 1 : ring'[i] # b
        BY <1>b, <3>4, <3>9
      <3>11. \A t \in Holders : th[t].ptr # b
        BY <1>b, <3>4
      <3>12. \A i, j \in DOMAIN ring' : ring'[i] = ring'[j] => i = j
        <4>1. \A i, j \in 1 .. n - 1 : ring[i + 1] = ring[j + 1] => i + 1 = j + 1
          BY <1>b, <3>4, <3>9, Zenon
        <4>2. QED
          BY <3>4, <4>1
      <3>13. /\ \A s, t \in Holders' : th'[s].ptr = th'[t].ptr => s = t
             /\ \A t \in Holders' : \A i \in DOMAIN ring' : th'[t].ptr # ring'[i]
        <4>1. \A s, t \in Holders' : th'[s].ptr = th'[t].ptr => s = t
          BY <1>b, <3>1, <3>2, <3>3, <3>11
        <4>2. \A t \in Holders : \A i \in 1 .. n - 1 : th[t].ptr # ring[i + 1]
          BY <1>b, <3>4, <3>9
        <4>3. \A t \in Holders' : \A i \in 1 .. n - 1 : th'[t].ptr # ring'[i]
          BY <3>1, <3>2, <3>3, <3>4, <3>10, <4>2
        <4>4. QED
          BY <3>4, <4>1, <4>3
      <3>14. \A d \in live' : \/ d[2] < th'[d[1]].idx
                              \/ d[2] = th'[d[1]].idx /\ th'[d[1]].pc \in {"push", "post"}
        BY <1>b, <1>c, <1>0, <2>0, <3>1
      <3>15. Cardinality(live') = Len(ring') + Cardinality(Holders')
        BY <1>0, <2>0, <3>4, <3>7 DEF n
      <3>16. QED
        BY <1>0, <2>0, <3>8, <3>12, <3>13, <3>14, <3>15 DEF Owned, BlocksOwned, BlocksApart
    <2>3. QED
      BY <1>8, <2>1, <2>2 DEF pc_queue_pop
  <1>9. ASSUME NEW c \in Consumers, consumer_free(c) PROVE Owned'
    <2> DEFINE b == th[c].ptr
    <2>1. /\ c \in Threads /\ \A u \in Threads : u # c => th'[u] = th[u]
          /\ th[c].pc = "free" /\ th'[c].pc = "top" /\ th'[c].idx = th[c].idx + 1
          /\ ring' = ring /\ live' = live \ {b}
      BY <1>0, <1>9 DEF consumer_free, At
    <2>2. Holders' = Holders \ {c} /\ c \in Holders
      BY <2>1, Moves
    <2>3. b \in live
      BY <1>0, <2>2
    <2> HIDE DEF b
    <2>4. \A u \in Holders' : u \in Holders /\ u # c /\ th'[u] = th[u]
      BY <1>0, <2>1, <2>2
    <2>5. /\ Cardinality(Holders') = Cardinality(Holders) - 1
          /\ Cardinality(live') = Cardinality(live) - 1 /\ IsFiniteSet(live')
      BY <1>0, <2>1, <2>2, <2>3, CountOne
    <2>6. \A t \in Holders' : th'[t].ptr # b
      BY <1>b, <2>2, <2>4 DEF b
    <2>7. b \notin Range(ring)
      BY <1>b, <2>2 DEF b, Range
    <2>8. live' = Range(ring') \cup {th'[t].ptr : t \in Holders'}
      <3>1. {th[t].ptr : t \in Holders} = {th'[t].ptr : t \in Holders'} \cup {b}
        BY <2>2, <2>4 DEF b
      <3>2. QED
        BY <1>0, <2>1, <2>6, <2>7, <3>1, Zenon
    <2>9. /\ \A s, t \in Holders' : th'[s].ptr = th'[t].ptr => s = t
          /\ \A t \in Holders' : \A i \in DOMAIN ring' : th'[t].ptr # ring'[i]
      BY <1>b, <2>1, <2>4
    <2>10. \A d \in live' : \/ d[2] < th'[d[1]].idx
                            \/ d[2] = th'[d[1]].idx /\ th'[d[1]].pc \in {"push", "post"}
      <3>1. \A d \in live' : d \in live /\ d[1] \in Producers /\ d[1] \in Threads
        BY <1>0, <1>c, <2>1
      <3>2. \A d \in live' : d[1] # c
        BY <3>1 DEF PcQueueAssumption
      <3>3. QED
        BY <1>b, <2>1, <3>1, <3>2
    <2>11. QED
      BY <1>0, <1>b, <2>1, <2>5, <2>8, <2>9, <2>10 DEF Owned, BlocksOwned, BlocksApart
  <1>10. CASE UNCHANGED vars
    BY <1>10, <1>a DEF vars
  <1>11. QED
    BY <1>1, <1>2, <1>3, <1>4, <1>5, <1>6, <1>7, <1>8, <1>9, <1>10 DEF Next, producer, consumer

(***************************************************************************)
(* Theorems                                                                *)
(***************************************************************************)
LEMMA InvInit == ASSUME PcQueueAssumption, Init PROVE PcInv
  <1>1. TypeOK
    BY DEF Init, TypeOK, Threads, Holders, At
  <1>2. Holders = {} /\ Popping = {} /\ Posting = {} /\ Range(ring) = {} /\ Len(ring) = 0
    BY DEF Init, Threads, Holders, Popping, Posting, At, Range
  <1>3. Cardinality({}) = 0 /\ IsFiniteSet({})
    BY FS_EmptySet
  <1>4. QED
    BY <1>1, <1>2, <1>3 DEF PcInv, Init, BlocksOwned, BlocksApart, PermitsOwed

\* The inductive invariant of the program: the types, the owners of the blocks and the
\* elements behind the permits, whatever ring_pop and pthread_create answer.
THEOREM InvCorrect == ASSUME PcQueueAssumption PROVE Spec => []PcInv
  <1>1. Init => PcInv
    BY InvInit
  <1>2. PcInv /\ [Next]_vars => PcInv'
    BY TypeStep, PermitsStep, OwnedStep DEF PcInv, Owned
  <1>3. QED
    BY <1>1, <1>2, PTL DEF Spec

\* A consumer that has passed sem_wait finds an element in the ring: pc_queue_push pushes
\* before it posts, and no consumer pops without a permit.
THEOREM PermitsSuffice == ASSUME PcQueueAssumption PROVE Spec => []WaitersCovered
  <1>1. ASSUME PcInv PROVE WaitersCovered
    <2>1. /\ sem \in Nat /\ Len(ring) \in Nat
          /\ Cardinality(Popping) \in Nat /\ Cardinality(Posting) \in Nat
      BY <1>1, Finite, FS_CardinalityType, LenProperties DEF PcInv, TypeOK
    <2>2. QED
      BY <1>1, <2>1 DEF PcInv, PermitsOwed, WaitersCovered
  <1>2. PcInv => WaitersCovered
    BY <1>1
  <1>3. QED
    BY <1>2, InvCorrect, PTL

\* A block that producer allocates is in the ring or in one thread's hands until consumer
\* frees it: none is leaked, freed twice or touched after its free.
THEOREM OneOwner == ASSUME PcQueueAssumption PROVE Spec => []BlocksOwned
  <1>1. PcInv => BlocksOwned
    BY DEF PcInv
  <1>2. QED
    BY <1>1, InvCorrect, PTL
=============================================================================
