--------------------------- MODULE CoroutineProofs ---------------------------
(***************************************************************************)
(* Proofs about the coroutine scheduler, for any number of coroutines, any *)
(* depth of stack and any first size of the table: its asserts hold, and a *)
(* coroutine finds its frames when it resumes.                             *)
(*                                                                         *)
(* coroutine_new finds a slot because cr_num counts the coroutines         *)
(* (CountsLive); coroutine_resume meets a suspended one because the one    *)
(* that runs is the only one marked so (RunningIsMarked); and the frames   *)
(* are there because _save_stack has left them at the head of a buffer     *)
(* that nobody else writes (SavedIntact).                                  *)
(***************************************************************************)
EXTENDS Coroutine, SequenceTheorems, FiniteSetTheorems, NaturalsInduction,
        WellFoundedInduction, TLAPS

(***************************************************************************)
(* The search for a free slot                                              *)
(***************************************************************************)
LEMMA Least ==
  ASSUME NEW S \in SUBSET Nat, S # {}
  PROVE  \E x \in S : \A y \in S : x <= y
  <1> DEFINE R == OpToRel(<, Nat)
  <1>1. IsWellFoundedOn(R, Nat)
    BY NatLessThanWellFounded
  <1>2. \A x, y \in Nat : y < x => <<y, x>> \in R
    BY DEF OpToRel
  <1> HIDE DEF R
  <1>3. \E x \in S : \A y \in S : ~(<<y, x>> \in R)
    BY <1>1, WFMin, Zenon
  <1>4. PICK x \in S : \A y \in S : ~(<<y, x>> \in R)
    BY <1>3
  <1>5. ASSUME NEW y \in S PROVE x <= y
    <2>1. ~(y < x)
      BY <1>2, <1>4, Zenon
    <2>2. QED
      BY <2>1
  <1>6. QED
    BY <1>5

LEMMA ProbeWraps ==
  ASSUME TypeOK, cr_num < cr_cap, NEW i \in 0 .. cr_cap - 1
  PROVE  /\ Probe(i) = IF i + cr_num < cr_cap THEN i + cr_num ELSE i + cr_num - cr_cap
         /\ Probe(i) \in 0 .. cr_cap - 1
  <1> DEFINE x == i + cr_num
  <1>0. cr_cap \in Nat \ {0} /\ cr_num \in Nat
    BY DEF TypeOK
  <1>1. x \in 0 .. 2 * cr_cap - 1
    BY <1>0
  <1>2. CASE x < cr_cap
    BY <1>0, <1>2 DEF Probe
  <1>3. CASE x >= cr_cap
    <2> DEFINE q == 1
               r == x - cr_cap
    <2>1. q \in Int /\ r \in 0 .. cr_cap - 1 /\ x = q * cr_cap + r /\ x \in Int
      BY <1>0, <1>1, <1>3
    <2> HIDE DEF q, x
    <2>2. x % cr_cap = r
      BY <1>0, <2>1
    <2>3. QED
      BY <1>0, <1>3, <2>1, <2>2 DEF Probe, x
  <1>4. QED
    BY <1>0, <1>1, <1>2, <1>3

\* The loop of coroutine_new meets every slot, so it finds a free one when there is one,
\* and takes exactly one.
LEMMA ProbeFinds ==
  ASSUME TypeOK, cr_num < cr_cap, Free # {}
  PROVE  \E id \in Free : \A j \in DOMAIN co : FirstFree(j) <=> j = id
  <1> DEFINE S == {i \in 0 .. cr_cap - 1 : co[Probe(i)] = NULL}
  <1>0. cr_cap \in Nat \ {0} /\ cr_num \in Nat /\ DOMAIN co = 0 .. cr_cap - 1
    BY DEF TypeOK
  <1>1. S # {}
    <2>1. PICK f \in 0 .. cr_cap - 1 : co[f] = NULL
      BY <1>0 DEF Free
    <2> DEFINE i == IF f >= cr_num THEN f - cr_num ELSE f + cr_cap - cr_num
    <2>2. i \in 0 .. cr_cap - 1
      BY <1>0
    <2>3. Probe(i) = f
      <3>1. Probe(i) = IF i + cr_num < cr_cap THEN i + cr_num ELSE i + cr_num - cr_cap
        BY <2>2, ProbeWraps
      <3>2. QED
        BY <1>0, <3>1
    <2>4. QED
      BY <2>1, <2>2, <2>3
  <1>2. S \subseteq Nat
    BY <1>0
  <1>3. PICK k \in S : \A i \in S : k <= i
    BY <1>1, <1>2, Least, Zenon
  <1>4. k \in 0 .. cr_cap - 1 /\ co[Probe(k)] = NULL /\ Probe(k) \in DOMAIN co
    BY <1>0, ProbeWraps
  <1>5. \A i \in 0 .. cr_cap - 1 : co[Probe(i)] = NULL => k <= i
    BY <1>3
  <1> HIDE DEF S
  <1>6. FirstFree(Probe(k))
    BY <1>0, <1>4, <1>5 DEF FirstFree
  <1>7. ASSUME NEW j \in DOMAIN co, FirstFree(j) PROVE j = Probe(k)
    <2>1. PICK i \in 0 .. cr_cap - 1 : /\ j = Probe(i) /\ co[j] = NULL
                                       /\ \A n \in 0 .. i - 1 : co[Probe(n)] # NULL
      BY <1>7 DEF FirstFree
    <2>2. k <= i
      BY <1>5, <2>1
    <2>3. ~(k < i)
      BY <1>0, <1>4, <2>1
    <2>4. k = i
      BY <1>0, <1>4, <2>2, <2>3
    <2>5. QED
      BY <2>1, <2>4
  <1>8. QED
    BY <1>4, <1>6, <1>7 DEF Free

LEMMA LiveFinite ==
  ASSUME TypeOK
  PROVE  /\ IsFiniteSet(Live) /\ Cardinality(Live) \in Nat
         /\ CountsLive /\ cr_num < cr_cap => Free # {}
  <1>1. /\ cr_cap \in Nat \ {0} /\ DOMAIN co = 0 .. cr_cap - 1 /\ Live \subseteq 0 .. cr_cap - 1
    BY DEF TypeOK, Live
  <1>2. IsFiniteSet(0 .. cr_cap - 1) /\ Cardinality(0 .. cr_cap - 1) = cr_cap
    BY <1>1, FS_Interval
  <1>3. Free = {} => Live = 0 .. cr_cap - 1
    BY <1>1 DEF Live
  <1>4. IsFiniteSet(Live)
    BY <1>1, <1>2, FS_Subset, Zenon
  <1>5. QED
    BY <1>1, <1>2, <1>3, <1>4, FS_CardinalityType DEF CountsLive, TypeOK


(***************************************************************************)
(* The buffers                                                             *)
(***************************************************************************)
LEMMA MakeCoroutine ==
  ASSUME NEW st \in {"READY", "RUNNING", "SUSPEND"}, NEW ud \in Frames, NEW c \in Nat, NEW n \in Nat,
         NEW s \in Seq(Frames), NEW v \in Seq(Frames)
  PROVE  [status |-> st, ud |-> ud, cr_cap |-> c, size |-> n, stack |-> s, view |-> v] \in Coroutines
  BY DEF Coroutines

\* _save_stack leaves the stack at the head of the buffer, and the buffer as long as its
\* cr_cap says, whether it has grown or holds something longer from an earlier yield.
LEMMA SaveStack ==
  ASSUME NEW C \in Coroutines, Saved(C), NEW s \in Seq(Frames), C.view = s,
         NEW R, R = [_save_stack(C, s) EXCEPT !.status = "SUSPEND"]
  PROVE  R \in Coroutines /\ Saved(R) /\ R.status = "SUSPEND"
  <1> DEFINE n == Len(s)
             t == IF C.cr_cap < n THEN s ELSE s \o SubSeq(C.stack, n + 1, C.cr_cap)
             m == IF C.cr_cap < n THEN n ELSE C.cr_cap
  <1>0. /\ C.cr_cap \in Nat /\ C.stack \in Seq(Frames) /\ Len(C.stack) = C.cr_cap
        /\ C.ud \in Frames /\ n \in Nat
    BY DEF Coroutines, Saved
  <1>1. R = [status |-> "SUSPEND", ud |-> C.ud, cr_cap |-> m, size |-> n, stack |-> t,
             view |-> s]
    BY Zenon DEF _save_stack, Coroutines
  <1>2. /\ t \in Seq(Frames) /\ Len(t) = m /\ m \in Nat /\ n <= m
        /\ \A i \in 1 .. n : t[i] = s[i]
    <2>1. CASE C.cr_cap < n
      BY <1>0, <2>1
    <2>2. CASE C.cr_cap >= n
      <3> DEFINE u == SubSeq(C.stack, n + 1, C.cr_cap)
      <3>1. \A i \in n + 1 .. C.cr_cap : C.stack[i] \in Frames
        BY <1>0, LenProperties
      <3>2. u \in Seq(Frames) /\ Len(u) = IF n + 1 <= C.cr_cap THEN C.cr_cap - (n + 1) + 1 ELSE 0
        BY <1>0, <3>1, SubSeqProperties
      <3>3. u \in Seq(Frames) /\ Len(u) = C.cr_cap - n
        BY <1>0, <2>2, <3>2
      <3> HIDE DEF u
      <3>4. /\ s \o u \in Seq(Frames) /\ Len(s \o u) = n + Len(u)
            /\ \A i \in 1 .. n + Len(u) : (s \o u)[i] = IF i <= n THEN s[i] ELSE u[i - n]
        BY <3>3, ConcatProperties, Zenon
      <3>5. t = s \o u /\ m = C.cr_cap
        <4>1. ~(C.cr_cap < n)
          BY <1>0, <2>2
        <4> HIDE DEF n
        <4>2. QED
          BY <4>1, Zenon DEF u
      <3> HIDE DEF t, m, n
      <3>6. n + Len(u) = m /\ n <= m
        BY <1>0, <2>2, <3>3, <3>5
      <3>7. \A i \in 1 .. n : i \in 1 .. n + Len(u) /\ i <= n
        BY <1>0, <3>3
      <3>8. QED
        BY <1>0, <3>4, <3>5, <3>6, <3>7
    <2>3. QED
      BY <1>0, <2>1, <2>2
  <1> HIDE DEF t, m
  <1>3. SubSeq(t, 1, n) = s
    <2>1. \A i \in 1 .. n : t[i] \in Frames
      BY <1>0, <1>2, LenProperties
    <2>2. /\ SubSeq(t, 1, n) \in Seq(Frames) /\ Len(SubSeq(t, 1, n)) = IF 1 <= n THEN n - 1 + 1 ELSE 0
          /\ \A i \in 1 .. n - 1 + 1 : SubSeq(t, 1, n)[i] = t[1 + i - 1]
      BY <1>0, <2>1, SubSeqProperties
    <2>3. Len(SubSeq(t, 1, n)) = n
      BY <1>0, <2>2
    <2>4. \A i \in 1 .. n : SubSeq(t, 1, n)[i] = s[i]
      <3>1. ASSUME NEW i \in 1 .. n PROVE SubSeq(t, 1, n)[i] = s[i]
        <4>1. 1 + i - 1 = i /\ n - 1 + 1 = n
          BY <1>0
        <4>2. QED
          BY <1>2, <2>2, <4>1
      <3>2. QED
        BY <3>1
    <2>5. QED
      BY <2>2, <2>3, <2>4, SeqEqual
  <1>4. /\ R.status = "SUSPEND" /\ R.ud = C.ud /\ R.cr_cap = m /\ R.size = n /\ R.stack = t
        /\ R.view = s
    BY <1>1
  <1>5. R \in Coroutines
    <2> HIDE DEF n
    <2>1. "SUSPEND" \in {"READY", "RUNNING", "SUSPEND"}
      OBVIOUS
    <2>2. [status |-> "SUSPEND", ud |-> C.ud, cr_cap |-> m, size |-> n, stack |-> t, view |-> s]
            \in Coroutines
      BY <1>0, <1>2, <2>1, MakeCoroutine
    <2>3. QED
      BY <1>1, <2>2, Zenon
  <1>6. Saved(R)
    BY <1>2, <1>3, <1>4 DEF Saved
  <1>7. QED
    BY <1>4, <1>5, <1>6


(***************************************************************************)
(* The steps                                                               *)
(***************************************************************************)
LEMMA Slots ==
  ASSUME CoroutineAssumption, TypeOK
  PROVE  /\ Live = {i \in 0 .. cr_cap - 1 : co[i] # NULL}
         /\ \A i \in Live : co[i] \in Coroutines /\ i \in 0 .. cr_cap - 1 /\ i # -1
         /\ \A C \in Coroutines : C # NULL
  BY DEF TypeOK, Live, Free, CoroutineAssumption

\* What a step that writes the record of one coroutine has to leave in it.
LEMMA OneSlot ==
  ASSUME CoroutineAssumption, SchedulerInv,
         NEW i \in Live, NEW R \in Coroutines, Saved(R),
         co' = [co EXCEPT ![i] = R], cr_cap' = cr_cap, cr_num' = cr_num, state' = state,
         running' \in {-1, i}, R.status = "RUNNING" <=> running' = i,
         \A j \in Live : j # i => j # running,
         stack' \in Seq(Frames), running' = i => stack' = R.view
  PROVE  SchedulerInv'
  <1>0. /\ TypeOK /\ i \in 0 .. cr_cap - 1 /\ i # -1 /\ R # NULL
        /\ co \in [0 .. cr_cap - 1 -> Coroutines \cup {NULL}] /\ cr_cap \in Nat \ {0}
        /\ Live = {j \in 0 .. cr_cap - 1 : co[j] # NULL}
    BY Slots DEF SchedulerInv, TypeOK
  <1>1. /\ co'[i] = R /\ \A j \in 0 .. cr_cap - 1 : j # i => co'[j] = co[j]
        /\ co' \in [0 .. cr_cap - 1 -> Coroutines \cup {NULL}]
    BY <1>0
  <1>2. TypeOK'
    BY <1>0, <1>1 DEF SchedulerInv, TypeOK
  <1>3. Live' = Live
    BY <1>0, <1>1 DEF Live, Free
  <1>4. CountsLive' /\ AssertsHold'
    BY <1>3 DEF SchedulerInv, CountsLive, AssertsHold
  <1>5. StackIntact'
    BY <1>0, <1>1 DEF StackIntact
  <1>6. RunningIsMarked'
    <2>1. ASSUME NEW j \in Live PROVE co'[j].status = "RUNNING" <=> j = running'
      <3>1. CASE j = i
        BY <1>0, <1>1, <3>1
      <3>2. CASE j # i
        BY <1>0, <1>1, <3>2 DEF SchedulerInv, RunningIsMarked
      <3>3. QED
        BY <3>1, <3>2
    <2>2. QED
      BY <1>3, <2>1 DEF RunningIsMarked
  <1>7. SavedIntact'
    <2>1. ASSUME NEW j \in Live PROVE Saved(co'[j])
      BY <1>0, <1>1 DEF SchedulerInv, SavedIntact
    <2>2. QED
      BY <1>3, <2>1 DEF SavedIntact, Saved
  <1>8. QED
    BY <1>2, <1>4, <1>5, <1>6, <1>7 DEF SchedulerInv

LEMMA Wider == ASSUME NEW a \in Nat, NEW b \in Nat, a <= b, NEW j \in 0 .. a - 1
               PROVE  j \in 0 .. b - 1
  OBVIOUS

\* A new coroutine in a free slot, of the old table or of one twice its size.
LEMMA NewSlot ==
  ASSUME CoroutineAssumption, SchedulerInv, NEW ud \in Frames, NEW id,
         id \notin Live, cr_cap' \in Nat, cr_cap <= cr_cap', id \in 0 .. cr_cap' - 1,
         co' \in [0 .. cr_cap' - 1 -> Coroutines \cup {NULL}],
         co'[id] = _co_new(ud),
         \A j \in 0 .. cr_cap' - 1 : j # id => co'[j] = IF j \in Live THEN co[j] ELSE NULL,
         cr_num' = cr_num + 1, UNCHANGED <<running, stack, state>>
  PROVE  SchedulerInv'
  <1> DEFINE C == _co_new(ud)
  <1>0. /\ TypeOK /\ cr_cap \in Nat \ {0} /\ running \in -1 .. cr_cap - 1 /\ cr_num \in Nat
        /\ Live = {j \in 0 .. cr_cap - 1 : co[j] # NULL}
        /\ \A j \in Live : co[j] \in Coroutines /\ co[j] # NULL
    BY Slots DEF SchedulerInv, TypeOK
  <1>1. C \in Coroutines /\ C # NULL /\ C.status = "READY" /\ Saved(C)
    <2>1. << >> \in Seq(Frames) /\ Len(<< >>) = 0 /\ "READY" \in {"READY", "RUNNING", "SUSPEND"}
      OBVIOUS
    <2>2. C \in Coroutines
      BY <2>1, MakeCoroutine, Zenon DEF _co_new
    <2>3. QED
      BY <2>1, <2>2, Slots, <1>0 DEF _co_new, Saved
  <1> HIDE DEF C
  <1>2. TypeOK'
    BY <1>0 DEF SchedulerInv, TypeOK
  <1>a. ASSUME NEW j \in Live PROVE j \in 0 .. cr_cap' - 1
    <2>1. cr_cap \in Nat /\ j \in 0 .. cr_cap - 1
      BY <1>0
    <2>2. QED
      BY <2>1, Wider, Zenon
  <1>3. Live' = Live \cup {id}
    <2>1. Live' = {j \in 0 .. cr_cap' - 1 : co'[j] # NULL}
      BY DEF Live, Free
    <2>2. QED
      BY <1>0, <1>1, <1>a, <2>1, Zenon DEF C
  <1>4. \A j \in Live : co'[j] = co[j] /\ j # id
    BY <1>a, Zenon
  <1>5. CountsLive' /\ AssertsHold'
    <2>1. Cardinality(Live') = Cardinality(Live) + 1
      BY <1>0, <1>3, LiveFinite, FS_AddElement, Zenon
    <2>2. QED
      BY <2>1 DEF SchedulerInv, CountsLive, AssertsHold
  <1>6. running # -1 => running \in Live
    BY <1>0 DEF SchedulerInv, StackIntact
  <1>7. StackIntact'
    BY <1>4, <1>6 DEF SchedulerInv, StackIntact
  <1>8. RunningIsMarked'
    <2>1. ASSUME NEW j \in Live PROVE co'[j].status = "RUNNING" <=> j = running'
      BY <1>4 DEF SchedulerInv, RunningIsMarked
    <2>2. co'[id].status # "RUNNING" /\ id # running'
      BY <1>1, <1>6 DEF C
    <2>3. QED
      BY <1>3, <2>1, <2>2, Zenon DEF RunningIsMarked
  <1>9. SavedIntact'
    <2>1. ASSUME NEW j \in Live' PROVE Saved(co'[j])
      BY <1>1, <1>3, <1>4, Zenon DEF SchedulerInv, SavedIntact, C
    <2>2. QED
      BY <2>1 DEF SavedIntact, Saved
  <1>10. QED
    BY <1>2, <1>5, <1>7, <1>8, <1>9 DEF SchedulerInv


\* The assert of coroutine_new: it finds a slot, and one that nobody has.
LEMMA NewStep ==
  ASSUME CoroutineAssumption, SchedulerInv, NEW ud \in Frames, coroutine_new(ud)
  PROVE  SchedulerInv' /\ LeavesOthers
  <1>0. /\ TypeOK /\ CountsLive /\ cr_cap \in Nat \ {0} /\ DOMAIN co = 0 .. cr_cap - 1
        /\ co \in [0 .. cr_cap - 1 -> Coroutines \cup {NULL}]
        /\ Live = {j \in 0 .. cr_cap - 1 : co[j] # NULL}
        /\ cr_num' = cr_num + 1 /\ running' = running /\ stack' = stack
    BY Slots DEF SchedulerInv, TypeOK, coroutine_new
  <1>1. _co_new(ud) \in Coroutines
    <2>1. << >> \in Seq(Frames) /\ "READY" \in {"READY", "RUNNING", "SUSPEND"}
      OBVIOUS
    <2>2. QED
      BY <2>1, MakeCoroutine, Zenon DEF _co_new
  <1>2. CASE co' = Doubled(ud) /\ cr_cap' = 2 * cr_cap /\ state' = state
    <2> DEFINE C == _co_new(ud)
    <2>1. /\ cr_cap' \in Nat /\ cr_cap <= cr_cap' /\ cr_cap \in 0 .. cr_cap' - 1
          /\ cr_cap \notin Live
      BY <1>0, <1>2
    <2>2. co' = [i \in 0 .. cr_cap' - 1 |->
                   CASE i < cr_cap -> co[i] [] i = cr_cap -> C [] OTHER -> NULL]
      BY <1>2 DEF Doubled
    <2> HIDE DEF C
    <2>3. \A i \in 0 .. cr_cap' - 1 : i < cr_cap => i \in 0 .. cr_cap - 1
      BY <1>0, <2>1
    <2>4. /\ co'[cr_cap] = C
          /\ \A i \in 0 .. cr_cap' - 1 : i < cr_cap => co'[i] = co[i]
          /\ \A i \in 0 .. cr_cap' - 1 : ~(i < cr_cap) /\ i # cr_cap => co'[i] = NULL
      BY <1>0, <2>1, <2>2
    <2>5. co' \in [0 .. cr_cap' - 1 -> Coroutines \cup {NULL}]
      BY <1>0, <1>1, <2>2, <2>3 DEF C
    <2>6. ASSUME NEW i \in Live PROVE i < cr_cap /\ i \in 0 .. cr_cap' - 1
      <3>1. cr_cap \in Nat /\ i \in 0 .. cr_cap - 1
        BY <1>0
      <3>2. i \in 0 .. cr_cap' - 1
        BY <2>1, <3>1, Wider, Zenon
      <3>3. QED
        BY <3>1, <3>2
    <2>7. \A i \in 0 .. cr_cap' - 1 : i # cr_cap => co'[i] = IF i \in Live THEN co[i] ELSE NULL
      BY <1>0, <2>3, <2>4, <2>6
    <2>8. SchedulerInv'
      <3>1. PICK id : id = cr_cap
        OBVIOUS
      <3>2. /\ id \notin Live /\ id \in 0 .. cr_cap' - 1 /\ co'[id] = _co_new(ud)
            /\ \A i \in 0 .. cr_cap' - 1 : i # id => co'[i] = IF i \in Live THEN co[i] ELSE NULL
        BY <2>1, <2>4, <2>7, <3>1, Zenon DEF C
      <3>3. QED
        BY <1>0, <1>2, <2>1, <2>5, <3>2, NewSlot
    <2>9. LeavesOthers
      BY <2>4, <2>5, <2>6 DEF LeavesOthers
    <2>10. QED
      BY <2>8, <2>9
  <1>3. CASE /\ cr_num < cr_cap /\ assert(Free # {}) /\ cr_cap' = cr_cap
             /\ co' = [i \in DOMAIN co |-> IF FirstFree(i) THEN _co_new(ud) ELSE co[i]]
    <2>1. Free # {}
      BY <1>0, <1>3, LiveFinite
    <2>2. state' = state
      BY <1>3, <2>1 DEF assert
    <2>3. PICK id \in Free : \A j \in DOMAIN co : FirstFree(j) <=> j = id
      BY <1>0, <1>3, <2>1, ProbeFinds
    <2>4. id \in DOMAIN co /\ id \notin Live /\ co[id] = NULL
      BY <1>0 DEF Free
    <2>5. /\ co'[id] = _co_new(ud)
          /\ \A j \in 0 .. cr_cap - 1 : j # id => co'[j] = co[j]
      BY <1>0, <1>3, <2>3, <2>4
    <2>6. co' \in [0 .. cr_cap' - 1 -> Coroutines \cup {NULL}]
      BY <1>0, <1>1, <1>3
    <2>7. \A j \in 0 .. cr_cap' - 1 : j # id => co'[j] = IF j \in Live THEN co[j] ELSE NULL
      BY <1>0, <1>3, <2>5
    <2>8. SchedulerInv'
      <3>1. cr_cap' \in Nat /\ cr_cap <= cr_cap' /\ id \in 0 .. cr_cap' - 1
        BY <1>0, <1>3, <2>4
      <3>2. QED
        BY <1>0, <2>2, <2>4, <2>5, <2>6, <2>7, <3>1, NewSlot, Zenon
    <2>9. LeavesOthers
      BY <1>0, <1>3, <2>4, <2>5, <2>6 DEF LeavesOthers
    <2>10. QED
      BY <2>8, <2>9
  <1>4. QED
    BY <1>2, <1>3 DEF coroutine_new


\* Its first asserts hold for the id of a slot; the last one because no coroutine is marked
\* running while main runs.
LEMMA ResumeStep ==
  ASSUME CoroutineAssumption, SchedulerInv, NEW id \in DOMAIN co, coroutine_resume(id)
  PROVE  SchedulerInv' /\ LeavesOthers
  <1>0. /\ TypeOK /\ DOMAIN co = 0 .. cr_cap - 1 /\ running = -1 /\ UNCHANGED <<cr_num, cr_cap>>
        /\ co \in [0 .. cr_cap - 1 -> Coroutines \cup {NULL}]
        /\ \A j \in Live : j # running
    BY Slots DEF SchedulerInv, TypeOK, coroutine_resume
  <1>1. CASE UNCHANGED <<running, co, stack, state>>
    <2>1. SchedulerInv'
      BY <1>0, <1>1 DEF SchedulerInv, TypeOK, AssertsHold, CountsLive, StackIntact,
                        RunningIsMarked, SavedIntact, Saved, Live, Free
    <2>2. LeavesOthers
      BY <1>1 DEF LeavesOthers, Live
    <2>3. QED
      BY <2>1, <2>2
  <1>2. ASSUME co[id] # NULL, running' = id, state' = state, NEW R \in Coroutines, Saved(R),
               R.status = "RUNNING", co' = [co EXCEPT ![id] = R], stack' = R.view
        PROVE  SchedulerInv' /\ LeavesOthers
    <2>1. id \in Live
      BY <1>2 DEF Live, Free
    <2>2. R.view \in Seq(Frames)
      BY DEF Coroutines
    <2>3. SchedulerInv'
      BY <1>0, <1>2, <2>1, <2>2, OneSlot, Zenon
    <2>4. LeavesOthers
      BY <1>0, <1>2 DEF LeavesOthers, Live
    <2>5. QED
      BY <2>3, <2>4
  <1> DEFINE C == co[id]
  <1>3. ASSUME C # NULL
        PROVE  /\ C \in Coroutines /\ Saved(C) /\ C.status # "RUNNING" /\ C.ud \in Frames
               /\ C.status \in {"READY", "RUNNING", "SUSPEND"}
    <2>1. id \in Live
      BY <1>3 DEF Live, Free
    <2>2. C \in Coroutines
      BY <2>1, <1>0, Slots
    <2>3. QED
      BY <1>0, <2>1, <2>2 DEF SchedulerInv, SavedIntact, RunningIsMarked, Coroutines
  <1>4. CASE /\ C # NULL /\ C.status = "READY" /\ stack' = <<C.ud>> /\ running' = id
             /\ co' = [co EXCEPT ![id].status = "RUNNING", ![id].view = <<C.ud>>]
             /\ state' = state
    <2> DEFINE R == [C EXCEPT !.status = "RUNNING", !.view = <<C.ud>>]
    <2>1. co' = [co EXCEPT ![id] = R]
      BY <1>0, <1>4, Zenon
    <2>2. R \in Coroutines /\ R.status = "RUNNING" /\ R.view = <<C.ud>>
      BY <1>3, <1>4 DEF Coroutines
    <2>3. Saved(R)
      BY <1>3, <1>4 DEF Saved, Coroutines
    <2> HIDE DEF R
    <2>4. QED
      BY <1>2, <1>4, <2>1, <2>2, <2>3, Zenon
  <1>5. CASE /\ C # NULL /\ C.status # "READY" /\ assert(C.status = "SUSPEND")
             /\ stack' = SubSeq(C.stack, 1, C.size) /\ running' = id
             /\ co' = [co EXCEPT ![id].status = "RUNNING"]
    <2> DEFINE R == [C EXCEPT !.status = "RUNNING"]
    <2>1. co' = [co EXCEPT ![id] = R]
      BY <1>0, <1>5
    <2>2. C.status = "SUSPEND" /\ state' = state
      BY <1>3, <1>5 DEF assert
    <2>3. R \in Coroutines /\ R.status = "RUNNING" /\ R.view = C.view
      BY <1>3, <1>5, Zenon DEF Coroutines
    <2>4. Saved(R) /\ stack' = C.view
      BY <1>3, <1>5, <2>2 DEF Saved, Coroutines
    <2> HIDE DEF R
    <2>5. QED
      BY <1>2, <1>5, <2>1, <2>2, <2>3, <2>4, Zenon
  <1>6. QED
    BY <1>1, <1>4, <1>5 DEF coroutine_resume

\* What the running coroutine does to the stack, it does to its own frames.
LEMMA RunStep ==
  ASSUME CoroutineAssumption, SchedulerInv,
         (\E f \in Frames : Call(f)) \/ Ret \/ coroutine_yield
  PROVE  SchedulerInv' /\ LeavesOthers
  <1> DEFINE C == co[running]
             r == running
  <1>0. /\ TypeOK /\ DOMAIN co = 0 .. cr_cap - 1 /\ r # -1 /\ r \in DOMAIN co /\ r \in Live
        /\ co \in [0 .. cr_cap - 1 -> Coroutines \cup {NULL}] /\ stack \in Seq(Frames)
        /\ UNCHANGED <<cr_num, cr_cap, state>>
    BY Slots, SMTT(30) DEF SchedulerInv, TypeOK, StackIntact, Call, Ret, coroutine_yield, Live, Free
  <1>1. /\ C \in Coroutines /\ Saved(C) /\ C.status = "RUNNING" /\ C.view = stack
        /\ C.view \in Seq(Frames)
    <2>1. C \in Coroutines
      BY <1>0, Slots
    <2>2. QED
      BY <1>0, <2>1 DEF SchedulerInv, StackIntact, SavedIntact, RunningIsMarked, Coroutines
  <1>2. ASSUME NEW R \in Coroutines, Saved(R), co' = [co EXCEPT ![r] = R],
               running' \in {-1, r}, R.status = "RUNNING" <=> running' = r,
               stack' \in Seq(Frames), running' = r => stack' = R.view
        PROVE  SchedulerInv' /\ LeavesOthers
    <2>1. PICK i \in Live : i = running
      BY <1>0
    <2>2. SchedulerInv'
      BY <1>0, <1>2, <2>1, OneSlot, Zenon
    <2>3. LeavesOthers
      BY <1>0, <1>2 DEF LeavesOthers, Live
    <2>4. QED
      BY <2>2, <2>3
  <1>3. ASSUME NEW s \in Seq(Frames), stack' = s, running' = running,
               co' = [co EXCEPT ![running].view = s]
        PROVE  SchedulerInv' /\ LeavesOthers
    <2> DEFINE R == [C EXCEPT !.view = s]
    <2>1. co' = [co EXCEPT ![r] = R]
      BY <1>0, <1>3
    <2>2. R \in Coroutines /\ R.status = "RUNNING" /\ R.view = s
      BY <1>1, Zenon DEF Coroutines
    <2>3. Saved(R)
      BY <1>1 DEF Saved, Coroutines
    <2> HIDE DEF R
    <2>4. QED
      BY <1>2, <1>3, <2>1, <2>2, <2>3, Zenon
  <1>4. ASSUME NEW f \in Frames, Call(f) PROVE SchedulerInv' /\ LeavesOthers
    <2> DEFINE s == <<f>> \o stack
    <2>1. s \in Seq(Frames) /\ stack' = s /\ running' = running
      BY <1>0, <1>4 DEF Call
    <2>2. co' = [co EXCEPT ![running].view = s]
      BY <1>0, <1>1, <1>4 DEF Call
    <2> HIDE DEF s
    <2>3. QED
      BY <1>3, <2>1, <2>2, Zenon
  <1>5. CASE Ret
    <2> DEFINE s == Tail(stack)
    <2>1. s \in Seq(Frames) /\ stack' = s /\ running' = running
      <3>1. stack # << >>
        BY <1>0, <1>5, EmptySeq DEF Ret
      <3>2. QED
        BY <1>0, <1>5, <3>1, HeadTailProperties DEF Ret
    <2>2. co' = [co EXCEPT ![running].view = s]
      BY <1>0, <1>1, <1>5 DEF Ret
    <2> HIDE DEF s
    <2>3. QED
      BY <1>3, <2>1, <2>2, Zenon
  <1>6. CASE coroutine_yield
    <2> DEFINE R == [_save_stack(C, stack) EXCEPT !.status = "SUSPEND"]
    <2>1. co' = [co EXCEPT ![r] = R] /\ running' = -1 /\ stack' = stack
      BY <1>0, <1>6 DEF coroutine_yield
    <2>2. R \in Coroutines /\ Saved(R) /\ R.status = "SUSPEND"
      BY <1>0, <1>1, SaveStack
    <2> HIDE DEF R
    <2>3. QED
      BY <1>0, <1>2, <2>1, <2>2, Zenon
  <1>7. QED
    BY <1>4, <1>5, <1>6


\* mainfunc takes the coroutine out of the table and of the count.
LEMMA EndStep ==
  ASSUME CoroutineAssumption, SchedulerInv, mainfunc_end
  PROVE  SchedulerInv' /\ LeavesOthers
  <1> DEFINE r == running
  <1>0. /\ TypeOK /\ r # -1 /\ r \in Live /\ r \in 0 .. cr_cap - 1 /\ cr_cap \in Nat \ {0}
        /\ co \in [0 .. cr_cap - 1 -> Coroutines \cup {NULL}] /\ stack \in Seq(Frames)
        /\ co' = [co EXCEPT ![r] = NULL] /\ cr_num' = cr_num - 1 /\ running' = -1
        /\ UNCHANGED <<cr_cap, stack, state>>
        /\ Live = {j \in 0 .. cr_cap - 1 : co[j] # NULL} /\ cr_num = Cardinality(Live)
    BY Slots DEF SchedulerInv, TypeOK, StackIntact, CountsLive, mainfunc_end, Live, Free
  <1>1. /\ co'[r] = NULL /\ \A j \in 0 .. cr_cap - 1 : j # r => co'[j] = co[j]
        /\ co' \in [0 .. cr_cap - 1 -> Coroutines \cup {NULL}]
    BY <1>0
  <1>2. Live' = Live \ {r}
    BY <1>0, <1>1 DEF Live, Free
  <1>3. /\ Cardinality(Live') = Cardinality(Live) - 1
        /\ Cardinality(Live) \in Nat /\ Cardinality(Live') \in Nat
    <2>1. IsFiniteSet(Live)
      BY <1>0, LiveFinite
    <2>2. IsFiniteSet(Live \ {r}) /\ Cardinality(Live \ {r}) = Cardinality(Live) - 1
      BY <1>0, <2>1, FS_RemoveElement, Zenon
    <2>3. QED
      BY <1>2, <2>1, <2>2, FS_CardinalityType
  <1>4. TypeOK'
    BY <1>0, <1>1, <1>3 DEF SchedulerInv, TypeOK
  <1>5. CountsLive' /\ AssertsHold' /\ StackIntact'
    BY <1>0, <1>3 DEF SchedulerInv, CountsLive, AssertsHold, StackIntact
  <1>6. \A j \in Live' : j \in Live /\ j # running /\ j # -1 /\ co'[j] = co[j]
    BY <1>0, <1>1, <1>2
  <1>7. RunningIsMarked'
    BY <1>0, <1>6 DEF SchedulerInv, RunningIsMarked
  <1>8. SavedIntact'
    <2>1. ASSUME NEW j \in Live' PROVE Saved(co'[j])
      BY <1>6 DEF SchedulerInv, SavedIntact
    <2>2. QED
      BY <2>1 DEF SavedIntact, Saved
  <1>9. LeavesOthers
    BY <1>0, <1>1 DEF LeavesOthers, Live
  <1>10. QED
    BY <1>4, <1>5, <1>7, <1>8, <1>9 DEF SchedulerInv

LEMMA CloseStep ==
  ASSUME CoroutineAssumption, SchedulerInv, coroutine_close
  PROVE  SchedulerInv' /\ LeavesOthers
  <1>0. /\ TypeOK /\ DOMAIN co = 0 .. cr_cap - 1 /\ co' = [i \in DOMAIN co |-> NULL]
        /\ cr_num' = 0 /\ state' = "closed" /\ running' = -1 /\ UNCHANGED <<cr_cap, stack>>
    BY DEF SchedulerInv, TypeOK, coroutine_close
  <1>1. Live' = {}
    BY <1>0 DEF Live, Free
  <1>2. TypeOK'
    BY <1>0 DEF TypeOK
  <1>3. CountsLive' /\ AssertsHold' /\ StackIntact' /\ RunningIsMarked' /\ SavedIntact'
    BY <1>0, <1>1, FS_EmptySet DEF CountsLive, AssertsHold, StackIntact, RunningIsMarked,
                                   SavedIntact
  <1>4. QED
    BY <1>0, <1>2, <1>3 DEF SchedulerInv, LeavesOthers

LEMMA SchedulerStep ==
  ASSUME CoroutineAssumption, SchedulerInv, Next
  PROVE  SchedulerInv' /\ LeavesOthers
  <1>1. ASSUME NEW ud \in Frames, coroutine_new(ud) PROVE SchedulerInv' /\ LeavesOthers
    BY <1>1, NewStep
  <1>2. ASSUME NEW id \in DOMAIN co, coroutine_resume(id) PROVE SchedulerInv' /\ LeavesOthers
    BY <1>2, ResumeStep
  <1>3. CASE (\E f \in Frames : Call(f)) \/ Ret \/ coroutine_yield
    BY <1>3, RunStep
  <1>4. CASE mainfunc_end
    BY <1>4, EndStep
  <1>5. CASE coroutine_close
    BY <1>5, CloseStep
  <1>6. QED
    BY <1>1, <1>2, <1>3, <1>4, <1>5 DEF Next

(***************************************************************************)
(* Theorems                                                                *)
(***************************************************************************)
LEMMA InvInit == ASSUME CoroutineAssumption, Init PROVE SchedulerInv
  <1>1. TypeOK /\ Live = {}
    BY DEF Init, TypeOK, Live, Free, CoroutineAssumption
  <1>2. QED
    BY <1>1, FS_EmptySet DEF Init, SchedulerInv, CountsLive, AssertsHold, StackIntact,
                             RunningIsMarked, SavedIntact

\* The inductive invariant of the scheduler: the count, the mark, the shared stack and the
\* saved ones fit together after every call of its functions.
THEOREM InvCorrect == ASSUME CoroutineAssumption PROVE Spec => []SchedulerInv
  <1>1. Init => SchedulerInv
    BY InvInit
  <1>2. SchedulerInv /\ [Next]_vars => SchedulerInv'
    <2>1. ASSUME SchedulerInv, UNCHANGED vars PROVE SchedulerInv'
      BY <2>1 DEF vars, SchedulerInv, TypeOK, CountsLive, AssertsHold, StackIntact,
                  RunningIsMarked, SavedIntact, Saved, Live, Free
    <2>2. QED
      BY <2>1, SchedulerStep
  <1>3. QED
    BY <1>1, <1>2, PTL DEF Spec

\* coroutine_new always finds a free slot and coroutine_resume never meets a coroutine that
\* is running: no assert of coroutine.c fails, in whatever order coroutines are made,
\* resumed, suspended and ended.
THEOREM NoAssertFails == ASSUME CoroutineAssumption PROVE Spec => []AssertsHold
  <1>1. SchedulerInv => AssertsHold
    BY DEF SchedulerInv
  <1>2. QED
    BY <1>1, InvCorrect, PTL

\* A coroutine that resumes finds on the shared stack what its own calls have left there.
THEOREM FramesIntact == ASSUME CoroutineAssumption PROVE Spec => []StackIntact
  <1>1. SchedulerInv => StackIntact
    BY DEF SchedulerInv
  <1>2. QED
    BY <1>1, InvCorrect, PTL

\* No step touches a coroutine other than the one that runs or is resumed: its slot is not
\* given away and its saved stack not overwritten, also when the table doubles.
THEOREM OthersLeftAlone == ASSUME CoroutineAssumption PROVE Spec => OthersUntouched
  <1>1. SchedulerInv /\ [Next]_vars => [LeavesOthers]_vars
    BY SchedulerStep
  <1>2. QED
    BY <1>1, InvCorrect, PTL DEF Spec, OthersUntouched
=============================================================================
