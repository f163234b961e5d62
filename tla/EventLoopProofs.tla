--------------------------- MODULE EventLoopProofs ---------------------------
(***************************************************************************)
(* Theorems about EventLoop, for any events, descriptors and delays:       *)
(* the queues and the flags agree, no event is called twice for one        *)
(* select, and no timeout that is due is left behind.                      *)
(***************************************************************************)
EXTENDS EventLoop, WellFoundedInduction, TLAPS

(***************************************************************************)
(* Sequences without repetition                                            *)
(***************************************************************************)
\* q holds exactly the events that have flag k in f, each of them once.
Matches(q, k, f) == /\ q \in Seq(Events) /\ IsInjective(q)
                    /\ \A e \in Events : Queued(q, e) <=> k \in f[e]

\* The members of q are in the order of l.
InOrder(q, l) == \A i, j \in 1 .. Len(q) : i < j => l[q[i]] <= l[q[j]]

\* next leads from each member of q to the one after it.
LinkedBy(q, next) ==
  \A i \in 1 .. Len(q) : next[q[i]] = IF i < Len(q) THEN q[i + 1] ELSE NULL

\* r is q with the element at i taken out.
TakenOut(r, q, i) ==
  /\ r \in Seq(Events) /\ Len(r) = Len(q) - 1
  /\ \A j \in 1 .. Len(r) : r[j] = IF j < i THEN q[j] ELSE q[j + 1]

\* r is q with e put in at i.
GivenPlace(r, q, i, e) ==
  /\ r \in Seq(Events) /\ Len(r) = Len(q) + 1
  /\ \A j \in 1 .. Len(q) + 1 : r[j] = IF j < i THEN q[j] ELSE IF j = i THEN e ELSE q[j - 1]

\* The smallest of a set of positions is one of them.
LEMMA Smallest ==
  ASSUME NEW I \in SUBSET Nat, I # {}
  PROVE  Min(I) \in I /\ \A i \in I : Min(I) <= i
  <1> DEFINE less == OpToRel(<, Nat)
  <1>1. IsWellFoundedOn(less, Nat)
    BY NatLessThanWellFounded, Zenon
  <1>2. \A x, y \in Nat : x < y => <<x, y>> \in less
    BY DEF OpToRel
  <1> HIDE DEF less
  <1>3. PICK x \in I : \A y \in I : ~ (<<y, x>> \in less)
    BY <1>1, WFMin
  <1>4. ASSUME NEW y \in I PROVE x <= y
    <2>1. x \in Nat /\ y \in Nat
      OBVIOUS
    <2>2. ~ (<<y, x>> \in less)
      BY <1>3, Zenon
    <2>3. ~ (y < x)
      BY <1>2, <2>1, <2>2, Zenon
    <2>4. QED
      BY <2>1, <2>3
  <1>5. QED
    BY <1>4, Zenon DEF Min

\* What two sequences make together.
LEMMA Joined ==
  ASSUME NEW a \in Seq(Events), NEW b \in Seq(Events)
  PROVE  /\ a \o b \in Seq(Events) /\ Len(a \o b) = Len(a) + Len(b)
         /\ \A j \in 1 .. Len(a) + Len(b) :
              (a \o b)[j] = IF j <= Len(a) THEN a[j] ELSE b[j - Len(a)]
  OBVIOUS

\* TAILQ_REMOVE takes one element out.
LEMMA Cut ==
  ASSUME NEW q \in Seq(Events), NEW i \in 1 .. Len(q)
  PROVE  TakenOut(TAILQ_REMOVE(q, i), q, i)
  <1> DEFINE a == SubSeq(q, 1, i - 1)
             b == SubSeq(q, i + 1, Len(q))
  <1>1. /\ a \in Seq(Events) /\ Len(a) = i - 1
        /\ \A j \in 1 .. i - 1 : a[j] = q[j]
    OBVIOUS
  <1>2. /\ b \in Seq(Events) /\ Len(b) = Len(q) - i
        /\ \A j \in 1 .. Len(q) - i : b[j] = q[i + j]
    OBVIOUS
  <1>3. Len(q) \in Nat /\ TAILQ_REMOVE(q, i) = a \o b
    BY DEF TAILQ_REMOVE
  <1> HIDE DEF a, b
  <1> DEFINE c == a \o b
  <1>4. /\ c \in Seq(Events) /\ Len(c) = Len(a) + Len(b)
        /\ \A j \in 1 .. Len(a) + Len(b) : c[j] = IF j <= Len(a) THEN a[j] ELSE b[j - Len(a)]
    BY <1>1, <1>2, Joined
  <1>5. TAILQ_REMOVE(q, i) = c
    BY <1>3
  <1> HIDE DEF c
  <1>6. Len(c) = Len(q) - 1
    BY <1>1, <1>2, <1>3, <1>4
  <1>7. ASSUME NEW j \in 1 .. Len(c), j < i PROVE c[j] = q[j]
    <2>1. j \in 1 .. i - 1 /\ j <= Len(a) /\ j \in 1 .. Len(a) + Len(b)
      BY <1>1, <1>2, <1>3, <1>6, <1>7
    <2>2. c[j] = a[j]
      BY <1>4, <2>1, Zenon
    <2>3. QED
      BY <1>1, <2>1, <2>2, Zenon
  <1>8. ASSUME NEW j \in 1 .. Len(c), ~(j < i) PROVE c[j] = q[j + 1]
    <2>1. j - (i - 1) \in 1 .. Len(q) - i /\ ~(j <= i - 1) /\ i + (j - (i - 1)) = j + 1
      BY <1>3, <1>6, <1>8
    <2>2. c[j] = b[j - (i - 1)]
      BY <1>1, <1>2, <1>4, <2>1
    <2>3. QED
      BY <1>2, <2>1, <2>2
  <1>9. QED
    BY <1>4, <1>5, <1>6, <1>7, <1>8, Zenon DEF TakenOut

\* TAILQ_REMOVE: of a sequence without repetition one element is taken out, and the
\* others stay in their order.
LEMMA Removed ==
  ASSUME NEW q \in Seq(Events), IsInjective(q), NEW i \in 1 .. Len(q)
  PROVE  TakenOut(Without(q, q[i]), q, i)
  <1> DEFINE I == {j \in 1 .. Len(q) : q[j] = q[i]}
  <1>1. I = {i}
    BY DEF IsInjective
  <1>2. Min(I) = i
    BY <1>1 DEF Min
  <1>3. Queued(q, q[i])
    BY DEF Queued
  <1>4. Without(q, q[i]) = TAILQ_REMOVE(q, i)
    BY <1>2, <1>3, Zenon DEF Without
  <1>5. QED
    BY <1>4, Cut, Zenon

LEMMA NotThere ==
  ASSUME NEW q, NEW e, ~Queued(q, e)
  PROVE  Without(q, e) = q
  BY DEF Without

\* TAILQ_INSERT_BEFORE puts one element in, Append one at the end.
LEMMA PutIn ==
  ASSUME NEW q \in Seq(Events), NEW i \in 1 .. Len(q) + 1, NEW e \in Events
  PROVE  GivenPlace(IF i = Len(q) + 1 THEN Append(q, e) ELSE TAILQ_INSERT_BEFORE(q, i, e), q, i, e)
  <1>1. CASE i = Len(q) + 1
    BY <1>1 DEF GivenPlace
  <1>2. CASE i # Len(q) + 1
    <2> DEFINE a == SubSeq(q, 1, i - 1)
               b == SubSeq(q, i, Len(q))
    <2>1. /\ a \in Seq(Events) /\ Len(a) = i - 1
          /\ \A j \in 1 .. i - 1 : a[j] = q[j]
      OBVIOUS
    <2>2. /\ b \in Seq(Events) /\ Len(b) = Len(q) - i + 1
          /\ \A j \in 1 .. Len(q) - i + 1 : b[j] = q[i + j - 1]
      BY <1>2
    <2>3. Len(q) \in Nat /\ i \in Nat /\ TAILQ_INSERT_BEFORE(q, i, e) = a \o <<e>> \o b
      BY DEF TAILQ_INSERT_BEFORE
    <2> HIDE DEF a, b
    <2> DEFINE c == a \o <<e>>
    <2>4. /\ c \in Seq(Events) /\ Len(c) = i
          /\ \A j \in 1 .. i : c[j] = IF j = i THEN e ELSE q[j]
      BY <2>1, <2>3
    <2>5. TAILQ_INSERT_BEFORE(q, i, e) = c \o b
      BY <2>3
    <2> HIDE DEF c
    <2> DEFINE d == c \o b
    <2>6. /\ d \in Seq(Events) /\ Len(d) = Len(c) + Len(b)
          /\ \A j \in 1 .. Len(c) + Len(b) : d[j] = IF j <= Len(c) THEN c[j] ELSE b[j - Len(c)]
      BY <2>2, <2>4, Joined
    <2>7. TAILQ_INSERT_BEFORE(q, i, e) = d
      BY <2>5
    <2> HIDE DEF d
    <2>8. Len(d) = Len(q) + 1
      BY <2>2, <2>3, <2>4, <2>6
    <2>9. ASSUME NEW j \in 1 .. Len(q) + 1, j <= i
          PROVE  d[j] = IF j < i THEN q[j] ELSE e
      <3>1. j \in 1 .. Len(c) + Len(b) /\ j <= Len(c) /\ j \in 1 .. i
        BY <2>3, <2>4, <2>6, <2>8, <2>9
      <3>2. d[j] = c[j]
        BY <2>6, <3>1, Zenon
      <3>3. QED
        BY <2>4, <3>1, <3>2
    <2>10. ASSUME NEW j \in 1 .. Len(q) + 1, ~(j <= i) PROVE d[j] = q[j - 1]
      <3>1. j - i \in 1 .. Len(q) - i + 1 /\ i + (j - i) - 1 = j - 1
        BY <2>3, <2>10
      <3>2. d[j] = b[j - i]
        BY <2>2, <2>4, <2>6, <2>8, <2>10
      <3>3. QED
        BY <2>2, <3>1, <3>2
    <2>11. ASSUME NEW j \in 1 .. Len(q) + 1
           PROVE  d[j] = IF j < i THEN q[j] ELSE IF j = i THEN e ELSE q[j - 1]
      BY <2>3, <2>9, <2>10
    <2>12. QED
      BY <1>2, <2>6, <2>7, <2>8, <2>11, Zenon DEF GivenPlace
  <1>3. QED
    BY <1>1, <1>2, Zenon

\* What is left of a sequence without repetition has none, and holds the other elements
\* in the same order.
LEMMA OutOf ==
  ASSUME NEW q \in Seq(Events), IsInjective(q), NEW i \in 1 .. Len(q), NEW r,
         TakenOut(r, q, i)
  PROVE  /\ IsInjective(r)
         /\ \A x : Queued(r, x) <=> Queued(q, x) /\ x # q[i]
         /\ \A l : InOrder(q, l) => InOrder(r, l)
  <1> USE DEF TakenOut
  <1> DEFINE at == [j \in 1 .. Len(q) |-> IF j < i THEN j ELSE j + 1]
  <1>1. Len(q) \in Nat /\ i \in Nat /\ Len(r) = Len(q) - 1 /\ r \in Seq(Events)
    OBVIOUS
  <1>2. \A j \in 1 .. Len(r) : at[j] \in 1 .. Len(q) /\ at[j] # i /\ r[j] = q[at[j]]
    BY <1>1
  <1>3. \A j, k \in 1 .. Len(r) : /\ at[j] = at[k] => j = k
                                  /\ j < k => at[j] < at[k]
    BY <1>1
  <1>4. \A k \in 1 .. Len(q) : k # i => \E j \in 1 .. Len(r) : k = at[j]
    <2> TAKE k \in 1 .. Len(q)
    <2> HAVE k # i
    <2>1. CASE k < i
      BY <1>1, <2>1
    <2>2. CASE k > i
      <3>1. k - 1 \in 1 .. Len(r) /\ k = at[k - 1]
        BY <1>1, <2>2
      <3>2. QED
        BY <3>1
    <2>3. k < i \/ k > i
      BY <1>1
    <2>4. QED
      BY <2>1, <2>2, <2>3, Zenon
  <1>5. \A j, k \in 1 .. Len(q) : q[j] = q[k] => j = k
    <2>1. DOMAIN q = 1 .. Len(q)
      OBVIOUS
    <2>2. QED
      BY <2>1, Zenon DEF IsInjective
  <1>6. DOMAIN r = 1 .. Len(r)
    BY <1>1
  <1> HIDE DEF at, TakenOut
  <1>7. ASSUME NEW j \in 1 .. Len(r), NEW k \in 1 .. Len(r), r[j] = r[k] PROVE j = k
    <2>1. at[j] \in 1 .. Len(q) /\ at[k] \in 1 .. Len(q) /\ q[at[j]] = q[at[k]]
      BY <1>2, <1>7
    <2>2. at[j] = at[k]
      BY <1>5, <2>1
    <2>3. QED
      BY <1>3, <2>2, Zenon
  <1>8. ASSUME NEW j \in 1 .. Len(r) PROVE Queued(q, r[j]) /\ r[j] # q[i]
    <2>1. at[j] \in 1 .. Len(q) /\ at[j] # i /\ r[j] = q[at[j]]
      BY <1>2
    <2>2. QED
      BY <1>5, <2>1 DEF Queued
  <1>9. ASSUME NEW k \in 1 .. Len(q), k # i PROVE Queued(r, q[k])
    <2>1. PICK j \in 1 .. Len(r) : k = at[j]
      BY <1>4, <1>9
    <2>2. r[j] = q[k]
      BY <1>2, <2>1
    <2>3. QED
      BY <2>2 DEF Queued
  <1>10. \A x : Queued(r, x) <=> Queued(q, x) /\ x # q[i]
    BY <1>8, <1>9 DEF Queued
  <1>11. ASSUME NEW l, InOrder(q, l) PROVE InOrder(r, l)
    <2>1. SUFFICES ASSUME NEW j \in 1 .. Len(r), NEW k \in 1 .. Len(r), j < k
                   PROVE  l[r[j]] <= l[r[k]]
      BY DEF InOrder
    <2>2. at[j] \in 1 .. Len(q) /\ at[k] \in 1 .. Len(q) /\ at[j] < at[k]
      BY <1>2, <1>3, <2>1, Zenon
    <2>3. l[q[at[j]]] <= l[q[at[k]]]
      BY <1>11, <2>2, Zenon DEF InOrder
    <2>4. QED
      BY <1>2, <2>3
  <1>12. QED
    BY <1>6, <1>7, <1>10, <1>11, Zenon DEF IsInjective

\* A sequence without repetition that is given an element it does not hold.
LEMMA Into ==
  ASSUME NEW q \in Seq(Events), IsInjective(q), NEW i \in 1 .. Len(q) + 1, NEW e \in Events,
         ~Queued(q, e), NEW r, GivenPlace(r, q, i, e)
  PROVE  /\ IsInjective(r)
         /\ \A x : Queued(r, x) <=> Queued(q, x) \/ x = e
  <1> USE DEF GivenPlace
  <1>1. /\ Len(q) \in Nat /\ i \in Nat /\ r \in Seq(Events) /\ DOMAIN r = 1 .. Len(q) + 1
        /\ DOMAIN q = 1 .. Len(q) /\ Len(r) = Len(q) + 1
    OBVIOUS
  <1>2. r[i] = e
    BY <1>1
  <1> DEFINE at == [j \in 1 .. Len(q) |-> IF j < i THEN j ELSE j + 1]
  <1>3. \A j \in 1 .. Len(q) : at[j] \in 1 .. Len(r) /\ at[j] # i /\ r[at[j]] = q[j]
    BY <1>1
  <1>4. \A k \in 1 .. Len(r) : k # i => \E j \in 1 .. Len(q) : k = at[j]
    <2> TAKE k \in 1 .. Len(r)
    <2> HAVE k # i
    <2>1. CASE k < i
      BY <1>1, <2>1
    <2>2. CASE k > i
      <3>1. k - 1 \in 1 .. Len(q) /\ k = at[k - 1]
        BY <1>1, <2>2
      <3>2. QED
        BY <3>1
    <2>3. k < i \/ k > i
      BY <1>1
    <2>4. QED
      BY <2>1, <2>2, <2>3, Zenon
  <1>5. \A j, k \in 1 .. Len(q) : q[j] = q[k] => j = k
    BY DEF IsInjective
  <1>6. i \in 1 .. Len(r) /\ DOMAIN r = 1 .. Len(r)
    BY <1>1
  <1> HIDE DEF at, GivenPlace
  <1>7. ASSUME NEW k \in 1 .. Len(r), k # i
        PROVE  \E j \in 1 .. Len(q) : k = at[j] /\ r[k] = q[j]
    BY <1>3, <1>4, <1>7
  <1>8. \A m \in 1 .. Len(q) : q[m] # e
    BY DEF Queued
  <1>9. ASSUME NEW x PROVE Queued(r, x) <=> Queued(q, x) \/ x = e
    <2>1. ASSUME Queued(r, x), x # e PROVE Queued(q, x)
      BY <1>2, <1>7, <2>1 DEF Queued
    <2>2. ASSUME Queued(q, x) PROVE Queued(r, x)
      BY <1>3, <2>2 DEF Queued
    <2>3. Queued(r, e)
      BY <1>2, <1>6 DEF Queued
    <2>4. QED
      BY <2>1, <2>2, <2>3, Zenon
  <1>10. ASSUME NEW j \in 1 .. Len(r), NEW k \in 1 .. Len(r), r[j] = r[k] PROVE j = k
    BY <1>2, <1>5, <1>7, <1>8, <1>10
  <1>11. QED
    BY <1>6, <1>9, <1>10, Zenon DEF IsInjective

(***************************************************************************)
(* Queues and flags                                                        *)
(***************************************************************************)
Flags == [Events -> SUBSET {R, W, T, A}]

\* The flags f and g agree on k, but for event e.
SameBut(f, g, k, e) == \A x \in Events : x # e => (k \in g[x] <=> k \in f[x])

\* Flags that do not change leave a queue right.
LEMMA Kept ==
  ASSUME NEW f, NEW g, NEW q, NEW k, NEW e \in Events, Matches(q, k, f), SameBut(f, g, k, e),
         k \in g[e] <=> k \in f[e]
  PROVE  Matches(q, k, g)
  BY Zenon DEF Matches, SameBut

\* The flag is right: an event that has not got it is not there.
LEMMA Left ==
  ASSUME NEW n, NEW q, NEW k, NEW e \in Events, Matches(q, k, n.flags)
  PROVE  Leave(n, q, k, e) = Without(q, e)
  <1>1. CASE k \in n.flags[e]
    BY <1>1, Zenon DEF Leave
  <1>2. CASE k \notin n.flags[e]
    <2>1. ~Queued(q, e)
      BY <1>2, Zenon DEF Matches
    <2>2. QED
      BY <1>2, <2>1, NotThere, Zenon DEF Leave
  <1>3. QED
    BY <1>1, <1>2, Zenon

\* An event leaves its queue, and its flag goes.
LEMMA Dropped ==
  ASSUME NEW f, NEW g, NEW q, NEW k, NEW e \in Events, Matches(q, k, f), SameBut(f, g, k, e),
         k \notin g[e]
  PROVE  /\ Matches(Without(q, e), k, g)
         /\ \A l : InOrder(q, l) => InOrder(Without(q, e), l)
  <1>1. q \in Seq(Events) /\ IsInjective(q)
    BY DEF Matches
  <1>2. CASE Queued(q, e)
    <2>1. PICK i \in 1 .. Len(q) : q[i] = e
      BY <1>2, Zenon DEF Queued
    <2>2. TakenOut(Without(q, e), q, i)
      BY <1>1, <2>1, Removed
    <2>3. /\ IsInjective(Without(q, e))
          /\ \A x : Queued(Without(q, e), x) <=> Queued(q, x) /\ x # e
          /\ \A l : InOrder(q, l) => InOrder(Without(q, e), l)
      BY <1>1, <2>1, <2>2, OutOf
    <2>4. Without(q, e) \in Seq(Events)
      BY <2>2, Zenon DEF TakenOut
    <2>5. QED
      BY <2>3, <2>4, Zenon DEF Matches, SameBut
  <1>3. CASE ~Queued(q, e)
    <2>1. Without(q, e) = q
      BY <1>3, NotThere, Zenon
    <2>2. QED
      BY <1>3, <2>1, Zenon DEF Matches, SameBut
  <1>4. QED
    BY <1>2, <1>3, Zenon

\* TAILQ_INSERT_TAIL: an event that has not got the flag gets it, and goes to the end.
LEMMA Enqueued ==
  ASSUME NEW f, NEW g, NEW q, NEW k, NEW e \in Events, Matches(q, k, f), SameBut(f, g, k, e),
         k \notin f[e], k \in g[e]
  PROVE  Matches(Append(q, e), k, g)
  <1>1. q \in Seq(Events) /\ IsInjective(q) /\ ~Queued(q, e)
    BY DEF Matches
  <1>2. Len(q) + 1 \in 1 .. Len(q) + 1
    BY <1>1
  <1>3. GivenPlace(Append(q, e), q, Len(q) + 1, e)
    BY <1>1, <1>2, PutIn
  <1>4. /\ IsInjective(Append(q, e))
        /\ \A x : Queued(Append(q, e), x) <=> Queued(q, x) \/ x = e
    BY <1>1, <1>2, <1>3, Into
  <1>5. Append(q, e) \in Seq(Events)
    BY <1>1
  <1>6. QED
    BY <1>4, <1>5, Zenon DEF Matches, SameBut

\* The first event leaves its queue, and its flag goes.
LEMMA Dequeued ==
  ASSUME NEW f, NEW g, NEW q, NEW k, Matches(q, k, f), q # << >>,
         SameBut(f, g, k, Head(q)), k \notin g[Head(q)]
  PROVE  /\ Head(q) \in Events /\ Matches(Tail(q), k, g)
         /\ \A l : InOrder(q, l) => InOrder(Tail(q), l)
  <1>1. q \in Seq(Events) /\ IsInjective(q)
    BY DEF Matches
  <1>2. Head(q) \in Events /\ 1 \in 1 .. Len(q) /\ Head(q) = q[1]
    BY <1>1
  <1>3. TakenOut(Tail(q), q, 1)
    BY <1>1 DEF TakenOut
  <1>4. /\ IsInjective(Tail(q))
        /\ \A x : Queued(Tail(q), x) <=> Queued(q, x) /\ x # Head(q)
        /\ \A l : InOrder(q, l) => InOrder(Tail(q), l)
    BY <1>1, <1>2, <1>3, OutOf
  <1>5. Tail(q) \in Seq(Events)
    BY <1>1
  <1>6. QED
    BY <1>2, <1>4, <1>5, Zenon DEF Matches, SameBut

\* event_add finds the place of a timeout: behind those that are due earlier.
LEMMA TimedInOrder ==
  ASSUME NEW q \in Seq(Events), IsInjective(q), NEW e \in Events, ~Queued(q, e),
         NEW l \in [Events -> Nat], NEW tv \in Nat, InOrder(q, l)
  PROVE  \E i \in 1 .. Len(q) + 1 : /\ GivenPlace(Timed(q, e, tv, l), q, i, e)
                                    /\ InOrder(Timed(q, e, tv, l), [l EXCEPT ![e] = tv])
  <1> DEFINE later == {j \in 1 .. Len(q) : tv <= l[q[j]]}
             i == IF later = {} THEN Len(q) + 1 ELSE Min(later)
             r == Timed(q, e, tv, l)
             m == [l EXCEPT ![e] = tv]
  <1>1. Len(q) \in Nat /\ \A j \in 1 .. Len(q) : q[j] \in Events /\ l[q[j]] \in Nat
    OBVIOUS
  <1>2. later # {} => Min(later) \in later /\ \A j \in later : Min(later) <= j
    <2>1. later \in SUBSET Nat
      OBVIOUS
    <2> HIDE DEF later
    <2>2. QED
      BY <2>1, Smallest, Zenon
  <1>3. /\ i \in 1 .. Len(q) + 1
        /\ \A j \in 1 .. Len(q) : IF j < i THEN l[q[j]] < tv ELSE i <= Len(q) /\ tv <= l[q[i]]
    <2>1. CASE later = {}
      <3>1. i = Len(q) + 1
        BY <2>1
      <3>2. \A j \in 1 .. Len(q) : ~(tv <= l[q[j]])
        BY <2>1
      <3> HIDE DEF i, later
      <3>3. QED
        BY <1>1, <3>1, <3>2
    <2>2. CASE later # {}
      <3>1. i = Min(later)
        BY <2>2
      <3>2. i \in 1 .. Len(q) /\ tv <= l[q[i]]
        BY <1>2, <2>2, <3>1
      <3>3. \A j \in 1 .. Len(q) : tv <= l[q[j]] => i <= j
        BY <1>2, <2>2, <3>1
      <3> HIDE DEF i, later
      <3>4. QED
        BY <1>1, <3>2, <3>3
    <2>3. QED
      BY <2>1, <2>2, Zenon
  <1>4. r = IF i = Len(q) + 1 THEN Append(q, e) ELSE TAILQ_INSERT_BEFORE(q, i, e)
    <2>1. CASE later = {}
      BY <2>1, Zenon DEF Timed
    <2>2. CASE later # {}
      <3>1. i = Min(later) /\ i # Len(q) + 1
        BY <1>1, <1>2, <2>2
      <3>2. QED
        BY <2>2, <3>1, Zenon DEF Timed
    <2>3. QED
      BY <2>1, <2>2, Zenon
  <1> HIDE DEF i, r, later
  <1>5. GivenPlace(r, q, i, e)
    BY <1>3, <1>4, PutIn
  <1>6. \A j \in 1 .. Len(q) : q[j] # e
    BY DEF Queued
  <1>7. \A j \in 1 .. Len(q) : m[q[j]] = l[q[j]]
    BY <1>1, <1>6
  <1>8. m[e] = tv
    OBVIOUS
  <1> HIDE DEF m
  <1>9. Len(r) = Len(q) + 1
    BY <1>5, Zenon DEF GivenPlace
  <1>10. \A j \in 1 .. Len(r) : r[j] = IF j < i THEN q[j] ELSE IF j = i THEN e ELSE q[j - 1]
    BY <1>5, <1>9, Zenon DEF GivenPlace
  <1>11. ASSUME NEW j \in 1 .. Len(q), NEW k \in 1 .. Len(q), j <= k
         PROVE  l[q[j]] <= l[q[k]]
    BY <1>1, <1>11 DEF InOrder
  <1>12. \A j \in 1 .. Len(q) : /\ j < i => l[q[j]] < tv
                                /\ i <= j => tv <= l[q[j]]
    <2> TAKE j \in 1 .. Len(q)
    <2>1. CASE j < i
      BY <1>1, <1>3, <2>1
    <2>2. CASE i <= j
      <3>1. ~(j < i) /\ i \in 1 .. Len(q) /\ tv <= l[q[i]]
        BY <1>1, <1>3, <2>2
      <3>2. l[q[i]] <= l[q[j]]
        BY <1>11, <2>2, <3>1
      <3>3. QED
        BY <1>1, <3>1, <3>2
    <2>3. QED
      BY <1>1, <1>3, <2>1, <2>2
  <1>13. ASSUME NEW j \in 1 .. Len(r), NEW k \in 1 .. Len(r), j < k
         PROVE  m[r[j]] <= m[r[k]]
    <2>1. i \in Nat /\ j \in Nat /\ k \in Nat
      BY <1>1, <1>3
    <2>2. CASE k < i
      <3>1. r[j] = q[j] /\ r[k] = q[k] /\ j \in 1 .. Len(q) /\ k \in 1 .. Len(q)
        BY <1>1, <1>3, <1>9, <1>10, <1>13, <2>1, <2>2
      <3>2. QED
        BY <1>7, <1>11, <1>13, <2>1, <3>1
    <2>3. CASE k = i
      <3>1. r[j] = q[j] /\ r[k] = e /\ j \in 1 .. Len(q) /\ j < i
        BY <1>1, <1>3, <1>9, <1>10, <1>13, <2>1, <2>3
      <3>2. QED
        BY <1>1, <1>7, <1>8, <1>12, <3>1
    <2>4. CASE j = i
      <3>1. r[j] = e /\ r[k] = q[k - 1] /\ k - 1 \in 1 .. Len(q) /\ i <= k - 1
        BY <1>1, <1>3, <1>9, <1>10, <1>13, <2>1, <2>4
      <3>2. QED
        BY <1>1, <1>7, <1>8, <1>12, <3>1
    <2>5. CASE j < i /\ i < k
      <3>1. r[j] = q[j] /\ r[k] = q[k - 1] /\ j \in 1 .. Len(q) /\ k - 1 \in 1 .. Len(q) /\ j <= k - 1
        BY <1>1, <1>3, <1>9, <1>10, <1>13, <2>1, <2>5
      <3>2. QED
        BY <1>7, <1>11, <3>1
    <2>6. CASE i < j
      <3>1. /\ r[j] = q[j - 1] /\ r[k] = q[k - 1]
            /\ j - 1 \in 1 .. Len(q) /\ k - 1 \in 1 .. Len(q) /\ j - 1 <= k - 1
        BY <1>1, <1>3, <1>9, <1>10, <1>13, <2>1, <2>6
      <3>2. QED
        BY <1>7, <1>11, <3>1
    <2>7. QED
      BY <1>13, <2>1, <2>2, <2>3, <2>4, <2>5, <2>6
  <1>14. InOrder(r, m)
    BY <1>13, Zenon DEF InOrder
  <1>15. QED
    BY <1>3, <1>5, <1>14, Zenon DEF r, m

(***************************************************************************)
(* ev_read_next                                                            *)
(***************************************************************************)
Links == [Events -> Events \cup {NULL}]

\* TAILQ_INSERT_TAIL links the last event to the new one.
LEMMA TailLinked ==
  ASSUME NEW n, NEW e \in Events, n.rq \in Seq(Events), IsInjective(n.rq), n.next \in Links,
         ~Queued(n.rq, e), LinkedBy(n.rq, n.next)
  PROVE  LinkTail(n, e) \in Links /\ LinkedBy(Append(n.rq, e), LinkTail(n, e))
  <1> DEFINE q == n.rq
             next == n.next
             new == LinkTail(n, e)
             r == Append(q, e)
  <1>1. /\ q \in Seq(Events) /\ next \in Links /\ Len(q) \in Nat
        /\ \A j \in 1 .. Len(q) : q[j] \in Events /\ q[j] # e
    BY DEF Queued
  <1>2. \A j, k \in 1 .. Len(q) : q[j] = q[k] => j = k
    BY <1>1 DEF IsInjective
  <1>3. new = [x \in Events |-> IF x = e THEN NULL
                               ELSE IF q # << >> /\ x = q[Len(q)] THEN e ELSE next[x]]
    BY Zenon DEF LinkTail
  <1>4. \A j \in 1 .. Len(q) : next[q[j]] = IF j < Len(q) THEN q[j + 1] ELSE NULL
    BY Zenon DEF LinkedBy
  <1>5. Len(r) = Len(q) + 1 /\ \A j \in 1 .. Len(r) : r[j] = IF j = Len(r) THEN e ELSE q[j]
    BY <1>1
  <1> HIDE DEF q, next, new, r
  <1>6. new \in Links
    BY <1>1, <1>3 DEF Links
  <1>7. new[e] = NULL
    BY <1>3
  <1>8. ASSUME NEW j \in 1 .. Len(q)
        PROVE  new[q[j]] = IF j = Len(q) THEN e ELSE q[j + 1]
    <2>1. q # << >> /\ Len(q) \in 1 .. Len(q)
      BY <1>1
    <2>2. q[j] = q[Len(q)] <=> j = Len(q)
      BY <1>2, <2>1
    <2>3. new[q[j]] = IF j = Len(q) THEN e ELSE next[q[j]]
      BY <1>1, <1>3, <2>1, <2>2
    <2>4. QED
      BY <1>1, <1>4, <2>3
  <1>9. LinkedBy(r, new)
    BY <1>1, <1>5, <1>7, <1>8 DEF LinkedBy
  <1>10. QED
    BY <1>6, <1>9, Zenon DEF q, new, r

\* TAILQ_REMOVE links the event before the one that goes to the one after it.
LEMMA HeadLinked ==
  ASSUME NEW n, NEW e \in Events, n.rq \in Seq(Events), IsInjective(n.rq), n.next \in Links,
         Queued(n.rq, e), LinkedBy(n.rq, n.next)
  PROVE  Unlink(n, e) \in Links /\ LinkedBy(Without(n.rq, e), Unlink(n, e))
  <1> DEFINE q == n.rq
             next == n.next
             new == Unlink(n, e)
             r == Without(q, e)
  <1>1. /\ q \in Seq(Events) /\ next \in Links /\ Len(q) \in Nat /\ DOMAIN q = 1 .. Len(q)
        /\ \A j \in 1 .. Len(q) : q[j] \in Events
    OBVIOUS
  <1>2. \A j, k \in 1 .. Len(q) : q[j] = q[k] => j = k
    BY <1>1 DEF IsInjective
  <1>3. PICK i \in 1 .. Len(q) : q[i] = e
    BY Zenon DEF Queued
  <1>4. i = CHOOSE k \in DOMAIN q : q[k] = e
    BY <1>1, <1>2, <1>3
  <1>5. new = IF i = 1 THEN next ELSE [next EXCEPT ![q[i - 1]] = next[e]]
    BY <1>4, Zenon DEF Unlink
  <1>6. \A j \in 1 .. Len(q) : next[q[j]] = IF j < Len(q) THEN q[j + 1] ELSE NULL
    BY Zenon DEF LinkedBy
  <1>7. TakenOut(r, q, i)
    BY <1>1, <1>3, Removed
  <1>8. Len(r) = Len(q) - 1 /\ \A j \in 1 .. Len(r) : r[j] = IF j < i THEN q[j] ELSE q[j + 1]
    BY <1>7, Zenon DEF TakenOut
  <1> HIDE DEF q, next, new, r
  <1>9. new \in Links
    BY <1>1, <1>3, <1>5 DEF Links
  <1>10. ASSUME NEW j \in 1 .. Len(q), j # i
         PROVE  new[q[j]] = IF j + 1 = i THEN next[q[i]] ELSE next[q[j]]
    <2>1. CASE i = 1
      BY <1>1, <1>5, <2>1
    <2>2. CASE i # 1
      <3>1. i - 1 \in 1 .. Len(q)
        BY <1>1, <2>2
      <3>2. q[j] = q[i - 1] <=> j + 1 = i
        BY <1>1, <1>2, <3>1
      <3>3. QED
        BY <1>1, <1>3, <1>5, <2>2, <3>1, <3>2 DEF Links
    <2>3. QED
      BY <2>1, <2>2, Zenon
  <1>11. ASSUME NEW j \in 1 .. Len(r)
         PROVE  new[r[j]] = IF j < Len(r) THEN r[j + 1] ELSE NULL
    <2>1. CASE j + 1 = i
      <3>1. r[j] = q[j] /\ j \in 1 .. Len(q) /\ new[q[j]] = next[q[i]]
        BY <1>1, <1>8, <1>10, <2>1
      <3>2. QED
        BY <1>1, <1>6, <1>8, <2>1, <3>1
    <2>2. CASE j + 1 < i
      <3>1. r[j] = q[j] /\ j \in 1 .. Len(q) /\ new[q[j]] = next[q[j]]
        BY <1>1, <1>8, <1>10, <2>2
      <3>2. QED
        BY <1>1, <1>6, <1>8, <2>2, <3>1
    <2>3. CASE j >= i
      <3>1. r[j] = q[j + 1] /\ j + 1 \in 1 .. Len(q) /\ new[q[j + 1]] = next[q[j + 1]]
        BY <1>1, <1>8, <1>10, <2>3
      <3>2. new[r[j]] = IF j + 1 < Len(q) THEN q[(j + 1) + 1] ELSE NULL
        BY <1>6, <3>1, Zenon
      <3>3. CASE j < Len(r)
        <4>1. j + 1 \in 1 .. Len(r) /\ ~(j + 1 < i) /\ j + 1 < Len(q)
          BY <1>1, <1>8, <2>3, <3>3
        <4>2. r[j + 1] = q[(j + 1) + 1]
          BY <1>8, <4>1, Zenon
        <4>3. QED
          BY <3>2, <3>3, <4>1, <4>2, Zenon
      <3>4. CASE ~(j < Len(r))
        <4>1. ~(j + 1 < Len(q))
          BY <1>1, <1>8, <3>4
        <4>2. QED
          BY <3>2, <3>4, <4>1, Zenon
      <3>5. QED
        BY <3>3, <3>4, Zenon
    <2>4. QED
      BY <1>1, <2>1, <2>2, <2>3
  <1>12. LinkedBy(r, new)
    BY <1>11, Zenon DEF LinkedBy
  <1>13. QED
    BY <1>9, <1>12, Zenon DEF q, new, r

(***************************************************************************)
(* The operations on the queues                                            *)
(***************************************************************************)
QueueRec == [rq : Seq(Events), wq : Seq(Events), tq : Seq(Events), aq : Seq(Events),
             next : Links, flags : Flags, left : [Events -> Nat]]

\* What the operations keep of the queues.
Good(n) ==
  /\ n \in QueueRec
  /\ Matches(n.rq, R, n.flags) /\ Matches(n.wq, W, n.flags)
  /\ Matches(n.tq, T, n.flags) /\ Matches(n.aq, A, n.flags)
  /\ InOrder(n.tq, n.left) /\ LinkedBy(n.rq, n.next)

\* From f to g, event e gets flag k0, or loses it.
Sets(f, g, e, k0) ==
  g \in Flags /\ \A k : SameBut(f, g, k, e) /\ (k \in g[e] <=> k \in f[e] \/ k = k0)
Clears(f, g, e, k0) ==
  g \in Flags /\ \A k : SameBut(f, g, k, e) /\ (k \in g[e] <=> k \in f[e] /\ k # k0)

LEMMA Flagged ==
  ASSUME NEW f \in Flags, NEW e \in Events, NEW k0 \in {R, W, T, A}
  PROVE  /\ Sets(f, [f EXCEPT ![e] = f[e] \cup {k0}], e, k0)
         /\ Clears(f, [f EXCEPT ![e] = f[e] \ {k0}], e, k0)
  BY DEF Flags, SameBut, Sets, Clears

\* The four flags are different.
LEMMA FlagsDiffer ==
  /\ R # W /\ R # T /\ R # A /\ W # T /\ W # A /\ T # A
  /\ R \in {R, W, T, A} /\ W \in {R, W, T, A} /\ T \in {R, W, T, A} /\ A \in {R, W, T, A}
  BY DEF R, W, T, A

\* The types of the fields.
LEMMA Fields ==
  ASSUME NEW n, Good(n)
  PROVE  /\ n \in QueueRec
         /\ n.rq \in Seq(Events) /\ n.wq \in Seq(Events) /\ n.tq \in Seq(Events)
         /\ n.aq \in Seq(Events) /\ n.next \in Links /\ n.flags \in Flags
         /\ n.left \in [Events -> Nat]
  <1>1. n \in QueueRec
    BY Zenon DEF Good
  <1>2. QED
    BY <1>1 DEF QueueRec

\* event_add_post puts an event into readqueue.
LEMMA AddRead ==
  ASSUME NEW n, Good(n), NEW e \in Events
  PROVE  Good(add_read(n, e))
  <1> DEFINE m == add_read(n, e)
             g == [n.flags EXCEPT ![e] = n.flags[e] \cup {R}]
  <1>1. CASE ~(R \in ev_events[e] /\ R \notin n.flags[e])
    BY <1>1, Zenon DEF add_read
  <1>2. CASE R \in ev_events[e] /\ R \notin n.flags[e]
    <2>1. n \in QueueRec
      BY Fields, Zenon
    <2>2. n.rq \in Seq(Events) /\ n.flags \in Flags /\ n.next \in Links
      BY Fields, Zenon
    <2>3. m = [n EXCEPT !.next = LinkTail(n, e), !.rq = Append(n.rq, e), !.flags = g]
      BY <1>2, <2>1 DEF add_read, QueueRec
    <2> HIDE DEF m
    <2>4. /\ m.rq = Append(n.rq, e) /\ m.wq = n.wq /\ m.tq = n.tq /\ m.aq = n.aq
          /\ m.next = LinkTail(n, e) /\ m.flags = g /\ m.left = n.left
      BY <2>1, <2>3 DEF QueueRec
    <2>5. Sets(n.flags, g, e, R)
      BY <2>2, Flagged, FlagsDiffer, Zenon
    <2> HIDE DEF g
    <2>6. Matches(n.rq, R, n.flags)
      BY Zenon DEF Good
    <2>7. IsInjective(n.rq) /\ ~Queued(n.rq, e)
      BY <1>2, <2>6, Zenon DEF Matches
    <2>15. LinkedBy(n.rq, n.next)
      BY Zenon DEF Good
    <2>8. LinkTail(n, e) \in Links /\ LinkedBy(Append(n.rq, e), LinkTail(n, e))
      BY <2>2, <2>7, <2>15, TailLinked
    <2>9. Append(n.rq, e) \in Seq(Events)
      BY <2>2
    <2>10. m \in QueueRec
      BY <2>1, <2>3, <2>5, <2>8, <2>9 DEF QueueRec, Sets
    <2>11. Matches(m.rq, R, m.flags)
      BY <1>2, <2>4, <2>5, <2>6, Enqueued, Zenon DEF Sets
    <2>12. Matches(m.wq, W, m.flags) /\ Matches(m.tq, T, m.flags) /\ Matches(m.aq, A, m.flags)
      BY <2>4, <2>5, Kept, FlagsDiffer, Zenon DEF Good, Sets
    <2>13. InOrder(m.tq, m.left)
      BY <2>4, Zenon DEF Good
    <2>14. QED
      BY <2>4, <2>8, <2>10, <2>11, <2>12, <2>13, Zenon DEF Good, m
  <1>3. QED
    BY <1>1, <1>2, Zenon

\* event_add_post puts an event into the queues of what it waits for.
LEMMA AddPost ==
  ASSUME NEW n, Good(n), NEW e \in Events
  PROVE  Good(event_add_post(n, e))
  <1> DEFINE a == add_read(n, e)
             m == event_add_post(n, e)
             g == [a.flags EXCEPT ![e] = a.flags[e] \cup {W}]
  <1>1. Good(a)
    BY AddRead, Zenon
  <1>2. m = IF W \in ev_events[e] /\ W \notin a.flags[e]
            THEN [a EXCEPT !.wq = Append(@, e), !.flags[e] = @ \cup {W}]
            ELSE a
    BY Zenon DEF event_add_post
  <1> HIDE DEF a, m
  <1>3. CASE ~(W \in ev_events[e] /\ W \notin a.flags[e])
    BY <1>1, <1>2, <1>3, Zenon DEF m
  <1>4. CASE W \in ev_events[e] /\ W \notin a.flags[e]
    <2>1. a \in QueueRec
      BY <1>1, Fields, Zenon
    <2>2. a.wq \in Seq(Events) /\ a.flags \in Flags
      BY <1>1, Fields, Zenon
    <2>3. m = [a EXCEPT !.wq = Append(a.wq, e), !.flags = g]
      BY <1>2, <1>4, <2>1 DEF QueueRec
    <2>4. /\ m.rq = a.rq /\ m.wq = Append(a.wq, e) /\ m.tq = a.tq /\ m.aq = a.aq
          /\ m.next = a.next /\ m.flags = g /\ m.left = a.left
      BY <2>1, <2>3 DEF QueueRec
    <2>5. Sets(a.flags, g, e, W)
      BY <2>2, Flagged, FlagsDiffer, Zenon
    <2> HIDE DEF g
    <2>6. Append(a.wq, e) \in Seq(Events)
      BY <2>2
    <2>7. m \in QueueRec
      BY <2>1, <2>3, <2>5, <2>6 DEF QueueRec, Sets
    <2>8. Matches(m.wq, W, m.flags)
      BY <1>1, <1>4, <2>4, <2>5, Enqueued, Zenon DEF Sets, Good
    <2>9. Matches(m.rq, R, m.flags) /\ Matches(m.tq, T, m.flags) /\ Matches(m.aq, A, m.flags)
      BY <1>1, <2>4, <2>5, Kept, FlagsDiffer, Zenon DEF Good, Sets
    <2>10. InOrder(m.tq, m.left) /\ LinkedBy(m.rq, m.next)
      BY <1>1, <2>4, Zenon DEF Good
    <2>11. QED
      BY <2>7, <2>8, <2>9, <2>10, Zenon DEF Good, m
  <1>5. QED
    BY <1>3, <1>4, Zenon

\* event_add in the loop puts an event into addqueue.
LEMMA Postpone ==
  ASSUME NEW n, Good(n), NEW e \in Events
  PROVE  Good(postpone(n, e)) /\ postpone(n, e).next = n.next
  <1> DEFINE m == postpone(n, e)
             g == [n.flags EXCEPT ![e] = n.flags[e] \cup {A}]
  <1>1. m = IF A \in n.flags[e] THEN n
            ELSE [n EXCEPT !.aq = Append(@, e), !.flags[e] = @ \cup {A}]
    BY Zenon DEF postpone
  <1> HIDE DEF m
  <1>2. CASE A \in n.flags[e]
    BY <1>1, <1>2, Zenon DEF m
  <1>3. CASE A \notin n.flags[e]
    <2>1. n \in QueueRec
      BY Fields, Zenon
    <2>2. n.aq \in Seq(Events) /\ n.flags \in Flags
      BY Fields, Zenon
    <2>3. m = [n EXCEPT !.aq = Append(n.aq, e), !.flags = g]
      BY <1>1, <1>3, <2>1 DEF QueueRec
    <2>4. /\ m.rq = n.rq /\ m.wq = n.wq /\ m.tq = n.tq /\ m.aq = Append(n.aq, e)
          /\ m.next = n.next /\ m.flags = g /\ m.left = n.left
      BY <2>1, <2>3 DEF QueueRec
    <2>5. Sets(n.flags, g, e, A)
      BY <2>2, Flagged, FlagsDiffer, Zenon
    <2> HIDE DEF g
    <2>6. Append(n.aq, e) \in Seq(Events)
      BY <2>2
    <2>7. m \in QueueRec
      BY <2>1, <2>3, <2>5, <2>6 DEF QueueRec, Sets
    <2>8. Matches(m.aq, A, m.flags)
      BY <1>3, <2>4, <2>5, Enqueued, Zenon DEF Sets, Good
    <2>9. Matches(m.rq, R, m.flags) /\ Matches(m.wq, W, m.flags) /\ Matches(m.tq, T, m.flags)
      BY <2>4, <2>5, Kept, FlagsDiffer, Zenon DEF Good, Sets
    <2>10. InOrder(m.tq, m.left) /\ LinkedBy(m.rq, m.next)
      BY <2>4, Zenon DEF Good
    <2>11. QED
      BY <2>4, <2>7, <2>8, <2>9, <2>10, Zenon DEF Good, m
  <1>4. QED
    BY <1>2, <1>3, Zenon

\* The event at the head of addqueue leaves it.
LEMMA Resumed ==
  ASSUME NEW n, Good(n), n.aq # << >>
  PROVE  Head(n.aq) \in Events /\ Good(Postponed(n, Head(n.aq)))
  <1> DEFINE e == Head(n.aq)
             m == Postponed(n, e)
             g == [n.flags EXCEPT ![e] = n.flags[e] \ {A}]
  <1>1. n \in QueueRec
    BY Fields, Zenon
  <1>2. n.aq \in Seq(Events) /\ n.flags \in Flags
    BY Fields, Zenon
  <1>3. e \in Events /\ Tail(n.aq) \in Seq(Events)
    BY <1>2
  <1>4. m = [n EXCEPT !.aq = Tail(n.aq), !.flags = g]
    BY <1>1 DEF QueueRec, Postponed
  <1> HIDE DEF m
  <1>5. /\ m.rq = n.rq /\ m.wq = n.wq /\ m.tq = n.tq /\ m.aq = Tail(n.aq)
        /\ m.next = n.next /\ m.flags = g /\ m.left = n.left
    BY <1>1, <1>4 DEF QueueRec
  <1>6. Clears(n.flags, g, e, A)
    BY <1>2, <1>3, Flagged, FlagsDiffer, Zenon
  <1> HIDE DEF g
  <1>7. m \in QueueRec
    BY <1>1, <1>3, <1>4, <1>6 DEF QueueRec, Clears
  <1>8. Matches(m.aq, A, m.flags)
    <2>1. Matches(n.aq, A, n.flags)
      BY Zenon DEF Good
    <2>2. SameBut(n.flags, g, A, e) /\ A \notin g[e]
      BY <1>6, Zenon DEF Clears
    <2>3. Matches(Tail(n.aq), A, g)
      BY <2>1, <2>2, Dequeued
    <2>4. QED
      BY <1>5, <2>3, Zenon
  <1>9. Matches(m.rq, R, m.flags) /\ Matches(m.wq, W, m.flags) /\ Matches(m.tq, T, m.flags)
    BY <1>3, <1>5, <1>6, Kept, FlagsDiffer, Zenon DEF Good, Clears
  <1>10. InOrder(m.tq, m.left) /\ LinkedBy(m.rq, m.next)
    BY <1>5, Zenon DEF Good
  <1>11. QED
    BY <1>3, <1>7, <1>8, <1>9, <1>10, Zenon DEF Good, m

\* event_add puts an event into timequeue, or moves it there.
LEMMA AddTimeout ==
  ASSUME NEW n, Good(n), NEW e \in Events, NEW tv \in Nat
  PROVE  Good(add_timeout(n, e, tv)) /\ add_timeout(n, e, tv).next = n.next
  <1> DEFINE m == add_timeout(n, e, tv)
             q == Without(n.tq, e)
             t == Timed(q, e, tv, n.left)
             l == [n.left EXCEPT ![e] = tv]
             f == [n.flags EXCEPT ![e] = n.flags[e] \ {T}]
             g == [n.flags EXCEPT ![e] = n.flags[e] \cup {T}]
  <1>1. n \in QueueRec
    BY Fields, Zenon
  <1>2. n.flags \in Flags /\ n.left \in [Events -> Nat]
    BY Fields, Zenon
  <1>3. m = [n EXCEPT !.tq = t, !.flags = g, !.left = l]
    <2>1. Leave(n, n.tq, T, e) = q
      BY Left, Zenon DEF Good
    <2>2. QED
      BY <1>1, <2>1 DEF QueueRec, add_timeout
  <1> HIDE DEF m
  <1>4. Sets(n.flags, g, e, T) /\ Clears(n.flags, f, e, T)
    BY <1>2, Flagged, FlagsDiffer, Zenon
  <1>5. l \in [Events -> Nat]
    BY <1>2
  <1> HIDE DEF f, g
  <1>6. Matches(n.tq, T, n.flags) /\ InOrder(n.tq, n.left)
    BY Zenon DEF Good
  <1>7. Matches(q, T, f) /\ InOrder(q, n.left)
    BY <1>4, <1>6, Dropped, Zenon DEF Clears
  <1>8. q \in Seq(Events) /\ IsInjective(q) /\ ~Queued(q, e)
    BY <1>4, <1>7, Zenon DEF Clears, Matches
  <1> HIDE DEF q
  <1>9. PICK i \in 1 .. Len(q) + 1 : GivenPlace(t, q, i, e) /\ InOrder(t, l)
    BY <1>2, <1>7, <1>8, TimedInOrder, Zenon
  <1> HIDE DEF t, l
  <1>10. IsInjective(t) /\ \A x : Queued(t, x) <=> Queued(q, x) \/ x = e
    BY <1>8, <1>9, Into
  <1>11. t \in Seq(Events)
    BY <1>9, Zenon DEF GivenPlace
  <1>12. Matches(t, T, g)
    <2>1. ASSUME NEW x \in Events PROVE Queued(t, x) <=> T \in g[x]
      <3>1. CASE x = e
        BY <1>4, <1>10, <3>1, Zenon DEF Sets
      <3>2. CASE x # e
        <4>1. T \in g[x] <=> T \in f[x]
          BY <1>4, <3>2, Zenon DEF Sets, Clears, SameBut
        <4>2. QED
          BY <1>7, <1>10, <3>2, <4>1, Zenon DEF Matches
      <3>3. QED
        BY <3>1, <3>2, Zenon
    <2>2. QED
      BY <1>10, <1>11, <2>1, Zenon DEF Matches
  <1>13. /\ m.rq = n.rq /\ m.wq = n.wq /\ m.tq = t /\ m.aq = n.aq
         /\ m.next = n.next /\ m.flags = g /\ m.left = l
    BY <1>1, <1>3 DEF QueueRec
  <1>14. m \in QueueRec
    BY <1>1, <1>3, <1>4, <1>5, <1>11 DEF QueueRec, Sets
  <1>15. Matches(m.rq, R, m.flags) /\ Matches(m.wq, W, m.flags) /\ Matches(m.aq, A, m.flags)
    BY <1>4, <1>13, Kept, FlagsDiffer, Zenon DEF Good, Sets
  <1>16. LinkedBy(m.rq, m.next)
    BY <1>13, Zenon DEF Good
  <1>17. QED
    BY <1>9, <1>12, <1>13, <1>14, <1>15, <1>16, Zenon DEF Good, m

\* timeout_process takes the first event from timequeue.
LEMMA TimeoutTaken ==
  ASSUME NEW n, Good(n), n.tq # << >>
  PROVE  LET m == [n EXCEPT !.tq = Tail(@), !.flags[Head(n.tq)] = @ \ {T}]
         IN  Good(m) /\ m.next = n.next
  <1> DEFINE e == Head(n.tq)
             m == [n EXCEPT !.tq = Tail(@), !.flags[e] = @ \ {T}]
             g == [n.flags EXCEPT ![e] = n.flags[e] \ {T}]
  <1>1. n \in QueueRec
    BY Fields, Zenon
  <1>2. n.tq \in Seq(Events) /\ n.flags \in Flags
    BY Fields, Zenon
  <1>3. e \in Events /\ Tail(n.tq) \in Seq(Events)
    BY <1>2
  <1>4. m = [n EXCEPT !.tq = Tail(n.tq), !.flags = g]
    BY <1>1 DEF QueueRec
  <1> HIDE DEF m
  <1>5. /\ m.rq = n.rq /\ m.wq = n.wq /\ m.tq = Tail(n.tq) /\ m.aq = n.aq
        /\ m.next = n.next /\ m.flags = g /\ m.left = n.left
    BY <1>1, <1>4 DEF QueueRec
  <1>6. Clears(n.flags, g, e, T)
    BY <1>2, <1>3, Flagged, FlagsDiffer, Zenon
  <1> HIDE DEF g
  <1>7. m \in QueueRec
    BY <1>1, <1>3, <1>4, <1>6 DEF QueueRec, Clears
  <1>8. Matches(m.tq, T, m.flags) /\ InOrder(m.tq, m.left)
    <2>1. Matches(n.tq, T, n.flags) /\ InOrder(n.tq, n.left)
      BY Zenon DEF Good
    <2>2. SameBut(n.flags, g, T, e) /\ T \notin g[e]
      BY <1>6, Zenon DEF Clears
    <2>3. Matches(Tail(n.tq), T, g) /\ InOrder(Tail(n.tq), n.left)
      BY <2>1, <2>2, Dequeued
    <2>4. QED
      BY <1>5, <2>3, Zenon
  <1>9. Matches(m.rq, R, m.flags) /\ Matches(m.wq, W, m.flags) /\ Matches(m.aq, A, m.flags)
    BY <1>3, <1>5, <1>6, Kept, FlagsDiffer, Zenon DEF Good, Clears
  <1>10. LinkedBy(m.rq, m.next)
    BY <1>5, Zenon DEF Good
  <1>11. Good(m) /\ m.next = n.next
    BY <1>5, <1>7, <1>8, <1>9, <1>10, Zenon DEF Good
  <1>12. QED
    BY <1>11, Zenon DEF m

\* An order is one of the members of the queue only.
LEMMA OrderOfMembers ==
  ASSUME NEW q \in Seq(Events), NEW e \in Events, ~Queued(q, e), NEW l \in [Events -> Nat],
         NEW d, InOrder(q, l)
  PROVE  InOrder(q, [l EXCEPT ![e] = d])
  <1> DEFINE m == [l EXCEPT ![e] = d]
  <1>1. \A j \in 1 .. Len(q) : q[j] \in Events /\ q[j] # e
    BY DEF Queued
  <1>2. \A j \in 1 .. Len(q) : m[q[j]] = l[q[j]]
    BY <1>1
  <1> HIDE DEF m
  <1>3. InOrder(q, m)
    BY <1>2 DEF InOrder
  <1>4. QED
    BY <1>3, Zenon DEF m

\* event_del takes an event out of all queues.
LEMMA Deleted ==
  ASSUME NEW n, Good(n), NEW e \in Events
  PROVE  Good(event_del(n, e))
  <1> DEFINE m == event_del(n, e)
             g == [n.flags EXCEPT ![e] = {}]
             l == [n.left EXCEPT ![e] = 0]
             new == IF R \in n.flags[e] THEN Unlink(n, e) ELSE n.next
  <1>1. /\ n.rq \in Seq(Events) /\ n.next \in Links /\ n.flags \in Flags
        /\ n.left \in [Events -> Nat]
    BY Fields, Zenon
  <1>2. m = [rq |-> Without(n.rq, e), wq |-> Without(n.wq, e), tq |-> Without(n.tq, e),
             aq |-> Without(n.aq, e), next |-> new, flags |-> g, left |-> l]
    <2>1. /\ Leave(n, n.rq, R, e) = Without(n.rq, e) /\ Leave(n, n.wq, W, e) = Without(n.wq, e)
          /\ Leave(n, n.tq, T, e) = Without(n.tq, e) /\ Leave(n, n.aq, A, e) = Without(n.aq, e)
      BY Left, Zenon DEF Good
    <2>2. QED
      BY <2>1, Zenon DEF event_del
  <1>3. g \in Flags /\ (\A k : SameBut(n.flags, g, k, e)) /\ g[e] = {}
    BY <1>1 DEF Flags, SameBut
  <1>4. l \in [Events -> Nat]
    BY <1>1
  <1>5. /\ Matches(n.rq, R, n.flags) /\ Matches(n.wq, W, n.flags)
        /\ Matches(n.tq, T, n.flags) /\ Matches(n.aq, A, n.flags)
        /\ InOrder(n.tq, n.left) /\ LinkedBy(n.rq, n.next)
    BY Zenon DEF Good
  <1> HIDE DEF m, g
  <1>6. \A k : k \notin g[e]
    BY <1>3, Zenon
  <1>7. /\ Matches(Without(n.rq, e), R, g) /\ Matches(Without(n.wq, e), W, g)
        /\ Matches(Without(n.tq, e), T, g) /\ Matches(Without(n.aq, e), A, g)
    BY <1>3, <1>5, <1>6, Dropped, Zenon
  <1>8. InOrder(Without(n.tq, e), n.left)
    BY <1>3, <1>5, <1>6, Dropped, Zenon
  <1>9. InOrder(Without(n.tq, e), l)
    <2>1. Without(n.tq, e) \in Seq(Events) /\ ~Queued(Without(n.tq, e), e)
      BY <1>6, <1>7, Zenon DEF Matches
    <2>2. QED
      BY <1>1, <1>8, <2>1, OrderOfMembers
  <1>10. new \in Links /\ LinkedBy(Without(n.rq, e), new)
    <2>1. IsInjective(n.rq) /\ (Queued(n.rq, e) <=> R \in n.flags[e])
      BY <1>5, Zenon DEF Matches
    <2>2. CASE R \in n.flags[e]
      <3>1. Unlink(n, e) \in Links /\ LinkedBy(Without(n.rq, e), Unlink(n, e))
        BY <1>1, <1>5, <2>1, <2>2, HeadLinked, Zenon
      <3>2. QED
        BY <2>2, <3>1, Zenon
    <2>3. CASE R \notin n.flags[e]
      BY <1>1, <1>5, <2>1, <2>3, NotThere, Zenon
    <2>4. QED
      BY <2>2, <2>3, Zenon
  <1> HIDE DEF new, l
  <1>11. /\ Without(n.rq, e) \in Seq(Events) /\ Without(n.wq, e) \in Seq(Events)
         /\ Without(n.tq, e) \in Seq(Events) /\ Without(n.aq, e) \in Seq(Events)
    BY <1>7, Zenon DEF Matches
  <1>12. m \in QueueRec
    BY <1>2, <1>3, <1>4, <1>10, <1>11 DEF QueueRec
  <1>13. /\ m.rq = Without(n.rq, e) /\ m.wq = Without(n.wq, e) /\ m.tq = Without(n.tq, e)
         /\ m.aq = Without(n.aq, e) /\ m.next = new /\ m.flags = g /\ m.left = l
    BY <1>2
  <1>14. QED
    BY <1>7, <1>9, <1>10, <1>12, <1>13, Zenon DEF Good, m

(***************************************************************************)
(* The numbers of the events                                               *)
(***************************************************************************)
\* next goes to higher numbers of r only.
Upward(next, r) == \A x \in Events : next[x] # NULL => r[x] < r[next[x]]

\* event_del lets an event point past its successor, to a higher number still.
LEMMA DeletedUpward ==
  ASSUME EventLoopAssumption, NEW n, Good(n), NEW e \in Events, NEW r \in [Events -> Nat],
         Upward(n.next, r)
  PROVE  Upward(event_del(n, e).next, r)
  <1> DEFINE q == n.rq
             next == n.next
  <1>1. event_del(n, e).next = IF R \in n.flags[e] THEN Unlink(n, e) ELSE n.next
    BY DEF event_del
  <1>2. CASE R \notin n.flags[e]
    BY <1>1, <1>2, Zenon
  <1>3. CASE R \in n.flags[e]
    <2>1. Matches(n.rq, R, n.flags) /\ LinkedBy(n.rq, n.next)
      BY Zenon DEF Good
    <2>2. n.rq \in Seq(Events) /\ n.next \in Links
      BY Fields, Zenon
    <2>3. \A j \in 1 .. Len(q) : next[q[j]] = IF j < Len(q) THEN q[j + 1] ELSE NULL
      BY <2>1, Zenon DEF LinkedBy
    <2>4. \E k \in 1 .. Len(q) : q[k] = e
      BY <1>3, <2>1, Zenon DEF Matches, Queued
    <2> DEFINE i == CHOOSE k \in DOMAIN q : q[k] = e
    <2>5. i \in 1 .. Len(q) /\ q[i] = e
      BY <2>2, <2>4
    <2>6. Unlink(n, e) = IF i = 1 THEN next ELSE [next EXCEPT ![q[i - 1]] = next[e]]
      BY Zenon DEF Unlink
    <2> HIDE DEF i, q, next
    <2>7. CASE i = 1
      BY <1>1, <1>3, <2>6, <2>7, Zenon DEF next
    <2>8. CASE i # 1
      <3>1. i - 1 \in 1 .. Len(q) /\ q[i - 1] \in Events /\ next[q[i - 1]] = e
        <4>1. Len(q) \in Nat /\ \A j \in 1 .. Len(q) : q[j] \in Events
          BY <2>2 DEF q
        <4>2. i - 1 \in 1 .. Len(q) /\ i - 1 < Len(q) /\ (i - 1) + 1 = i
          BY <2>5, <2>8, <4>1
        <4>3. next[q[i - 1]] = q[i]
          BY <2>3, <4>2
        <4>4. QED
          BY <2>5, <4>1, <4>2, <4>3, Zenon
      <3>2. r[q[i - 1]] < r[e]
        BY <3>1 DEF Upward, EventLoopAssumption, next
      <3>3. next[e] # NULL => r[e] < r[next[e]]
        BY Zenon DEF Upward, next
      <3>4. next \in Links /\ (next[e] # NULL => next[e] \in Events)
        BY <2>2 DEF next, Links
      <3> DEFINE new == [next EXCEPT ![q[i - 1]] = next[e]]
      <3>5. ASSUME NEW x \in Events, new[x] # NULL PROVE r[x] < r[new[x]]
        <4>1. CASE x = q[i - 1]
          <5>1. new[x] = next[e]
            BY <3>1, <3>4, <4>1 DEF Links
          <5>2. QED
            BY <3>1, <3>2, <3>3, <3>4, <3>5, <4>1, <5>1
        <4>2. CASE x # q[i - 1]
          <5>1. new[x] = next[x]
            BY <3>4, <4>2 DEF Links
          <5>2. QED
            BY <3>5, <5>1, Zenon DEF Upward, next
        <4>3. QED
          BY <4>1, <4>2, Zenon
      <3>6. event_del(n, e).next = new
        BY <1>1, <1>3, <2>6, <2>8, Zenon
      <3> HIDE DEF new
      <3>7. QED
        BY <3>5, <3>6, Zenon DEF Upward
    <2>9. QED
      BY <2>7, <2>8, Zenon
  <1>4. QED
    BY <1>2, <1>3, Zenon

\* An event at the end of the queue gets the highest number.
LEMMA LinkedUpward ==
  ASSUME EventLoopAssumption, NEW n, Good(n), NEW e \in Events, NEW top \in Nat,
         NEW r \in [Events -> 0 .. top], Upward(n.next, r)
  PROVE  \E s \in [Events -> 0 .. top + 1] : Upward(event_add_post(n, e).next, s)
  <1> DEFINE a == add_read(n, e)
  <1>1. event_add_post(n, e).next = a.next
    <2>1. a \in QueueRec
      BY AddRead, Fields, Zenon
    <2> HIDE DEF a
    <2>2. QED
      BY <2>1 DEF event_add_post, QueueRec, a
  <1>2. CASE a.next = n.next
    <2>1. r \in [Events -> 0 .. top + 1]
      OBVIOUS
    <2>2. QED
      BY <1>1, <1>2, <2>1, Zenon
  <1>3. CASE a.next = LinkTail(n, e)
    <2> DEFINE s == [r EXCEPT ![e] = top + 1]
    <2>1. n.next \in Links /\ n.rq \in Seq(Events)
      BY Fields, Zenon
    <2>2. s \in [Events -> 0 .. top + 1] /\ s[e] = top + 1
      OBVIOUS
    <2>3. \A x \in Events : x # e => s[x] = r[x]
      OBVIOUS
    <2>4. ASSUME NEW x \in Events, LinkTail(n, e)[x] # NULL
          PROVE  s[x] < s[LinkTail(n, e)[x]]
      <3>1. /\ x # e
            /\ \/ LinkTail(n, e)[x] = e
               \/ LinkTail(n, e)[x] = n.next[x]
        BY <2>4 DEF LinkTail
      <3>2. CASE LinkTail(n, e)[x] = e
        BY <2>2, <2>3, <3>1, <3>2
      <3>3. CASE LinkTail(n, e)[x] = n.next[x] /\ n.next[x] # e
        <4>1. n.next[x] \in Events /\ r[x] < r[n.next[x]]
          BY <2>1, <2>4, <3>3 DEF Upward, Links
        <4>2. s[x] = r[x] /\ s[n.next[x]] = r[n.next[x]]
          BY <2>3, <3>1, <3>3, <4>1, Zenon
        <4>3. QED
          BY <3>3, <4>1, <4>2, Zenon
      <3>4. QED
        BY <3>1, <3>2, <3>3, Zenon
    <2> HIDE DEF s
    <2>5. Upward(a.next, s)
      BY <1>3, <2>4, Zenon DEF Upward
    <2>6. QED
      BY <1>1, <2>2, <2>5, Zenon
  <1>4. a.next = n.next \/ a.next = LinkTail(n, e)
    <2>1. n \in QueueRec
      BY Fields, Zenon
    <2>2. QED
      BY <2>1 DEF add_read, QueueRec
  <1>5. QED
    BY <1>2, <1>3, <1>4, Zenon

(***************************************************************************)
(* The invariant                                                           *)
(***************************************************************************)
\* What the invariant says of the variables that an operation sets together.
LEMMA NowGood ==
  ASSUME LoopInv
  PROVE  Good(Now)
  <1> DEFINE n == Now
  <1>1. /\ readqueue \in Seq(Events) /\ writequeue \in Seq(Events)
        /\ timequeue \in Seq(Events) /\ addqueue \in Seq(Events)
        /\ ev_read_next \in Links /\ ev_flags \in Flags /\ left \in [Events -> Nat]
    BY Zenon DEF LoopInv, TypeOK, Links, Flags
  <1>2. /\ n.rq = readqueue /\ n.wq = writequeue /\ n.tq = timequeue /\ n.aq = addqueue
        /\ n.next = ev_read_next /\ n.flags = ev_flags /\ n.left = left
    BY DEF Now
  <1>3. n \in QueueRec
    BY <1>1 DEF Now, QueueRec
  <1> HIDE DEF n
  <1>4. /\ Matches(readqueue, R, ev_flags) /\ Matches(writequeue, W, ev_flags)
        /\ Matches(timequeue, T, ev_flags) /\ Matches(addqueue, A, ev_flags)
    BY <1>1, Zenon DEF LoopInv, QueuesMatchFlags, Once, Matches
  <1>5. InOrder(timequeue, left) /\ LinkedBy(readqueue, ev_read_next)
    BY Zenon DEF LoopInv, TimesInOrder, Linked, InOrder, LinkedBy
  <1>6. QED
    BY <1>2, <1>3, <1>4, <1>5, Zenon DEF Good, n

\* The variables of the queues, and nothing else.
QueueInv ==
  /\ readqueue \in Seq(Events) /\ writequeue \in Seq(Events)
  /\ timequeue \in Seq(Events) /\ addqueue \in Seq(Events)
  /\ ev_read_next \in Links /\ ev_flags \in Flags /\ left \in [Events -> Nat]
  /\ QueuesMatchFlags /\ TimesInOrder /\ Linked

\* An operation on the queues that keeps them good.
LEMMA SetGood ==
  ASSUME NEW n, Good(n), Set(n)
  PROVE  QueueInv' /\ ev_read_next' = n.next
  <1>1. /\ readqueue' = n.rq /\ writequeue' = n.wq /\ timequeue' = n.tq /\ addqueue' = n.aq
        /\ ev_read_next' = n.next /\ ev_flags' = n.flags /\ left' = n.left
    BY Zenon DEF Set
  <1>2. /\ n.rq \in Seq(Events) /\ n.wq \in Seq(Events) /\ n.tq \in Seq(Events)
        /\ n.aq \in Seq(Events) /\ n.next \in Links /\ n.flags \in Flags
        /\ n.left \in [Events -> Nat]
    BY Fields, Zenon
  <1>3. /\ Matches(n.rq, R, n.flags) /\ Matches(n.wq, W, n.flags)
        /\ Matches(n.tq, T, n.flags) /\ Matches(n.aq, A, n.flags)
        /\ InOrder(n.tq, n.left) /\ LinkedBy(n.rq, n.next)
    BY Zenon DEF Good
  <1>4. QueuesMatchFlags'
    BY <1>1, <1>3 DEF QueuesMatchFlags, Once, Matches
  <1>5. TimesInOrder'
    BY <1>1, <1>3 DEF TimesInOrder, InOrder
  <1>6. Linked'
    BY <1>1, <1>3 DEF Linked, LinkedBy
  <1>7. QED
    BY <1>1, <1>2, <1>4, <1>5, <1>6, Zenon DEF QueueInv

\* The rest of the invariant.
LocalInv ==
  /\ ev \in Events \cup {NULL} /\ called \subseteq Events \X {R, W} /\ event_inloop \in BOOLEAN
  /\ WalksInLoop

LEMMA InvParts ==
  LoopInv <=> QueueInv /\ LocalInv
  BY Zenon DEF LoopInv, TypeOK, QueueInv, LocalInv, Links, Flags

LEMMA InvPartsNext ==
  QueueInv' /\ LocalInv' => LoopInv'
  BY Zenon DEF LoopInv, TypeOK, QueueInv, LocalInv, Links, Flags

\* The queues stay as they are.
LEMMA QueuesStay ==
  ASSUME QueueInv, UNCHANGED queues
  PROVE  QueueInv' /\ ev_read_next' = ev_read_next
  BY Zenon DEF queues, QueueInv, QueuesMatchFlags, Once, TimesInOrder, Linked

\* Nothing that an event is called for stays as it is.
LEMMA LocalsStay ==
  ASSUME LocalInv, UNCHANGED <<ev, called, event_inloop, pc>>
  PROVE  LocalInv'
  BY Zenon DEF LocalInv, WalksInLoop, ReadWalk, WriteWalk

\* The program starts with empty queues.
LEMMA InvInit ==
  ASSUME Init
  PROVE  LoopInv
  <1>1. TypeOK
    <2>1. /\ readqueue = << >> /\ writequeue = << >> /\ timequeue = << >> /\ addqueue = << >>
          /\ ev_read_next = [e \in Events |-> NULL] /\ ev_flags = [e \in Events |-> {}]
          /\ left = [e \in Events |-> 0] /\ ev = NULL /\ called = {} /\ event_inloop = FALSE
      BY Zenon DEF Init
    <2>2. << >> \in Seq(Events) /\ [e \in Events |-> 0] \in [Events -> Nat]
      OBVIOUS
    <2>3. [e \in Events |-> {}] \in [Events -> SUBSET {R, W, T, A}]
      OBVIOUS
    <2>4. [e \in Events |-> NULL] \in [Events -> Events \cup {NULL}]
      OBVIOUS
    <2>5. {} \subseteq Events \X {R, W} /\ NULL \in Events \cup {NULL} /\ FALSE \in BOOLEAN
      OBVIOUS
    <2>6. QED
      BY <2>1, <2>2, <2>3, <2>4, <2>5, Zenon DEF TypeOK
  <1>2. QueuesMatchFlags
    BY DEF Init, QueuesMatchFlags, Once, IsInjective, Queued
  <1>3. TimesInOrder /\ Linked
    BY DEF Init, TimesInOrder, Linked
  <1>4. WalksInLoop
    BY DEF Init, WalksInLoop, ReadWalk, WriteWalk
  <1>5. QED
    BY <1>1, <1>2, <1>3, <1>4, Zenon DEF LoopInv

\* A call of event_add, event_del or event_set.
LEMMA CallKeeps ==
  ASSUME EventLoopAssumption, LoopInv, NEW e \in Events,
         call_event_add(e) \/ call_event_del(e) \/ call_event_set(e)
  PROVE  LoopInv'
  <1>1. QueueInv /\ LocalInv
    BY InvParts, Zenon
  <1>2. UNCHANGED <<ev, called, event_inloop, pc>>
    BY DEF call_event_add, call_event_del, call_event_set, Others
  <1>3. LocalInv'
    BY <1>1, <1>2, LocalsStay
  <1>4. Good(Now)
    BY NowGood, Zenon
  <1> HIDE DEF Now
  <1>5. \A n : Good(n) => Good(add_change(n, e))
    BY AddPost, Postpone, Zenon DEF add_change
  <1>6. CASE call_event_add(e)
    <2>1. ASSUME Set(add_change(Now, e)) PROVE QueueInv'
      <3>1. Good(add_change(Now, e))
        BY <1>4, <1>5, Zenon
      <3>2. QED
        BY <2>1, <3>1, SetGood, Zenon
    <2>2. ASSUME NEW tv \in Delays[e], Set(add_change(add_timeout(Now, e, tv), e))
          PROVE  QueueInv'
      <3>1. tv \in Nat
        BY DEF EventLoopAssumption
      <3>2. Good(add_timeout(Now, e, tv))
        BY <1>4, <3>1, AddTimeout, Zenon
      <3>3. QED
        BY <1>5, <2>2, <3>2, SetGood, Zenon
    <2>3. QueueInv'
      BY <1>6, <2>1, <2>2, Zenon DEF call_event_add
    <2>4. QED
      BY <1>3, <2>3, InvPartsNext, Zenon
  <1>7. CASE call_event_del(e)
    <2>1. Good(event_del(Now, e)) /\ Set(event_del(Now, e))
      BY <1>4, <1>7, Deleted, Zenon DEF call_event_del
    <2>2. QED
      BY <1>3, <2>1, SetGood, InvPartsNext, Zenon
  <1>8. CASE call_event_set(e)
    <2>1. QueueInv'
      BY <1>1, <1>8, QueuesStay, Zenon DEF call_event_set
    <2>2. QED
      BY <1>3, <2>1, InvPartsNext, Zenon
  <1>9. QED
    BY <1>6, <1>7, <1>8, Zenon

\* One event of a walk.
LEMMA WalkKeeps ==
  ASSUME EventLoopAssumption, LoopInv, walk_read \/ walk_write
  PROVE  LoopInv'
  <1>1. QueueInv /\ LocalInv
    BY InvParts, Zenon
  <1>2. Good(Now)
    BY NowGood, Zenon
  <1>3. /\ ev \in Events /\ ev_read_next \in Links
        /\ called \subseteq Events \X {R, W} /\ event_inloop \in BOOLEAN
    BY <1>1 DEF QueueInv, LocalInv, walk_read, walk_write, walk
  <1>4. ev' \in Events \cup {NULL} /\ UNCHANGED event_inloop
    BY <1>3 DEF walk_read, walk_write, walk, Links
  <1>5. QueueInv'
    <2>1. CASE Set(event_del(Now, ev))
      <3>1. Good(event_del(Now, ev))
        BY <1>2, <1>3, Deleted, Zenon
      <3>2. QED
        BY <2>1, <3>1, SetGood, Zenon
    <2>2. CASE UNCHANGED queues
      BY <1>1, <2>2, QueuesStay, Zenon
    <2>3. QED
      BY <2>1, <2>2, Zenon DEF walk_read, walk_write, walk
  <1>6. LocalInv'
    <2>1. CASE walk_read
      <3>1. ReadWalk /\ ReadWalk' /\ (called' = called \/ called' = called \cup {<<ev, R>>})
        BY <2>1 DEF walk_read, walk, ReadWalk
      <3>2. R # W
        BY DEF R, W
      <3>3. \A x \in Events : <<x, W>> \notin called
        BY <1>1, <3>1, Zenon DEF LocalInv, WalksInLoop
      <3>4. QED
        BY <1>1, <1>3, <1>4, <3>1, <3>2, <3>3 DEF LocalInv, WalksInLoop
    <2>2. CASE walk_write
      <3>1. WriteWalk /\ WriteWalk' /\ ~ReadWalk' /\ (called' = called \/ called' = called \cup {<<ev, W>>})
        BY <2>2 DEF walk_write, walk, WriteWalk, ReadWalk
      <3>2. QED
        BY <1>1, <1>3, <1>4, <3>1 DEF LocalInv, WalksInLoop
    <2>3. QED
      BY <2>1, <2>2, Zenon
  <1>7. QED
    BY <1>5, <1>6, InvPartsNext, Zenon

\* What was postponed is added.
LEMMA AddPostponedKeeps ==
  ASSUME LoopInv, add_postponed
  PROVE  LoopInv'
  <1>1. QueueInv /\ LocalInv
    BY InvParts, Zenon
  <1>2. Good(Now) /\ addqueue # << >> /\ Now.aq = addqueue
    BY NowGood DEF add_postponed, Now
  <1> DEFINE h == Head(addqueue)
  <1>3. h \in Events /\ Good(Postponed(Now, h))
    BY <1>2, Resumed
  <1>4. Good(event_add_post(Postponed(Now, h), h))
    BY <1>3, AddPost, Zenon
  <1>5. QueueInv'
    BY <1>4, SetGood, Zenon DEF add_postponed
  <1>6. LocalInv'
    BY <1>1, LocalsStay DEF add_postponed
  <1>7. QED
    BY <1>5, <1>6, InvPartsNext, Zenon

\* The callback of a timeout.
LEMMA TimeoutKeeps ==
  ASSUME LoopInv, timeout_call
  PROVE  LoopInv' /\ ev_read_next' = ev_read_next
  <1>1. QueueInv /\ LocalInv
    BY InvParts, Zenon
  <1>2. Good(Now) /\ timequeue # << >> /\ Now.tq = timequeue /\ Now.next = ev_read_next
    BY NowGood DEF timeout_call, Due, Now
  <1> DEFINE m == [Now EXCEPT !.tq = Tail(@), !.flags[Head(timequeue)] = @ \ {T}]
  <1>3. Set(m)
    BY Zenon DEF timeout_call
  <1>4. Good(m) /\ m.next = ev_read_next
    <2> HIDE DEF Now
    <2>1. QED
      BY <1>2, TimeoutTaken
  <1> HIDE DEF m
  <1>5. QueueInv' /\ ev_read_next' = ev_read_next
    BY <1>3, <1>4, SetGood, Zenon
  <1>6. LocalInv'
    BY <1>1 DEF timeout_call, LocalInv, WalksInLoop, ReadWalk, WriteWalk
  <1>7. QED
    BY <1>5, <1>6, InvPartsNext, Zenon

\* Time passes for all events alike.
LEMMA TickKeeps ==
  ASSUME LoopInv, tick
  PROVE  LoopInv' /\ ev_read_next' = ev_read_next
  <1>1. QueueInv /\ LocalInv
    BY InvParts, Zenon
  <1>2. /\ UNCHANGED <<readqueue, writequeue, timequeue, addqueue, ev_read_next, ev_flags>>
        /\ left' = [e \in Events |-> IF left[e] > 0 THEN left[e] - 1 ELSE 0]
    BY Zenon DEF tick
  <1>3. LocalInv'
    BY <1>1, LocalsStay DEF tick
  <1>4. left \in [Events -> Nat] /\ timequeue \in Seq(Events)
    BY <1>1, Zenon DEF QueueInv
  <1>5. left' \in [Events -> Nat]
    BY <1>2, <1>4
  <1>6. TimesInOrder'
    <2>1. \A i \in 1 .. Len(timequeue) : timequeue[i] \in Events
      BY <1>4
    <2>2. TimesInOrder
      BY <1>1, Zenon DEF QueueInv
    <2>3. QED
      BY <1>2, <1>4, <2>1, <2>2 DEF TimesInOrder
  <1>7. QueuesMatchFlags' /\ Linked'
    BY <1>1, <1>2, Zenon DEF QueueInv, QueuesMatchFlags, Once, Linked
  <1>8. QueueInv'
    BY <1>1, <1>2, <1>5, <1>6, <1>7, Zenon DEF QueueInv
  <1>9. QED
    BY <1>2, <1>3, <1>8, InvPartsNext, Zenon

\* The steps that leave the queues alone.
Quiet == \/ event_dispatch \/ select \/ walk_read_end \/ walk_write_end \/ recalc \/ timeout_end
         \/ callback_return \/ select_fails \/ arrive

LEMMA QuietKeeps ==
  ASSUME LoopInv, Quiet
  PROVE  LoopInv' /\ ev_read_next' = ev_read_next
  <1>1. QueueInv /\ LocalInv
    BY InvParts, Zenon
  <1>2. UNCHANGED queues
    BY Zenon DEF Quiet, event_dispatch, select, walk_read_end, walk_write_end, recalc, timeout_end,
                 callback_return, select_fails, arrive
  <1>3. QueueInv' /\ ev_read_next' = ev_read_next
    BY <1>1, <1>2, QueuesStay, Zenon
  <1>4. \A q \in Seq(Events) : First(q) \in Events \cup {NULL}
    BY DEF First
  <1> USE DEF LocalInv, WalksInLoop, ReadWalk, WriteWalk
  <1>5. ASSUME select PROVE LocalInv'
    BY <1>1, <1>4, <1>5 DEF select, QueueInv
  <1>6. ASSUME walk_read_end PROVE LocalInv'
    BY <1>1, <1>4, <1>6 DEF walk_read_end, QueueInv
  <1>7. ASSUME walk_write_end PROVE LocalInv'
    BY <1>1, <1>7 DEF walk_write_end
  <1>8. ASSUME event_dispatch \/ recalc \/ timeout_end \/ callback_return \/ select_fails \/ arrive
        PROVE  LocalInv'
    BY <1>1, <1>8 DEF event_dispatch, recalc, timeout_end, callback_return, select_fails, arrive
  <1> HIDE DEF LocalInv
  <1>9. LocalInv'
    BY <1>5, <1>6, <1>7, <1>8, Zenon DEF Quiet
  <1>10. QED
    BY <1>3, <1>9, InvPartsNext, Zenon

\* Every step keeps the invariant.
LEMMA InvStep ==
  ASSUME EventLoopAssumption, LoopInv, [Next]_vars
  PROVE  LoopInv'
  <1>1. CASE Quiet
    BY <1>1, QuietKeeps, Zenon
  <1>2. CASE walk_read \/ walk_write
    BY <1>2, WalkKeeps, Zenon
  <1>3. CASE add_postponed
    BY <1>3, AddPostponedKeeps, Zenon
  <1>4. CASE timeout_call
    BY <1>4, TimeoutKeeps, Zenon
  <1>5. CASE tick
    BY <1>5, TickKeeps, Zenon
  <1>6. ASSUME NEW e \in Events, call_event_add(e) \/ call_event_del(e) \/ call_event_set(e)
        PROVE  LoopInv'
    BY <1>6, CallKeeps, Zenon
  <1>7. CASE UNCHANGED vars
    <2>1. QueueInv /\ LocalInv
      BY InvParts, Zenon
    <2>2. UNCHANGED queues /\ UNCHANGED <<ev, called, event_inloop, pc>>
      BY <1>7 DEF vars
    <2>3. QED
      BY <2>1, <2>2, QueuesStay, LocalsStay, InvPartsNext, Zenon
  <1>8. QED
    BY <1>1, <1>2, <1>3, <1>4, <1>5, <1>6, <1>7, Zenon DEF Next, loop, Quiet

(***************************************************************************)
(* The walks go on to higher numbers                                       *)
(***************************************************************************)
\* The walk is beyond the events it has called.
Ahead(r) ==
  ev # NULL => \A x \in Events : /\ ReadWalk /\ <<x, R>> \in called => r[x] < r[ev]
                                 /\ WriteWalk /\ <<x, W>> \in called => r[x] < r[ev]

RankInv == \E top \in Nat : NeverBack(top)

LEMMA RankParts ==
  ASSUME RankInv
  PROVE  \E top \in Nat : \E r \in [Events -> 0 .. top] : Upward(ev_read_next, r) /\ Ahead(r)
  BY Zenon DEF RankInv, NeverBack, Numbers, Upward, Ahead

LEMMA RankNext ==
  ASSUME NEW top \in Nat, NEW r \in [Events -> 0 .. top], Upward(ev_read_next', r), Ahead(r)'
  PROVE  RankInv'
  BY Zenon DEF RankInv, NeverBack, Numbers, Upward, Ahead

\* At the start ev_read_next goes nowhere.
LEMMA RankInit ==
  ASSUME Init
  PROVE  RankInv
  <1> DEFINE r == [x \in Events |-> 0]
  <1>1. r \in [Events -> 0 .. 0] /\ 0 \in Nat
    OBVIOUS
  <1>2. ev = NULL /\ \A x \in Events : ev_read_next[x] = NULL
    BY DEF Init
  <1> HIDE DEF r
  <1>3. Numbers(r)
    BY <1>2, Zenon DEF Numbers
  <1>4. QED
    BY <1>1, <1>3, Zenon DEF RankInv, NeverBack

\* Outside of the walks nothing is called, and any numbers will do.
LEMMA OutsideAhead ==
  ASSUME ~ReadWalk', ~WriteWalk', NEW r
  PROVE  Ahead(r)'
  BY Zenon DEF Ahead

\* The steps that leave ev_read_next alone.
LEMMA RankStays ==
  ASSUME LoopInv, RankInv, Quiet \/ timeout_call \/ tick
  PROVE  RankInv'
  <1>0. PICK top \in Nat :
          \E r \in [Events -> 0 .. top] : Upward(ev_read_next, r) /\ Ahead(r)
    BY RankParts, Zenon
  <1>1. PICK r \in [Events -> 0 .. top] : Upward(ev_read_next, r) /\ Ahead(r)
    BY <1>0, Zenon
  <1>2. ev_read_next' = ev_read_next
    BY QuietKeeps, TimeoutKeeps, TickKeeps, Zenon
  <1>3. CASE select
    <2>1. called' = {}
      BY <1>3, Zenon DEF select
    <2>2. Ahead(r)'
      BY <2>1, Zenon DEF Ahead
    <2>3. QED
      BY <1>1, <1>2, <2>2, RankNext, Zenon
  <1>4. CASE walk_read_end
    <2>1. ReadWalk /\ ~ReadWalk' /\ called' = called
      BY <1>4 DEF walk_read_end, ReadWalk
    <2>2. \A x \in Events : <<x, W>> \notin called
      BY <2>1, Zenon DEF LoopInv, WalksInLoop
    <2>3. Ahead(r)'
      BY <2>1, <2>2, Zenon DEF Ahead
    <2>4. QED
      BY <1>1, <1>2, <2>3, RankNext, Zenon
  <1>5. CASE callback_return
    <2>1. /\ ReadWalk' => ReadWalk
          /\ WriteWalk' => WriteWalk
          /\ UNCHANGED <<ev, called>>
      BY <1>5 DEF callback_return, ReadWalk, WriteWalk
    <2>2. Ahead(r)'
      BY <1>1, <2>1, Zenon DEF Ahead
    <2>3. QED
      BY <1>1, <1>2, <2>2, RankNext, Zenon
  <1>6. CASE \/ event_dispatch \/ walk_write_end \/ recalc \/ timeout_end \/ select_fails
             \/ arrive \/ timeout_call \/ tick
    <2>1. ~ReadWalk' /\ ~WriteWalk'
      BY <1>6 DEF event_dispatch, walk_write_end, recalc, timeout_end, select_fails, arrive,
                  timeout_call, tick, ReadWalk, WriteWalk
    <2>2. QED
      BY <1>1, <1>2, <2>1, OutsideAhead, RankNext, Zenon
  <1>7. QED
    BY <1>3, <1>4, <1>5, <1>6, Zenon DEF Quiet

\* One event of a walk: the next one has a higher number.
LEMMA RankWalk ==
  ASSUME EventLoopAssumption, LoopInv, RankInv, walk_read \/ walk_write
  PROVE  RankInv'
  <1>0. PICK top \in Nat :
          \E r \in [Events -> 0 .. top] : Upward(ev_read_next, r) /\ Ahead(r)
    BY RankParts, Zenon
  <1>1. PICK r \in [Events -> 0 .. top] : Upward(ev_read_next, r) /\ Ahead(r)
    BY <1>0, Zenon
  <1>2. Good(Now) /\ Now.next = ev_read_next
    BY NowGood DEF Now
  <1>3. ev \in Events /\ ev' = ev_read_next[ev]
    BY DEF walk_read, walk_write, walk, LoopInv, TypeOK
  <1>4. r \in [Events -> Nat]
    BY <1>1
  <1>5. Upward(ev_read_next', r)
    <2>1. CASE Set(event_del(Now, ev))
      <3>1. Good(event_del(Now, ev)) /\ Upward(event_del(Now, ev).next, r)
        BY <1>1, <1>2, <1>3, <1>4, Deleted, DeletedUpward, Zenon
      <3>2. QED
        BY <2>1, <3>1, SetGood, Zenon
    <2>2. CASE UNCHANGED queues
      BY <1>1, <2>2, Zenon DEF queues
    <2>3. QED
      BY <2>1, <2>2, Zenon DEF walk_read, walk_write, walk
  <1>6. ev' # NULL => r[ev] < r[ev']
    BY <1>1, <1>3, Zenon DEF Upward
  <1>7. ev' # NULL => ev' \in Events
    BY <1>3 DEF LoopInv, TypeOK
  <1>8. ev # NULL
    BY <1>3 DEF EventLoopAssumption
  <1>9. Ahead(r)'
    <2>1. CASE walk_read
      <3>1. ReadWalk /\ ~WriteWalk' /\ (called' = called \/ called' = called \cup {<<ev, R>>})
        BY <2>1 DEF walk_read, walk, ReadWalk, WriteWalk
      <3>2. ASSUME ev' # NULL, NEW x \in Events, <<x, R>> \in called' PROVE r[x] < r[ev']
        <4>1. x = ev \/ r[x] < r[ev]
          <5>1. x = ev \/ <<x, R>> \in called
            BY <3>1, <3>2
          <5>2. QED
            BY <1>1, <1>8, <3>1, <5>1, Zenon DEF Ahead
        <4>2. r[x] \in Nat /\ r[ev] \in Nat /\ r[ev'] \in Nat /\ r[ev] < r[ev']
          BY <1>3, <1>4, <1>6, <1>7, <3>2
        <4>3. CASE x = ev
          BY <4>2, <4>3, Zenon
        <4>4. CASE r[x] < r[ev]
          BY <4>2, <4>4
        <4>5. QED
          BY <4>1, <4>3, <4>4, Zenon
      <3>3. QED
        BY <3>1, <3>2, Zenon DEF Ahead
    <2>2. CASE walk_write
      <3>1. WriteWalk /\ ~ReadWalk' /\ (called' = called \/ called' = called \cup {<<ev, W>>})
        BY <2>2 DEF walk_write, walk, ReadWalk, WriteWalk
      <3>2. ASSUME ev' # NULL, NEW x \in Events, <<x, W>> \in called' PROVE r[x] < r[ev']
        <4>1. x = ev \/ r[x] < r[ev]
          <5>1. x = ev \/ <<x, W>> \in called
            BY <3>1, <3>2
          <5>2. QED
            BY <1>1, <1>8, <3>1, <5>1, Zenon DEF Ahead
        <4>2. r[x] \in Nat /\ r[ev] \in Nat /\ r[ev'] \in Nat /\ r[ev] < r[ev']
          BY <1>3, <1>4, <1>6, <1>7, <3>2
        <4>3. CASE x = ev
          BY <4>2, <4>3, Zenon
        <4>4. CASE r[x] < r[ev]
          BY <4>2, <4>4
        <4>5. QED
          BY <4>1, <4>3, <4>4, Zenon
      <3>3. QED
        BY <3>1, <3>2, Zenon DEF Ahead
    <2>3. QED
      BY <2>1, <2>2, Zenon
  <1>10. QED
    BY <1>1, <1>5, <1>9, RankNext, Zenon

\* event_add numbers an event anew outside of the loop only.
LEMMA AddChangeUpward ==
  ASSUME EventLoopAssumption, NEW n, Good(n), NEW e \in Events, NEW top \in Nat,
         NEW r \in [Events -> 0 .. top], Upward(n.next, r)
  PROVE  /\ event_inloop => Upward(add_change(n, e).next, r)
         /\ \E s \in [Events -> 0 .. top + 1] : Upward(add_change(n, e).next, s)
  <1>1. CASE event_inloop
    <2>1. add_change(n, e).next = n.next
      BY <1>1, Postpone, Zenon DEF add_change
    <2>2. r \in [Events -> 0 .. top + 1]
      OBVIOUS
    <2>3. QED
      BY <2>1, <2>2, Zenon
  <1>2. CASE ~event_inloop
    BY <1>2, LinkedUpward, Zenon DEF add_change
  <1>3. QED
    BY <1>1, <1>2, Zenon

\* A call of event_add, event_del or event_set.
LEMMA RankCall ==
  ASSUME EventLoopAssumption, LoopInv, RankInv, NEW e \in Events,
         call_event_add(e) \/ call_event_del(e) \/ call_event_set(e)
  PROVE  RankInv'
  <1>0. PICK top \in Nat :
          \E r \in [Events -> 0 .. top] : Upward(ev_read_next, r) /\ Ahead(r)
    BY RankParts, Zenon
  <1>1. PICK r \in [Events -> 0 .. top] : Upward(ev_read_next, r) /\ Ahead(r)
    BY <1>0, Zenon
  <1>2. Good(Now) /\ Now.next = ev_read_next
    BY NowGood DEF Now
  <1>3. UNCHANGED <<ev, called, event_inloop, pc>>
    BY DEF call_event_add, call_event_del, call_event_set, Others
  <1>4. Ahead(r)'
    BY <1>1, <1>3, Zenon DEF Ahead, ReadWalk, WriteWalk
  <1>5. ~event_inloop => ~ReadWalk' /\ ~WriteWalk'
    BY <1>3, Zenon DEF LoopInv, WalksInLoop, ReadWalk, WriteWalk
  <1>6. top + 1 \in Nat /\ r \in [Events -> Nat]
    OBVIOUS
  <1> HIDE DEF Now
  <1>7. ASSUME NEW n, Good(n), n.next = ev_read_next, Set(add_change(n, e))
        PROVE  RankInv'
    <2>1. Good(add_change(n, e))
      BY <1>7, AddPost, Postpone, Zenon DEF add_change
    <2>2. ev_read_next' = add_change(n, e).next
      BY <1>7, <2>1, SetGood, Zenon
    <2>3. /\ event_inloop => Upward(ev_read_next', r)
          /\ \E s \in [Events -> 0 .. top + 1] : Upward(ev_read_next', s)
      BY <1>1, <1>7, <2>2, AddChangeUpward, Zenon
    <2>4. CASE event_inloop
      BY <1>4, <2>3, <2>4, RankNext, Zenon
    <2>5. CASE ~event_inloop
      <3>1. PICK s \in [Events -> 0 .. top + 1] : Upward(ev_read_next', s)
        BY <2>3, Zenon
      <3>2. Ahead(s)'
        BY <1>5, <2>5, OutsideAhead, Zenon
      <3>3. QED
        BY <1>6, <3>1, <3>2, RankNext, Zenon
    <2>6. QED
      BY <2>4, <2>5, Zenon
  <1>8. CASE call_event_add(e)
    <2>1. ASSUME NEW tv \in Delays[e]
          PROVE  /\ Good(add_timeout(Now, e, tv))
                 /\ add_timeout(Now, e, tv).next = ev_read_next
      <3>1. tv \in Nat
        BY DEF EventLoopAssumption
      <3>2. QED
        BY <1>2, <3>1, AddTimeout, Zenon
    <2>2. QED
      BY <1>2, <1>7, <1>8, <2>1, Zenon DEF call_event_add
  <1>9. CASE call_event_del(e)
    <2>1. Good(event_del(Now, e)) /\ Set(event_del(Now, e))
      BY <1>2, <1>9, Deleted, Zenon DEF call_event_del
    <2>2. Upward(event_del(Now, e).next, r)
      <3>1. Upward(Now.next, r)
        BY <1>1, <1>2, Zenon
      <3>2. QED
        BY <1>2, <1>6, <3>1, DeletedUpward, Zenon
    <2>3. QED
      BY <1>4, <2>1, <2>2, SetGood, RankNext, Zenon
  <1>10. CASE call_event_set(e)
    BY <1>1, <1>4, <1>10, RankNext, Zenon DEF call_event_set, queues
  <1>11. QED
    BY <1>8, <1>9, <1>10, Zenon

\* What was postponed is added.
LEMMA RankPostponed ==
  ASSUME EventLoopAssumption, LoopInv, RankInv, add_postponed
  PROVE  RankInv'
  <1>0. PICK top \in Nat :
          \E r \in [Events -> 0 .. top] : Upward(ev_read_next, r) /\ Ahead(r)
    BY RankParts, Zenon
  <1>1. PICK r \in [Events -> 0 .. top] : Upward(ev_read_next, r) /\ Ahead(r)
    BY <1>0, Zenon
  <1>2. Good(Now) /\ addqueue # << >> /\ Now.aq = addqueue /\ Now.next = ev_read_next
    BY NowGood DEF add_postponed, Now
  <1> DEFINE h == Head(addqueue)
             n == Postponed(Now, h)
  <1>3. h \in Events /\ Good(n)
    BY <1>2, Resumed
  <1>4. n.next = ev_read_next
    <2>1. Now \in QueueRec
      BY <1>2, Fields, Zenon
    <2> HIDE DEF Now
    <2>2. QED
      BY <1>2, <2>1 DEF Postponed, QueueRec
  <1>5. Set(event_add_post(n, h)) /\ pc' = pc /\ pc = "add"
    BY Zenon DEF add_postponed
  <1> HIDE DEF n, h
  <1>6. PICK s \in [Events -> 0 .. top + 1] : Upward(event_add_post(n, h).next, s)
    BY <1>1, <1>3, <1>4, LinkedUpward, Zenon
  <1>7. Upward(ev_read_next', s)
    BY <1>3, <1>5, <1>6, AddPost, SetGood, Zenon
  <1>8. ~ReadWalk' /\ ~WriteWalk'
    BY <1>5 DEF ReadWalk, WriteWalk
  <1>9. top + 1 \in Nat
    OBVIOUS
  <1>10. QED
    BY <1>6, <1>7, <1>8, <1>9, OutsideAhead, RankNext, Zenon

\* Every step keeps the numbers.
LEMMA RankStep ==
  ASSUME EventLoopAssumption, LoopInv, RankInv, [Next]_vars
  PROVE  RankInv'
  <1>1. CASE Quiet \/ timeout_call \/ tick
    BY <1>1, RankStays, Zenon
  <1>2. CASE walk_read \/ walk_write
    BY <1>2, RankWalk, Zenon
  <1>3. CASE add_postponed
    BY <1>3, RankPostponed, Zenon
  <1>4. ASSUME NEW e \in Events, call_event_add(e) \/ call_event_del(e) \/ call_event_set(e)
        PROVE  RankInv'
    BY <1>4, RankCall, Zenon
  <1>5. CASE UNCHANGED vars
    <2>1. UNCHANGED <<ev, called, pc, ev_read_next>>
      BY <1>5 DEF vars, queues
    <2>2. QED
      BY <2>1, Zenon DEF RankInv, NeverBack, Numbers, ReadWalk, WriteWalk
  <1>6. QED
    BY <1>1, <1>2, <1>3, <1>4, <1>5, Zenon DEF Next, loop, Quiet

(***************************************************************************)
(* Theorems                                                                *)
(***************************************************************************)
\* Whatever callbacks add and delete during a walk, an event is in exactly the queues that
\* its ev_flags say, once.
THEOREM FlagsRight == ASSUME EventLoopAssumption PROVE Spec => []QueuesMatchFlags
  <1>1. Init => LoopInv
    BY InvInit
  <1>2. LoopInv /\ [Next]_vars => LoopInv'
    BY InvStep
  <1>3. LoopInv => QueuesMatchFlags
    BY DEF LoopInv
  <1>4. QED
    BY <1>1, <1>2, <1>3, PTL DEF Spec

\* No event is called twice for one select, although the walks follow ev_read_next through
\* events that have left the queue, and the walk over writequeue follows it, too.
THEOREM OneCallEach == ASSUME EventLoopAssumption PROVE Spec => CalledOnce
  <1>1. Init => LoopInv /\ RankInv
    BY InvInit, RankInit
  <1>2. LoopInv /\ RankInv /\ [Next]_vars => LoopInv' /\ RankInv'
    BY InvStep, RankStep
  <1>3. LoopInv /\ RankInv /\ [Next]_vars => [CallsOnce]_vars
    <2> SUFFICES ASSUME LoopInv, RankInv, Next,
                        pc' # pc, pc' \in {"read_callback", "write_callback"}
                 PROVE  called' # called
      BY DEF CallsOnce
    <2>0. PICK top \in Nat :
            \E r \in [Events -> 0 .. top] : Upward(ev_read_next, r) /\ Ahead(r)
      BY RankParts, Zenon
    <2>1. PICK r \in [Events -> 0 .. top] : Upward(ev_read_next, r) /\ Ahead(r)
      BY <2>0, Zenon
    <2>2. \/ walk_read /\ pc = "read" /\ ev # NULL /\ called' = called \cup {<<ev, R>>}
          \/ walk_write /\ pc = "write" /\ ev # NULL /\ called' = called \cup {<<ev, W>>}
      BY DEF Next, loop, event_dispatch, select, walk_read, walk_read_end, walk_write,
             walk_write_end, walk, add_postponed, recalc, timeout_call, timeout_end,
             callback_return, select_fails, arrive, tick, call_event_add, call_event_del,
             call_event_set, Others
    <2>3. ev # NULL => ev \in Events /\ ~(r[ev] < r[ev])
      <3>1. ev # NULL => ev \in Events
        BY DEF LoopInv, TypeOK
      <3>2. QED
        BY <3>1
    <2>4. CASE pc = "read" /\ ev # NULL /\ called' = called \cup {<<ev, R>>}
      <3>1. <<ev, R>> \notin called
        BY <2>1, <2>3, <2>4 DEF Ahead, ReadWalk
      <3>2. QED
        BY <2>4, <3>1
    <2>5. CASE pc = "write" /\ ev # NULL /\ called' = called \cup {<<ev, W>>}
      <3>1. <<ev, W>> \notin called
        BY <2>1, <2>3, <2>5 DEF Ahead, WriteWalk
      <3>2. QED
        BY <2>5, <3>1
    <2>6. QED
      BY <2>2, <2>4, <2>5, Zenon
  <1>4. QED
    BY <1>1, <1>2, <1>3, PTL DEF Spec, CalledOnce

\* When timeout_process returns to the loop no timeout that was due is left, whatever
\* timeouts the callbacks have added and deleted.
THEOREM NoneLeftDue == ASSUME EventLoopAssumption PROVE Spec => NoneOverdue
  <1>1. Init => LoopInv
    BY InvInit
  <1>2. LoopInv /\ [Next]_vars => LoopInv'
    BY InvStep
  <1>3. LoopInv /\ [Next]_vars => [LeavesNoneDue]_vars
    <2> SUFFICES ASSUME LoopInv, Next, pc = "timeout", pc' = "select",
                        NEW e \in Events, T \in ev_flags[e]
                 PROVE  left[e] > 0
      BY DEF LeavesNoneDue
    <2>1. ~Due
      BY DEF Next, loop, event_dispatch, select, walk_read, walk_read_end, walk_write,
             walk_write_end, walk, add_postponed, recalc, timeout_call, timeout_end,
             callback_return, select_fails, arrive, tick, call_event_add, call_event_del,
             call_event_set, Others
    <2>2. timequeue \in Seq(Events) /\ left \in [Events -> Nat] /\ TimesInOrder
      BY Zenon DEF LoopInv, TypeOK
    <2>3. PICK i \in 1 .. Len(timequeue) : timequeue[i] = e
      BY Zenon DEF LoopInv, QueuesMatchFlags, Once, Queued
    <2>4. 1 \in 1 .. Len(timequeue) /\ timequeue # << >> /\ Head(timequeue) = timequeue[1]
          /\ timequeue[1] \in Events
      BY <2>2, <2>3
    <2>5. left[timequeue[1]] # 0
      BY <2>1, <2>4 DEF Due
    <2>6. left[timequeue[1]] <= left[timequeue[i]]
      BY <2>2, <2>3, <2>4 DEF TimesInOrder
    <2>7. QED
      BY <2>2, <2>3, <2>4, <2>5, <2>6
  <1>4. QED
    BY <1>1, <1>2, <1>3, PTL DEF Spec, NoneOverdue
=============================================================================
