------------------------- MODULE ProcessPoolProofs -------------------------
(***************************************************************************)
(* Theorems about ProcessPool, for every number of children and every set  *)
(* of connections: the parent, which knows its children only by what it    *)
(* wrote and read, is never wrong about a child that is alive.             *)
(***************************************************************************)
EXTENDS ProcessPool, SequenceTheorems, WellFoundedInduction, TLAPS

\* dispatch finds the first idle child where there is one.
LEMMA FirstIdle ==
  ASSUME PoolAssumption, Idle # {}
  PROVE  Min(Idle) \in Idle
  <1> DEFINE R == OpToRel(<, Nat)
  <1>1. Idle \subseteq Nat
    BY DEF Idle, Children, PoolAssumption
  <1>2. IsWellFoundedOn(R, Nat)
    BY NatLessThanWellFounded
  <1>3. \A x, y \in Nat : y < x => <<y, x>> \in R
    BY DEF OpToRel
  <1> HIDE DEF R
  <1>4. \E x \in Idle : \A y \in Idle : ~(<<y, x>> \in R)
    BY <1>1, <1>2, WFMin, Zenon
  <1>5. \E x \in Idle : \A y \in Idle : x <= y
    <2>1. PICK x \in Idle : \A y \in Idle : ~(<<y, x>> \in R)
      BY <1>4
    <2>2. ASSUME NEW y \in Idle PROVE x <= y
      <3>1. x \in Nat /\ y \in Nat
        BY <1>1
      <3>2. ~(y < x)
        BY <1>3, <2>1, <3>1, Zenon
      <3>3. QED
        BY <3>1, <3>2
    <2>3. QED
      BY <2>2
  <1>6. QED
    BY <1>5 DEF Min

(***************************************************************************)
(* Types                                                                   *)
(***************************************************************************)
LEMMA TypeStep ==
  ASSUME PoolAssumption, TypeOK, [Next]_vars
  PROVE  TypeOK'
  <1> USE DEF TypeOK, parent, wires, conns
  <1>1. ASSUME NEW k \in Conns, connect(k) PROVE TypeOK'
    BY <1>1 DEF connect
  <1>2. CASE select
    BY <1>2 DEF select, Readable
  <1>3. CASE select_fails
    BY <1>3 DEF select_fails
  <1>4. ASSUME NEW k \in Conns, accept(k) PROVE TypeOK'
    <2>1. PICK fd \in {k, NULL} : dispatch(fd)
      BY <1>4 DEF accept
    <2>2. Idle # {} => Min(Idle) \in Children
      BY FirstIdle DEF Idle
    <2>3. /\ index' \in Children \cup {NULL} /\ fd_client' \in Conns \cup {NULL}
          /\ flags' \in [Children -> Nat]
          /\ pc' \in {"send", "read", "exit"}
      <3>1. CASE Idle = {}
        BY <2>1, <3>1 DEF dispatch
      <3>2. CASE Idle # {}
        <4> DEFINE i == Min(Idle)
        <4>1. /\ i \in Children
              /\ \/ index' = i /\ fd_client' = fd /\ flags' = [flags EXCEPT ![i] = @ + 1]
                    /\ pc' = "send"
                 \/ pc' = "exit" /\ UNCHANGED <<index, fd_client, flags>>
          BY <2>1, <2>2, <3>2 DEF dispatch
        <4> HIDE DEF i
        <4>2. [flags EXCEPT ![i] = @ + 1] \in [Children -> Nat]
          BY <4>1
        <4>3. fd \in Conns \cup {NULL}
          OBVIOUS
        <4>4. QED
          BY <4>1, <4>2, <4>3
      <3>3. QED
        BY <3>1, <3>2
    <2>4. QED
      BY <1>4, <2>3 DEF accept
  <1>5. CASE send_fd
    <2>1. fds' \in [Children -> Seq(Conns)]
      <3>1. ASSUME NEW c \in Children, fd_client # NULL
            PROVE  Append(fds[c], fd_client) \in Seq(Conns)
        <4>1. fds[c] \in Seq(Conns) /\ fd_client \in Conns
          BY <3>1
        <4> HIDE DEF TypeOK
        <4>2. QED
          BY <4>1
      <3> DEFINE sent(c) == IF c \in {index} /\ fd_client # NULL
                            THEN Append(fds[c], fd_client) ELSE fds[c]
      <3>2. fds' = fds \/ fds' = [c \in Children |-> sent(c)]
        BY <1>5 DEF send_fd, Sent
      <3>3. \A c \in Children : sent(c) \in Seq(Conns)
        BY <3>1
      <3> HIDE DEF sent
      <3>4. QED
        BY <3>2, <3>3
    <2>2. s_state' \in [Children -> {"ST_IDLE", "ST_BUSY"}]
      BY <1>5 DEF send_fd, Sent
    <2>3. QED
      BY <1>5, <2>1, <2>2 DEF send_fd, Sent
  <1>6. CASE read_pids
    <2>1. \A c \in Children : pids[c] > 0 => pids[c] - 1 \in Nat
      OBVIOUS
    <2>2. pids' \in [Children -> Nat]
      BY <1>6, <2>1 DEF read_pids
    <2>3. s_state' \in [Children -> {"ST_IDLE", "ST_BUSY"}]
      BY <1>6 DEF read_pids
    <2>4. QED
      BY <1>6, <2>2, <2>3, Zenon DEF read_pids
  <1>7. ASSUME NEW c \in Children, child_read(c) PROVE TypeOK'
    BY <1>7 DEF child_read
  <1>8. ASSUME NEW c \in Children, recv_fd(c) PROVE TypeOK'
    <2>1. Head(fds[c]) \in Conns /\ Tail(fds[c]) \in Seq(Conns)
      BY <1>8, HeadTailProperties DEF recv_fd
    <2>2. QED
      BY <1>8, <2>1 DEF recv_fd
  <1>9. ASSUME NEW c \in Children, die(c) PROVE TypeOK'
    BY <1>9 DEF die
  <1>10. ASSUME NEW c \in Children, handle_request(c) PROVE TypeOK'
    BY <1>10 DEF handle_request
  <1>11. CASE UNCHANGED vars
    BY <1>11 DEF vars
  <1> HIDE DEF TypeOK, parent, wires, conns
  <1>12. QED
    BY <1>1, <1>2, <1>3, <1>4, <1>5, <1>6, <1>7, <1>8, <1>9, <1>10, <1>11, Zenon
    DEF Next, main, child_dies, child_eof

(***************************************************************************)
(* What the parent believes                                                *)
(***************************************************************************)
LEMMA ParentStep ==
  ASSUME PoolAssumption, TypeOK, ParentInv, [Next]_vars
  PROVE  ParentInv'
  <1> USE DEF TypeOK, ParentInv, parent, wires, conns
  <1>1. ASSUME NEW k \in Conns, connect(k) PROVE ParentInv'
    BY <1>1 DEF connect
  <1>2. CASE select
    BY <1>2 DEF select, Readable
  <1>3. CASE select_fails
    BY <1>3 DEF select_fails
  <1>4. ASSUME NEW k \in Conns, accept(k) PROVE ParentInv'
    <2>1. PICK fd \in {k, NULL} : dispatch(fd)
      BY <1>4 DEF accept
    <2>2. Idle # {} => /\ Min(Idle) \in Children /\ Min(Idle) # NULL
                       /\ s_state[Min(Idle)] = "ST_IDLE"
      BY FirstIdle DEF Idle, PoolAssumption
    <2>3. QED
      BY <1>4, <2>1, <2>2 DEF accept, dispatch
  <1>5. CASE send_fd
    BY <1>5 DEF send_fd, Sent
  <1>6. CASE read_pids
    BY <1>6 DEF read_pids
  <1>7. ASSUME NEW c \in Children, child_read(c) PROVE ParentInv'
    BY <1>7 DEF child_read
  <1>8. ASSUME NEW c \in Children, recv_fd(c) PROVE ParentInv'
    BY <1>8 DEF recv_fd
  <1>9. ASSUME NEW c \in Children, die(c) PROVE ParentInv'
    BY <1>9 DEF die
  <1>10. ASSUME NEW c \in Children, handle_request(c) PROVE ParentInv'
    BY <1>10 DEF handle_request
  <1>11. CASE UNCHANGED vars
    BY <1>11 DEF vars
  <1> HIDE DEF TypeOK, ParentInv, parent, wires, conns
  <1>12. QED
    BY <1>1, <1>2, <1>3, <1>4, <1>5, <1>6, <1>7, <1>8, <1>9, <1>10, <1>11, Zenon
    DEF Next, main, child_dies, child_eof

LEMMA AgreeStep ==
  ASSUME PoolAssumption, TypeOK, ParentInv, AgreeInv, [Next]_vars
  PROVE  AgreeInv'
  <1> USE DEF TypeOK, AgreeInv, Work, parent, wires, conns
  <1>1. ASSUME NEW k \in Conns, connect(k) PROVE AgreeInv'
    BY <1>1 DEF connect
  <1>2. CASE select
    BY <1>2 DEF select
  <1>3. CASE select_fails
    BY <1>3 DEF select_fails
  <1>4. ASSUME NEW k \in Conns, accept(k) PROVE AgreeInv'
    <2>1. PICK fd \in {k, NULL} : dispatch(fd)
      BY <1>4 DEF accept
    <2>2. Idle # {} => /\ Min(Idle) \in Children /\ Min(Idle) # NULL
                       /\ s_state[Min(Idle)] = "ST_IDLE"
      BY FirstIdle DEF Idle, PoolAssumption
    <2>3. index = NULL /\ \A c \in Children : c # NULL
      BY <1>4 DEF accept, ParentInv, PoolAssumption
    <2>4. QED
      BY <1>4, <2>1, <2>2, <2>3 DEF accept, dispatch
  <1>5. CASE send_fd
    BY <1>5 DEF send_fd, Sent, PoolAssumption
  <1>6. CASE read_pids
    <2>1. index = NULL /\ \A c \in Children : c # NULL
      BY <1>6 DEF read_pids, ParentInv, PoolAssumption
    <2>2. ASSUME NEW c \in Children, c \in readyset, cpc[c] # "dead"
          PROVE  pids[c] = 1 /\ flags[c] = 0 /\ cpc[c] = "read"
      <3>1. pids[c] \in Nat /\ flags[c] \in Nat /\ pids[c] > 0
        BY <2>2 DEF ParentInv
      <3>2. Work(c) = 0 \/ Work(c) = 1
        BY <2>2
      <3>3. QED
        BY <3>1, <3>2
    <2>3. QED
      BY <1>6, <2>1, <2>2 DEF read_pids
  <1>7. ASSUME NEW c \in Children, child_read(c) PROVE AgreeInv'
    BY <1>7, SMTT(20) DEF child_read
  <1>8. ASSUME NEW c \in Children, recv_fd(c) PROVE AgreeInv'
    BY <1>8 DEF recv_fd
  <1>9. ASSUME NEW c \in Children, die(c) PROVE AgreeInv'
    BY <1>9 DEF die
  <1>10. ASSUME NEW c \in Children, handle_request(c) PROVE AgreeInv'
    BY <1>10 DEF handle_request
  <1>11. CASE UNCHANGED vars
    BY <1>11 DEF vars
  <1> HIDE DEF TypeOK, AgreeInv, Work, parent, wires, conns
  <1>12. QED
    BY <1>1, <1>2, <1>3, <1>4, <1>5, <1>6, <1>7, <1>8, <1>9, <1>10, <1>11, Zenon
    DEF Next, main, child_dies, child_eof

(***************************************************************************)
(* What a child has                                                        *)
(***************************************************************************)
LEMMA ChildStep ==
  ASSUME PoolAssumption, TypeOK, ParentInv, AgreeInv, ChildInv, [Next]_vars
  PROVE  ChildInv'
  <1> USE DEF TypeOK, ChildInv, parent, wires, conns
  <1>0. \A c \in Children : c # NULL /\ flags[c] \in Nat /\ pids[c] \in Nat
    BY DEF PoolAssumption
  <1>1. ASSUME NEW k \in Conns, connect(k) PROVE ChildInv'
    BY <1>1 DEF connect
  <1>2. CASE select
    BY <1>2 DEF select
  <1>3. CASE select_fails
    BY <1>3 DEF select_fails
  <1>4. ASSUME NEW k \in Conns, accept(k) PROVE ChildInv'
    <2>1. PICK fd \in {k, NULL} : dispatch(fd)
      BY <1>4 DEF accept
    <2>2. index = NULL /\ UNCHANGED <<s_state, cpc, fds, pids, held>>
      BY <1>4 DEF accept, ParentInv
    <2>3. /\ \A c \in Children : flags'[c] >= flags[c]
          /\ index' # NULL => /\ index' \in Children /\ cpc[index'] # "dead"
                              /\ s_state[index'] = "ST_IDLE"
      <3>1. CASE Idle = {}
        BY <1>0, <2>1, <2>2, <3>1 DEF dispatch
      <3>2. CASE Idle # {}
        <4> DEFINE i == Min(Idle)
        <4>1. i \in Children /\ s_state[i] = "ST_IDLE"
          BY <3>2, FirstIdle DEF Idle
        <4>2. \/ cpc[i] # "dead" /\ index' = i /\ flags' = [flags EXCEPT ![i] = @ + 1]
              \/ UNCHANGED <<index, flags>>
          BY <2>1, <3>2 DEF dispatch
        <4> HIDE DEF i
        <4>3. flags \in [Children -> Nat]
          OBVIOUS
        <4> HIDE DEF TypeOK, ChildInv
        <4>4. \A c \in Children : flags'[c] >= flags[c]
          BY <4>1, <4>2, <4>3
        <4>5. QED
          BY <2>2, <4>1, <4>2, <4>4
      <3>3. QED
        BY <3>1, <3>2
    <2>4. index' # NULL => pids[index'] = 0
      <3> DEFINE i == index'
      <3> SUFFICES ASSUME i # NULL PROVE pids[i] = 0
        OBVIOUS
      <3>1. i \in Children /\ cpc[i] # "dead" /\ s_state[i] = "ST_IDLE" /\ index # i
        BY <2>2, <2>3
      <3> HIDE DEF i
      <3>2. Work(i) = 0
        BY <3>1 DEF AgreeInv
      <3>3. QED
        BY <1>0, <3>1, <3>2 DEF Work
    <2>5. \A c \in Children : flags'[c] \in Nat
      BY TypeStep
    <2>6. QED
      BY <1>0, <2>2, <2>3, <2>4, <2>5
  <1>5. CASE send_fd
    <2>1. /\ pc = "send" /\ index \in Children /\ s_state[index] = "ST_IDLE"
          /\ index' = NULL /\ UNCHANGED <<cpc, flags, pids, held>>
      BY <1>5 DEF send_fd, Sent, ParentInv
    <2>2. CASE cpc[index] = "dead"
      BY <1>0, <1>5, <2>1, <2>2 DEF send_fd, Sent
    <2>3. CASE cpc[index] # "dead"
      <3>1. fds[index] = << >> /\ pids[index] = 0 /\ cpc[index] # "handle"
        BY <2>1
      <3>2. cpc[index] = "recv_fd" \/ (cpc[index] = "read" /\ flags[index] > 0)
        BY <1>0, <2>1, <2>3, <3>1 DEF AgreeInv, Work
      <3>3. /\ s_state' = [s_state EXCEPT ![index] = "ST_BUSY"]
            /\ \A c \in Children : c # index => fds'[c] = fds[c]
            /\ fds'[index] = fds[index] \/ fds'[index] = Append(fds[index], fd_client)
        BY <1>5, <2>1, <2>3 DEF send_fd, Sent
      <3>4. fds'[index] # << >> => Len(fds'[index]) = 1
        <4> DEFINE one == Append(<< >>, fd_client)
        <4>1. Len(one) = 1
          OBVIOUS
        <4>2. fds'[index] = << >> \/ fds'[index] = one
          BY <3>1, <3>3
        <4> HIDE DEF one, TypeOK, ChildInv
        <4>3. QED
          BY <4>1, <4>2, Zenon
      <3>5. QED
        BY <1>0, <2>1, <3>1, <3>2, <3>3, <3>4
    <2>4. QED
      BY <2>2, <2>3
  <1>6. CASE read_pids
    <2>1. index = NULL /\ UNCHANGED <<index, cpc, flags, fds, held>>
      BY <1>6 DEF read_pids, ParentInv
    <2>2. ASSUME NEW c \in Children, c \in readyset PROVE fds[c] = << >> /\ cpc[c] # "handle"
      <3>1. CASE cpc[c] = "dead"
        BY <3>1, Zenon
      <3>2. CASE cpc[c] # "dead"
        <4>1. pids[c] > 0
          BY <2>2, <3>2 DEF ParentInv
        <4>2. flags[c] = 0 /\ cpc[c] = "read"
          BY <1>0, <2>1, <3>2, <4>1 DEF AgreeInv, Work
        <4>3. QED
          BY <4>2
      <3>3. QED
        BY <3>1, <3>2
    <2>3. \A c \in Children : c \notin readyset => s_state'[c] = s_state[c]
      BY <1>6 DEF read_pids
    <2>4. QED
      BY <1>0, <2>1, <2>2, <2>3
  <1>7. ASSUME NEW c \in Children, child_read(c) PROVE ChildInv'
    BY <1>7 DEF child_read
  <1>8. ASSUME NEW c \in Children, recv_fd(c) PROVE ChildInv'
    <2>1. fds[c] \in Seq(Conns) /\ Len(fds[c]) = 1 /\ s_state[c] = "ST_BUSY"
      BY <1>8 DEF recv_fd
    <2>2. Head(fds[c]) \in Conns /\ Tail(fds[c]) = << >>
      <3> DEFINE s == fds[c]
      <3>1. s \in Seq(Conns) /\ Len(s) = 1
        BY <2>1
      <3> HIDE DEF s, TypeOK, ChildInv
      <3>2. s # << >>
        BY <3>1, EmptySeq
      <3>3. Head(s) \in Conns /\ Tail(s) \in Seq(Conns) /\ Len(Tail(s)) = 0
        BY <3>1, <3>2, HeadTailProperties
      <3>4. Head(s) \in Conns /\ Tail(s) = << >>
        BY <3>3, EmptySeq, Zenon
      <3>5. QED
        BY <3>4 DEF s
    <2>3. Head(fds[c]) # NULL
      BY <2>2 DEF PoolAssumption
    <2>4. QED
      BY <1>8, <2>1, <2>2, <2>3 DEF recv_fd
  <1>9. ASSUME NEW c \in Children, die(c) PROVE ChildInv'
    BY <1>9 DEF die
  <1>10. ASSUME NEW c \in Children, handle_request(c) PROVE ChildInv'
    <2>1. index # c
      BY <1>0, <1>10 DEF handle_request, ParentInv
    <2>2. QED
      BY <1>10, <2>1 DEF handle_request
  <1>11. CASE UNCHANGED vars
    BY <1>11 DEF vars
  <1> HIDE DEF TypeOK, ChildInv, parent, wires, conns
  <1>12. QED
    BY <1>1, <1>2, <1>3, <1>4, <1>5, <1>6, <1>7, <1>8, <1>9, <1>10, <1>11, Zenon
    DEF Next, main, child_dies, child_eof

(***************************************************************************)
(* Where a connection is                                                   *)
(***************************************************************************)

\* A socketpair carries no connection or one.
LEMMA OneAtATime ==
  ASSUME NEW k
  PROVE  /\ ~Contains(<< >>, k)
         /\ \A j : Contains(Append(<< >>, j), k) <=> j = k
         /\ \A s \in Seq(Conns) : Len(s) = 1 => (Contains(s, k) <=> Head(s) = k)
         /\ \A s \in Seq(Conns) : k \in ToSet(s) <=> Contains(s, k)
  <1>1. ~Contains(<< >>, k)
    BY DEF Contains
  <1>2. ASSUME NEW j PROVE Contains(Append(<< >>, j), k) <=> j = k
    <2>1. Append(<< >>, j) = <<j>>
      OBVIOUS
    <2>2. QED
      BY <2>1 DEF Contains
  <1>3. ASSUME NEW s \in Seq(Conns), Len(s) = 1 PROVE Contains(s, k) <=> Head(s) = k
    BY <1>3 DEF Contains
  <1>4. ASSUME NEW s \in Seq(Conns) PROVE k \in ToSet(s) <=> Contains(s, k)
    BY DEF Contains, ToSet
  <1>5. QED
    BY <1>1, <1>2, <1>3, <1>4

LEMMA PlaceNames ==
  /\ \A n \in {"unborn", "backlog", "handled", "dropped", "lost", "fd_client"} :
       <<n, 0>> \in Places
  /\ \A c \in Children : <<"held", c>> \in Places /\ <<"fds", c>> \in Places
  BY DEF Places

LEMMA OwnedStep ==
  ASSUME PoolAssumption, TypeOK, ParentInv, ChildInv, ConnsOwned, [Next]_vars
  PROVE  ConnsOwned'
  <1> SUFFICES ASSUME NEW k \in Conns, NEW x \in Places, OnlyIn(k, x)
               PROVE  \E y \in Places : OnlyIn(k, y)'
    BY DEF ConnsOwned
  <1> USE DEF OnlyIn, parent, wires, conns
  <1>0. k # NULL
    BY DEF PoolAssumption
  <1>1. ASSUME NEW j \in Conns, connect(j) PROVE \E y \in Places : OnlyIn(k, y)'
    <2>1. CASE k = j
      <3>1. OnlyIn(k, <<"backlog", 0>>)'
        BY <1>1, <2>1 DEF connect
      <3>2. QED
        BY <3>1, PlaceNames
    <2>2. CASE k # j
      <3>1. OnlyIn(k, x)'
        BY <1>1, <2>2 DEF connect
      <3>2. QED
        BY <3>1
    <2>3. QED
      BY <2>1, <2>2
  <1>2. CASE select
    <2>1. OnlyIn(k, x)'
      BY <1>2 DEF select
    <2>2. QED
      BY <2>1
  <1>3. CASE select_fails
    <2>1. OnlyIn(k, x)'
      BY <1>3 DEF select_fails
    <2>2. QED
      BY <2>1
  <1>4. ASSUME NEW j \in Conns, accept(j) PROVE \E y \in Places : OnlyIn(k, y)'
    <2>1. PICK fd \in {j, NULL} :
            /\ dispatch(fd)
            /\ lost' = IF fd = NULL \/ pc' = "exit" THEN lost \cup {j} ELSE lost
      BY <1>4 DEF accept
    <2>2. /\ fd_client = NULL /\ j \in backlog /\ backlog' = backlog \ {j}
          /\ UNCHANGED <<unborn, handled, held, fds>>
      BY <1>4 DEF accept, ParentInv
    <2>3. \/ pc' = "read" /\ dropped' = dropped \cup ({fd} \ {NULL}) /\ fd_client' = NULL
          \/ pc' = "send" /\ fd_client' = fd /\ dropped' = dropped
          \/ pc' = "exit" /\ fd_client' = NULL /\ dropped' = dropped
      BY <2>1, <2>2 DEF dispatch
    <2>4. CASE k # j
      <3>1. OnlyIn(k, x)'
        BY <1>0, <2>1, <2>2, <2>3, <2>4
      <3>2. QED
        BY <3>1
    <2>5. CASE k = j /\ (fd = NULL \/ pc' = "exit")
      <3>1. OnlyIn(k, <<"lost", 0>>)'
        BY <1>0, <2>1, <2>2, <2>3, <2>5
      <3>2. QED
        BY <3>1, PlaceNames
    <2>6. CASE k = j /\ fd = j /\ pc' = "read"
      <3>1. OnlyIn(k, <<"dropped", 0>>)'
        BY <1>0, <2>1, <2>2, <2>3, <2>6
      <3>2. QED
        BY <3>1, PlaceNames
    <2>7. CASE k = j /\ fd = j /\ pc' = "send"
      <3>1. OnlyIn(k, <<"fd_client", 0>>)'
        BY <1>0, <2>1, <2>2, <2>3, <2>7
      <3>2. QED
        BY <3>1, PlaceNames
    <2>8. QED
      BY <2>3, <2>4, <2>5, <2>6, <2>7
  <1>5. CASE send_fd
    <2>1. /\ index \in Children /\ s_state[index] = "ST_IDLE" /\ fd_client' = NULL
          /\ UNCHANGED <<unborn, backlog, handled, dropped, held>>
      BY <1>5 DEF send_fd, Sent, ParentInv, TypeOK
    <2>2. fds[index] = << >>
      BY <2>1 DEF ChildInv
    <2>3. CASE cpc[index] = "dead"
      <3>1. lost' = lost \cup ({fd_client} \ {NULL}) /\ fds' = fds
        BY <1>5, <2>3 DEF send_fd, Sent
      <3>2. CASE k = fd_client
        <4>1. OnlyIn(k, <<"lost", 0>>)'
          BY <1>0, <2>1, <3>1, <3>2
        <4>2. QED
          BY <4>1, PlaceNames
      <3>3. CASE k # fd_client
        <4>1. OnlyIn(k, x)'
          BY <1>0, <2>1, <3>1, <3>3
        <4>2. QED
          BY <4>1
      <3>4. QED
        BY <3>2, <3>3
    <2>4. CASE cpc[index] # "dead"
      <3>1. /\ lost' = lost
            /\ \A c \in Children : c # index => fds'[c] = fds[c]
            /\ fds'[index] = IF fd_client # NULL THEN Append(<< >>, fd_client) ELSE << >>
        BY <1>5, <2>1, <2>2, <2>4 DEF send_fd, Sent
      <3>2. Contains(fds'[index], k) <=> fd_client = k
        <4>1. CASE fd_client = NULL
          BY <1>0, <3>1, <4>1, OneAtATime
        <4>2. CASE fd_client # NULL
          <5>1. fds'[index] = Append(<< >>, fd_client)
            BY <3>1, <4>2
          <5>2. Contains(Append(<< >>, fd_client), k) <=> fd_client = k
            BY OneAtATime, Zenon
          <5>3. QED
            BY <5>1, <5>2
        <4>3. QED
          BY <4>1, <4>2
      <3>3. ~Contains(fds[index], k)
        BY <2>2, OneAtATime
      <3>4. CASE k = fd_client
        <4>1. PICK i \in Children : i = index
          BY <2>1
        <4>2. \A c \in Children : Contains(fds[c], k)' <=> c = i
          BY <3>1, <3>2, <3>4, <4>1
        <4>3. OnlyIn(k, <<"fds", i>>)'
          BY <1>0, <2>1, <3>1, <3>4, <4>2, SMTT(20)
        <4>4. QED
          BY <4>3, PlaceNames, Zenon
      <3>5. CASE k # fd_client
        <4>1. OnlyIn(k, x)'
          BY <1>0, <2>1, <3>1, <3>2, <3>3, <3>5
        <4>2. QED
          BY <4>1
      <3>6. QED
        BY <3>4, <3>5
    <2>5. QED
      BY <2>3, <2>4
  <1>6. CASE read_pids
    <2>1. OnlyIn(k, x)'
      BY <1>6 DEF read_pids
    <2>2. QED
      BY <2>1
  <1>7. ASSUME NEW c \in Children, child_read(c) PROVE \E y \in Places : OnlyIn(k, y)'
    <2>1. OnlyIn(k, x)'
      BY <1>7 DEF child_read
    <2>2. QED
      BY <2>1
  <1>8. ASSUME NEW c \in Children, recv_fd(c) PROVE \E y \in Places : OnlyIn(k, y)'
    <2>1. /\ cpc[c] = "recv_fd" /\ fds[c] # << >>
          /\ held' = [held EXCEPT ![c] = Head(fds[c])] /\ fds' = [fds EXCEPT ![c] = Tail(@)]
          /\ UNCHANGED <<unborn, backlog, handled, dropped, lost, fd_client>>
      BY <1>8 DEF recv_fd
    <2>2. /\ fds[c] \in Seq(Conns) /\ Len(fds[c]) = 1 /\ held[c] = NULL
      BY <2>1 DEF ChildInv, TypeOK
    <2>3. Contains(fds[c], k) <=> Head(fds[c]) = k
      BY <2>2, OneAtATime
    <2>4. Tail(fds[c]) = << >>
      <3> DEFINE s == fds[c]
      <3>1. s \in Seq(Conns) /\ Len(s) = 1 /\ s # << >>
        BY <2>1, <2>2
      <3> HIDE DEF s
      <3>2. Tail(s) \in Seq(Conns) /\ Len(Tail(s)) = 0
        BY <3>1, HeadTailProperties
      <3>3. Tail(s) = << >>
        BY <3>2, EmptySeq, Zenon
      <3>4. QED
        BY <3>3 DEF s
    <2>5. /\ held'[c] = Head(fds[c]) /\ \A d \in Children : d # c => held'[d] = held[d]
          /\ fds'[c] = << >> /\ \A d \in Children : d # c => fds'[d] = fds[d]
      BY <2>1, <2>4 DEF TypeOK
    <2>6. ~Contains(fds'[c], k)
      BY <2>5, OneAtATime
    <2>7. CASE Head(fds[c]) = k
      <3>1. OnlyIn(k, <<"held", c>>)'
        BY <1>0, <2>1, <2>2, <2>3, <2>5, <2>6, <2>7
      <3>2. QED
        BY <3>1, PlaceNames, Zenon
    <2>8. CASE Head(fds[c]) # k
      <3>1. OnlyIn(k, x)'
        BY <1>0, <2>1, <2>2, <2>3, <2>5, <2>6, <2>8
      <3>2. QED
        BY <3>1
    <2>9. QED
      BY <2>7, <2>8
  <1>9. ASSUME NEW c \in Children, die(c) PROVE \E y \in Places : OnlyIn(k, y)'
    <2>1. /\ lost' = lost \cup ToSet(fds[c]) \cup ({held[c]} \ {NULL})
          /\ held'[c] = NULL /\ \A d \in Children : d # c => held'[d] = held[d]
          /\ fds'[c] = << >> /\ \A d \in Children : d # c => fds'[d] = fds[d]
          /\ UNCHANGED <<unborn, backlog, handled, dropped, fd_client>>
      BY <1>9 DEF die, TypeOK
    <2>2. k \in lost' <=> k \in lost \/ Contains(fds[c], k) \/ held[c] = k
      <3>1. fds[c] \in Seq(Conns)
        BY DEF TypeOK
      <3>2. k \in ToSet(fds[c]) <=> Contains(fds[c], k)
        BY <3>1, OneAtATime
      <3>3. QED
        BY <1>0, <2>1, <3>2
    <2>3. ~Contains(fds'[c], k)
      BY <2>1, OneAtATime
    <2>4. CASE Contains(fds[c], k) \/ held[c] = k
      <3>1. OnlyIn(k, <<"lost", 0>>)'
        BY <1>0, <2>1, <2>2, <2>3, <2>4
      <3>2. QED
        BY <3>1, PlaceNames
    <2>5. CASE ~Contains(fds[c], k) /\ held[c] # k
      <3>1. OnlyIn(k, x)'
        BY <1>0, <2>1, <2>2, <2>3, <2>5
      <3>2. QED
        BY <3>1
    <2>6. QED
      BY <2>4, <2>5
  <1>10. ASSUME NEW c \in Children, handle_request(c) PROVE \E y \in Places : OnlyIn(k, y)'
    <2>1. /\ handled' = handled \cup {held[c]}
          /\ held'[c] = NULL /\ \A d \in Children : d # c => held'[d] = held[d]
          /\ UNCHANGED <<unborn, backlog, dropped, lost, fds, fd_client>>
      BY <1>10 DEF handle_request, TypeOK
    <2>2. CASE held[c] = k
      <3>1. OnlyIn(k, <<"handled", 0>>)'
        BY <1>0, <2>1, <2>2
      <3>2. QED
        BY <3>1, PlaceNames
    <2>3. CASE held[c] # k
      <3>1. OnlyIn(k, x)'
        BY <1>0, <2>1, <2>3
      <3>2. QED
        BY <3>1
    <2>4. QED
      BY <2>2, <2>3
  <1>11. CASE UNCHANGED vars
    <2>1. OnlyIn(k, x)'
      BY <1>11 DEF vars
    <2>2. QED
      BY <2>1
  <1> HIDE DEF OnlyIn, parent, wires, conns
  <1>12. QED
    BY <1>1, <1>2, <1>3, <1>4, <1>5, <1>6, <1>7, <1>8, <1>9, <1>10, <1>11, Zenon
    DEF Next, main, child_dies, child_eof

(***************************************************************************)
(* The theorems                                                            *)
(***************************************************************************)
LEMMA InvInit == ASSUME PoolAssumption, Init PROVE PoolInv /\ ConnsOwned
  <1>1. TypeOK
    <2>1. fds \in [Children -> Seq(Conns)]
      BY DEF Init
    <2>2. held \in [Children -> Conns \cup {NULL}]
      BY DEF Init
    <2>3. QED
      BY <2>1, <2>2, Zenon DEF Init, TypeOK
  <1>2. ParentInv /\ AgreeInv /\ ChildInv
    <2>1. ParentInv
      BY DEF Init, ParentInv
    <2>2. AgreeInv
      BY DEF Init, AgreeInv, Work, PoolAssumption
    <2>3. ChildInv
      BY DEF Init, ChildInv
    <2>4. QED
      BY <2>1, <2>2, <2>3
  <1>3. ConnsOwned
    <2> SUFFICES ASSUME NEW k \in Conns PROVE \E x \in Places : OnlyIn(k, x)
      BY DEF ConnsOwned
    <2>1. OnlyIn(k, <<"unborn", 0>>)
      BY OneAtATime DEF Init, OnlyIn, PoolAssumption
    <2>2. QED
      BY <2>1, PlaceNames
  <1>4. QED
    BY <1>1, <1>2, <1>3 DEF PoolInv

\* What the parent knows of its children by what it wrote and read, what each child has, and
\* what is on its way in each socketpair fit together, whoever dies and when.
THEOREM InvCorrect == ASSUME PoolAssumption PROVE Spec => []PoolInv
  <1>1. Init => PoolInv
    BY InvInit
  <1>2. PoolInv /\ [Next]_vars => PoolInv'
    BY TypeStep, ParentStep, AgreeStep, ChildStep DEF PoolInv
  <1>3. QED
    BY <1>1, <1>2, PTL DEF Spec

\* s_state of arr_child is right about every child that is alive: one marked ST_IDLE has
\* nothing to do, one marked ST_BUSY has one connection or one answer that was not yet read.
THEOREM StatesAgree == ASSUME PoolAssumption PROVE Spec => []StateAgrees
  <1>1. PoolInv => StateAgrees
    BY DEF PoolInv, AgreeInv, StateAgrees
  <1>2. QED
    BY <1>1, InvCorrect, PTL

\* Every connection is always in one place, however many children there are: none is handled
\* twice, none disappears between accept, send_fd, recv_fd and handle_request.
THEOREM OnePlace == ASSUME PoolAssumption PROVE Spec => []ConnsOwned
  <1>1. Init => ConnsOwned
    BY InvInit
  <1>2. PoolInv /\ ConnsOwned /\ [Next]_vars => ConnsOwned'
    BY OwnedStep DEF PoolInv
  <1>3. QED
    BY <1>1, <1>2, InvCorrect, PTL DEF Spec

\* dispatch closes a connection unserved only when every child is dead or has work to do.
THEOREM DropsOnlyWhenBusy == ASSUME PoolAssumption PROVE Spec => DroppedWhenBusy
  <1>1. ASSUME PoolInv, Next PROVE DropsWhenBusy
    <2> SUFFICES ASSUME dropped' # dropped, NEW c \in Children, cpc[c] # "dead"
                 PROVE  Work(c) = 1
      BY DEF DropsWhenBusy
    <2>1. PICK k \in Conns : accept(k)
      BY <1>1 DEF Next, main, select, select_fails, connect, send_fd, Sent, read_pids,
                  child_read, recv_fd, child_dies, child_eof, die, handle_request, conns
    <2>2. Idle = {}
      BY <2>1 DEF accept, dispatch
    <2>3. s_state[c] = "ST_BUSY"
      BY <1>1, <2>2 DEF Idle, PoolInv, TypeOK
    <2>4. QED
      BY <1>1, <2>3 DEF PoolInv, AgreeInv
  <1>2. PoolInv /\ [Next]_vars => [DropsWhenBusy]_vars
    BY <1>1
  <1>3. QED
    BY <1>2, InvCorrect, PTL DEF Spec, DroppedWhenBusy
=============================================================================
