-------------------------------- MODULE MemPool --------------------------------
(***************************************************************************)
(* win_lisk/src/lisk_mem_pool.c: a pool of blocks, each cut into a chain   *)
(* of chunks.                                                              *)
(*                                                                         *)
(* chunk_mem_size and the split of block_malloc do arithmetic on chunk_t   *)
(* pointers: the size of a chunk is counted in chunk headers of UNIT_SIZE  *)
(* bytes, where a request and block->free are counted in bytes.  All of    *)
(* them are multiples of UNIT_SIZE, so here a chunk's place and size are   *)
(* in units of UNIT_SIZE headers, and a request and block->free in units   *)
(* of UNIT_SIZE bytes: a block of 256 units of bytes is 16 units of        *)
(* headers long, and a request of 2 takes a chunk of 2.  Requests of       *)
(* block_size and more, which go to malloc, leave the pool as it is.       *)
(***************************************************************************)
EXTENDS Integers, Sequences, FiniteSets, FiniteSetsExt, SequencesExt

CONSTANTS Requests,   \* sizes asked for, aligned and with the header: 2 or more
          Span,       \* the length of a block: block_size / UNIT_SIZE / UNIT_SIZE
          MaxBlocks,  \* bound: the blocks the system has memory for
          MaxDrift,   \* bound: how far block->free may get away from what is not in use
          nil

VARIABLES blocks,   \* the list of blocks, pool->block_list first
          broken    \* bytes that a user has written were read as a header

vars == <<blocks, broken>>

UNIT == 1
MIN_CHUNK_SIZE == 3 * UNIT
Size == 16 * Span                                          \* block->size

\* head: the chunk headers in the block's memory that nothing has overwritten, those that
\* are no longer in the chain included;
\* live: the chunks of the spaces that the user has, and what was asked for.
block_init == [free |-> Size, live |-> [p \in {} |-> 0],
               head |-> [p \in {0} |-> [pre |-> nil, next |-> Span, freebit |-> TRUE]]]

Init == blocks = <<block_init>> /\ broken = FALSE

chunk_mem_size(b, p) == b.head[p].next - p

\* The chunks that the walk from the bottom of the block meets.
Chain(b) == LET from[p \in 0..Span] == IF p = Span THEN {} ELSE {p} \cup from[b.head[p].next]
            IN from[0]

Fitting(b, r) == {p \in Chain(b) : b.head[p].freebit /\ chunk_mem_size(b, p) >= r}

\* The first of the smallest.
Best(b, r) == LET m == Min({chunk_mem_size(b, p) : p \in Fitting(b, r)})
              IN Min({p \in Fitting(b, r) : chunk_mem_size(b, p) = m})

\* The r - 1 units of bytes after the header at p are the user's.  A chunk of that many
\* units of headers is 16 times as long, so only the headers near its start are lost.
Given(b, p, r) ==
  [b EXCEPT !.free = @ - r,
            !.head = [q \in {x \in DOMAIN @ : x <= p \/ 16 * (x - p) >= r} |-> @[q]],
            !.live = [q \in DOMAIN @ \cup {p} |-> IF q = p THEN r ELSE @[q]]]

Cut(b, p, r) == chunk_mem_size(b, p) - r >= MIN_CHUNK_SIZE

\* A large chunk gives its end, a small one all it has.
block_malloc(b, r) ==
  LET p == Best(b, r)
      next == b.head[p].next
      q == next - r
      split == [x \in DOMAIN b.head \cup {q} |->
                  CASE x = q -> [pre |-> p, next |-> next, freebit |-> FALSE]
                    [] x = p -> [b.head[p] EXCEPT !.next = q]
                    [] x = next /\ x # q -> [b.head[x] EXCEPT !.pre = q]
                    [] OTHER -> b.head[x]]
  IN IF Cut(b, p, r) THEN Given([b EXCEPT !.head = split], q, r)
     ELSE Given([b EXCEPT !.head[p].freebit = FALSE], p, r)

Serves(b, r) == b.free >= r /\ Fitting(b, r) # {}

mem_pool_alloc(r) ==
  /\ ~broken /\ UNCHANGED broken
  /\ LET able == {i \in DOMAIN blocks : Serves(blocks[i], r)}
     IN \/ able # {} /\ blocks' = [blocks EXCEPT ![Min(able)] = block_malloc(@, r)]
        \/ /\ able = {} /\ Len(blocks) < MaxBlocks
           /\ blocks' = <<IF Serves(block_init, r) THEN block_malloc(block_init, r) ELSE block_init>>
                          \o blocks

\* Mutant: the chunk takes in the one after it, free or not.
Joined_any(b, p) ==
  LET next == b.head[p].next
      freed == [b EXCEPT !.head[p].freebit = TRUE, !.free = @ + chunk_mem_size(b, p) - UNIT,
                         !.live = [q \in DOMAIN @ \ {p} |-> @[q]]]
  IN IF next # Span THEN [freed EXCEPT !.head[p].next = b.head[next].next, !.free = @ + UNIT]
     ELSE freed

\* The chunk takes in the free one after it; the `pre' of the one after that stays.
Joined(b, p) ==
  LET next == b.head[p].next
      freed == [b EXCEPT !.head[p].freebit = TRUE, !.free = @ + chunk_mem_size(b, p) - UNIT,
                         !.live = [q \in DOMAIN @ \ {p} |-> @[q]]]
  IN IF next # Span /\ b.head[next].freebit
     THEN [freed EXCEPT !.head[p].next = b.head[next].next, !.free = @ + UNIT]
     ELSE freed

\* The `pre' of a chunk may be a header that has left the chain: it is read and written
\* all the same.
block_free(b, p) ==
  LET c == Joined(b, p)
      pre == c.head[p].pre
  IN IF pre # nil /\ c.head[pre].freebit
     THEN [c EXCEPT !.head[pre].next = c.head[p].next, !.free = @ + UNIT]
     ELSE c

\* The `pre' of the chunk is where a user has written.
PreLost(b, p) == b.head[p].pre \notin DOMAIN b.head \cup {nil}

Drift(b) == b.free + MapThenSumSet(LAMBDA p : b.live[p], DOMAIN b.live) - Size

mem_pool_dealloc(i, p) ==
  /\ ~broken /\ p \in DOMAIN blocks[i].live
  /\ IF PreLost(blocks[i], p) THEN broken' = TRUE /\ UNCHANGED blocks
     ELSE LET b == block_free(blocks[i], p)
          IN /\ UNCHANGED broken /\ Drift(b) \in -MaxDrift..MaxDrift
             /\ blocks' = IF b.free = Size /\ i > 1 THEN RemoveAt(blocks, i)
                          ELSE [blocks EXCEPT ![i] = b]

mem_pool_uninit == ~broken /\ blocks' = <<block_init>> /\ UNCHANGED broken

Next == \/ mem_pool_uninit
        \/ \E r \in Requests : mem_pool_alloc(r)
        \/ \E i \in DOMAIN blocks : \E p \in DOMAIN blocks[i].live : mem_pool_dealloc(i, p)

Spec == Init /\ [][Next]_vars

(***************************************************************************)
(* Properties                                                              *)
(***************************************************************************)
\* The space of chunk p, its header included.
Space(b, p) == p..(b.head[p].next - 1)

\* The spaces of a block that users have are apart, inside the block and no smaller than
\* what was asked for, whatever was freed, joined and split around them, and whatever
\* headers that have left the chain block_free has joined through.
SpacesApart ==
  \A i \in DOMAIN blocks : LET b == blocks[i] IN
    \A p \in DOMAIN b.live :
      /\ Space(b, p) \subseteq 0..(Span - 1) /\ Cardinality(Space(b, p)) >= b.live[p]
      /\ p \in Chain(b) /\ ~b.head[p].freebit
      /\ \A q \in DOMAIN b.live \ {p} : Space(b, p) \cap Space(b, q) = {}

\* A block that goes back to the system holds no space of a user but the one just freed.
LiveSpacesStay ==
  [][\A i \in DOMAIN blocks : \A p \in DOMAIN blocks[i].live :
       mem_pool_dealloc(i, p) /\ Len(blocks') < Len(blocks) => DOMAIN blocks[i].live = {p}]_vars
=============================================================================
