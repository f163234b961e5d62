# c-practice in TLA+

This directory is a verification development of the repository, a collection of C and
C++ exercises. It holds TLA+ modules for the parts of the code that keep state, TLC
configurations that check them on small instances, and proofs that TLAPS checks for
every value of the constants. Paths below are relative to `src/`, and
`data_structure-algorithm/` is written `dsa/`.

## 1. The repository

The repository has no single program. It is a set of parts, most of them a library file
with a test program of its own.

| Part | Source | Module |
|---|---|---|
| lock-free ring, last version | `dsa/ring-buffer/ring4/src/lisk_ring.c`, same code in `dsa/win_lisk/src/lisk_ring.c` | `LiskRing`, `RingFifo`, `LiskRingProofs` |
| lock-free ring with a size word | `dsa/ring-buffer/ring2`, `ring3` | `CountedRing`, `LiskRingProofs` |
| lock-free ring, first version, several elements a call | `dsa/ring-buffer/ring1/src/lisk_ring.c` (first half) | `SizedRing` |
| lock-free list queue | `dsa/ring-buffer/ring1/src/lisk_ring.c` (second half) | `ListQueue` |
| bounded queue of numbered cells | `dsa/ring-buffer/lock_free_queue/mpmc-bounded-queue.hpp` | `MpmcQueue`, `MpmcQueueProofs` |
| bounded blocking queue and its program | `dsa/ring-buffer/lock_free_queue/bounded_queue.h`, `.cc` | `BoundedQueue`, `BlockingQueueProofs` |
| producer/consumer program over the ring | `dsa/ring-buffer/ring4/exam/unlock_ring1.cc` | `PcQueue`, `PcQueueProofs` |
| blocking queue and its program | `dsa/block_queue/` | `BlockingQueue`, `BlockingQueueProofs` |
| double-ended queue | `dsa/win_lisk/src/lisk_deque.c` | `LiskDeque`, `SeqDeque`, `LiskDequeProofs` |
| vector | `dsa/win_lisk/src/lisk_vector.c` | `Vector` |
| memory pool | `dsa/win_lisk/src/lisk_mem_pool.c` | `MemPool` |
| ordered map (red-black tree) | `dsa/win_lisk/src/lisk_map.c` | `RbMap`, `Dictionary` |
| hash table | `dsa/win_lisk/src/lisk_hashtable.c` | `HashTable`, `Dictionary` |
| skip list | `dsa/win_lisk/src/lisk_skiplist.c` | `SkipList`, `Dictionary` |
| timer with hands | `dsa/win_lisk/src/lisk_timer.c`, with what it uses of `lisk_list.c` | `LiskTimer` |
| event loop of an early libevent | `sys/libevent/event.c` | `EventLoop`, `EventLoopProofs` |
| pool of processes behind a listening socket | `sys/tcp/simple_framework/` | `ProcessPool`, `ProcessPoolProofs` |
| table-driven state machine, and the stop watch of its test | `dsa/fsm/` | `Fsm`, `Watch` |
| coroutines on a shared stack | `sys/coroutine/yun_feng/` | `Coroutine`, `CoroutineProofs` |
| copies of other projects, generated code, wrappers and short examples | `dsa/cstl-1.0.0`, `redis/`, `dsa/pb`, `zk-kafka/`, `sys/coroutine/libco` and others | not modelled (section 9) |

How they interact: the producer/consumer program pairs the ring with a semaphore; the
list queue keeps its spare nodes in a ring; the timer keeps its spare nodes in a ring
too and its waiting timers in linked lists; the ordered map takes its memory from a
pool. `ListQueue` is composed with its ring: a call of `ring_push` or `ring_pop` is
taken step by step, by the actions of `SizedRing`, and the queue goes on with what the
call returned, right or wrong. In the other places the model of the user takes the used
part by its contract: `PcQueue` and `LiskTimer` see the ring of ring4 as a bounded FIFO,
which is what `RingFifo` states and what `LiskRing` is checked to implement, and to
`RbMap` the pool is memory. One exception is carried over faithfully: with several
consumers a ring may report empty although it is not, and `PcQueue` has that failure as
the constant `FalseEmpty`.

## 2. How the models are made

*Steps.* In the lock-free modules one action is one access to shared memory. What lies
between two accesses only reads locals and belongs to the access before. A copy of an
element in `LiskRing` is two steps of half an element each, so that a copy that races
with another shows up as a torn element. In the queues with a mutex a step is what
happens between two points where another thread can run; in `ProcessPool` it is one
system call of one process. The other modules are sequential, and an action is a call,
the part of a call between two callbacks, or, in `RbMap`, one round of a rebalancing
loop.

*Memory.* The lock-free modules assume sequential consistency. The cursors of the rings
are `volatile`, the compare-and-swap is a full barrier, and the target is x86, on which
only a store followed by a load of another word may be seen out of order. The plain
stores of the rings are the last step of a call; a load of the next call that overtakes
one sees an older cursor of the other side, which the models allow anyway. The fields
of the list queue are not `volatile`: a second load with no barrier in between may be
folded into the first by the compiler, and `push_check` and `pop_check` of `ListQueue`
allow both outcomes. `MpmcQueue` does not look into the memory orders it names.

*Numbers.* Cursors are `u4` in the code. `LiskRing` keeps them unwrapped and compares
them modulo `Wrap`, which stands for 2^32; `SizedRing` stores them modulo `Wrap`. The
tickets of `MpmcQueue` are `size_t` and do not come round.

*Failures.* Allocations fail in `ListQueue`, `LiskDeque`, `Vector`, `HashTable`,
`SkipList` and `LiskTimer`; thread creation in `PcQueue`; `select` in `EventLoop`;
`select` and `accept` in `ProcessPool`, whose children also die.

*Mutants.* Some modules define variants of an action under the comment "Mutant". No
specification uses them. Each is the action with one plausible mistake, and shows which
property notices the mistake.

*Instances.* A module `MC...` gives constants their values for TLC. Three of them put
several components side by side: a variable `part` says which component this behaviour
is one of, variables of the others have the value `Off`, and a property starts with the
part it is about. The components do not touch each other there; it is a way of asking
one question (does anything get lost while calls interleave, does whoever waits go on,
is the structure what it should be between calls) of all of them. Each component module
has its own `Init`, `Next`, specification and properties and can be checked alone.

## 3. The modules

### Shared by threads or processes

**`RingFifo`** is the abstract bounded FIFO: a sequence `q`, a push at its end, a pop from
its front into `out[c]`.

**`LiskRing`**: `write_pos`, `read_pos`, `max_read_idx` and the slots `data` are the words of
`lisk_ring_t`; `ridx`, `widx`, `arg`, `elem` and `ret` are the locals of a call; `log` is
history. `push_load_ridx`, `push_load_widx`, `push_cas`, `push_copy`, `push_publish` are
the steps of `mp_ring_push`, `sp_mc_ring_push` and `sp_sc_ring_push`; `pop_load_ridx`,
`pop_load_limit`, `pop_copy`, `pop_take` those of the four pops; `size_first` and
`size_second` are `ring_size`, whose two loads the compiler may order either way. `type`
selects the variant as `ring_set_type` does.

**`CountedRing`** extends `LiskRing` with the word `size`: `push_step` and `pop_step` are its
steps, and a call whose cursor has moved has still to `count`. `ring2_next` counts
atomically; `ring3_next` is ring3's ring for one producer and one consumer, in which
`plain_load` and `plain_store` are the two halves of `size++`.

**`SizedRing`**: as `LiskRing`, with `size` beside the cursors and calls that move several
elements. `pop_clamp` and `pop_clamped` are the two loads of `size` in `ring_pop`. Two
variables are history: `queued`, the published elements in order, and `faults`, which
names what has gone wrong: "overrun" (a push has claimed a slot in use, or the one that
has to stay free), "nothing" (a pop has succeeded without an element), "excess" (one has
taken more than it was asked for) and "disorder" (one has returned other elements than
the oldest). `Teams` lists the sets of threads that may share a ring: a thread outside
the chosen team is absent.

**`ListQueue`**: `node` is the heap, `head`, `tail` and `num` the words of the queue, `th[t]` a
thread's place and locals. `push_*` are the steps of `queue_push`, `fill_*` of
`queue_fill`, `pop_*` of `queue_pop`. The spare nodes are the elements of an instance of
`SizedRing`, and `call[t]` is the thread's place inside `ring_push` or `ring_pop`
(`in_ring`). `queue_push` does not look at the number that `ring_pop` gives back: after a
pop that returned 0 without an element, `push_node` takes the pointer that was never set
to be any node.

**`MpmcQueue`**: `_head_seq`, `_tail_seq`, `_queue_size` and the cells' `seq` and `data` are the
members of the class, `ticket` the local copy of the head or tail number. `enqueue_seq`
loads the number of the cell and decides: it is this ticket's turn, the queue is full, or
the ticket is old; `enqueue_cas`, `enqueue_data`, `enqueue_release` and `enqueue_count`
follow. `dequeue` has the same shape. `spurious_failure` is a weak exchange that fails
for no reason.

**`BoundedQueue`**: `buffer_`, `read_pos_` and `write_pos_` are the circular buffer, `notEmpty_`
and `notFull_` the threads asleep on a condition, `push_num` and `pop_num` the counters of
the program. One action is one critical section: `put`, `take`, and `put_wait`,
`take_wait` when the condition does not hold.

**`PcQueue`**: `sem` is the semaphore, `live` the blocks the producers have allocated and the
consumers not yet freed, `main` the place of the main thread. `generate_thread_fails` is
a failed `pthread_create`, after which `main` goes on to release the queue.

**`BlockingQueue`**: `mutex_` is the holder, `waiting` the threads asleep in `wait`, `queue_`
the deque. `put_*`, `take_*` and `size_*` are the three methods, `input` and `output` the
loops of `test.cc`, `create_end` and `join` the main thread. A sleeping thread may wake up
without a reason.

**`ProcessPool`**: `s_state` is the parent's view of its children, `readyset` and `listening`
what its last `select` reported, `flags`, `fds` and `pids` the contents of the
socketpairs. `select`, `accept`, `send_fd`, `read_pids` are the parent's loop;
`child_read`, `recv_fd`, `handle_request`, `child_dies`, `child_eof` a child's. A write to
a dead child ends the parent, as `SIGPIPE` does.

### Called back

**`LiskTimer`**: `now` is the wall clock, `clock` the time of the timer, `hand[l]` its hands,
`list[l]` the timers that wait on level `l`, `ring` the spare nodes. `timer_update` moves
the hands and lets timers come down, `timer_loop_call` and `timer_loop_return` call a
timer function, which may add timers in between, `timer_loop_end` ends the loop.

**`EventLoop`**: the four queues, `ev_flags` and `event_fds` as in `event.c`; `left` is the time
an event has still to wait; `readset` and `writeset` what `select` found. `walk_read` and
`walk_write` look at one event, `call_event_add`, `call_event_del`, `call_event_set` are
calls of a callback or of the program before the loop, `add_postponed` and `recalc` end a
walk, `timeout_call` and `timeout_end` are `timeout_process`. A queue is a sequence, but
the field `ev_read_next` is a variable of its own, because both walks follow it also from
an event that has left the read queue, and the walk over the writers follows it too. An
event leaves a queue (`Leave`) only if its flag for that queue is set; the model does not
assume that the flag is right, which is what `QueuesMatchFlags` is about.

**`Fsm`**: `table` is the table as written with the macros, `node` the array
`fsm_node_arr_sort` makes of it, `fsm_run` one round of the loop. **`Watch`** adds the
table and the judges of `fsm_test.c`.

**`Coroutine`**: `co` are the slots of the schedule, `stack` the used part of the shared
stack, as a sequence of frames. `coroutine_new`, `coroutine_resume`, `coroutine_yield`,
the end of `mainfunc` and `coroutine_close` are actions; calls and returns of the
coroutine's function change the stack.

### Containers

**`LiskDeque`**: `map`, `map_size`, `start` and `end` as in `lisk_deque_t`; `heap` holds the
blocks. **`SeqDeque`** is the sequence it implements.

**`Vector`**: `data` is the memory block, one value for each element that fits; `capacity` is
in bytes, `number` in elements. `realloc_fails` leaves `data` nil, and a later call that
writes sets `crashed`.

**`MemPool`**: each block has the chunk headers that are still intact (`head`), the spaces in
use (`live`) and `free`. The code reckons a chunk's size by subtracting `chunk_t`
pointers and a request in bytes; the model keeps both units apart, as its header explains.
A user of `r` units writes 16 bytes for each, while the chunk is laid out with 256: so only
the headers in the first part of a chunk are overwritten, and one further on, left there
by a chunk that was joined, is still read when `pre` leads to it, as the code does.
`broken` is set when a header is read where a user has written.

**`RbMap`**: the tree by `root`, `kid`, `parent` and `color`, with `min`, `max` and `size`. A
node is named by its key, and a case and its mirror image are one definition with the side
as parameter. `rb_insert` and `rb_erase` link and unlink, `rb_insert_rebalance` and
`rb_erase_rebalance` are one round of their loops.

**`HashTable`**: `table` is the list of tables, newest first. `hashtable_search` moves the
bucket it finds to the first table and drops an old table with its last element.
`hashtable_update_crash` is the path on which the code follows a null pointer.

**`SkipList`**: `next[l]` is the chain of level `l`, `level` the number of levels in use.
`value` keeps the buffer of a value with its size, because an update writes part of it.

**`Dictionary`** is what the last three implement: a function from keys to values that one
call changes at one key.

## 4. The runs

**`ring_sp_mc`**: one producer, two consumers on ring4. `PopsInOrder`: no element is lost,
doubled, reordered or torn although consumers copy a slot before they own it.
`EmptyOrLapped`: a pop that reports an empty ring is right, or the producer has come round
by a whole turn since the pop loaded `read_pos`. `ImplementsFifo`: the ring refines
`RingFifo`.

**`ring_mp_sc`**: two producers, a consumer, and a thread that asks for the size.
`ClaimsAreExclusive`: the positions between `max_read_idx` and `write_pos` are owned by
exactly one producer each. `NeverPopsUnpublished`. `SizeErrsOneWay`: which way a racing
`ring_size` is wrong. `ClaimedPushReturns`: producers that wait for each other in the
publishing loop all get out.

**`interleaved`**: the rings with a count, the mpmc queue, the timer and the event loop.

- `PopsInOrder`: ring1's ring, in which slots are used again. Every pop returns the oldest
  elements, each once, until a push has claimed a slot in use on the word of an old
  `read_pos`, or a pop has taken more than it was asked for on the word of an old `size`
  (both happen, section 7). So no other race among the steps of the two calls loses,
  doubles or reorders an element.
- `SizesAgree`: the size words of ring1, ring2 and the mpmc queue differ from the elements
  by exactly what calls in progress have still to count, also after they passed below 0.
- `FailsForAReason`, `ImplementsFifo`: an enqueue fails only if the queue is full or the cell
  is held by a dequeue that sleeps, likewise a dequeue; every cell has one owner; the
  queue refines `RingFifo`.
- `NoneOverdue`, `FiresInOrder`: after `timer_loop` nothing that waits is due, on whatever
  level it is, and no node is lost; what is due fires in order, and the carries from hand
  to hand lose no time.
- `QueuesMatchFlags`, `CalledOnce`: callbacks that add, delete and set events during a walk
  leave every event in the queues its flags name, once; nothing is called twice for one
  `select`, and no timeout that is due waits for the next.

**`lists`**: the list queue over its ring, either with racing threads and so few pushes that no
recycled node is used again, or with one producer and one consumer that do use nodes again
while any allocation may fail. `NodesAreOwned`: every node is in the list, spare or held,
and in one of these only. `NumFollows`: the count is off by the calls in progress. Both are
stated as long as `faults` is empty: a `ring_pop` that succeeds without an element sends
`queue_push` on with a node that belongs to somebody else or to nobody, and what the nodes
are worth after that cannot be said. `IsFifo` in the first case.

**`waiting`**: everything in which somebody waits.

- `Conserved`, `NoLostWakeup`: the blocking queue.
- `WaitersCovered`: in the bounded blocking queue, while a thread sleeps for room or for an
  element, each one there is has a thread that is going to use it; in the producer/consumer
  program a permit never comes before its element, and a block has one owner.
- `EndsOrSleeps`: the three programs end, but for a take that sleeps on an empty queue that
  nobody will fill, and unless a false empty has cost a permit.
- `BoundedIsFifo`: the bounded blocking queue refines `RingFifo` with one slot less.
- `EnqueuedIsDequeued`: every ticket of the mpmc queue is filled and taken.
- `PushEnds`: a push to the list queue returns, with another producer or a consumer that
  moves `tail` for it.
- `SelectServes`: a readable descriptor is served although `event_fds` may be too low for
  a while; a client that connects is accepted unless the parent exits.
- `StateAgrees`: what the parent thinks of a living child is what the child does, although
  it reads answers by a `readyset` from before its dispatch; a connection is in one place;
  one is dropped only when every child is busy or dead.
- `FollowsTable`, `RunsDown`: the state machine finds exactly the switches of its table in
  whatever order it was written, and the stop watch runs to its end.

**`structures`**: what one thread uses. `BlocksOwned` and `ImplementsDeque` (the deque refines
`SeqDeque` and leaks no block), `ElementsInPlace` (vector), `SpacesApart` (memory pool),
`Balanced` and `IteratesInOrder` (red-black tree), `TablesDrain` (hash table),
`LevelsNest` (skip list), `ImplementDictionary` (all three refine `Dictionary`, at every
rotation, growth and failed allocation), `AssertsHold` and `StackIntact` (coroutines).

Six runs end in a violation, each a disagreement between the code and its text (section
7): `ring1_fifo`, `list_mp`, `ring3_size`, `highest_fd`, `mem_pool`, `vector_realloc`.

## 5. Bounds, and why they are enough

- *Ring.* Four slots hold three elements. Five positions (`MaxPos` in `ring_sp_mc`) are one
  more than the slots: the first slot is refilled while a slow consumer still copies it,
  which is the case that could tear an element. Two values tell elements apart. With two
  producers three positions let both claim, and one claim again while the other has not
  published. `Wrap` is 16 in both runs, so no cursor wraps there: where threads race, a
  range small enough for TLC would let one sleep through a whole turn of it. Wrapping is
  covered by the proofs, which hold for every `Wrap`, and by ring1's ring.
- *Counted rings.* ring1: two producers and a consumer on four slots move six elements, so
  slots are used again while a producer holds on to an old `read_pos`; two consumers and a
  producer move four elements on two slots. `Wrap` is 8 there; with one thread on each
  side it is 4 and nine elements pass, so the cursors come round twice. `ring1_fifo` has
  the first of these instances. ring2: two producers and two consumers on two slots, so a
  pop meets a push that has not counted.
- *Mpmc queue.* Two cells and three tickets: a cell is used in a second round. Two threads
  on each side; for liveness one consumer is enough to take what two producers enqueue.
- *List queue.* Two pushes are enough for two producers to meet on the tail and help each
  other. In the second case at most two nodes are spare at first, so with three pushes a
  popped node comes back into the list, or an allocation is tried and may fail. The ring
  has four slots, so it gets empty and full.
- *Programs.* Blocking queue: two inputs put two elements each (`top` is 3, the loop starts
  at 1), two outputs take without end. Bounded blocking queue: three slots, four items, two
  threads on each side: it gets full and empty, and a pop may come too late.
  Producer/consumer program: two rounds on a ring of two.
- *Event loop.* Three events on two descriptors, so that two events share one; one event
  waits to read and to write; two have timeouts, in either order. For liveness two events
  with a descriptor and a timeout each.
- *Process pool.* Three connections for two children: a child is used again, all children
  are busy, and a child dies while another works.
- *Timer.* Hands of 3, 2 and 2 steps, eight units of time, timers of 2 and 7 units, which
  start on the first and the last level. The wall clock moves by 2, 6 or -4: a look at the
  clock passes one hand's turn or two, falls on every position of the first hand, and comes
  before or after the moment the odd timer is due.
- *State machine.* All orders of the nodes and of their switches, all states and events.
  `MAX_SWITCH_NUM` is 5 where the code has 13: the stop watch has no more than 5 switches.
- *Deque.* Blocks of two, a map of two, three elements: blocks fill, the map moves in place
  and doubles. Values are symmetric.
- *Vector.* Elements of three bytes in blocks of powers of two, up to five elements:
  capacities that are no multiple of the length, and two growths.
- *Memory pool.* Two blocks of 16 units and requests of 5 and 9: a block holds one to three
  spaces, and a header that a join has left behind is met again. What a user writes reaches
  such a header only in much larger chunks: that is the part "large pool", one block of 64 units and requests of 15, 46 and 49. `MaxDrift` stops `free` from getting more
  than one unit away from the truth, which it does without end.
- *Dictionaries.* Nine keys, with one value, reach every case of both rebalancing loops at
  several heights. Hash table: five keys that collide in some sizes and not in others, and
  two values; an element weighs 3
  and a table grows by the next prime, so that three tables are in use at once, which in the
  code (weight 1, limit 5, growth by 4) takes dozens of elements. Skip list: four keys on
  three levels.
- *Coroutines.* Three coroutines of at most three frames with two slots at first. Frames
  are symmetric.

`CHECK_DEADLOCK FALSE` stands where the system may stop: threads that have pushed all they
were to push, programs that have ended, a timer or deque that was released.

## 6. Fairness

Liveness is checked under weak fairness of each thread's next step, which is what a
scheduler that runs every runnable thread gives; a thread that waits for the mutex or
retries a compare-and-swap gets no more, so the results do not assume that it wins a
particular race. In detail:

- `LiskRing`: only calls in progress go on; nobody has to call. The list queue: its threads,
  also inside the ring, with so few operations that a push cannot be overtaken for ever;
  for endless traffic a lock-free push gives no such promise.
- `BlockingQueue` and `BoundedQueue`: threads and, in the first, main; wake-ups without a
  reason come only finitely often. `PcQueue`: also successful thread creation.
- `MpmcQueue`: producers and the consumer, which calls again when told that the queue is
  empty, as `pop` does; a weak exchange fails without a reason only finitely often.
- `EventLoop`: the loop goes on, so callbacks return, and time passes while `select` waits
  (`tick`). Nothing is assumed of data that arrive.
- `ProcessPool`: the parent's loop. Nothing is assumed of children and clients.
- `Fsm`: the loop of `fsm_run`.

## 7. Where the code and its documentation disagree

**Checked by a run.**

- `ring1_fifo` (ring1's ring): `ring_push` loads `read_pos` before `write_pos` and takes the
  ring for full when the push would end exactly there (`ring1/src/lisk_ring.c:164`). A
  producer that sleeps between the loads while others push and pop compares with an old
  `read_pos`, passes, and claims the slot that has to stay free. The next push then writes
  over the oldest element, and pops return another one, while `ring1/inc/lisk_ring.h:3`
  promises "a FIFO(first coming, first output) queue". Two producers, a consumer, four slots
  and pushes of one element are enough.
- `list_mp` (list queue): a producer compares `tail->next` with nil. The node it remembers as
  the tail may have been popped, put among the spare nodes and taken out by another push,
  whose node has a nil `next` again. The compare-and-swap then succeeds on a node that is in
  no list, and the element is lost or comes out of order, while `ring1/inc/lisk_ring.h:3`
  promises "a FIFO(first coming, first output) queue". The ring of spare nodes has made no
  mistake up to then (`ImplementsFifo` of `ListQueue` supposes that it has not). Three pushes
  of two producers and one pop are enough.
- `ring3_size`: `sp_sc_ring_pop` of ring3 counts up (`lisk_ring.c:320`), in place of the
  subtraction in the comment above it; `lisk_ring.h:72` calls the result of `ring_size` the
  "element number of the @ring".
- `highest_fd` (event loop): `event.c:61` says of `event_fds` "Highest fd in fd set". The walk
  over the writers goes from event to event by the link of the readers (line 173) and misses
  some, and callbacks of timeouts add events after the recalculation. `SelectServes` of the
  run `waiting` bounds the damage for readers: they are served after the next timeout.
- `mem_pool`: a block's `free` is lowered in bytes and raised in units of a header, and so
  may equal the block's size while a user has a space in it; `mem_pool_dealloc` then
  releases the block (`lisk_mem_pool.c:379`), though `lisk_mem_pool.h:38` speaks of "a memory
  space" that the caller has applied for.
- `vector_realloc`: `lisk_vector.c:19` says that after a failed allocation "primary memory
  block is unchanged". `REALLOC` stores the nil in `vect->data` (line 266): the block
  is lost and the next insertion writes through a null pointer.

**Met while modelling.** The following are not runs of the project. Where constants are
named, TLC reports the property as false with them.

| Part | What the code does | What it says | In the model |
|---|---|---|---|
| ring4 | Two producers test for a full ring with cursors of different moments, and the ring takes more elements than it has slots (`lisk_ring.c:117`). | `lisk_ring.h:34` "its max element num" | `push_load_ridx`, `push_load_widx` |
| ring4 | A consumer whose `read_pos` is a whole turn old returns -2 (`lisk_ring.c:235`). | `lisk_ring.c:237` "the ring is empty" | `EmptyIsReported`: type 2, two consumers, `unit_num` 4, `MaxPos` 6 |
| ring4 | `ring_size` subtracts two loads; the difference can wrap (`lisk_ring.c:91`). | `lisk_ring.h:72` "element number of the @ring" | `SizeErrsOneWay` says which way |
| list queue | `queue_node_init` copies the data only when their size is zero, so a push without a spare node links what `malloc` left (`ring1/src/lisk_ring.c:250`). | `lisk_ring.h:103` "push data into the @queue" | `push_node`; `Junk` is among the values of `ImplementsFifo` |
| list queue | A pop copies its element after the node is no longer protected (`lisk_ring.c:527`). | `lisk_ring.h:3` | `ImplementsFifo`: two consumers, `UnitNum` 2, `MaxPush` 4 |
| list queue | An element may be popped before it is counted, and `queue_size` wraps (`lisk_ring.c:477`). | `lisk_ring.h:124` "element number" | `NumAgrees` says by how much |
| ring1's ring | A push of several elements can step over `read_pos` (`lisk_ring.c:164`). | `lisk_ring.h:3` | `FirstComingFirstOutput`: one producer, one consumer, `Nums` {1, 2}, `MaxElems` 6 |
| ring1's ring | A pop between publishing and counting returns 0 without an element, and one whose two loads of `size` differ may return more than it was asked for (`lisk_ring.c:204`). | `lisk_ring.h:74` "wanna element number", :76 "if successful, ret is 0" | "nothing" and "excess" of `faults` |
| list queue | After such a pop without an element `queue_push` writes to, and links, a node that the ring never gave it: the pointer was not set (`lisk_ring.c:445`). | `lisk_ring.h:3` | `NodesOwned` without its condition on `faults`: one producer, one consumer, `MallocFails` |
| skip list | `skip_list_update` copies as many bytes as the key has: of a longer value only the beginning is there afterwards (`lisk_skiplist.c:234`). | `lisk_skiplist.h:61` "update a element with new value @value" | `Replaced`: values longer than `key_size` |
| memory pool | `block_free` follows a `pre` that a join has made obsolete; a header there that a user has written over is read as one (`lisk_mem_pool.c:223`). | `lisk_mem_pool.h:38` | `broken`: blocks of 64 units, requests of 15, 46 and 49 |
| deque | `deque_size` returns 0 when all elements lie in one block (`lisk_deque.c:155`). | `lisk_deque.h:60` "get element number in @deque." | `deque_size` |
| deque | With a map of size 1 the blocks move to the end of the doubled map, and the next block is written behind it (`lisk_deque.c:118`). | `lisk_deque.h:35` "it must be a power of 2." | `InsideMap`: `init_size` 1 |
| mpmc queue | With one cell, a filled cell and one given back have the same number, and the next enqueue overwrites the element (`mpmc-bounded-queue.hpp:83`). | line 53 asserts that `_size` is not 0 and a power of 2, which 1 is | `CellsOwned`, `FailsForAReason`, `ImplementsFifo`: `_size` 1 |
| state machine | Switches written after one to the closed state are cleared by the sort, because that state is also the end mark (`lisk_fsm.c:81`). | `lisk_fsm.h:47` "state switch array" | `FindsSwitches`: a table whose stopped state has a switch after the closing one |
| timer | `timer_update` keeps the time that has passed in a `u4`: after a step of the clock by 2^32 ms, or little more, the hands stand where they were, and what is due stays on its level (`lisk_timer.c:292`). | `lisk_timer.c:290` "update clock" | `diff`: a step of `Wrap` |
| timer | A failed `malloc` leaves the node counted (`lisk_timer.c:131`). | `lisk_timer.h:49` "timer node number" | `timer_add_fails` |
| timer | `timer_del` accepts the id of a timer that is gone and puts its node among the spare ones a second time (`lisk_timer.c:458`). | `lisk_timer.h:121` "if successful, ret is 0; otherwise -1 instead." | the model deletes waiting timers only |

## 8. Proofs

Eight modules, `...Proofs`, hold for every number of threads, processes or coroutines, every
capacity and every number of elements. A bound that only TLC needs (`MaxPos`, `MaxPush`,
`MaxSize`, `MaxLive`, ...) is a constant in the theorems too, so they hold for every bound.
Each theorem rests on an inductive invariant. Those of all but the ring and the blocking
queue the runs check as well, as part of `ImplementsFifo` (`QueueInv`), `WaitersCovered`
(`BoundedInv`, `PcInv`), `StateAgrees` (`PoolInv`), `BlocksOwned` (`DequeInv`),
`AssertsHold` (`SchedulerInv`) and `QueuesMatchFlags` (`LoopInv`, `NeverBack`). Where a module is one part of a run, its assumptions on the
constants are an operator (`MpmcAssumption`, ...) that the theorems name as their hypothesis
and the run's module assumes.

| Theorem | States | Assumes |
|---|---|---|
| `LiskRingProofs`: `ClaimsExclusive`, `PublishedOnly`, `EmptyReportedOrLapped` | `ClaimsAreExclusive`, `NeverPopsUnpublished`, `EmptyOrLapped` | `[]NoABA` |
| `LiskRingProofs`: `SizeErrs` | `SizeErrsOneWay` | `[]NoLap` |
| `LiskRingProofs`: `CapacityKept`, `OrderKept`, `RingIsFifo` | `WithinCapacity`, `PopsInOrder`, `ImplementsFifo` | `[]NoABA`, one producer |
| `LiskRingProofs`: `EmptyReported` | `EmptyIsReported` | `[]NoABA`, one producer, one consumer |
| `LiskRingProofs`: `CountedIsRing`, `CountIsExact` | ring2 is a `LiskRing`; `SizesAgree` | for the second, finitely many threads |
| `MpmcQueueProofs`: `OneOwner`, `FailuresAreRight`, `SizeIsExact`, `QueueIsFifo` | `CellsOwned`, `FailsForAReason`, `SizesAgree`, `ImplementsFifo` | two cells or more, finitely many threads |
| `BlockingQueueProofs`: `PopsAnElement`, `ElementsConserved`, `WakeupsKept` | `NeverPopsEmpty`, `Conserved`, `NoLostWakeup` | finitely many threads |
| `BlockingQueueProofs`: `WakeupsSuffice`, `BufferIsFifo` | `WaitersCovered`, `BoundedIsFifo` | finitely many threads |
| `PcQueueProofs`: `PermitsSuffice`, `OneOwner` | `WaitersCovered`, `BlocksOwned` | finitely many threads, as many pushes as pops in all |
| `ProcessPoolProofs`: `StatesAgree`, `OnePlace`, `DropsOnlyWhenBusy` | `StateAgrees`, `ConnsOwned`, `DroppedWhenBusy` | |
| `CoroutineProofs`: `NoAssertFails`, `FramesIntact`, `OthersLeftAlone` | `AssertsHold`, `StackIntact`, `OthersUntouched` | |
| `LiskDequeProofs`: `OneBlockEach`, `FrontAndBack`, `DequeIsSequence` | `BlocksOwned`, `EndsAgree`, `ImplementsDeque` | a map of two places or more |
| `EventLoopProofs`: `FlagsRight`, `OneCallEach`, `NoneLeftDue` | `QueuesMatchFlags`, `CalledOnce`, `NoneOverdue` | |

Two of the assumptions are stronger than the code, and both are needed (section 7).
`mpmc-bounded-queue.hpp:53` admits a queue of one cell; with it TLC reports `CellsOwned`,
`FailsForAReason` and `ImplementsFifo` as false. `lisk_deque.h:35` admits a map of one place;
with it the deque reads and writes outside of its map.

**The ring.** All theorems but `TypeCorrect` and those on the count have the hypothesis
`[]NoABA`: no thread sleeps between a load and its compare-and-swap for so long that the
`u4` cursor comes round to the same value, 2^32 operations. Without it they are false, and
no argument inside the program excludes it.

- `ClaimsExclusive` and `PublishedOnly`, for all four types. Neither property is inductive.
  `ControlInv` adds where each cursor may be while a thread is in a call: a producer's
  `widx` is at most `write_pos` before its compare-and-swap (`PusherInv`), a consumer's
  `ridx` at most `read_pos`, and if the two are still equal then the limit it saw is still
  ahead (`PopperInv`). The last part is what makes a compare-and-swap on `read_pos` safe
  although the test for empty was made before it. `EmptyReportedOrLapped` follows: the
  indices of a `ridx` and of a limit that is not behind it are equal only if the limit is
  `read_pos` or a whole turn away.
- `SizeErrs`, for all four types, with the hypothesis `[]NoLap`: between the two loads of one
  `ring_size` the other cursor does not move on by so much that the difference of the two
  comes round, which takes nearly 2^32 operations; how many there have been before does
  not matter. The difference is then what `ret` says without wrapping, or `read_pos` has
  passed the loaded `write_pos`, and `ret` is more than the ring has slots;
  `ObserverInv` says that what was loaded first is behind its cursor. TLC finds `NoLap`,
  like `NoABA`, true of the instance of `ring_mp_sc`.
- `CapacityKept`, for one producer: one slot stays free. `RoomInv` says that the stale `ridx`
  of the producer errs to the safe side, since `read_pos` only grows, and that the room it
  found is still there when it publishes.
- `OrderKept`, for one producer and any number of consumers. `ContentInv` says that each slot
  between `read_pos` and `write_pos` holds what was pushed under its position, and that a
  consumer whose `ridx` is still current has copied that. The producer writes only to the
  slot of `write_pos`, which by `RoomInv` and `ModDistinct` differs from all of those.
- `RingIsFifo`: a step that publishes is the push and a compare-and-swap on `read_pos` that
  succeeds is the pop; by `ContentInv` what the consumer has copied is the head.
- `CountIsExact`: the word and the cursors move apart by one when a thread passes the
  cursor and together again when it counts; the threads in between are a finite set that
  gains or loses one.

The lemmas `IndexUnwrapped`, `IndexPeriod` and `ModDistinct` are the arithmetic behind the
index: because `Wrap` is a multiple of `unit_num`, the index of a wrapped cursor is that of
the unwrapped count, and two counts less than `unit_num` apart have different slots.

**The mpmc queue.** `QueueInv`: the tickets in the queue and one round behind are owned by at
most one thread each (`TicketsOwned`); the number in a cell tells for each of them whether
it is claimed, filled or given back (`CellsNumbered`); a ticket that is still current at the
exchange still has the cell that was seen (`SeenIsCurrent`, which makes the exchange safe
although the cell was looked at before it); and the items are where they should be
(`ItemsKept`). Two tickets in use have one cell only if they are `_size` apart, and then
`CellsNumbered` says that one of them is over.

**The blocking queue.** One inductive invariant: `TypeOK`, `MutexInv` (a thread inside a
critical section holds the mutex, and those in `waiting` sleep), `NeverPopsEmpty`,
`Conserved` and `NoLostWakeup`. `MutexInv` is needed by each of the others: only the holder
changes the deque, so what `take_test` has seen is still true at `take_pop`.
`NoLostWakeup` counts: each queued element is matched by a thread that is woken, is about
to test, or is about to notify, and the proof follows that set through every step with the
cardinality lemmas of the library.

**The bounded blocking queue.** `WaitersCovered` becomes inductive with `SleepersListed`: a
`notify` takes a thread from the list of its condition, and the number of those that are
going to put or take follows. `BufferIsFifo` reads the buffer as the sequence from
`read_pos_` on; the lemma `Cells` replaces the remainder in its indices by a case
distinction, after which the slot that `put` writes is seen to be outside of the sequence.
These theorems stand in `BlockingQueueProofs` too, over an instance of `BoundedQueue`.

**The producer/consumer program.** `PermitsOwed` strengthens `WaitersCovered` by the
producers that have pushed and not yet posted. `BlocksApart` strengthens `BlocksOwned` by
what keeps a new block apart from the old ones. Both hold also with failed thread creation
and with a ring that reports a false empty.

**The process pool.** `PoolInv` counts for each living child what is on its way to it, in its
hands and on its way back (`Work`): one thing if the parent has it as busy or is sending to
it, none otherwise. `ParentInv` adds that what an old `readyset` promises is still there.

**The coroutines.** `SavedIntact` (the buffer of a suspended coroutine holds its frames) is what
`StackIntact` needs at the next resume, and `RunningIsMarked` is what the assert of
`coroutine_resume` needs. That `coroutine_new` finds a slot follows from `CountsLive`: fewer
coroutines than slots leave one free, and the probe, which starts at `cr_num` and wraps,
comes past every slot.

**The deque.** Cells are numbered through: cell `cur` of block `index` has the number
`index * unit_num + cur` (`Num`), and the elements are the cells from that of `start` up to
that of `end`; `deque_at`, with its division, finds the cell with the number of `start` plus the
position (`AtIsCell`). The lemmas are about a deque given by its parts (heap, map, size,
start, end), so that each serves for the deque before a call, after it, and as
`deque_update_map` leaves it in between. `Good` says that the parts fit together: the blocks in
the used places are distinct, and exactly the ones allocated. There is one lemma for each
way an operation changes the parts (`PushFrontInside`, `PushFrontBlock`, ...), with what it does
to the content; `UpdatedGood` shows that the move of the blocks keeps the content and leaves
a free place at both ends, for maps of two places or more.

**The event loop.** `LoopInv` strengthens `QueuesMatchFlags` by what an operation on a queue
needs to know of it: `Linked` (in `readqueue` the field `ev_read_next` is the next event),
`TimesInOrder`, and `WalksInLoop` (`event_inloop` is set exactly during the walks, so that
an event added in a callback goes to `addqueue`). `NoneLeftDue` follows from
`TimesInOrder`: when the first timeout is not due, none is. `OneCallEach` needs more. A
callback may delete any event, so a walk can stand on one that has left the queue, and
`ev_read_next` of such an event is old; nothing in `LoopInv` says where it leads. What
holds is that the events can be numbered so that `ev_read_next`, old or not, always goes to
a higher number, and that the walk stands beyond all it has called (`Numbers`). An insertion
at the end gives the event a number above all others; the walk then never comes back. An
event that is removed keeps its number. Such numbers exist in every reachable state
(`RankInv`, with natural numbers; `NeverBack` is the same with numbers small enough for
TLC), and `CalledOnce` follows. Where an event may still be reached by an old link, nothing
inserts it again before the walk ends: `event_add` postpones it. The sequences are handled
by lemmas about lists without repetition (`OutOf`, `Cut`, ...), and the place at which
`timequeue` gets a new timeout is the least one, found by a well-founded order on the
natural numbers.

**Only model-checked.**

- All liveness (`ClaimedPushReturns`, `PushEnds`, `EndsOrSleeps`, `EnqueuedIsDequeued`,
  `SelectServes`, `RunsDown`), which is out of the prover's reach.
- What walks over a structure: the list queue, the memory pool, the dictionaries and the
  state machine's sort. Their properties speak of what is reached from a head or a root,
  and say it with recursive definitions or folds; to prove something of these for every
  input takes an induction over data that the prover cannot do.
- The timer, whose lists are filtered and sorted by such definitions.
- ring1's ring with its calls of several elements, and the vector. There is no principal
  obstacle here.

## 9. Not modelled

- *Copies of other projects:* `cstl-1.0.0`, `libco`, `concurrentqueue.h`, the code of redis and
  its client for Windows. They make up nearly all lines of the repository.
- *Generated code* of protobuf, and examples of client libraries that are not in the
  repository.
- *The conversion of the event loop* in `sys/libevent/src/lisk_network.c`: unfinished, does not
  compile.
- *`win_lisk/src/lisk_network.c` and `lisk_sock.c`:* a loop of system calls whose results would
  all be free choices; the queues and timers behind it are other parts.
- *`lisk_mul_hash.c`, `lisk_hash.c`, `bloom.c`:* tables of bits or bytes under arithmetic on
  hash values, without steps that could interleave or fail half way.
- *`lisk_clock.c`:* the predecessor of the timer, with the same wheels.
- *The links of `lisk_list.c`:* one thread changes them, and its users see a sequence.
- *The coroutines of `sys/coroutine/bert`:* a stack each, so nothing is shared.
- *The spin lock in `sys/atom`:* one atomic exchange in a loop.
- *Short programs:* the pipelined replay of an append-only file, wrappers round system calls,
  strings, logging.

Some places were read and have no property, because no text says what should happen there:
`rb_create_node` frees `key.data` twice and never `value.data` when one of two allocations
fails (`lisk_map.c:237`); `hashtable_update` reads through a pointer that a failed `realloc`
has made nil (`lisk_hashtable.c:464`, in the model as `hashtable_update_crash`); a request
to the memory pool that a whole free block cannot serve, because chunks are counted in
headers, adds an empty block each time (`lisk_mem_pool.c:334`, in the model too);
`get_node_level` may return a level one past the arrays of the skip list
(`lisk_skiplist.c:120`); the number of bytes a vector needs is a `u4` and may wrap
(`lisk_vector.c:307`).

In the modelled parts these are left out: checks of nil arguments, printing, the memory a
program releases at its very end, the failures of `timer_init` and the arithmetic of
`timer_mem_size`, descriptor sets of more than one word in the event loop, levels of a skip
list outside its arrays, arrays that lie inside the vector they are inserted into, and sizes
of 4 GB and more.
