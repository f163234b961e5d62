---------------------------- MODULE MCStructures ----------------------------
(***************************************************************************)
(* What one thread uses, in one instance for TLC: the containers of        *)
(* win_lisk (the deque, the vector, the memory pool, and the three         *)
(* dictionaries: the ordered map, the hash table and the skip list) and    *)
(* the coroutines that share a stack.  A behaviour is one of a single      *)
(* part; the variables of the others are Off.                              *)
(***************************************************************************)
EXTENDS Integers, Sequences, FiniteSets, TLC

CONSTANTS v1, v2, v, f1, f2, Junk, nil, NULL, any, header, tail, Off

VARIABLES part, crashed, value
VARIABLES map, map_size, start, end, heap, out, live
VARIABLES data, capacity, number
VARIABLES blocks, broken
VARIABLES root, kid, parent, color, min, max, size, pc, key, node, up
VARIABLES table
VARIABLES level, next
VARIABLES running, cr_num, cr_cap, co, stack, state

D == INSTANCE LiskDeque WITH
       Values <- {v1, v2}, unit_num <- 2, init_size <- 2, Addr <- 1 .. 3, MaxSize <- 3

V == INSTANCE Vector WITH
       Arrays <- {<<"a">>, <<"b", "a">>}, init_number <- 1, length <- 3, MaxNumber <- 5

P == INSTANCE MemPool WITH Requests <- {5, 9}, Span <- 16, MaxBlocks <- 2, MaxDrift <- 1

\* Blocks so large that what a user writes reaches a header that was left there.
B == INSTANCE MemPool WITH
       Requests <- {15, 46, 49}, Span <- 64, MaxBlocks <- 1, MaxDrift <- 1

R == INSTANCE RbMap WITH Keys <- 1 .. 9, Values <- {v}

\* An element weighs 3, so that few keys make the table grow; some keys collide.
H == INSTANCE HashTable WITH
       Keys <- 1 .. 5, Values <- {v1, v2}, hash <- <<0, 5, 35, 1, 6>>, size <- 1,
       MAX_BUCKET_SIZE <- 0, Weight <- 3, Growth <- 1

S == INSTANCE SkipList WITH
       Keys <- 1 .. 4, Values <- {<<"a">>, <<"b">>}, key_size <- 1, SKIP_LIST_MAX_LEVEL <- 3

K == INSTANCE Coroutine WITH
       Frames <- {f1, f2}, DEFAULT_COROUTINE <- 2, MaxLive <- 3, MaxDepth <- 3

ASSUME StructuresAssumption == D!DequeAssumption /\ K!CoroutineAssumption

\* The elements of the deque and the values of the hash table are alike, and so are the
\* frames of a coroutine.
AnyValue == Permutations({v1, v2}) \cup Permutations({f1, f2})

(***************************************************************************)
(* What is Off in the parts that do not have it                            *)
(***************************************************************************)
DOwn == <<map, map_size, start, end, heap, out, live>>
DOff == /\ map = Off /\ map_size = Off /\ start = Off /\ end = Off /\ heap = Off /\ out = Off
        /\ live = Off
VOwn == <<data, capacity, number>>
VOff == /\ data = Off /\ capacity = Off /\ number = Off
POwn == <<blocks, broken>>
POff == /\ blocks = Off /\ broken = Off
ROwn == <<root, kid, parent, color, min, max, size, pc, key, node, up>>
ROff == /\ root = Off /\ kid = Off /\ parent = Off /\ color = Off /\ min = Off /\ max = Off
        /\ size = Off /\ pc = Off /\ key = Off /\ node = Off /\ up = Off
HOwn == <<table>>
HOff == /\ table = Off
SOwn == <<level, next>>
SOff == /\ level = Off /\ next = Off
KOwn == <<running, cr_num, cr_cap, co, stack, state>>
KOff == /\ running = Off /\ cr_num = Off /\ cr_cap = Off /\ co = Off /\ stack = Off
        /\ state = Off

Start ==
  \/ part = "deque" /\ D!Init
     /\ VOff /\ POff /\ ROff /\ HOff /\ SOff /\ KOff /\ crashed = Off /\ value = Off
  \/ part = "vector" /\ V!Init
     /\ DOff /\ POff /\ ROff /\ HOff /\ SOff /\ KOff /\ value = Off
  \/ part = "pool" /\ P!Init
     /\ DOff /\ VOff /\ ROff /\ HOff /\ SOff /\ KOff /\ crashed = Off /\ value = Off
  \/ part = "large pool" /\ B!Init
     /\ DOff /\ VOff /\ ROff /\ HOff /\ SOff /\ KOff /\ crashed = Off /\ value = Off
  \/ part = "map" /\ R!Init
     /\ DOff /\ VOff /\ POff /\ HOff /\ SOff /\ KOff /\ crashed = Off
  \/ part = "hash" /\ H!Init
     /\ DOff /\ VOff /\ POff /\ ROff /\ SOff /\ KOff
  \/ part = "skip" /\ S!Init
     /\ DOff /\ VOff /\ POff /\ ROff /\ HOff /\ KOff /\ crashed = Off
  \/ part = "coroutine" /\ K!Init
     /\ DOff /\ VOff /\ POff /\ ROff /\ HOff /\ SOff /\ crashed = Off /\ value = Off

Step ==
  /\ UNCHANGED part
  /\ \/ /\ part = "deque" /\ D!Next
        /\ UNCHANGED <<VOwn, POwn, ROwn, HOwn, SOwn, KOwn, crashed, value>>
     \/ /\ part = "vector" /\ V!Next
        /\ UNCHANGED <<DOwn, POwn, ROwn, HOwn, SOwn, KOwn, value>>
     \/ /\ part = "pool" /\ P!Next
        /\ UNCHANGED <<DOwn, VOwn, ROwn, HOwn, SOwn, KOwn, crashed, value>>
     \/ /\ part = "large pool" /\ B!Next
        /\ UNCHANGED <<DOwn, VOwn, ROwn, HOwn, SOwn, KOwn, crashed, value>>
     \/ /\ part = "map" /\ R!Next
        /\ UNCHANGED <<DOwn, VOwn, POwn, HOwn, SOwn, KOwn, crashed>>
     \/ /\ part = "hash" /\ H!Next
        /\ UNCHANGED <<DOwn, VOwn, POwn, ROwn, SOwn, KOwn>>
     \/ /\ part = "skip" /\ S!Next
        /\ UNCHANGED <<DOwn, VOwn, POwn, ROwn, HOwn, KOwn, crashed>>
     \/ /\ part = "coroutine" /\ K!Next
        /\ UNCHANGED <<DOwn, VOwn, POwn, ROwn, HOwn, SOwn, crashed, value>>

vars == <<part, crashed, value, DOwn, VOwn, POwn, ROwn, HOwn, SOwn, KOwn>>

Spec == Start /\ [][Step]_vars

(***************************************************************************)
(* Properties                                                              *)
(***************************************************************************)
\* The deque: a block between start and end is allocated, once, and no other block is; start
\* and end stay inside the map; front and back agree with what is found by index. With
\* the invariant from which this is proved.
BlocksOwned == part = "deque" => D!InsideMap /\ D!BlocksOwned /\ D!EndsAgree /\ D!DequeInv

\* The deque: every call does to the elements what a sequence would do.
ImplementsDeque == /\ part = "deque" => D!Abstract!Init
                   /\ [][part = "deque" => [D!Abstract!Next]_(D!Abstract!vars)]_vars

\* The vector: as long as memory suffices, an insertion puts its array at its place and an
\* erasure takes out what it names, and the memory holds all elements.
ElementsInPlace ==
  [][part = "vector" /\ data # nil /\ data' # nil => V!InPlace /\ number' <= Len(data')]_vars

\* The memory pool: the spaces that users have are apart and as large as asked for.
SpacesApart == (part = "pool" => P!SpacesApart) /\ (part = "large pool" => B!SpacesApart)

\* The map: between two calls it is a red-black tree.
Balanced == part = "map" => R!Balanced

\* The map: iteration in both directions visits every element in the order of the keys.
IteratesInOrder == part = "map" => R!IteratesInOrder

\* The hash table: the count of each table is right, and the ones that growth leaves
\* behind go when they are empty.
TablesDrain == part = "hash" => H!TablesDrain

\* The skip list: the chain of every level is part of the one below.
LevelsNest == part = "skip" => S!LevelsNest

\* The three dictionaries: an operation changes the key it is about and no other, at every
\* rotation, growth, failed allocation and change of the level in between.
ImplementDictionary ==
  /\ (part = "map" => R!D!Init) /\ (part = "hash" => H!D!Init) /\ (part = "skip" => S!D!Init)
  /\ [][/\ part = "map" => [R!D!Next]_(R!D!vars)
        /\ part = "hash" => [H!D!Next]_(H!D!vars)
        /\ part = "skip" => [S!D!Next]_(S!D!vars)]_vars

\* The coroutines: no assert of the scheduler fails, and cr_num, by which the slots are
\* doubled, counts the coroutines there are. With the invariant from which this is proved.
AssertsHold == part = "coroutine" => K!AssertsHold /\ K!CountsLive /\ K!SchedulerInv

\* The coroutines: the running one finds on the shared stack the frames it has left there,
\* and what is saved of the others is left alone, also while slots double.
StackIntact == /\ [](part = "coroutine" => K!StackIntact)
               /\ [][part = "coroutine" => K!LeavesOthers]_vars
=============================================================================
