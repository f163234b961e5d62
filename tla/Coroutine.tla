------------------------------ MODULE Coroutine ------------------------------
(***************************************************************************)
(* The scheduler of coroutine/yun_feng: coroutines that share one stack,   *)
(* which is copied aside when one of them yields and back when it resumes. *)
(*                                                                         *)
(* The used part of S->stack is a sequence of frames, the latest first.    *)
(* The function of a coroutine calls, returns, yields and ends as it       *)
(* likes; main and the running coroutine create coroutines as they like.   *)
(***************************************************************************)
EXTENDS Integers, Sequences, FiniteSets

CONSTANTS DEFAULT_COROUTINE,  \* slots a schedule starts with
          Frames,             \* contents of a stack frame
          MaxLive,            \* bound: coroutine_new is called below this number
          MaxDepth,           \* bound: frames on the stack (STACK_SIZE)
          NULL

\* struct coroutine. view is history: the stack as the calls of this coroutine alone have
\* left it.
Coroutines == [status : {"READY", "RUNNING", "SUSPEND"}, ud : Frames, cr_cap : Nat,
               size : Nat, stack : Seq(Frames), view : Seq(Frames)]

\* What is assumed of the constants.
CoroutineAssumption ==
  /\ DEFAULT_COROUTINE \in Nat \ {0}
  /\ MaxLive \in Nat /\ MaxDepth \in Nat \ {0}
  /\ NULL \notin Coroutines

VARIABLES running, cr_num, cr_cap,
          co,       \* the slots, 0 .. cr_cap - 1
          stack,    \* the used part of S->stack
          state     \* of the program: "open", "closed", or "failed" at an assert

vars == <<running, cr_num, cr_cap, co, stack, state>>

_co_new(ud) == [status |-> "READY", ud |-> ud, cr_cap |-> 0, size |-> 0,
                stack |-> << >>, view |-> << >>]

\* coroutine_open
Init ==
  /\ running = -1 /\ cr_num = 0 /\ cr_cap = DEFAULT_COROUTINE
  /\ co = [i \in 0 .. cr_cap - 1 |-> NULL]
  /\ stack = << >> /\ state = "open"

assert(P) == state' = IF P THEN state ELSE "failed"

Free  == {i \in DOMAIN co : co[i] = NULL}
Live  == DOMAIN co \ Free

\* The first free slot in the order cr_num, cr_num + 1, ... modulo cr_cap.
Probe(i) == (i + cr_num) % cr_cap

FirstFree(id) == \E i \in 0 .. cr_cap - 1 :
  /\ id = Probe(i) /\ co[id] = NULL
  /\ \A j \in 0 .. i - 1 : co[Probe(j)] # NULL

\* Twice as many slots; the new coroutine gets the first of the new ones.
Doubled(ud) == [i \in 0 .. 2 * cr_cap - 1 |->
                  CASE i < cr_cap -> co[i] [] i = cr_cap -> _co_new(ud) [] OTHER -> NULL]

coroutine_new(ud) ==
  /\ state = "open" /\ cr_num < MaxLive
  /\ \/ /\ cr_num >= cr_cap
        /\ co' = Doubled(ud) /\ cr_cap' = 2 * cr_cap
        /\ UNCHANGED state
     \/ /\ cr_num < cr_cap
        /\ assert(Free # {})
        /\ co' = [i \in DOMAIN co |-> IF FirstFree(i) THEN _co_new(ud) ELSE co[i]]
        /\ UNCHANGED cr_cap
  /\ cr_num' = cr_num + 1
  /\ UNCHANGED <<running, stack>>

\* Called from main with the id of a slot: that is what its first two asserts demand.
coroutine_resume(id) ==
  /\ state = "open" /\ running = -1
  /\ \/ /\ co[id] = NULL
        /\ UNCHANGED <<running, co, stack, state>>
     \/ /\ co[id] # NULL /\ co[id].status = "READY"
        /\ stack' = <<co[id].ud>>
        /\ running' = id
        /\ co' = [co EXCEPT ![id].status = "RUNNING", ![id].view = <<co[id].ud>>]
        /\ UNCHANGED state
     \/ /\ co[id] # NULL /\ co[id].status # "READY"
        /\ assert(co[id].status = "SUSPEND")
        /\ stack' = SubSeq(co[id].stack, 1, co[id].size)
        /\ running' = id
        /\ co' = [co EXCEPT ![id].status = "RUNNING"]
  /\ UNCHANGED <<cr_num, cr_cap>>

\* The function of the running coroutine calls another function or returns from it.
Call(f) ==
  /\ state = "open" /\ running # -1 /\ Len(stack) < MaxDepth
  /\ stack' = <<f>> \o stack
  /\ co' = [co EXCEPT ![running].view = <<f>> \o @]
  /\ UNCHANGED <<running, cr_num, cr_cap, state>>

Ret ==
  /\ state = "open" /\ running # -1 /\ Len(stack) > 1
  /\ stack' = Tail(stack)
  /\ co' = [co EXCEPT ![running].view = Tail(@)]
  /\ UNCHANGED <<running, cr_num, cr_cap, state>>

\* Mutant: the size is set only when the buffer grows.
_save_stack_grown(C, s) ==
  IF C.cr_cap < Len(s) THEN [C EXCEPT !.size = Len(s), !.cr_cap = Len(s), !.stack = s]
  ELSE [C EXCEPT !.stack = s \o SubSeq(@, Len(s) + 1, C.cr_cap)]

\* The buffer of the coroutine grows when it is too small; what lies behind the copy
\* stays in it.
_save_stack(C, s) ==
  [C EXCEPT !.size = Len(s),
            !.cr_cap = IF @ < Len(s) THEN Len(s) ELSE @,
            !.stack = IF C.cr_cap < Len(s) THEN s ELSE s \o SubSeq(@, Len(s) + 1, C.cr_cap)]

coroutine_yield ==
  /\ state = "open" /\ running # -1
  /\ co' = [co EXCEPT ![running] = [_save_stack(@, stack) EXCEPT !.status = "SUSPEND"]]
  /\ running' = -1
  /\ UNCHANGED <<cr_num, cr_cap, stack, state>>

\* Mutant: the slot is freed and still counted.
mainfunc_end_counted ==
  /\ state = "open" /\ running # -1 /\ Len(stack) = 1
  /\ co' = [co EXCEPT ![running] = NULL]
  /\ running' = -1
  /\ UNCHANGED <<cr_num, cr_cap, stack, state>>

\* The function has returned to mainfunc.
mainfunc_end ==
  /\ state = "open" /\ running # -1 /\ Len(stack) = 1
  /\ co' = [co EXCEPT ![running] = NULL]
  /\ cr_num' = cr_num - 1
  /\ running' = -1
  /\ UNCHANGED <<cr_cap, stack, state>>

coroutine_close ==
  /\ state = "open" /\ running = -1
  /\ state' = "closed"
  /\ co' = [i \in DOMAIN co |-> NULL] /\ cr_num' = 0
  /\ UNCHANGED <<running, cr_cap, stack>>

Next == \/ \E ud \in Frames : coroutine_new(ud)
        \/ \E id \in DOMAIN co : coroutine_resume(id)
        \/ \E f \in Frames : Call(f)
        \/ Ret \/ coroutine_yield \/ mainfunc_end \/ coroutine_close

Spec == Init /\ [][Next]_vars

\* coroutine_status
coroutine_status(id) == IF co[id] = NULL THEN "DEAD" ELSE co[id].status

(***************************************************************************)
(* Properties                                                              *)
(***************************************************************************)
TypeOK ==
  /\ cr_cap \in Nat \ {0} /\ cr_num \in Nat /\ running \in -1 .. cr_cap - 1
  /\ co \in [0 .. cr_cap - 1 -> Coroutines \cup {NULL}]
  /\ stack \in Seq(Frames) /\ state \in {"open", "closed", "failed"}

\* coroutine_new always finds a slot and coroutine_resume never meets a coroutine that
\* is already running: the asserts of the scheduler hold.
AssertsHold == state # "failed"

\* cr_num counts the coroutines, so doubling happens exactly when no slot is free.
CountsLive == cr_num = Cardinality(Live)

\* Whatever the others did to the shared stack in the meantime, the running coroutine
\* finds the frames it has left there.
StackIntact == running # -1 => co[running] # NULL /\ stack = co[running].view

\* The coroutine that is marked running is the one that runs.
RunningIsMarked == \A i \in Live : co[i].status = "RUNNING" <=> i = running

\* A suspended coroutine has its frames in its own buffer.
Saved(C) ==
  /\ Len(C.stack) = C.cr_cap
  /\ C.status = "SUSPEND" => C.size <= C.cr_cap /\ SubSeq(C.stack, 1, C.size) = C.view

SavedIntact == \A i \in Live : Saved(co[i])

SchedulerInv ==
  TypeOK /\ AssertsHold /\ CountsLive /\ StackIntact /\ RunningIsMarked /\ SavedIntact

\* A coroutine that is neither the running one nor being resumed is left alone: its slot
\* is not given to another, its saved stack not overwritten, also while slots double.
LeavesOthers ==
  state' # "closed" =>
    \A id \in Live : id # running /\ id # running' => id \in DOMAIN co' /\ co'[id] = co[id]

OthersUntouched == [][LeavesOthers]_vars
=============================================================================
