--------------------------------- MODULE Fsm ---------------------------------
(***************************************************************************)
(* lisk_fsm.c: a table-driven state machine.  The table is written with    *)
(* the macros of lisk_fsm.h, sorted once by fsm_node_arr_sort, and then    *)
(* searched by fsm_run, which runs from state to state until the machine   *)
(* closes or no switch is found.                                           *)
(*                                                                         *)
(* A judge may refuse a switch, and replaces the event of the next round.  *)
(***************************************************************************)
EXTENDS Integers, Sequences, SequencesExt

CONSTANTS Tables,            \* the tables to be run, as written
          MAX_SWITCH_NUM,
          Events,            \* the events fsm_run is called with
          judge(_, _, _)     \* of a switch, in a state, at an event: the possible answers

INVALID_STATE == -1
INVALID_EVENT == -1

Running == 1   \* fsm_run has not returned

\* What is assumed of the constants.
FsmAssumption ==
  /\ MAX_SWITCH_NUM \in Nat \ {0}
  /\ \A t \in Tables : \A n \in 1 .. Len(t) : Len(t[n].switcher) < MAX_SWITCH_NUM

VARIABLES table,  \* the table as written
          node,   \* the sorted array
          state, event,
          ret     \* what fsm_run returned, or Running

vars == <<table, node, state, event, ret>>

(***************************************************************************)
(* The array                                                               *)
(***************************************************************************)
Switch(s, e) == [state |-> s, event |-> e]
Blank        == Switch(INVALID_STATE, INVALID_EVENT)

\* FSM_NODE_END writes a blank; the compiler fills up with zeros.
FSM_NODE(sws) == [i \in 1 .. MAX_SWITCH_NUM |->
                    CASE i <= Len(sws) -> sws[i]
                      [] i = Len(sws) + 1 -> Blank
                      [] OTHER -> Switch(0, 0)]

\* INVALID_EVENT and INVALID_STATE come last.
Before(a, b) == IF a = -1 THEN FALSE ELSE b = -1 \/ a < b

\* What follows the first switch to INVALID_STATE is cleared.
Cleared(sws) == [i \in DOMAIN sws |-> IF \E j \in 1 .. i - 1 : sws[j].state = INVALID_STATE
                                      THEN Blank ELSE sws[i]]

fsm_node_arr_sort(arr) ==
  LET nodes == SortSeq(arr, LAMBDA a, b : Before(a.state, b.state))
  IN [n \in DOMAIN nodes |->
        [nodes[n] EXCEPT !.switcher =
           SortSeq(Cleared(@), LAMBDA a, b : Before(a.event, b.event))]]

\* The array the macros lay out: FSM_NODE_ARR_END adds a node that is no state.
Written(t) == [n \in 1 .. Len(t) + 1 |->
                 IF n <= Len(t) THEN [state |-> t[n].state, switcher |-> FSM_NODE(t[n].switcher)]
                 ELSE [state |-> INVALID_STATE, switcher |-> [i \in 1 .. MAX_SWITCH_NUM |-> Switch(0, 0)]]]

\* bsearch of the C library: the index of key in keys, or 0.  -1 equals nothing, not even itself.
bsearch(key, keys) ==
  LET search[r \in (1 .. Len(keys) + 1) \X (1 .. Len(keys) + 1)] ==
        LET mid == (r[1] + r[2]) \div 2
        IN CASE r[1] >= r[2] -> 0
             [] r[1] < r[2] /\ key # -1 /\ keys[mid] = key -> mid
             [] r[1] < r[2] /\ Before(key, keys[mid]) -> search[<<r[1], mid>>]
             [] OTHER -> search[<<mid + 1, r[2]>>]
  IN search[<<1, Len(keys) + 1>>]

pnode(s) == bsearch(s, [n \in DOMAIN node |-> node[n].state])
pswitcher(n, e) == bsearch(e, [i \in 1 .. MAX_SWITCH_NUM |-> node[n].switcher[i].event])

(***************************************************************************)
(* The machine                                                             *)
(***************************************************************************)
\* The caller sorts the table and sets the machine up with FSM_INIT in any of its states.
Init ==
  /\ table \in Tables
  /\ node = fsm_node_arr_sort(Written(table))
  /\ state \in {table[n].state : n \in DOMAIN table}
  /\ event = INVALID_EVENT
  /\ ret = 0

\* fsm_run is called.
Call(e) ==
  /\ ret # Running
  /\ event' = e
  /\ ret' = IF state = INVALID_STATE \/ e = INVALID_EVENT THEN -1 ELSE Running
  /\ UNCHANGED <<table, node, state>>

Found == pnode(state) # 0 /\ pswitcher(pnode(state), event) # 0
sw    == node[pnode(state)].switcher[pswitcher(pnode(state), event)]

fsm_run_fails ==
  /\ ~Found
  /\ ret' = -2
  /\ UNCHANGED <<state, event>>

\* Mutant: the switch is looked up after the judge has replaced the event.
fsm_run_late ==
  /\ ret = Running
  /\ \/ fsm_run_fails
     \/ /\ Found
        /\ \E answer \in judge(sw, state, event) :
             LET late == pswitcher(pnode(state), answer.event)
             IN /\ event' = answer.event
                /\ state' = IF answer.ret = 0 /\ late # 0 THEN node[pnode(state)].switcher[late].state
                            ELSE state
        /\ ret' = IF state' = INVALID_STATE THEN 0 ELSE ret
  /\ UNCHANGED <<table, node>>

\* One round: the handler only looks on, the judge decides and sets the next event.
fsm_run ==
  /\ ret = Running
  /\ \/ fsm_run_fails
     \/ /\ Found
        /\ \E answer \in judge(sw, state, event) :
             /\ event' = answer.event
             /\ state' = IF answer.ret = 0 THEN sw.state ELSE state
        /\ ret' = IF state' = INVALID_STATE THEN 0 ELSE ret
  /\ UNCHANGED <<table, node>>

Next == fsm_run \/ \E e \in Events \cup {INVALID_EVENT} : Call(e)

Spec == Init /\ [][Next]_vars

FairSpec == Spec /\ WF_vars(fsm_run)

(***************************************************************************)
(* Properties                                                              *)
(***************************************************************************)
\* The switches of a state as they were written.
SwitchesOf(s) == UNION {Range(table[n].switcher) : n \in {n \in DOMAIN table : table[n].state = s}}

StatesOf == {table[n].state : n \in DOMAIN table}

\* Sorting and searching find every switch that was written ("state switch array"), and
\* nothing else: neither the blanks nor the zeros that fill the array.
FindsSwitches ==
  \A s \in StatesOf, e \in Events \cup {0} :
    LET n == pnode(s)
        i == IF n = 0 THEN 0 ELSE pswitcher(n, e)
    IN IF \E w \in SwitchesOf(s) : w.event = e
       THEN i # 0 /\ node[n].switcher[i] \in SwitchesOf(s)
       ELSE i = 0

\* Every step of the machine is a switch of its table at the current event, and one
\* that the judge did not refuse.
StepOfTable ==
  state' # state =>
    \E w \in SwitchesOf(state) :
      /\ w.event = event /\ w.state = state'
      /\ \E answer \in judge(w, state, event) : answer.ret = 0 /\ answer.event = event'

FollowsTable == [][StepOfTable]_vars

\* fsm_run returns: it does not go round forever.
Returns == (ret = Running) ~> (ret # Running)
=============================================================================
