-------------------------------- MODULE Watch --------------------------------
(***************************************************************************)
(* The stop watch of fsm/exam/fsm_test.c, run on the machine of module Fsm *)
(***************************************************************************)
EXTENDS Fsm

EWATCH_POWERON  == 1
EWATCH_SPLIT    == 2
EWATCH_UNSPLIT  == 4
EWATCH_STOP     == 8
EWATCH_POWEROFF == 16

EWATCH_START   == 1
EWATCH_RUNNING == 2
EWATCH_SUSPEND == 4
EWATCH_STOPPED == 8
EWATCH_CLOSED  == INVALID_STATE

Node(s, sws) == [state |-> s, switcher |-> sws]

watch_arr ==
  <<Node(EWATCH_START,   <<Switch(EWATCH_RUNNING, EWATCH_POWERON)>>),
    Node(EWATCH_RUNNING, <<Switch(EWATCH_SUSPEND, EWATCH_SPLIT),
                           Switch(EWATCH_STOPPED, EWATCH_STOP)>>),
    Node(EWATCH_SUSPEND, <<Switch(EWATCH_RUNNING, EWATCH_UNSPLIT),
                           Switch(EWATCH_STOPPED, EWATCH_STOP)>>),
    Node(EWATCH_STOPPED, <<Switch(EWATCH_CLOSED, EWATCH_POWEROFF)>>)>>

WatchEvents == {EWATCH_POWERON, EWATCH_SPLIT, EWATCH_UNSPLIT, EWATCH_STOP, EWATCH_POWEROFF}

Yes(e) == [ret |-> 0, event |-> e]
No(e)  == [ret |-> -2, event |-> e]

watch_running_judge(s, e) ==
  CASE s = EWATCH_START /\ e = EWATCH_POWERON -> Yes(EWATCH_SPLIT)
    [] s = EWATCH_SUSPEND /\ e = EWATCH_UNSPLIT -> Yes(EWATCH_STOP)
    [] OTHER -> No(e)

watch_suspend_judge(s, e) ==
  IF s = EWATCH_RUNNING /\ e = EWATCH_SPLIT THEN Yes(EWATCH_STOP) ELSE No(e)

\* Mutant: the stop of a suspended watch is forgotten.
watch_stopped_judge_running(s, e) ==
  IF s = EWATCH_RUNNING /\ e = EWATCH_STOP THEN Yes(EWATCH_POWEROFF) ELSE No(e)

watch_stopped_judge(s, e) ==
  IF s \in {EWATCH_RUNNING, EWATCH_SUSPEND} /\ e = EWATCH_STOP THEN Yes(EWATCH_POWEROFF) ELSE No(e)

watch_closed_judge(s, e) ==
  IF s = EWATCH_STOPPED /\ e = EWATCH_POWEROFF THEN Yes(e) ELSE No(e)

\* The judge that the table names for a switch.
watch_judge(w, s, e) ==
  {CASE w.state = EWATCH_RUNNING -> watch_running_judge(s, e)
     [] w.state = EWATCH_SUSPEND -> watch_suspend_judge(s, e)
     [] w.state = EWATCH_STOPPED -> watch_stopped_judge(s, e)
     [] OTHER -> watch_closed_judge(s, e)}

\* fsm_run is under way, at an event for which the state has a switch.
Started == ret = Running /\ \E w \in SwitchesOf(state) : w.event = event

\* However the watch is started with an event it knows, fsm_run takes it to the end:
\* "start(power on)->running(split)->suspend(stop)->stopped" and then closed.
RunsDown == Started ~> (state = EWATCH_CLOSED)
=============================================================================
