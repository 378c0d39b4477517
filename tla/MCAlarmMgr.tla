---------------------------- MODULE MCAlarmMgr ----------------------------
(***************************************************************************)
(* Instances of AlarmMgr for TLC.  The limiter and the list of ignored     *)
(* lines share the lock and nothing else, so a behaviour goes deep into    *)
(* one of them: five alarms at one line (three while one is raised inside   *)
(* another) while the clock ticks twice and the limit changes, or two      *)
(* alarms at two lines, inside one another or not, among two edits of the  *)
(* list.  None of the conditions becomes false by a step of a call under   *)
(* way, so they never keep one from its end.                               *)
(***************************************************************************)
EXTENDS AlarmMgr

CONSTANTS l1, l2

(* One call adds two lines; one stops at a malformed item with a line      *)
(* behind it; one ends in text without a colon.                            *)
SomeLists == { <<l1, l2>>, <<l1, Malformed, l2>>, <<l2, NoColon>> }

OneLine ==
  /\ edits = 0 /\ ~pauseOn
  /\ \A t \in Threads :
       /\ line[t] = l1 /\ ~copy[t]
       /\ outer[t] \in Seq({[line |-> l1, copy |-> FALSE]})
       /\ outer[t] # <<>> => calls <= 3
OneClock == clock = 0 /\ calls <= 2

MCInit == Init /\ \A t \in Threads : entry[t] = l1
MCNext == Next /\ (OneLine' \/ OneClock')
MCSpec == MCInit /\ [][MCNext]_vars /\ \A t \in Threads : WF_vars(Step(t))

=============================================================================
