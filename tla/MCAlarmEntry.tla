---------------------------- MODULE MCAlarmEntry ----------------------------
(***************************************************************************)
(* Instances of AlarmEntry for TLC.  Traces, texts and alarms meet only in *)
(* the entries of a thread, the log and the number of an alarm, so a       *)
(* behaviour goes deep into one of                                         *)
(*   three statements that trace, with the manager there or not;           *)
(*   three calls of aos_alarm() that go round a ring of two buffers;       *)
(*   up to three alarms of the other kinds and statements that trace, four *)
(*   in all, beside, inside or around one another.                         *)
(***************************************************************************)
EXTENDS AlarmEntry

MCThreads == Permutations(Threads)

KindsInUse == {f.kind : f \in UNION {ToSet(frames[t]) : t \in Threads}}

Tracing  == raised = 0
Printing == begun = 0 /\ mgr = "none" /\ KindsInUse \subseteq {"printf"}
Raisings ==
  /\ mgr = "up" /\ "printf" \notin KindsInUse
  /\ begun + raised <= 4 /\ \A t \in Threads : put[t] <= 1

MCNext == AlarmNext /\ (Tracing' \/ Printing' \/ Raisings')
MCSpec == AlarmInit /\ [][MCNext]_<<vars, alarmVars>>
=============================================================================
