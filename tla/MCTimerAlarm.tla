---------------------------- MODULE MCTimerAlarm ----------------------------
(* TimerAlarm for TLC: a timer that a thread and the handlers use.         *)
EXTENDS TimerAlarm, TLC

CONSTANTS a, s1

SharedTimer == s1 :> {a, IoThread}
=============================================================================
