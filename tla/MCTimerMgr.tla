----------------------------- MODULE MCTimerMgr -----------------------------
(* Instances of TimerMgr for TLC: who calls with which variable.           *)
EXTENDS TimerMgr, TLC

CONSTANTS a, b, s1, s2

(* One thread has a timer of its own, and the handlers have another.       *)
OwnTimers == s1 :> {a} @@ s2 :> {IoThread}

(* A thread has a timer that its handler arms again.                       *)
SharedTimer == s1 :> {a, IoThread}

(* One thread and no handler calls.                                        *)
OneCaller == s1 :> {a}
=============================================================================
