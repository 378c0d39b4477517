---------------------------- MODULE AlarmLimiter ----------------------------
(***************************************************************************)
(* What the alarm manager promises about one occurrence of an alarm.       *)
(* A thread reports an occurrence at a source line; it is stamped with the *)
(* second it was reported in; later, in ONE indivisible step, the limiter  *)
(* decides whether it is shown.  No lock, no hash map look-up: those are   *)
(* the business of AlarmMgr, which is checked and proved to implement this *)
(* module.                                                                 *)
(***************************************************************************)
EXTENDS Integers

CONSTANTS Threads,    \* the threads that raise alarms
          Lines,      \* the source lines alarms are raised at ("file_line")
          MaxTick,    \* last value of the clock, in seconds
          Limits      \* the values smMaxAlarms may be given

VARIABLES clock,      \* OmnTime::getSecTick()
          maxAlarms,  \* smMaxAlarms
          tracker,    \* smAlarmTracker: line -> [tick, num]; num = 0: no entry
          line,       \* line[t]: where thread t last raised an alarm
          tick,       \* tick[t]: the second that alarm was stamped with
          verdict,    \* verdict[t]: what became of it
          within      \* within[t]: occurrences being shown around that one

vars == <<clock, maxAlarms, tracker, line, tick, verdict, within>>

NoEntry == [tick |-> 0, num |-> 0]

(* The tracker's entry after one more occurrence stamped k.                *)
Counted(e, k) ==
  IF e.num = 0 \/ e.tick # k THEN [tick |-> k, num |-> 1]
                             ELSE [e EXCEPT !.num = @ + 1]

(* The first occurrence ever is shown whatever the limit; afterwards the   *)
(* count within the second must stay below the limit.                      *)
Shown(e, k, limit) == e.num = 0 \/ Counted(e, k).num < limit

Init ==
  /\ clock = 0
  /\ maxAlarms \in Limits
  /\ tracker = [l \in Lines |-> NoEntry]
  /\ line \in [Threads -> Lines]
  /\ tick = [t \in Threads |-> 0]
  /\ verdict = [t \in Threads |-> "none"]
  /\ within = [t \in Threads |-> 0]

(* Some time passes.                                                       *)
Tick ==
  /\ clock < MaxTick
  /\ clock' = clock + 1
  /\ UNCHANGED <<maxAlarms, tracker, line, tick, verdict, within>>

(* The limit is changed.                                                   *)
SetMax ==
  /\ maxAlarms' \in Limits
  /\ UNCHANGED <<clock, tracker, line, tick, verdict, within>>

(* Thread t reports an occurrence at line l, on its own or while it shows  *)
(* another.                                                                *)
Occur(t, l) ==
  /\ \/ verdict[t] = "none" /\ UNCHANGED within
     \/ verdict[t] = "show" /\ within' = [within EXCEPT ![t] = @ + 1]
  /\ line' = [line EXCEPT ![t] = l]
  /\ tick' = [tick EXCEPT ![t] = clock]
  /\ verdict' = [verdict EXCEPT ![t] = "pending"]
  /\ UNCHANGED <<clock, maxAlarms, tracker>>

(* The occurrence is counted and judged, both at once.                     *)
Decide(t) ==
  LET l == line[t]  k == tick[t] IN
  /\ verdict[t] = "pending"
  /\ tracker' = [tracker EXCEPT ![l] = Counted(@, k)]
  /\ verdict' = [verdict EXCEPT
        ![t] = IF Shown(tracker[l], k, maxAlarms) THEN "show" ELSE "drop"]
  /\ UNCHANGED <<clock, maxAlarms, line, tick, within>>

(* The report is over; the one around it, if any, goes on being shown.     *)
Finish(t) ==
  /\ verdict[t] \in {"show", "drop"}
  /\ \/ within[t] = 0 /\ verdict' = [verdict EXCEPT ![t] = "none"] /\ UNCHANGED within
     \/ /\ within[t] > 0
        /\ verdict' = [verdict EXCEPT ![t] = "show"]
        /\ within' = [within EXCEPT ![t] = @ - 1]
  /\ UNCHANGED <<clock, maxAlarms, tracker, line, tick>>

Next ==
  \/ Tick
  \/ SetMax
  \/ \E t \in Threads :
       \/ \E l \in Lines : Occur(t, l)
       \/ Decide(t)
       \/ Finish(t)

Spec == Init /\ [][Next]_vars
=============================================================================
