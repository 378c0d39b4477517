---------------------------- MODULE TimerAlarm ----------------------------
(***************************************************************************)
(* AosTimerMgrNew and the alarms it raises.  A call with an id that is not *)
(* in the map fails its assertion: aos_assert_rl raises the alarm and only *)
(* then unlocks, and addTimer() raises its alarm under an OmnLockGuard, so *)
(* mLock is held for as long as the alarm takes.  threadFunc() raises one  *)
(* without it.  An alarm returns or, with pause_on_alarm, sleeps for ever: *)
(* AlarmMgr.tla says when, and any alarm may here.                         *)
(*                                                                         *)
(* TimerMgr begins a call when mLock is free; here a thread that comes to  *)
(* a call has to wait for mLock and does nothing else meanwhile.           *)
(***************************************************************************)
EXTENDS TimerMgr

VARIABLE in   \* in[p]: what keeps p: "free", "lock", "alarm" or "asleep"

allVars == <<vars, in>>

AlarmInit == Init /\ in = [p \in Procs |-> "free"]

Becomes(p, from, to) == in[p] = from /\ in' = [in EXCEPT ![p] = to]

(* A thread comes to mLock.lock().                                         *)
Wait(p) ==
  /\ pc[p] = "idle"
  /\ p = IoThread => running # 0
  /\ Becomes(p, "free", "lock")
  /\ UNCHANGED vars

(* A call that finds its id.                                               *)
Call(p) ==
  /\ Becomes(p, "lock", "free")
  /\ \E s \in Slots :
       \/ \E t \in Times : NewTimer(p, s, t) \/ Rearm(p, s, t)
       \/ Cancel(p, s) \/ Remove(p, s)

(* cancel() and remove() of -1 or of an id that was removed, addTimer() of *)
(* an id that was removed.                                                 *)
Misuse(p) ==
  /\ Becomes(p, "lock", "alarm")
  /\ \E s \in Slots : Calls(p, s) /\ timeId[s] \notin mTimers
  /\ mLock' = p
  /\ UNCHANGED <<mTimers, mCrtTimerId, timeId, pc, timer, at,
                 asioVars, ioVars, now, lifeVars>>

(* The alarm returns, and the holder of mLock unlocks and returns as well. *)
MutantUnlocked(p) == mLock
Unlocked(p) == IF mLock = p THEN Nobody ELSE mLock

AlarmReturns(p) ==
  /\ Becomes(p, "alarm", "free")
  /\ mLock' = Unlocked(p)
  /\ UNCHANGED <<mTimers, mCrtTimerId, timeId, pc, timer, at,
                 asioVars, ioVars, now, lifeVars>>

AlarmSleeps(p) == Becomes(p, "alarm", "asleep") /\ UNCHANGED vars

(* The thread of the io_service: between its calls and alarms.             *)
Serves == in[IoThread] = "free"

Loop ==
  /\ Serves
  /\ (\E i \in Ids : Expire(i)) \/ RunHandler \/ HandlerReturns \/ TestState
  /\ UNCHANGED in

(* After a stop() as well: the state is tested after the alarm.            *)
RunEnds == RunReturns /\ Becomes(IoThread, "free", "alarm")

Others ==
  /\ \/ \E p \in Procs, s \in Slots : in[p] = "free" /\ Forget(p, s)
     \/ \E p \in Procs : Step(p)
     \/ Start \/ StopThread \/ StopService \/ Tick
  /\ UNCHANGED in

AlarmNext ==
  \/ \E p \in Procs :
       Wait(p) \/ Call(p) \/ Misuse(p) \/ AlarmReturns(p) \/ AlarmSleeps(p)
  \/ Loop \/ RunEnds \/ Others

(* As in TimerMgr; a mutex that comes free again and again is handed to    *)
(* each thread that waits for it, and an alarm returns or sleeps.          *)
AlarmFairness ==
  /\ \A p \in Procs :
       /\ WF_allVars(Step(p) /\ UNCHANGED in)
       /\ SF_allVars(Call(p) \/ Misuse(p))
       /\ WF_allVars(AlarmReturns(p) \/ AlarmSleeps(p))
  /\ WF_allVars(Serves /\ RunHandler /\ UNCHANGED in)
  /\ WF_allVars(Serves /\ TestState /\ UNCHANGED in)
  /\ SF_allVars(Serves /\ HandlerReturns /\ UNCHANGED in)

AlarmSpec == AlarmInit /\ [][AlarmNext]_allVars /\ AlarmFairness

(* The manager as TimerMgr has it, where a call that fails is no step:     *)
(* mLock is free while an alarm keeps it.                                  *)
Alarming   == {p \in Procs : in[p] \in {"alarm", "asleep"}}
LockWithin == IF mLock \in Alarming THEN Nobody ELSE mLock

Manager == INSTANCE TimerMgr WITH mLock <- LockWithin

(* The alarms change nothing of the timers: whatever a thread does before, *)
(* in and after one, and whoever waits for mLock meanwhile, each step is   *)
(* one the manager makes without alarms, or none (AlarmMacros.h:123-132,   *)
(* TimerMgr.cpp:38-110).                                                   *)
ImplementsManager == Manager!Init /\ [][Manager!Next]_(Manager!vars)

(* mLock comes back from every call, an assertion that fails included,     *)
(* unless its holder sleeps in the alarm (TimerMgr.cpp:90, 105).           *)
LockReturns == mLock # Nobody ~> mLock = Nobody \/ in[mLock] = "asleep"

(* A handler whose wait is over runs and returns while the manager is not  *)
(* stopped, unless the thread that runs handlers sleeps in an alarm itself *)
(* or its handler waits for a lock whose holder does (AlarmMacros.h:69).   *)
Halted ==
  \/ in[IoThread] = "asleep"
  \/ in[IoThread] = "lock" /\ mLock # Nobody /\ in[mLock] = "asleep"

HandlersRun ==
  \A w \in Waits :
    Count(ready, w) > 0 /\ active /\ ~stopped
      ~> w \in handled \/ ~active \/ stopped \/ Halted

=============================================================================
