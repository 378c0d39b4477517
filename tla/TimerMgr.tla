----------------------------- MODULE TimerMgr -----------------------------
(***************************************************************************)
(* AosTimerMgrNew (src/src/Timer): timers by number over boost::asio.      *)
(* Callers add, cancel and remove timers; one thread runs the io_service   *)
(* and with it the handlers, which may call the manager in their turn.     *)
(*                                                                         *)
(* The map of timers is used under mLock.  addTimer() keeps mLock while it *)
(* re-arms the timer; cancel() and remove() release it first, then call    *)
(* the asio timer.  An asio timer is not made for that: its calls are      *)
(* modelled as the steps they are, each one an access to its flag          *)
(* might_have_pending_waits or one section under the reactor's mutex.      *)
(*                                                                         *)
(* Left out: that mCrtTimerId overflows an int; handlers that throw.       *)
(***************************************************************************)
EXTENDS Integers, Sequences, Functions, FiniteSets

CONSTANTS Threads,    \* the callers
          IoThread,   \* the thread that runs threadFunc()
          Slots,      \* the variables that callers keep time_id in
          Users,      \* Users[s]: the threads that call with variable s
          Nobody,     \* no thread
          MaxTimers,  \* bound: timers created
          MaxWaits,   \* bound: successful calls of addTimer()
          MaxTime,    \* bound: the last tick of the clock
          MaxStarts   \* bound: calls of start()

Procs == Threads \cup {IoThread}

ASSUME ProcsAssumption ==
  /\ IoThread \notin Threads
  /\ Nobody \notin Procs
  /\ Users \in [Slots -> SUBSET Procs]

ASSUME BoundsAssumption ==
  /\ MaxTimers \in Nat /\ MaxWaits \in Nat
  /\ MaxTime \in Nat /\ MaxStarts \in Nat

(* A timer is named by the id it was created with: an id names one timer   *)
(* object for as long as ids do not overflow.                              *)
Ids   == 0 .. MaxTimers - 1
NoId  == -1
Waits == 1 .. MaxWaits
Times == 0 .. MaxTime

VARIABLES
  mTimers,      \* the ids in the map
  mCrtTimerId,  \* the next id
  mLock,        \* the holder of mLock
  timeId,       \* timeId[s]: the value of variable s
  pc,           \* pc[p]: where p is in a call of the manager
  timer,        \* timer[p]: the asio timer p holds a pointer to
  at,           \* at[p]: the expiry time p is adding
  might,        \* might[i]: might_have_pending_waits of timer i
  expiry,       \* expiry[i]: the expiry time of timer i
  heapAt,       \* heapAt[i]: the time the reactor's heap has for timer i
  pending,      \* pending[i]: the waits the reactor holds for timer i
  ready,        \* the handlers the io_service has queued
  aborted,      \* the waits that got operation_aborted
  due,          \* due[w]: the expiry time wait w was added with
  running,      \* the handler that runs, 0 when none
  handled,      \* the waits whose handler has returned
  now,          \* the clock
  active,       \* the status of the thread is eActive
  stopped,      \* stopped_ of the io_service
  ioRuns,       \* the thread exists
  testing,      \* the thread has come to the condition of its loop
  starts,       \* calls of start() so far
  errors        \* how often "AosTimerMgrNew error." was raised

callVars  == <<mTimers, mCrtTimerId, mLock, timeId, pc, timer, at>>
asioVars  == <<might, expiry, heapAt, pending, ready, aborted, due>>
ioVars    == <<running, handled>>
lifeVars  == <<active, stopped, ioRuns, testing, starts, errors>>
vars      == <<callVars, asioVars, ioVars, now, lifeVars>>

Init ==
  /\ mTimers = {} /\ mCrtTimerId = 0 /\ mLock = Nobody
  /\ timeId = [s \in Slots |-> NoId]
  /\ pc = [p \in Procs |-> "idle"]
  /\ timer = [p \in Procs |-> NoId]
  /\ at = [p \in Procs |-> 0]
  /\ might = [i \in Ids |-> FALSE]
  /\ expiry = [i \in Ids |-> 0]
  /\ heapAt = [i \in Ids |-> 0]
  /\ pending = [i \in Ids |-> <<>>]
  /\ ready = <<>> /\ aborted = {} /\ due = <<>>
  /\ running = 0 /\ handled = {} /\ now = 0
  /\ active = FALSE /\ stopped = FALSE /\ ioRuns = FALSE /\ testing = FALSE
  /\ starts = 0 /\ errors = 0

(***************************************************************************)
(* The calls.  With an id that is not in the map each fails its assertion  *)
(* and changes nothing, which is no step here.                             *)
(***************************************************************************)
(* The thread of the io_service calls from the handler it runs.            *)
Calls(p, s) ==
  /\ pc[p] = "idle"
  /\ p \in Users[s]
  /\ p = IoThread => running # 0
  /\ mLock = Nobody

(* addTimer() of a new timer; AddTimer is both overloads: any expiry time. *)
NewTimer(p, s, t) ==
  /\ Calls(p, s)
  /\ timeId[s] = NoId
  /\ mCrtTimerId \notin mTimers
  /\ mCrtTimerId < MaxTimers
  /\ Len(due) < MaxWaits
  /\ timeId' = [timeId EXCEPT ![s] = mCrtTimerId]
  /\ mTimers' = mTimers \cup {mCrtTimerId}
  /\ mCrtTimerId' = mCrtTimerId + 1
  /\ mLock' = p
  /\ timer' = [timer EXCEPT ![p] = mCrtTimerId]
  /\ at' = [at EXCEPT ![p] = t]
  /\ pc' = [pc EXCEPT ![p] = "look"]
  /\ UNCHANGED <<asioVars, ioVars, now, lifeVars>>

(* addTimer() of a timer that is in the map: it is armed again.            *)
Rearm(p, s, t) ==
  /\ Calls(p, s)
  /\ timeId[s] \in mTimers
  /\ Len(due) < MaxWaits
  /\ mLock' = p
  /\ timer' = [timer EXCEPT ![p] = timeId[s]]
  /\ at' = [at EXCEPT ![p] = t]
  /\ pc' = [pc EXCEPT ![p] = "look"]
  /\ UNCHANGED <<mTimers, mCrtTimerId, timeId, asioVars, ioVars, now, lifeVars>>

(* cancel() and remove() up to their mLock.unlock().                       *)
Uses(p, s) ==
  /\ Calls(p, s)
  /\ timeId[s] \in mTimers
  /\ timer' = [timer EXCEPT ![p] = timeId[s]]
  /\ pc' = [pc EXCEPT ![p] = "look"]
  /\ UNCHANGED <<mCrtTimerId, mLock, timeId, at, asioVars, ioVars, now, lifeVars>>

Cancel(p, s) == Uses(p, s) /\ UNCHANGED mTimers

Remove(p, s) == Uses(p, s) /\ mTimers' = mTimers \ {timeId[s]}

(* A caller gives up its id, and may then add a new timer.                 *)
Forget(p, s) ==
  /\ Calls(p, s)
  /\ timeId[s] # NoId
  /\ timeId' = [timeId EXCEPT ![s] = NoId]
  /\ UNCHANGED <<mTimers, mCrtTimerId, mLock, pc, timer, at,
                 asioVars, ioVars, now, lifeVars>>

(***************************************************************************)
(* The asio timer.  expires_at() begins with a cancel() of its own, so the *)
(* three calls share the first steps; the holder of mLock is the one that  *)
(* adds.                                                                   *)
(***************************************************************************)
MutantAfterCancel(p) == IF mLock = p THEN "arm" ELSE "idle"
AfterCancel(p) == IF mLock = p THEN "arm" ELSE "drop"

(* if (!impl.might_have_pending_waits) return                              *)
MutantWorthCancelling(i) == now < expiry[i]
WorthCancelling(i) == might[i]

Look(p) ==
  /\ pc[p] = "look"
  /\ pc' = [pc EXCEPT ![p] =
              IF WorthCancelling(timer[p]) THEN "pull" ELSE AfterCancel(p)]
  /\ UNCHANGED <<mTimers, mCrtTimerId, mLock, timeId, timer, at,
                 asioVars, ioVars, now, lifeVars>>

(* cancel_timer() and post_deferred_completions(): to the io_service with  *)
(* operation_aborted.                                                      *)
MutantAbort(i) ==
  /\ pending' = [pending EXCEPT ![i] = <<>>]
  /\ aborted' = aborted \cup Range(pending[i])
  /\ UNCHANGED ready
Abort(i) ==
  /\ pending' = [pending EXCEPT ![i] = <<>>]
  /\ ready' = ready \o pending[i]
  /\ aborted' = aborted \cup Range(pending[i])

Pull(p) ==
  /\ pc[p] = "pull"
  /\ Abort(timer[p])
  /\ pc' = [pc EXCEPT ![p] = "clear"]
  /\ UNCHANGED <<mTimers, mCrtTimerId, mLock, timeId, timer, at,
                 might, expiry, heapAt, due, ioVars, now, lifeVars>>

(* might_have_pending_waits = false                                        *)
Clear(p) ==
  /\ pc[p] = "clear"
  /\ might' = [might EXCEPT ![timer[p]] = FALSE]
  /\ pc' = [pc EXCEPT ![p] = AfterCancel(p)]
  /\ UNCHANGED <<mTimers, mCrtTimerId, mLock, timeId, timer, at, expiry,
                 heapAt, pending, ready, aborted, due, ioVars, now, lifeVars>>

(* expires_at() sets the time, async_wait() the flag.                      *)
MutantFlag == FALSE
Flag == TRUE

Arm(p) ==
  /\ pc[p] = "arm"
  /\ expiry' = [expiry EXCEPT ![timer[p]] = at[p]]
  /\ might' = [might EXCEPT ![timer[p]] = Flag]
  /\ pc' = [pc EXCEPT ![p] = "schedule"]
  /\ UNCHANGED <<mTimers, mCrtTimerId, mLock, timeId, timer, at,
                 heapAt, pending, ready, aborted, due, ioVars, now, lifeVars>>

(* schedule_timer(): a timer with waits keeps its place in the heap.       *)
(* addTimer() returns, and mLock is released.                              *)
Schedule(p) ==
  LET i == timer[p] IN
  /\ pc[p] = "schedule"
  /\ due' = Append(due, at[p])
  /\ heapAt' = IF pending[i] = <<>> THEN [heapAt EXCEPT ![i] = expiry[i]]
                                    ELSE heapAt
  /\ pending' = [pending EXCEPT ![i] = Append(@, Len(due) + 1)]
  /\ mLock' = Nobody
  /\ timer' = [timer EXCEPT ![p] = NoId]
  /\ pc' = [pc EXCEPT ![p] = "idle"]
  /\ UNCHANGED <<mTimers, mCrtTimerId, timeId, at, might, expiry, ready,
                 aborted, ioVars, now, lifeVars>>

(* cancel() and remove() let go of their pointer; the last one destroys    *)
(* the timer, and a timer cancels what it might have when it is destroyed. *)
Destroyed(i) ==
  /\ i \in 0 .. mCrtTimerId - 1
  /\ i \notin mTimers
  /\ \A p \in Procs : timer[p] # i

LastPointer(p) ==
  /\ timer[p] \notin mTimers
  /\ \A q \in Procs \ {p} : timer[q] # timer[p]

Drop(p) ==
  /\ pc[p] = "drop"
  /\ IF LastPointer(p) /\ might[timer[p]] THEN Abort(timer[p])
                       ELSE UNCHANGED <<pending, ready, aborted>>
  /\ timer' = [timer EXCEPT ![p] = NoId]
  /\ pc' = [pc EXCEPT ![p] = "idle"]
  /\ UNCHANGED <<mTimers, mCrtTimerId, mLock, timeId, at, might, expiry,
                 heapAt, due, ioVars, now, lifeVars>>

(* What a call of p goes on with once it has begun.                        *)
Step(p) == \/ Look(p) \/ Pull(p) \/ Clear(p) \/ Arm(p) \/ Schedule(p) \/ Drop(p)

(***************************************************************************)
(* The thread of the io_service.                                           *)
(***************************************************************************)
(* Between two handlers it runs the reactor or takes the next handler.     *)
Dispatches == ioRuns /\ ~testing /\ ~stopped /\ running = 0

(* get_ready_timers(), for the timer that is first in the heap.  What the  *)
(* reactor does with a timer that is destroyed is undefined, and left out. *)
MutantExpired(i) == TRUE
Expired(i) == heapAt[i] <= now

Expire(i) ==
  /\ Dispatches
  /\ pending[i] # <<>>
  /\ ~Destroyed(i)
  /\ Expired(i)
  /\ \A j \in Ids : pending[j] # <<>> => heapAt[i] <= heapAt[j]
  /\ ready' = ready \o pending[i]
  /\ pending' = [pending EXCEPT ![i] = <<>>]
  /\ UNCHANGED <<callVars, might, expiry, heapAt, aborted, due,
                 ioVars, now, lifeVars>>

RunHandler ==
  /\ Dispatches
  /\ ready # <<>>
  /\ running' = Head(ready)
  /\ ready' = Tail(ready)
  /\ UNCHANGED <<callVars, might, expiry, heapAt, pending, aborted, due,
                 handled, now, lifeVars>>

HandlerReturns ==
  /\ running # 0
  /\ pc[IoThread] = "idle"
  /\ handled' = handled \cup {running}
  /\ running' = 0
  /\ UNCHANGED <<callVars, asioVars, now, lifeVars>>

(* run() returns once the io_service is stopped, and each time it does the *)
(* thread raises its alarm.  There is one stop() for each start() at most: *)
(* alarms are counted until there are more.                                *)
MaxErrors == MaxStarts + 1

RunReturns ==
  /\ ioRuns /\ ~testing
  /\ stopped /\ running = 0
  /\ testing' = TRUE
  /\ errors' = IF errors < MaxErrors THEN errors + 1 ELSE errors
  /\ UNCHANGED <<callVars, asioVars, ioVars, now, active, stopped, ioRuns, starts>>

(* while (state == eActive): the thread calls run(), or ends.              *)
TestState ==
  /\ ioRuns /\ testing
  /\ testing' = FALSE
  /\ ioRuns' = active
  /\ UNCHANGED <<callVars, asioVars, ioVars, now, active, stopped, starts, errors>>

(***************************************************************************)
(* start(), stop() and the clock.                                          *)
(***************************************************************************)
Start ==
  /\ ~active /\ ~ioRuns
  /\ starts = 0 \/ stopped
  /\ starts < MaxStarts
  /\ starts' = starts + 1
  /\ active' = TRUE
  /\ ioRuns' = TRUE
  /\ testing' = TRUE
  /\ UNCHANGED <<callVars, asioVars, ioVars, now, stopped, errors>>

(* stop(): mThread->stop(), then mIoService.stop().                        *)
MutantMayStop == starts > 0
MayStop == starts > 0 /\ ~active

StopThread ==
  /\ active
  /\ active' = FALSE
  /\ UNCHANGED <<callVars, asioVars, ioVars, now, stopped, ioRuns, testing,
                 starts, errors>>

StopService ==
  /\ MayStop
  /\ ~stopped
  /\ stopped' = TRUE
  /\ UNCHANGED <<callVars, asioVars, ioVars, now, active, ioRuns, testing,
                 starts, errors>>

Tick ==
  /\ now < MaxTime
  /\ now' = now + 1
  /\ UNCHANGED <<callVars, asioVars, ioVars, lifeVars>>

Next ==
  \/ \E p \in Procs :
       \/ \E s \in Slots :
            \/ \E t \in Times : NewTimer(p, s, t) \/ Rearm(p, s, t)
            \/ Cancel(p, s) \/ Remove(p, s) \/ Forget(p, s)
       \/ Step(p)
  \/ \E i \in Ids : Expire(i)
  \/ RunHandler \/ HandlerReturns \/ RunReturns \/ TestState
  \/ Start \/ StopThread \/ StopService
  \/ Tick

(* Threads go on with a call they are in, the thread of the io_service     *)
(* with its loop; time passes; a handler calls again and again but returns *)
(* in the end.                                                             *)
Fairness ==
  /\ \A p \in Procs : WF_vars(Step(p))
  /\ \A i \in Ids : WF_vars(Expire(i))
  /\ WF_vars(RunHandler) /\ SF_vars(HandlerReturns)
  /\ WF_vars(RunReturns) /\ WF_vars(TestState)
  /\ WF_vars(Tick)

Spec == Init /\ [][Next]_vars /\ Fairness

(***************************************************************************)
(* Properties.                                                             *)
(***************************************************************************)
PCs == {"idle", "look", "pull", "clear", "arm", "schedule", "drop"}

(* Types, and that a thread holds a pointer exactly during a call.         *)
TypeOK ==
  /\ mTimers \subseteq 0 .. mCrtTimerId - 1
  /\ mCrtTimerId \in 0 .. MaxTimers
  /\ mLock \in Procs \cup {Nobody}
  /\ timeId \in [Slots -> (0 .. mCrtTimerId - 1) \cup {NoId}]
  /\ pc \in [Procs -> PCs]
  /\ timer \in [Procs -> (0 .. mCrtTimerId - 1) \cup {NoId}]
  /\ \A p \in Procs : timer[p] = NoId <=> pc[p] = "idle"
  /\ at \in [Procs -> Times]
  /\ might \in [Ids -> BOOLEAN]
  /\ expiry \in [Ids -> Times]
  /\ heapAt \in [Ids -> Times]
  /\ pending \in [Ids -> Seq(1 .. Len(due))]
  /\ ready \in Seq(1 .. Len(due))
  /\ aborted \subseteq 1 .. Len(due)
  /\ due \in Seq(Times)
  /\ running \in 0 .. Len(due)
  /\ handled \subseteq 1 .. Len(due)
  /\ now \in Times
  /\ active \in BOOLEAN /\ stopped \in BOOLEAN /\ ioRuns \in BOOLEAN
  /\ testing \in BOOLEAN
  /\ starts \in 0 .. MaxStarts
  /\ errors \in 0 .. MaxErrors

(* Each successful addTimer() leads to one run of its handler: a wait is   *)
(* in one place, whatever calls race for its timer (cancel_timer,          *)
(* get_ready_timers, do_run_one).                                          *)
Count(s, w) == Cardinality({k \in DOMAIN s : s[k] = w})

HandledOnce ==
  \A w \in 1 .. Len(due) :
    LET waiting == {i \in Ids : Count(pending[i], w) > 0} IN
    /\ \A i \in waiting : Count(pending[i], w) = 1
    /\ Cardinality(waiting) + Count(ready, w)
         + (IF running = w THEN 1 ELSE 0)
         + (IF w \in handled THEN 1 ELSE 0) = 1

(* A handler that is told its wait is over runs no earlier than the time   *)
(* the wait was added with, though the reactor only knows the time the     *)
(* timer had when its first wait came (timer_queue.hpp enqueue_timer).     *)
NeverEarly == running # 0 /\ running \notin aborted => due[running] <= now

(* Arming a timer again replaces the wait it had (TimerMgr.h:80-83).       *)
OneWait == \A i \in Ids : Len(pending[i]) <= 1

(* When the asio timer's cancel() has returned no wait is left.            *)
CancelForces ==
  [][\A p \in Procs : pc[p] # "drop" /\ pc'[p] = "drop" =>
                        pending'[timer[p]] = <<>>]_vars

(* The reactor has no wait for a timer that is destroyed                   *)
(* (deadline_timer_service::destroy: "Cancel any asynchronous wait         *)
(* operations associated with the timer").                                 *)
RemovedIsSilent == \A i \in Ids : Destroyed(i) => pending[i] = <<>>

(* run() returns once for each stop(), which has ended the thread before:  *)
(* it does not return in a thread that is to go on, and threadFunc() does  *)
(* not raise the alarm "AosTimerMgrNew error." again and again             *)
(* (TimerMgr.cpp:41-46, 80-81).                                            *)
Stops == IF active THEN starts - 1 ELSE starts

RunsWhileActive == errors <= Stops

(* As long as the manager is not stopped every handler runs in the end.    *)
WaitsEnd ==
  \A w \in Waits :
    w \in 1 .. Len(due) /\ active ~> w \in handled \/ ~active

=============================================================================
