-------------------------- MODULE TimerMgrProofs --------------------------
(***************************************************************************)
(* Proofs about TimerMgr and TimerAlarm, for any threads, timers and       *)
(* waits.                                                                  *)
(***************************************************************************)
EXTENDS TimerAlarm, SequenceTheorems, FiniteSetTheorems, TLAPS

(***************************************************************************)
(* Type correctness.  The types of the variables are proved in groups: an  *)
(* action changes few of them.                                             *)
(***************************************************************************)
CallTypes ==
  /\ mTimers \subseteq 0 .. mCrtTimerId - 1
  /\ mCrtTimerId \in 0 .. MaxTimers
  /\ mLock \in Procs \cup {Nobody}
  /\ timeId \in [Slots -> (0 .. mCrtTimerId - 1) \cup {NoId}]
  /\ pc \in [Procs -> PCs]
  /\ timer \in [Procs -> (0 .. mCrtTimerId - 1) \cup {NoId}]
  /\ \A p \in Procs : timer[p] = NoId <=> pc[p] = "idle"
  /\ at \in [Procs -> Times]

AsioTypes ==
  /\ might \in [Ids -> BOOLEAN]
  /\ expiry \in [Ids -> Times]
  /\ heapAt \in [Ids -> Times]
  /\ pending \in [Ids -> Seq(1 .. Len(due))]
  /\ ready \in Seq(1 .. Len(due))
  /\ aborted \subseteq 1 .. Len(due)
  /\ due \in Seq(Times)

IoTypes ==
  /\ running \in 0 .. Len(due)
  /\ handled \subseteq 1 .. Len(due)
  /\ now \in Times

LifeTypes ==
  /\ active \in BOOLEAN /\ stopped \in BOOLEAN /\ ioRuns \in BOOLEAN
  /\ testing \in BOOLEAN
  /\ starts \in 0 .. MaxStarts
  /\ errors \in 0 .. MaxErrors

LEMMA TypeGroups == TypeOK <=> CallTypes /\ AsioTypes /\ IoTypes /\ LifeTypes
BY DEF TypeOK, CallTypes, AsioTypes, IoTypes, LifeTypes

(* A timer a thread has a pointer to is one of Ids.                        *)
LEMMA Pointers ==
  ASSUME CallTypes, NEW p \in Procs, pc[p] # "idle"
  PROVE  timer[p] \in Ids /\ timer[p] \in 0 .. mCrtTimerId - 1
BY BoundsAssumption DEF CallTypes, Ids, NoId

LEMMA CallTypesStep ==
  ASSUME CallTypes, AsioTypes, [Next]_vars PROVE CallTypes'
PROOF
<1> USE BoundsAssumption, ProcsAssumption
<1>1. ASSUME NEW p \in Procs, NEW s \in Slots, NEW t \in Times, NewTimer(p, s, t)
      PROVE  CallTypes'
  BY <1>1 DEF NewTimer, Calls, CallTypes, NoId, PCs
<1>2. ASSUME NEW p \in Procs, NEW s \in Slots, NEW t \in Times, Rearm(p, s, t)
      PROVE  CallTypes'
  BY <1>2 DEF Rearm, Calls, CallTypes, NoId, PCs
<1>3. ASSUME NEW p \in Procs, NEW s \in Slots,
             Cancel(p, s) \/ Remove(p, s) \/ Forget(p, s)
      PROVE  CallTypes'
  <2>1. CASE Cancel(p, s)
    BY <1>3, <2>1 DEF Cancel, Uses, Calls, CallTypes, NoId, PCs
  <2>2. CASE Remove(p, s)
    <3>1. mTimers' \subseteq mTimers /\ UNCHANGED mCrtTimerId
      BY <2>2 DEF Remove, Uses
    <3>2. mTimers' \subseteq 0 .. mCrtTimerId' - 1
      BY <3>1 DEF CallTypes
    <3>3. QED
      BY <2>2, <3>2 DEF Remove, Uses, Calls, CallTypes, NoId, PCs
  <2>3. CASE Forget(p, s)
    BY <1>3, <2>3 DEF Forget, CallTypes, NoId
  <2>4. QED  BY <1>3, <2>1, <2>2, <2>3
<1>4. ASSUME NEW p \in Procs, Step(p) PROVE CallTypes'
  <2>1. CASE Look(p) \/ Pull(p) \/ Clear(p) \/ Arm(p)
    <3>1. /\ pc' = [pc EXCEPT ![p] = pc'[p]]
          /\ pc'[p] \in PCs \ {"idle"} /\ pc[p] # "idle"
      BY <2>1 DEF Look, Pull, Clear, Arm, AfterCancel, CallTypes, PCs
    <3>2. UNCHANGED <<mTimers, mCrtTimerId, mLock, timeId, timer, at>>
      BY <2>1 DEF Look, Pull, Clear, Arm
    <3>3. QED  BY <3>1, <3>2 DEF CallTypes
  <2>2. CASE Schedule(p) \/ Drop(p)
    BY <2>2 DEF Schedule, Drop, CallTypes, NoId, PCs
  <2>3. QED  BY <1>4, <2>1, <2>2 DEF Step
<1>5. ASSUME UNCHANGED callVars PROVE CallTypes'
  BY <1>5 DEF callVars, CallTypes
<1>6. QED
  BY <1>1, <1>2, <1>3, <1>4, <1>5
  DEF Next, Expire, RunHandler, HandlerReturns, RunReturns, TestState, Start, StopThread,
      StopService, Tick, vars

LEMMA AbortTypes ==
  ASSUME AsioTypes, NEW i \in Ids, Abort(i)
  PROVE  /\ pending' \in [Ids -> Seq(1 .. Len(due))]
         /\ ready' \in Seq(1 .. Len(due))
         /\ aborted' \subseteq 1 .. Len(due)
PROOF
<1>1. pending[i] \in Seq(1 .. Len(due))  BY DEF AsioTypes
<1>2. Range(pending[i]) \subseteq 1 .. Len(due)  BY <1>1 DEF Range
<1>3. ready \o pending[i] \in Seq(1 .. Len(due))  BY <1>1 DEF AsioTypes
<1>4. <<>> \in Seq(1 .. Len(due))  OBVIOUS
<1>5. QED  BY <1>2, <1>3, <1>4 DEF Abort, AsioTypes

LEMMA AsioTypesStep ==
  ASSUME CallTypes, AsioTypes, [Next]_vars PROVE AsioTypes'
PROOF
<1> USE BoundsAssumption, ProcsAssumption
<1>1. ASSUME NEW p \in Procs, Pull(p) \/ Drop(p) PROVE AsioTypes'
  <2>1. timer[p] \in Ids  BY <1>1, Pointers DEF Pull, Drop
  <2>2. CASE Abort(timer[p])
    BY <1>1, <2>1, <2>2, AbortTypes DEF Pull, Drop, AsioTypes
  <2>3. CASE UNCHANGED <<pending, ready, aborted>>
    BY <1>1, <2>3 DEF Pull, Drop, AsioTypes
  <2>4. QED  BY <1>1, <2>2, <2>3 DEF Pull, Drop
<1>2. ASSUME NEW p \in Procs, Clear(p) \/ Arm(p) PROVE AsioTypes'
  <2>1. timer[p] \in Ids /\ at[p] \in Times
    BY <1>2, Pointers DEF Clear, Arm, CallTypes
  <2>2. might' \in [Ids -> BOOLEAN]
    BY <1>2, <2>1 DEF Clear, Arm, AsioTypes, Flag
  <2>3. QED  BY <1>2, <2>1, <2>2 DEF Clear, Arm, AsioTypes
<1>3. ASSUME NEW p \in Procs, Schedule(p) PROVE AsioTypes'
  <2> DEFINE i == timer[p]
  <2>1. i \in Ids /\ at[p] \in Times
    BY <1>3, Pointers DEF Schedule, CallTypes
  <2>2. due' \in Seq(Times) /\ Len(due') = Len(due) + 1 /\ Len(due) \in Nat
    BY <1>3, <2>1 DEF Schedule, AsioTypes
  <2>3. \A q \in Seq(1 .. Len(due)) : q \in Seq(1 .. Len(due'))
    BY <2>2
  <2>4. Append(pending[i], Len(due) + 1) \in Seq(1 .. Len(due'))
    BY <2>1, <2>2, <2>3 DEF AsioTypes
  <2>5. pending' \in [Ids -> Seq(1 .. Len(due'))]
    BY <1>3, <2>1, <2>3, <2>4 DEF Schedule, AsioTypes
  <2>6. heapAt' \in [Ids -> Times]
    BY <1>3, <2>1 DEF Schedule, AsioTypes
  <2>7. QED  BY <1>3, <2>2, <2>3, <2>5, <2>6 DEF Schedule, AsioTypes
<1>4. ASSUME NEW i \in Ids, Expire(i) PROVE AsioTypes'
  BY <1>4 DEF Expire, AsioTypes
<1>5. ASSUME RunHandler PROVE AsioTypes'
  BY <1>5 DEF RunHandler, AsioTypes
<1>6. ASSUME UNCHANGED asioVars PROVE AsioTypes'
  BY <1>6 DEF asioVars, AsioTypes
<1>7. ASSUME NEW p \in Procs, Step(p) PROVE AsioTypes'
  BY <1>7, <1>1, <1>2, <1>3, <1>6 DEF Step, Look
<1>8. ASSUME NEW p \in Procs, NEW s \in Slots, NEW t \in Times,
             \/ NewTimer(p, s, t) \/ Rearm(p, s, t)
             \/ Cancel(p, s) \/ Remove(p, s) \/ Forget(p, s)
      PROVE  AsioTypes'
  BY <1>8, <1>6 DEF NewTimer, Rearm, Cancel, Remove, Forget, Uses
<1>9. QED
  BY <1>4, <1>5, <1>6, <1>7, <1>8
  DEF Next, HandlerReturns, RunReturns, TestState, Start, StopThread,
      StopService, Tick, vars, Cancel, Remove, Forget, Uses

LEMMA IoTypesStep ==
  ASSUME CallTypes, AsioTypes, IoTypes, [Next]_vars PROVE IoTypes'
PROOF
<1> USE BoundsAssumption, ProcsAssumption
<1>1. ASSUME NEW p \in Procs, Schedule(p) PROVE IoTypes'
  <2>1. Len(due') = Len(due) + 1 /\ Len(due) \in Nat
    BY <1>1, Pointers DEF Schedule, AsioTypes, CallTypes
  <2>2. QED  BY <1>1, <2>1 DEF Schedule, IoTypes, ioVars
<1>2. ASSUME RunHandler PROVE IoTypes'
  BY <1>2 DEF RunHandler, IoTypes, AsioTypes
<1>3. ASSUME HandlerReturns PROVE IoTypes'
  BY <1>3 DEF HandlerReturns, IoTypes, AsioTypes, asioVars
<1>4. ASSUME Tick PROVE IoTypes'
  <2>1. now' \in Times  BY <1>4 DEF Tick, IoTypes, Times
  <2>2. QED  BY <1>4, <2>1 DEF Tick, IoTypes, asioVars, ioVars
<1>5. ASSUME UNCHANGED <<ioVars, now, due>> PROVE IoTypes'
  BY <1>5 DEF ioVars, IoTypes
<1>6. QED
  BY <1>1, <1>2, <1>3, <1>4, <1>5
  DEF Next, NewTimer, Rearm, Cancel, Remove, Forget, Uses, Step, Look, Pull,
      Clear, Arm, Drop, Expire, RunReturns, TestState, Start, StopThread,
      StopService, vars, asioVars

LEMMA LifeTypesStep ==
  ASSUME LifeTypes, [Next]_vars PROVE LifeTypes'
PROOF
<1>1. ASSUME RunReturns \/ TestState \/ Start \/ StopThread \/ StopService
      PROVE  LifeTypes'
  <2>1. /\ active' \in BOOLEAN /\ stopped' \in BOOLEAN /\ ioRuns' \in BOOLEAN
        /\ testing' \in BOOLEAN
    BY <1>1, Zenon DEF RunReturns, TestState, Start, StopThread, StopService, LifeTypes
  <2>2. starts' \in 0 .. MaxStarts /\ errors' \in 0 .. MaxErrors
    BY <1>1, BoundsAssumption
    DEF RunReturns, TestState, Start, StopThread, StopService, LifeTypes, MaxErrors
  <2>3. QED  BY <2>1, <2>2 DEF LifeTypes
<1>2. ASSUME UNCHANGED lifeVars PROVE LifeTypes'
  BY <1>2 DEF lifeVars, LifeTypes
<1>3. QED
  BY <1>1, <1>2
  DEF Next, NewTimer, Rearm, Cancel, Remove, Forget, Uses, Step, Look, Pull,
      Clear, Arm, Schedule, Drop, Expire, RunHandler, HandlerReturns, Tick, vars

LEMMA TypeInit == Init => TypeOK
PROOF
<1> SUFFICES ASSUME Init PROVE TypeOK  OBVIOUS
<1> USE BoundsAssumption, ProcsAssumption
<1>1. CallTypes  BY DEF Init, CallTypes, NoId, PCs, Times
<1>2. AsioTypes  BY DEF Init, AsioTypes, Times
<1>3. Len(due) \in Nat  BY DEF Init
<1>4. IoTypes  BY <1>3 DEF Init, IoTypes, Times
<1>5. LifeTypes
  <2>1. active \in BOOLEAN /\ stopped \in BOOLEAN /\ ioRuns \in BOOLEAN
        /\ testing \in BOOLEAN
    BY Zenon DEF Init
  <2>2. starts \in 0 .. MaxStarts /\ errors \in 0 .. MaxErrors
    BY DEF Init, MaxErrors
  <2>3. QED  BY <2>1, <2>2 DEF LifeTypes
<1>6. QED  BY <1>1, <1>2, <1>4, <1>5, TypeGroups

LEMMA TypeStep == TypeOK /\ [Next]_vars => TypeOK'
PROOF
<1> SUFFICES ASSUME TypeOK, [Next]_vars PROVE TypeOK'  OBVIOUS
<1>1. CallTypes /\ AsioTypes /\ IoTypes /\ LifeTypes  BY TypeGroups
<1>2. CallTypes' /\ AsioTypes' /\ IoTypes' /\ LifeTypes'
  BY <1>1, CallTypesStep, AsioTypesStep, IoTypesStep, LifeTypesStep
<1>3. QED
  BY <1>2 DEF TypeOK, CallTypes, AsioTypes, IoTypes, LifeTypes

(* Every variable keeps its type, and a thread holds a pointer to a timer  *)
(* exactly while it is in a call (TimerMgr.h:57-113, TimerMgr.cpp:85-110). *)
THEOREM TypeCorrect == Spec => []TypeOK
BY TypeInit, TypeStep, PTL DEF Spec

(***************************************************************************)
(* When every variable that holds a time_id has one user, no two threads   *)
(* are in calls of the same asio timer, and its flag can be trusted.       *)
(***************************************************************************)
OneUser == \A s \in Slots : \A p, q \in Users[s] : p = q

(* Who is where with mLock; a timer stays in the map while it is added.    *)
LockInv ==
  /\ \A p \in Procs : pc[p] \in {"arm", "schedule"} => mLock = p
  /\ \A p \in Procs : pc[p] = "drop" => mLock # p
  /\ \A p \in Procs : mLock = p /\ pc[p] # "idle" => timer[p] \in mTimers

(* A call is about the timer of a variable its thread uses.                *)
OwnInv ==
  /\ \A s, r \in Slots : timeId[s] = timeId[r] /\ timeId[s] # NoId => s = r
  /\ \A p \in Procs : pc[p] # "idle" =>
       \E s \in Slots : p \in Users[s] /\ timeId[s] = timer[p]

(* A timer with a wait has its flag set; from its cancel() to the next     *)
(* wait a timer has none.                                                  *)
FlagInv ==
  /\ \A i \in Ids : pending[i] # <<>> => might[i]
  /\ \A i \in Ids : i \notin 0 .. mCrtTimerId - 1 => pending[i] = <<>>
  /\ \A p \in Procs : pc[p] \in {"clear", "arm", "schedule", "drop"} =>
                        pending[timer[p]] = <<>>
  /\ \A p \in Procs : pc[p] = "schedule" => might[timer[p]]

Inv == TypeOK /\ LockInv /\ OwnInv /\ FlagInv /\ OneWait /\ RemovedIsSilent

LEMMA InvInit == Init => Inv
PROOF
<1> SUFFICES ASSUME Init PROVE Inv  OBVIOUS
<1>1. TypeOK  BY TypeInit
<1>2. LockInv /\ OwnInv
  BY ProcsAssumption DEF Init, LockInv, OwnInv, NoId
<1>3. FlagInv /\ OneWait /\ RemovedIsSilent
  BY DEF Init, FlagInv, OneWait, RemovedIsSilent
<1>4. QED  BY <1>1, <1>2, <1>3 DEF Inv

LEMMA LockInvStep == TypeOK /\ LockInv /\ [Next]_vars => LockInv'
PROOF
<1> SUFFICES ASSUME TypeOK, LockInv, [Next]_vars PROVE LockInv'  OBVIOUS
<1>0. CallTypes  BY TypeGroups
<1>1. ASSUME NEW p \in Procs, NEW s \in Slots, NEW t \in Times,
             NewTimer(p, s, t) \/ Rearm(p, s, t)
      PROVE  LockInv'
  BY <1>0, <1>1, ProcsAssumption DEF NewTimer, Rearm, Calls, CallTypes, LockInv
<1>2. ASSUME NEW p \in Procs, NEW s \in Slots, Uses(p, s) PROVE LockInv'
  BY <1>0, <1>2, ProcsAssumption DEF Uses, Calls, CallTypes, LockInv
<1>3. ASSUME NEW p \in Procs, Step(p) PROVE LockInv'
  <2>1. CASE Look(p) \/ Pull(p) \/ Clear(p) \/ Arm(p)
    BY <1>0, <2>1 DEF Look, Pull, Clear, Arm, AfterCancel, CallTypes, LockInv
  <2>2. CASE Schedule(p) \/ Drop(p)
    BY <1>0, <2>2, ProcsAssumption DEF Schedule, Drop, CallTypes, LockInv
  <2>3. QED  BY <1>3, <2>1, <2>2 DEF Step
<1>4. ASSUME UNCHANGED <<mTimers, mLock, pc, timer>> PROVE LockInv'
  BY <1>4 DEF LockInv
<1>5. QED
  BY <1>1, <1>2, <1>3, <1>4
  DEF Next, Cancel, Remove, Forget, Expire, RunHandler, HandlerReturns,
      RunReturns, TestState, Start, StopThread, StopService, Tick, vars, callVars

LEMMA OwnInvStep ==
  ASSUME OneUser, TypeOK, OwnInv, [Next]_vars PROVE OwnInv'
PROOF
<1>0. CallTypes  BY TypeGroups
<1>1. ASSUME NEW p \in Procs, NEW s \in Slots, NEW t \in Times, NewTimer(p, s, t)
      PROVE  OwnInv'
  BY <1>0, <1>1 DEF NewTimer, Calls, CallTypes, OwnInv, NoId
<1>2. ASSUME NEW p \in Procs, NEW s \in Slots, NEW t \in Times,
             Rearm(p, s, t) \/ Uses(p, s)
      PROVE  OwnInv'
  BY <1>0, <1>2 DEF Rearm, Uses, Calls, CallTypes, OwnInv
<1>3. ASSUME NEW p \in Procs, NEW s \in Slots, Forget(p, s) PROVE OwnInv'
  BY <1>0, <1>3 DEF Forget, Calls, CallTypes, OwnInv, OneUser, NoId
<1>4. ASSUME NEW p \in Procs, Step(p) PROVE OwnInv'
  <2>1. UNCHANGED timeId
    BY <1>4 DEF Step, Look, Pull, Clear, Arm, Schedule, Drop
  <2>2. \A q \in Procs : pc'[q] # "idle" => pc[q] # "idle" /\ timer'[q] = timer[q]
    BY <1>0, <1>4
    DEF Step, Look, Pull, Clear, Arm, Schedule, Drop, CallTypes
  <2>3. QED  BY <2>1, <2>2 DEF OwnInv
<1>5. ASSUME UNCHANGED <<timeId, pc, timer>> PROVE OwnInv'
  BY <1>5 DEF OwnInv
<1>6. Times # {}  BY BoundsAssumption DEF Times
<1>7. QED
  BY <1>1, <1>2, <1>3, <1>4, <1>5, <1>6
  DEF Next, Cancel, Remove, Expire, RunHandler, HandlerReturns,
      RunReturns, TestState, Start, StopThread, StopService, Tick, vars, callVars

(* One thread at a time is in calls of a timer.                            *)
LEMMA Exclusive ==
  ASSUME OneUser, TypeOK, OwnInv, NEW p \in Procs, NEW q \in Procs,
         p # q, pc[p] # "idle", pc[q] # "idle"
  PROVE  timer[p] # timer[q]
PROOF
<1>1. CallTypes  BY TypeGroups
<1>2. timer[p] # NoId  BY <1>1 DEF CallTypes
<1>3. PICK s \in Slots : p \in Users[s] /\ timeId[s] = timer[p]  BY DEF OwnInv
<1>4. PICK r \in Slots : q \in Users[r] /\ timeId[r] = timer[q]  BY DEF OwnInv
<1>5. QED  BY <1>2, <1>3, <1>4 DEF OwnInv, OneUser

LEMMA FlagInvStep ==
  ASSUME OneUser, TypeOK, LockInv, OwnInv, FlagInv, [Next]_vars PROVE FlagInv'
PROOF
<1>0. CallTypes /\ AsioTypes  BY TypeGroups
<1>1. ASSUME NEW p \in Procs, NEW s \in Slots, NEW t \in Times,
             NewTimer(p, s, t) \/ Rearm(p, s, t) \/ Uses(p, s)
      PROVE  FlagInv'
  <2>1. UNCHANGED <<pending, might>> /\ pc' = [pc EXCEPT ![p] = "look"]
    BY <1>1 DEF NewTimer, Rearm, Uses, asioVars
  <2>2. \A q \in Procs : q # p => timer'[q] = timer[q]
    BY <1>0, <1>1 DEF NewTimer, Rearm, Uses, CallTypes
  <2>3. mCrtTimerId' = mCrtTimerId \/ mCrtTimerId' = mCrtTimerId + 1
    BY <1>1 DEF NewTimer, Rearm, Uses
  <2>4. \A i \in Ids : i \notin 0 .. mCrtTimerId' - 1 => i \notin 0 .. mCrtTimerId - 1
    BY <1>0, <2>3, BoundsAssumption DEF CallTypes, Ids
  <2>5. \A q \in Procs : pc'[q] # "look" => q # p /\ pc'[q] = pc[q]
    BY <1>0, <2>1 DEF CallTypes
  <2>6. QED  BY <2>1, <2>2, <2>4, <2>5 DEF FlagInv
<1>2. ASSUME NEW p \in Procs, Look(p) PROVE FlagInv'
  <2>1. timer[p] \in Ids /\ pc[p] # "idle"
    BY <1>0, <1>2, Pointers DEF Look
  <2>2. pc'[p] # "pull" => pc'[p] # "schedule" /\ pending[timer[p]] = <<>>
    BY <1>0, <1>2, <2>1 DEF Look, WorthCancelling, AfterCancel, CallTypes, FlagInv
  <2>3. QED  BY <1>0, <1>2, <2>2 DEF Look, CallTypes, FlagInv, asioVars
<1>3. ASSUME NEW p \in Procs, Pull(p) \/ Clear(p) \/ Arm(p) PROVE FlagInv'
  <2>1. /\ timer[p] \in Ids
        /\ \A q \in Procs : q # p /\ pc[q] # "idle" => timer[q] # timer[p]
    BY <1>0, <1>3, Pointers, Exclusive DEF Pull, Clear, Arm
  <2>2. CASE Pull(p)
    BY <1>0, <2>1, <2>2 DEF Pull, Abort, CallTypes, AsioTypes, FlagInv
  <2>3. CASE Clear(p)
    <3>1. pending[timer[p]] = <<>>  BY <2>3 DEF Clear, FlagInv
    <3>2. \A i \in Ids : i # timer[p] => might'[i] = might[i]
      BY <2>1, <2>3 DEF Clear
    <3>3. pc' = [pc EXCEPT ![p] = AfterCancel(p)]
          /\ UNCHANGED <<pending, timer, mCrtTimerId>>
      BY <2>3 DEF Clear
    <3>4. pc'[p] # "schedule" /\ \A q \in Procs \ {p} : pc'[q] = pc[q]
      BY <1>0, <3>3 DEF AfterCancel, CallTypes
    <3>5. \A q \in Procs : pc[q] = "schedule" => timer[q] \in Ids
      BY <1>0, Pointers
    <3>6. QED  BY <2>1, <3>1, <3>2, <3>3, <3>4, <3>5 DEF FlagInv
  <2>4. CASE Arm(p)
    <3>1. pending[timer[p]] = <<>>  BY <2>4 DEF Arm, FlagInv
    <3>2. might' = [might EXCEPT ![timer[p]] = TRUE]  BY <2>4 DEF Arm, Flag
    <3>3. might'[timer[p]] /\ \A i \in Ids : might[i] => might'[i]
      BY <1>0, <2>1, <3>2, Zenon DEF AsioTypes
    <3>4. pc' = [pc EXCEPT ![p] = "schedule"]
          /\ UNCHANGED <<pending, timer, mCrtTimerId>>
      BY <2>4 DEF Arm
    <3>5. \A q \in Procs : pc[q] = "schedule" => timer[q] \in Ids
      BY <1>0, Pointers
    <3>6. \A q \in Procs \ {p} : pc'[q] = pc[q]  BY <1>0, <3>4 DEF CallTypes
    <3>7. QED  BY <3>1, <3>3, <3>4, <3>5, <3>6 DEF FlagInv
  <2>5. QED  BY <1>3, <2>2, <2>3, <2>4
<1>4. ASSUME NEW p \in Procs, Schedule(p) PROVE FlagInv'
  <2>1. /\ timer[p] \in Ids /\ timer[p] \in 0 .. mCrtTimerId - 1
        /\ \A q \in Procs : q # p /\ pc[q] # "idle" => timer[q] # timer[p]
    BY <1>0, <1>4, Pointers, Exclusive DEF Schedule
  <2>2. might[timer[p]]  BY <1>4 DEF Schedule, FlagInv
  <2>3. /\ \A i \in Ids : i # timer[p] => pending'[i] = pending[i]
        /\ UNCHANGED <<might, mCrtTimerId>>
    BY <1>0, <1>4 DEF Schedule, AsioTypes
  <2>4. /\ pc'[p] = "idle"
        /\ \A q \in Procs \ {p} : pc'[q] = pc[q] /\ timer'[q] = timer[q]
    BY <1>0, <1>4 DEF Schedule, CallTypes
  <2>5. \A q \in Procs : pc[q] # "idle" => timer[q] \in Ids
    BY <1>0, Pointers
  <2>6. QED  BY <2>1, <2>2, <2>3, <2>4, <2>5 DEF FlagInv
<1>5. ASSUME NEW p \in Procs, Drop(p) PROVE FlagInv'
  <2>1. timer[p] \in Ids  BY <1>0, <1>5, Pointers DEF Drop
  <2>2. \A i \in Ids : pending'[i] = pending[i] \/ pending'[i] = <<>>
    BY <1>0, <1>5, <2>1 DEF Drop, Abort, AsioTypes
  <2>3. /\ pc'[p] = "idle" /\ UNCHANGED <<might, mCrtTimerId>>
        /\ \A q \in Procs \ {p} : pc'[q] = pc[q] /\ timer'[q] = timer[q]
    BY <1>0, <1>5 DEF Drop, CallTypes
  <2>4. \A q \in Procs : pc[q] # "idle" => timer[q] \in Ids
    BY <1>0, Pointers
  <2>5. QED  BY <2>2, <2>3, <2>4 DEF FlagInv
<1>6. ASSUME NEW i \in Ids, Expire(i) PROVE FlagInv'
  <2>1. \A j \in Ids : pending'[j] = pending[j] \/ pending'[j] = <<>>
    BY <1>0, <1>6 DEF Expire, AsioTypes
  <2>2. UNCHANGED <<callVars, might>>  BY <1>6 DEF Expire
  <2>3. \A q \in Procs : pc[q] # "idle" => timer[q] \in Ids
    BY <1>0, Pointers
  <2>4. QED  BY <2>1, <2>2, <2>3 DEF FlagInv, callVars
<1>7. ASSUME UNCHANGED <<mCrtTimerId, pc, timer, might, pending>>
      PROVE  FlagInv'
  BY <1>7 DEF FlagInv
<1>8. Times # {}  BY BoundsAssumption DEF Times
<1>9. ASSUME NEW p \in Procs, Step(p) PROVE FlagInv'
  BY <1>9, <1>2, <1>3, <1>4, <1>5 DEF Step
<1>10. ASSUME RunHandler PROVE FlagInv'
  BY <1>10, <1>7 DEF RunHandler, callVars
<1>11. QED
  BY <1>1, <1>6, <1>7, <1>8, <1>9, <1>10
  DEF Next, Cancel, Remove, Forget, HandlerReturns, RunReturns, TestState, Start,
      StopThread, StopService, Tick, vars, callVars, asioVars

LEMMA OneWaitStep ==
  ASSUME TypeOK, FlagInv, OneWait, [Next]_vars PROVE OneWait'
PROOF
<1>0. CallTypes /\ AsioTypes  BY TypeGroups
<1>1. ASSUME NEW p \in Procs, Schedule(p) PROVE OneWait'
  <2>1. timer[p] \in Ids /\ pending[timer[p]] = <<>>
    BY <1>0, <1>1, Pointers DEF Schedule, FlagInv
  <2>2. Len(Append(pending[timer[p]], Len(due) + 1)) = 1  BY <2>1
  <2>3. QED  BY <1>0, <1>1, <2>1, <2>2 DEF Schedule, OneWait, AsioTypes
<1>2. ASSUME \A i \in Ids : pending'[i] = pending[i] \/ pending'[i] = <<>>
      PROVE  OneWait'
  BY <1>2 DEF OneWait
<1>3. ASSUME NEW p \in Procs, Pull(p) \/ Drop(p) PROVE OneWait'
  <2>1. timer[p] \in Ids  BY <1>0, <1>3, Pointers DEF Pull, Drop
  <2>2. QED  BY <1>0, <1>2, <1>3, <2>1 DEF Pull, Drop, Abort, AsioTypes
<1>4. ASSUME NEW i \in Ids, Expire(i) PROVE OneWait'
  BY <1>0, <1>2, <1>4 DEF Expire, AsioTypes
<1>5. ASSUME UNCHANGED pending PROVE OneWait'
  BY <1>5 DEF OneWait
<1>6. QED
  BY <1>1, <1>3, <1>4, <1>5
  DEF Next, NewTimer, Rearm, Cancel, Remove, Forget, Uses, Step, Look, Clear,
      Arm, RunHandler, HandlerReturns, RunReturns, TestState, Start,
      StopThread, StopService, Tick, vars, asioVars

LEMMA SilentStep ==
  ASSUME TypeOK, LockInv, FlagInv, RemovedIsSilent, [Next]_vars
  PROVE  RemovedIsSilent'
PROOF
<1>0. CallTypes /\ AsioTypes  BY TypeGroups
<1> DEFINE Emptier == \A i \in Ids : pending'[i] = pending[i] \/ pending'[i] = <<>>
           Fewer   == \A i \in Ids : Destroyed(i)' => Destroyed(i)
<1>1. ASSUME Emptier, Fewer PROVE RemovedIsSilent'
  BY <1>1 DEF RemovedIsSilent
<1>2. ASSUME NEW p \in Procs, NEW s \in Slots, NEW t \in Times, NewTimer(p, s, t)
      PROVE  RemovedIsSilent'
  <2>1. ASSUME NEW i \in Ids, Destroyed(i)' PROVE Destroyed(i)
    <3>1. i \in 0 .. mCrtTimerId /\ i \notin mTimers' /\ i # mCrtTimerId
      BY <1>0, <1>2, <2>1, BoundsAssumption DEF NewTimer, Destroyed, CallTypes
    <3>2. i \in 0 .. mCrtTimerId - 1 /\ i \notin mTimers
      BY <1>0, <1>2, <3>1, BoundsAssumption DEF NewTimer, CallTypes
    <3>3. \A q \in Procs : timer[q] # i
      BY <1>0, <1>2, <2>1, <3>2 DEF NewTimer, Calls, Destroyed, CallTypes, NoId
    <3>4. QED  BY <3>2, <3>3 DEF Destroyed
  <2>2. Emptier  BY <1>2 DEF NewTimer, asioVars
  <2>3. QED  BY <1>1, <2>1, <2>2
<1>3. ASSUME NEW p \in Procs, NEW s \in Slots, NEW t \in Times,
             Rearm(p, s, t) \/ Cancel(p, s) \/ Remove(p, s)
      PROVE  RemovedIsSilent'
  <2>1. /\ pc[p] = "idle" /\ timer'[p] = timeId[s]
        /\ \A q \in Procs \ {p} : timer'[q] = timer[q]
        /\ UNCHANGED mCrtTimerId
        /\ mTimers \ {timeId[s]} \subseteq mTimers'
    BY <1>0, <1>3 DEF Rearm, Cancel, Remove, Uses, Calls, CallTypes
  <2>2. ASSUME NEW i \in Ids, Destroyed(i)' PROVE Destroyed(i)
    <3>1. timer[p] # i  BY <1>0, <2>1, BoundsAssumption DEF CallTypes, Ids, NoId
    <3>2. QED  BY <2>1, <2>2, <3>1 DEF Destroyed
  <2>3. Emptier  BY <1>3 DEF Rearm, Cancel, Remove, Uses, asioVars
  <2>4. QED  BY <1>1, <2>2, <2>3
<1>4. ASSUME NEW p \in Procs, Look(p) \/ Pull(p) \/ Clear(p) \/ Arm(p)
      PROVE  RemovedIsSilent'
  <2>1. timer[p] \in Ids  BY <1>0, <1>4, Pointers DEF Look, Pull, Clear, Arm
  <2>2. Emptier
    BY <1>0, <1>4, <2>1 DEF Look, Pull, Clear, Arm, Abort, asioVars, AsioTypes
  <2>3. Fewer  BY <1>4 DEF Look, Pull, Clear, Arm, Destroyed
  <2>4. QED  BY <1>1, <2>2, <2>3
<1>5. ASSUME NEW p \in Procs, Schedule(p) PROVE RemovedIsSilent'
  <2>1. timer[p] \in Ids /\ timer[p] \in mTimers'
    BY <1>0, <1>5, Pointers DEF Schedule, LockInv
  <2>2. ASSUME NEW i \in Ids, Destroyed(i)' PROVE pending'[i] = <<>>
    <3>1. i # timer[p]  BY <2>1, <2>2 DEF Destroyed
    <3>2. Destroyed(i)
      BY <1>0, <1>5, <2>2, <3>1 DEF Schedule, Destroyed, CallTypes
    <3>3. pending'[i] = pending[i]
      BY <1>0, <1>5, <2>1, <3>1 DEF Schedule, AsioTypes
    <3>4. QED  BY <3>2, <3>3 DEF RemovedIsSilent
  <2>3. QED  BY <2>2 DEF RemovedIsSilent
<1>6. ASSUME NEW p \in Procs, Drop(p) PROVE RemovedIsSilent'
  <2>1. timer[p] \in Ids /\ pending[timer[p]] = <<>>
    BY <1>0, <1>6, Pointers DEF Drop, FlagInv
  <2>2. Emptier
    BY <1>0, <1>6, <2>1 DEF Drop, Abort, AsioTypes
  <2>3. ASSUME NEW i \in Ids, Destroyed(i)' PROVE pending'[i] = <<>>
    <3>1. CASE i = timer[p]  BY <2>1, <2>2, <3>1
    <3>2. CASE i # timer[p]
      <4>1. Destroyed(i)
        BY <1>0, <1>6, <2>3, <3>2 DEF Drop, Destroyed, CallTypes
      <4>2. QED  BY <2>2, <4>1 DEF RemovedIsSilent
    <3>3. QED  BY <3>1, <3>2
  <2>4. QED  BY <2>3 DEF RemovedIsSilent
<1>7. ASSUME NEW i \in Ids, Expire(i) PROVE RemovedIsSilent'
  <2>1. Emptier  BY <1>0, <1>7 DEF Expire, AsioTypes
  <2>2. Fewer  BY <1>7 DEF Expire, Destroyed, callVars
  <2>3. QED  BY <1>1, <2>1, <2>2
<1>8. ASSUME UNCHANGED <<mTimers, mCrtTimerId, timer, pending>>
      PROVE  RemovedIsSilent'
  BY <1>8 DEF RemovedIsSilent, Destroyed
<1>9. Times # {}  BY BoundsAssumption DEF Times
<1>10. ASSUME NEW p \in Procs, Step(p) PROVE RemovedIsSilent'
  BY <1>10, <1>4, <1>5, <1>6 DEF Step
<1>11. QED
  BY <1>2, <1>3, <1>7, <1>8, <1>9, <1>10
  DEF Next, Forget, RunHandler, HandlerReturns, RunReturns, TestState, Start,
      StopThread, StopService, Tick, vars, callVars, asioVars

LEMMA InvStep == OneUser /\ Inv /\ [Next]_vars => Inv'
BY TypeStep, LockInvStep, OwnInvStep, FlagInvStep, OneWaitStep, SilentStep DEF Inv

LEMMA InvAlways == ASSUME OneUser PROVE Spec => []Inv
PROOF
<1>1. Inv /\ [Next]_vars => Inv'  BY InvStep
<1>2. QED  BY InvInit, <1>1, PTL DEF Spec

(* addTimer() replaces the wait a timer has: no timer ever has two, if no  *)
(* two threads use one time_id.                                            *)
THEOREM ArmingReplaces == ASSUME OneUser PROVE Spec => []OneWait
PROOF
<1>1. Inv => OneWait  BY DEF Inv
<1>2. QED  BY InvAlways, <1>1, PTL

(* When remove() is over and the last pointer to the timer is gone the     *)
(* reactor has no wait of it, so nothing is left that would touch freed    *)
(* memory: this needs that no two threads use one time_id.                 *)
THEOREM RemovedTimersAreSilent == ASSUME OneUser PROVE Spec => []RemovedIsSilent
PROOF
<1>1. Inv => RemovedIsSilent  BY DEF Inv
<1>2. QED  BY InvAlways, <1>1, PTL

(* A cancel() of an asio timer, also the one in expires_at(), leaves no    *)
(* wait behind: the flag it returns early for never misses one.            *)
THEOREM CancelsForce == ASSUME OneUser PROVE Spec => CancelForces
PROOF
<1>1. ASSUME Inv, [Next]_vars, NEW p \in Procs, pc[p] # "drop", pc'[p] = "drop"
      PROVE  pending'[timer[p]] = <<>>
  <2>0. CallTypes /\ AsioTypes  BY <1>1, TypeGroups DEF Inv
  <2>1. Look(p) \/ Clear(p)
    BY <1>1, <2>0
    DEF Next, NewTimer, Rearm, Cancel, Remove, Forget, Uses, Step, Look, Pull,
        Clear, Arm, Schedule, Drop, Expire, RunHandler, HandlerReturns,
        RunReturns, TestState, Start, StopThread, StopService, Tick, vars, callVars, CallTypes
  <2>2. timer[p] \in Ids  BY <2>0, <2>1, Pointers DEF Look, Clear
  <2>3. CASE Look(p)
    BY <1>1, <2>0, <2>2, <2>3
    DEF Look, WorthCancelling, CallTypes, Inv, FlagInv, asioVars
  <2>4. CASE Clear(p)
    BY <1>1, <2>4 DEF Clear, Inv, FlagInv
  <2>5. QED  BY <2>1, <2>3, <2>4
<1>2. Inv /\ [Next]_vars =>
        [\A p \in Procs : pc[p] # "drop" /\ pc'[p] = "drop" =>
                            pending'[timer[p]] = <<>>]_vars
  BY <1>1
<1>3. QED  BY InvAlways, <1>2, PTL DEF Spec, CancelForces

(***************************************************************************)
(* No handler is told too early that its wait is over.                     *)
(***************************************************************************)
(* The heap has the time the one wait of a timer was added with, so a wait *)
(* that has left the reactor is over, or it was aborted.                   *)
DueInv ==
  /\ \A i \in Ids : pending[i] # <<>> => due[pending[i][1]] = heapAt[i]
  /\ \A p \in Procs : pc[p] = "schedule" => expiry[timer[p]] = at[p]
  /\ \A k \in 1 .. Len(ready) : ready[k] \notin aborted => due[ready[k]] <= now

LEMMA AbortDue ==
  ASSUME AsioTypes, DueInv, NEW i \in Ids, Abort(i), UNCHANGED <<due, now>>
  PROVE  \A k \in 1 .. Len(ready') : ready'[k] \notin aborted' => due'[ready'[k]] <= now'
PROOF
<1>1. pending[i] \in Seq(1 .. Len(due)) /\ ready \in Seq(1 .. Len(due))
  BY DEF AsioTypes
<1>2. \A j \in 1 .. Len(pending[i]) : pending[i][j] \in Range(pending[i])
  BY <1>1 DEF Range
<1>3. ready' = ready \o pending[i] /\ aborted' = aborted \cup Range(pending[i])
  BY DEF Abort
<1>4. ASSUME NEW k \in 1 .. Len(ready'), ready'[k] \notin aborted'
      PROVE  k \in 1 .. Len(ready) /\ ready'[k] = ready[k]
  BY <1>1, <1>2, <1>3, <1>4
<1>5. QED  BY <1>3, <1>4 DEF DueInv

LEMMA DueInvStep ==
  ASSUME OneUser, Inv, DueInv, [Next]_vars PROVE DueInv'
PROOF
<1>0. CallTypes /\ AsioTypes /\ IoTypes /\ OneWait  BY TypeGroups DEF Inv
<1>a. \A q \in Procs : pc[q] = "schedule" => timer[q] \in Ids  BY <1>0, Pointers
<1>1. ASSUME NEW p \in Procs, NEW s \in Slots, NEW t \in Times,
             NewTimer(p, s, t) \/ Rearm(p, s, t) \/ Uses(p, s)
      PROVE  DueInv'
  <2>1. \A q \in Procs : pc'[q] = "schedule" =>
          pc[q] = "schedule" /\ timer'[q] = timer[q] /\ at'[q] = at[q]
    BY <1>0, <1>1 DEF NewTimer, Rearm, Uses, CallTypes
  <2>2. UNCHANGED <<asioVars, now>>  BY <1>1 DEF NewTimer, Rearm, Uses
  <2>3. QED  BY <2>1, <2>2 DEF DueInv, asioVars
<1>2. ASSUME NEW p \in Procs, Look(p) \/ Clear(p) PROVE DueInv'
  <2>1. \A q \in Procs : pc'[q] = "schedule" => pc[q] = "schedule"
    BY <1>0, <1>2 DEF Look, Clear, AfterCancel, CallTypes
  <2>2. UNCHANGED <<timer, at, expiry, heapAt, pending, ready, aborted, due, now>>
    BY <1>2 DEF Look, Clear, asioVars
  <2>3. QED  BY <2>1, <2>2 DEF DueInv
<1>3. ASSUME NEW p \in Procs, Pull(p) \/ Drop(p) PROVE DueInv'
  <2>1. timer[p] \in Ids  BY <1>0, <1>3, Pointers DEF Pull, Drop
  <2>2. UNCHANGED <<expiry, heapAt, due, now, at>>  BY <1>3 DEF Pull, Drop
  <2>3. \A i \in Ids : pending'[i] = pending[i] \/ pending'[i] = <<>>
    BY <1>0, <1>3, <2>1 DEF Pull, Drop, Abort, AsioTypes
  <2>4. \A q \in Procs : pc'[q] = "schedule" =>
          pc[q] = "schedule" /\ timer'[q] = timer[q]
    BY <1>0, <1>3 DEF Pull, Drop, CallTypes
  <2>5. \A k \in 1 .. Len(ready') :
          ready'[k] \notin aborted' => due'[ready'[k]] <= now'
    <3>1. CASE Abort(timer[p])  BY <1>0, <2>1, <2>2, <3>1, AbortDue
    <3>2. CASE UNCHANGED <<ready, aborted>>  BY <2>2, <3>2 DEF DueInv
    <3>3. QED  BY <1>3, <3>1, <3>2 DEF Pull, Drop
  <2>6. QED  BY <2>2, <2>3, <2>4, <2>5 DEF DueInv
<1>4. ASSUME NEW p \in Procs, Arm(p) PROVE DueInv'
  <2>1. /\ timer[p] \in Ids
        /\ \A q \in Procs : q # p /\ pc[q] # "idle" => timer[q] # timer[p]
    BY <1>0, <1>4, Pointers, Exclusive DEF Arm, Inv
  <2>2. expiry'[timer[p]] = at[p]
        /\ \A i \in Ids : i # timer[p] => expiry'[i] = expiry[i]
    BY <1>0, <1>4, <2>1 DEF Arm, AsioTypes
  <2>3. \A q \in Procs \ {p} : pc'[q] = pc[q]  BY <1>0, <1>4 DEF Arm, CallTypes
  <2>4. UNCHANGED <<timer, at, heapAt, pending, ready, aborted, due, now>>
    BY <1>4 DEF Arm
  <2>5. QED  BY <1>a, <2>1, <2>2, <2>3, <2>4 DEF DueInv
<1>5. ASSUME NEW p \in Procs, Schedule(p) PROVE DueInv'
  <2> DEFINE i == timer[p]
             w == Len(due) + 1
  <2>1. i \in Ids /\ pending[i] = <<>> /\ expiry[i] = at[p]
    BY <1>0, <1>5, Pointers DEF Schedule, Inv, FlagInv, DueInv
  <2>2. /\ due' = Append(due, at[p]) /\ due \in Seq(Times) /\ Len(due) \in Nat
        /\ at[p] \in Times
    BY <1>0, <1>5 DEF Schedule, AsioTypes, CallTypes
  <2>3. due'[w] = at[p] /\ \A v \in 1 .. Len(due) : due'[v] = due[v]
    BY <2>2
  <2>4. pending'[i] = <<w>> /\ heapAt'[i] = at[p]
    BY <1>0, <1>5, <2>1 DEF Schedule, AsioTypes
  <2>5. \A j \in Ids \ {i} : pending'[j] = pending[j] /\ heapAt'[j] = heapAt[j]
    BY <1>0, <1>5, <2>1 DEF Schedule, AsioTypes
  <2>6. \A j \in Ids : pending[j] # <<>> => pending[j][1] \in 1 .. Len(due)
    BY <1>0 DEF AsioTypes
  <2>7. \A j \in Ids : pending'[j] # <<>> => due'[pending'[j][1]] = heapAt'[j]
    BY <2>3, <2>4, <2>5, <2>6 DEF DueInv
  <2>8. \A q \in Procs : pc'[q] = "schedule" =>
          pc[q] = "schedule" /\ timer'[q] = timer[q]
    BY <1>0, <1>5 DEF Schedule, CallTypes
  <2>9. UNCHANGED <<at, expiry, ready, aborted, now>>  BY <1>5 DEF Schedule
  <2>10. \A k \in 1 .. Len(ready) : ready[k] \in 1 .. Len(due)
    BY <1>0 DEF AsioTypes
  <2>11. QED  BY <2>3, <2>7, <2>8, <2>9, <2>10 DEF DueInv
<1>6. ASSUME NEW i \in Ids, Expire(i) PROVE DueInv'
  <2>0. /\ pending[i] \in Seq(1 .. Len(due)) /\ ready \in Seq(1 .. Len(due))
        /\ pending[i] # <<>> /\ Len(pending[i]) <= 1
    BY <1>0, <1>6 DEF Expire, AsioTypes, OneWait
  <2>1. Len(pending[i]) = 1
    <3>1. Len(pending[i]) \in Nat /\ Len(pending[i]) # 0  BY <2>0, EmptySeq
    <3>2. \A n \in Nat : n # 0 /\ n <= 1 => n = 1  OBVIOUS
    <3>3. Len(pending[i]) <= 1  BY <2>0
    <3>4. QED  BY <3>1, <3>2, <3>3, Zenon
  <2>2. due[pending[i][1]] <= now
    BY <1>6 DEF Expire, Expired, DueInv
  <2>3. ready' = ready \o pending[i] /\ UNCHANGED <<aborted, due, now>>
    BY <1>6 DEF Expire
  <2>4. \A k \in 1 .. Len(ready') :
          \/ k \in 1 .. Len(ready) /\ ready'[k] = ready[k]
          \/ ready'[k] = pending[i][1]
    BY <2>0, <2>1, <2>3
  <2>5. \A k \in 1 .. Len(ready') :
          ready'[k] \notin aborted' => due'[ready'[k]] <= now'
    BY <2>2, <2>3, <2>4 DEF DueInv
  <2>6. \A j \in Ids : pending'[j] = pending[j] \/ pending'[j] = <<>>
    BY <1>0, <1>6 DEF Expire, AsioTypes
  <2>7. QED  BY <1>6, <2>3, <2>5, <2>6 DEF Expire, DueInv, callVars
<1>7. ASSUME RunHandler PROVE DueInv'
  <2>1. ready' = Tail(ready) /\ ready # <<>> /\ ready \in Seq(1 .. Len(due))
    BY <1>0, <1>7 DEF RunHandler, AsioTypes
  <2>2. \A k \in 1 .. Len(ready') :
          k + 1 \in 1 .. Len(ready) /\ ready'[k] = ready[k + 1]
    BY <2>1
  <2>3. QED  BY <1>7, <2>2 DEF RunHandler, DueInv, callVars
<1>8. ASSUME Tick PROVE DueInv'
  <2>1. now' = now + 1 /\ now \in Nat /\ UNCHANGED <<callVars, asioVars>>
    BY <1>0, <1>8, BoundsAssumption DEF Tick, IoTypes, Times
  <2>2. \A k \in 1 .. Len(ready) : due[ready[k]] \in Nat
    BY <1>0, BoundsAssumption DEF AsioTypes, Times
  <2>3. \A k \in 1 .. Len(ready) : due[ready[k]] <= now => due[ready[k]] <= now + 1
    BY <2>1, <2>2
  <2>4. QED  BY <2>1, <2>3 DEF DueInv, callVars, asioVars
<1>9. ASSUME UNCHANGED <<pc, timer, at, asioVars, now>> PROVE DueInv'
  BY <1>9 DEF DueInv, asioVars
<1>10. Times # {}  BY BoundsAssumption DEF Times
<1>11. ASSUME NEW p \in Procs, Step(p) PROVE DueInv'
  BY <1>11, <1>2, <1>3, <1>4, <1>5 DEF Step
<1>12. QED
  BY <1>1, <1>6, <1>7, <1>8, <1>9, <1>10, <1>11
  DEF Next, Cancel, Remove, Forget, HandlerReturns, RunReturns, TestState, Start,
      StopThread, StopService, vars, callVars

LEMMA NeverEarlyStep ==
  ASSUME Inv, DueInv, NeverEarly, [Next]_vars PROVE NeverEarly'
PROOF
<1>0. CallTypes /\ AsioTypes /\ IoTypes  BY TypeGroups DEF Inv
<1>1. ASSUME RunHandler PROVE NeverEarly'
  BY <1>0, <1>1 DEF RunHandler, AsioTypes, DueInv, NeverEarly
<1>2. ASSUME HandlerReturns PROVE NeverEarly'
  BY <1>2 DEF HandlerReturns, NeverEarly
<1>3. ASSUME UNCHANGED running, aborted \subseteq aborted',
             running # 0 => due'[running] = due[running] /\ now <= now'
                            /\ due[running] \in Nat /\ now \in Nat /\ now' \in Nat
      PROVE  NeverEarly'
  BY <1>3 DEF NeverEarly
<1>4. running # 0 => due[running] \in Nat /\ running \in 1 .. Len(due)
  BY <1>0, BoundsAssumption DEF IoTypes, AsioTypes, Times
<1>5. now \in Nat  BY <1>0, BoundsAssumption DEF IoTypes, Times
<1>6. ASSUME NEW p \in Procs, Schedule(p) PROVE NeverEarly'
  <2>1. running # 0 => due'[running] = due[running]
    BY <1>0, <1>4, <1>6 DEF Schedule, AsioTypes, CallTypes
  <2>2. QED  BY <1>3, <1>4, <1>5, <1>6, <2>1 DEF Schedule, ioVars
<1>7. ASSUME Tick PROVE NeverEarly'
  BY <1>3, <1>4, <1>5, <1>7 DEF Tick, ioVars, asioVars
<1>8. ASSUME UNCHANGED <<running, due, now>>, aborted \subseteq aborted'
      PROVE  NeverEarly'
  BY <1>8 DEF NeverEarly
<1>9. ASSUME NEW p \in Procs, Pull(p) \/ Drop(p) PROVE NeverEarly'
  BY <1>8, <1>9 DEF Pull, Drop, Abort, ioVars
<1>10. QED
  BY <1>1, <1>2, <1>6, <1>7, <1>8, <1>9
  DEF Next, NewTimer, Rearm, Cancel, Remove, Forget, Uses, Step, Look, Clear,
      Arm, Expire, RunReturns, TestState, Start, StopThread, StopService,
      vars, asioVars, ioVars

(* No handler hears of success before the time it was added with, if no    *)
(* two threads use one time_id.                                            *)
THEOREM HandlersAreNeverEarly == ASSUME OneUser PROVE Spec => []NeverEarly
PROOF
<1>1. Init => DueInv /\ NeverEarly  BY DEF Init, DueInv, NeverEarly
<1>2. Inv /\ DueInv /\ NeverEarly /\ [Next]_vars => DueInv' /\ NeverEarly'
  BY DueInvStep, NeverEarlyStep
<1>3. QED  BY InvAlways, <1>1, <1>2, PTL DEF Spec

(***************************************************************************)
(* The life of the manager.                                                *)
(***************************************************************************)
(* stop() ends the thread before it stops the service; once run() has      *)
(* returned the thread only tests its state, and ends.                     *)
LifeInv ==
  /\ starts = 0 => ~active /\ ~ioRuns
  /\ stopped => starts > 0 /\ ~active
  /\ errors > 0 => stopped /\ (testing \/ ~ioRuns)
  /\ errors <= 1

(* In a manager that is started once run() returns once for its stop().    *)
THEOREM StartedOnceRunsWhileActive ==
  ASSUME MaxStarts <= 1 PROVE Spec => []RunsWhileActive
PROOF
<1>1. Init => LifeInv
  BY DEF Init, LifeInv
<1>2. TypeOK /\ LifeInv /\ [Next]_vars => LifeInv'
  <2> SUFFICES ASSUME TypeOK, LifeInv, [Next]_vars PROVE LifeInv'
    OBVIOUS
  <2>1. starts \in Nat /\ errors \in Nat  BY BoundsAssumption DEF TypeOK, MaxErrors
  <2>2. CASE Start
    <3>1. starts = 0 /\ starts' = 1  BY <2>1, <2>2, BoundsAssumption DEF Start
    <3>2. ~stopped /\ errors = 0  BY <2>1, <3>1 DEF LifeInv
    <3>3. QED  BY <2>1, <2>2, <3>1, <3>2 DEF Start, LifeInv
  <2>3. CASE StopThread \/ StopService
    BY <2>1, <2>3 DEF StopThread, StopService, MayStop, LifeInv
  <2>4. CASE RunReturns
    <3>1. errors = 0  BY <2>1, <2>4 DEF RunReturns, LifeInv
    <3>2. errors' <= 1 /\ errors' \in Nat  BY <2>4, <3>1 DEF RunReturns
    <3>3. QED  BY <2>4, <3>2 DEF RunReturns, LifeInv
  <2>5. CASE TestState
    <3>1. starts' = 0 => ~active' /\ ~ioRuns'
      BY <2>5, Zenon DEF TestState, LifeInv
    <3>2. errors' > 0 => stopped' /\ ~ioRuns'
      BY <2>5 DEF TestState, LifeInv
    <3>3. QED  BY <2>5, <3>1, <3>2 DEF TestState, LifeInv
  <2>6. CASE UNCHANGED lifeVars
    BY <2>6 DEF lifeVars, LifeInv
  <2>7. QED
    BY <2>2, <2>3, <2>4, <2>5, <2>6
    DEF Next, NewTimer, Rearm, Cancel, Remove, Forget, Uses, Step, Look, Pull,
        Clear, Arm, Schedule, Drop, Expire, RunHandler, HandlerReturns, Tick, vars
<1>3. TypeOK /\ LifeInv => RunsWhileActive
  <2> SUFFICES ASSUME TypeOK, LifeInv PROVE RunsWhileActive
    OBVIOUS
  <2>1. starts \in Nat /\ errors \in Nat  BY BoundsAssumption DEF TypeOK, MaxErrors
  <2>2. CASE errors = 0
    <3>1. active => starts >= 1  BY <2>1 DEF LifeInv
    <3>2. QED  BY <2>1, <2>2, <3>1 DEF RunsWhileActive, Stops
  <2>3. CASE errors = 1
    BY <2>1, <2>3 DEF LifeInv, RunsWhileActive, Stops
  <2>4. QED  BY <2>1, <2>2, <2>3 DEF LifeInv
<1>4. QED  BY TypeCorrect, <1>1, <1>2, <1>3, PTL DEF Spec

(***************************************************************************)
(* A wait is in one place: with a timer, ready, in its handler or handled. *)
(***************************************************************************)
In(s)       == {s[k] : k \in 1 .. Len(s)}
Distinct(s) == \A k, l \in 1 .. Len(s) : s[k] = s[l] => k = l

OncePlaced ==
  /\ \A i \in Ids : Distinct(pending[i])
  /\ Distinct(ready)
  /\ \A i, j \in Ids : i # j => In(pending[i]) \cap In(pending[j]) = {}
  /\ \A i \in Ids : In(pending[i]) \cap (In(ready) \cup handled \cup {running}) = {}
  /\ In(ready) \cap (handled \cup {running}) = {}
  /\ running \notin handled
  /\ \A w \in 1 .. Len(due) :
       \/ w \in In(ready) \cup handled \cup {running}
       \/ \E i \in Ids : w \in In(pending[i])

LEMMA ConcatIn ==
  ASSUME NEW S, NEW s \in Seq(S), NEW t \in Seq(S)
  PROVE  /\ In(s \o t) = In(s) \cup In(t)
         /\ Distinct(s) /\ Distinct(t) /\ In(s) \cap In(t) = {} => Distinct(s \o t)
PROOF
<1>1. /\ Len(s) \in Nat /\ Len(t) \in Nat
      /\ Len(s \o t) = Len(s) + Len(t)
      /\ \A k \in 1 .. Len(s) + Len(t) :
           (s \o t)[k] = IF k <= Len(s) THEN s[k] ELSE t[k - Len(s)]
  BY ConcatProperties
<1> DEFINE st == s \o t
           m == Len(s)
           n == Len(t)
<1>2. /\ m \in Nat /\ n \in Nat /\ Len(st) = m + n
      /\ \A k \in 1 .. m : k \in 1 .. m + n /\ st[k] = s[k]
      /\ \A k \in 1 .. n : m + k \in 1 .. m + n /\ st[m + k] = t[k]
      /\ \A k \in 1 .. m + n : k \in 1 .. m \/ k - m \in 1 .. n
      /\ \A k \in 1 .. m + n : st[k] = IF k <= m THEN s[k] ELSE t[k - m]
  <2>1. /\ m \in Nat /\ n \in Nat /\ Len(st) = m + n
        /\ \A k \in 1 .. m + n : st[k] = IF k <= m THEN s[k] ELSE t[k - m]
    BY <1>1
  <2> HIDE DEF m, n, st
  <2>2. \A k \in 1 .. m : k \in 1 .. m + n /\ st[k] = s[k]
    BY <2>1
  <2>3. \A k \in 1 .. n : m + k \in 1 .. m + n /\ st[m + k] = t[k]
    <3>1. ASSUME NEW k \in 1 .. n PROVE m + k \in 1 .. m + n /\ st[m + k] = t[k]
      <4>1. m + k \in 1 .. m + n /\ ~(m + k <= m) /\ (m + k) - m = k
        BY <2>1
      <4>2. QED  BY <2>1, <4>1
    <3>2. QED  BY <3>1
  <2>4. \A k \in 1 .. m + n : k \in 1 .. m \/ k - m \in 1 .. n
    BY <2>1
  <2>5. QED  BY <2>1, <2>2, <2>3, <2>4
<1>3. In(st) = In(s) \cup In(t)
  <2> HIDE DEF st
  <2>1. ASSUME NEW x \in In(st) PROVE x \in In(s) \cup In(t)
    <3>1. PICK k \in 1 .. m + n : x = st[k]  BY <1>2 DEF In
    <3>2. CASE k \in 1 .. m
      BY <1>2, <3>1, <3>2 DEF In
    <3>3. CASE k - m \in 1 .. n
      BY <1>2, <3>1, <3>3 DEF In
    <3>4. QED  BY <1>2, <3>2, <3>3
  <2>2. In(s) \subseteq In(st) /\ In(t) \subseteq In(st)
    <3>1. In(s) \subseteq In(st)  BY <1>2 DEF In
    <3>2. ASSUME NEW k \in 1 .. n PROVE t[k] \in In(st)
      <4>1. m + k \in 1 .. Len(st) /\ st[m + k] = t[k]  BY <1>2
      <4> HIDE DEF m, n
      <4>2. QED  BY <4>1 DEF In
    <3>3. QED  BY <3>1, <3>2 DEF In
  <2>3. QED  BY <2>1, <2>2
<1>4. ASSUME Distinct(s), Distinct(t), In(s) \cap In(t) = {},
             NEW k \in 1 .. Len(st), NEW l \in 1 .. Len(st), st[k] = st[l]
      PROVE  k = l
  <2> HIDE DEF st
  <2>1. ASSUME NEW i \in 1 .. m, NEW j \in 1 .. n PROVE s[i] # t[j]
    BY <1>4 DEF In
  <2>2. k \in 1 .. m + n /\ l \in 1 .. m + n
    BY <1>2, <1>4
  <2>3. CASE k \in 1 .. m /\ l \in 1 .. m
    BY <1>2, <1>4, <2>3 DEF Distinct
  <2>4. CASE k - m \in 1 .. n /\ l - m \in 1 .. n
    <3>1. t[k - m] = t[l - m]
      BY <1>2, <1>4, <2>2, <2>4
    <3>2. k - m = l - m
      BY <1>4, <2>4, <3>1 DEF Distinct
    <3>3. QED  BY <1>2, <2>2, <3>2
  <2>5. CASE k \in 1 .. m /\ l - m \in 1 .. n
    BY <1>2, <1>4, <2>1, <2>2, <2>5
  <2>6. CASE k - m \in 1 .. n /\ l \in 1 .. m
    BY <1>2, <1>4, <2>1, <2>2, <2>6
  <2>7. QED  BY <1>2, <2>2, <2>3, <2>4, <2>5, <2>6
<1>5. QED  BY <1>3, <1>4 DEF Distinct

LEMMA TailIn ==
  ASSUME NEW S, NEW s \in Seq(S), s # <<>>, Distinct(s)
  PROVE  /\ Head(s) \in In(s) /\ In(Tail(s)) = In(s) \ {Head(s)}
         /\ Distinct(Tail(s))
PROOF
<1>1. /\ Len(s) \in Nat \ {0} /\ Head(s) = s[1] /\ Len(Tail(s)) = Len(s) - 1
      /\ \A k \in 1 .. Len(Tail(s)) : Tail(s)[k] = s[k + 1]
  BY EmptySeq, HeadTailProperties
<1> DEFINE n == Len(s) - 1
           t == Tail(s)
<1>2. /\ n \in Nat /\ Len(s) = n + 1 /\ Len(t) = n /\ 1 \in 1 .. n + 1
      /\ \A k \in 1 .. n : t[k] = s[k + 1] /\ k + 1 \in 1 .. n + 1 /\ k + 1 # 1
      /\ \A k \in 1 .. n + 1 : k # 1 => k - 1 \in 1 .. n /\ (k - 1) + 1 = k
  <2>1. n \in Nat /\ Len(s) = n + 1 /\ Len(t) = n
    BY <1>1
  <2>2. \A k \in 1 .. n : t[k] = s[k + 1]
    BY <1>1, <2>1
  <2> HIDE DEF n, t
  <2>3. QED  BY <2>1, <2>2
<1> HIDE DEF n, t
<1>3. Head(s) \in In(s)
  BY <1>1, <1>2 DEF In
<1>4. Distinct(t)
  BY <1>2 DEF Distinct
<1>5. In(t) \subseteq In(s) \ {Head(s)}
  <2>1. ASSUME NEW k \in 1 .. n PROVE t[k] \in In(s) /\ t[k] # s[1]
    BY <1>2 DEF In, Distinct
  <2>2. QED  BY <1>1, <1>2, <2>1 DEF In
<1>6. In(s) \ {Head(s)} \subseteq In(t)
  <2>1. ASSUME NEW k \in 1 .. n + 1, s[k] # s[1] PROVE s[k] \in In(t)
    <3>1. k - 1 \in 1 .. n /\ t[k - 1] = s[k]
      BY <1>2, <2>1
    <3>2. QED  BY <1>2, <3>1 DEF In
  <2>2. QED  BY <1>1, <1>2, <2>1 DEF In
<1>7. QED  BY <1>3, <1>4, <1>5, <1>6 DEF t

LEMMA AppendIn ==
  ASSUME NEW S, NEW s \in Seq(S), NEW x, Distinct(s), x \notin In(s)
  PROVE  In(Append(s, x)) = In(s) \cup {x} /\ Distinct(Append(s, x))
PROOF
<1> DEFINE n == Len(s)
           t == Append(s, x)
<1>1. /\ n \in Nat /\ Len(t) = n + 1 /\ t[n + 1] = x
      /\ \A k \in 1 .. n : t[k] = s[k] /\ k \in 1 .. n + 1 /\ k # n + 1
      /\ \A k \in 1 .. n + 1 : k = n + 1 \/ k \in 1 .. n
      /\ n + 1 \in 1 .. n + 1
  <2>1. n \in Nat  OBVIOUS
  <2>2. Len(t) = n + 1 /\ t[n + 1] = x /\ \A k \in 1 .. n : t[k] = s[k]
    OBVIOUS
  <2> HIDE DEF n, t
  <2>3. QED  BY <2>1, <2>2
<1>2. \A k \in 1 .. n : s[k] \in In(s)
  BY DEF In
<1> HIDE DEF n, t
<1>3. In(t) = In(s) \cup {x}
  BY <1>1 DEF In, n
<1>4. Distinct(t)
  BY <1>1, <1>2 DEF Distinct, n
<1>5. QED  BY <1>3, <1>4 DEF t

(* The waits of a timer go to the io_service, all at once.                 *)
LEMMA PlacedByTransfer ==
  ASSUME AsioTypes, IoTypes, OncePlaced, NEW i \in Ids,
         pending' = [pending EXCEPT ![i] = <<>>], ready' = ready \o pending[i],
         UNCHANGED <<due, ioVars>>
  PROVE  OncePlaced'
PROOF
<1> DEFINE W == 1 .. Len(due)
<1>1. ready \in Seq(W) /\ \A j \in Ids : pending[j] \in Seq(W)
  BY DEF AsioTypes
<1>2. /\ \A j \in Ids : Distinct(pending[j])
      /\ Distinct(ready)
      /\ \A j, k \in Ids : j # k => In(pending[j]) \cap In(pending[k]) = {}
      /\ \A j \in Ids : In(pending[j]) \cap (In(ready) \cup handled \cup {running}) = {}
      /\ In(ready) \cap (handled \cup {running}) = {}
      /\ running \notin handled
      /\ \A w \in W : \/ w \in In(ready) \cup handled \cup {running}
                      \/ \E j \in Ids : w \in In(pending[j])
  BY DEF OncePlaced
<1>3. In(ready') = In(ready) \cup In(pending[i]) /\ Distinct(ready')
  <2>1. In(ready) \cap In(pending[i]) = {}
    BY <1>2
  <2>2. QED  BY <1>1, <1>2, <2>1, ConcatIn
<1>4. /\ pending'[i] = <<>> /\ In(pending'[i]) = {} /\ Distinct(pending'[i])
      /\ \A j \in Ids \ {i} : pending'[j] = pending[j]
  BY DEF AsioTypes, In, Distinct
<1>5. UNCHANGED <<running, handled, due>>
  BY DEF ioVars
<1> HIDE DEF W
<1>6. \A j \in Ids : Distinct(pending'[j])
  BY <1>2, <1>4
<1>7. \A j, k \in Ids : j # k => In(pending'[j]) \cap In(pending'[k]) = {}
  BY <1>2, <1>4
<1>8. \A j \in Ids : In(pending'[j]) \cap (In(ready') \cup handled \cup {running}) = {}
  BY <1>2, <1>3, <1>4
<1>9. In(ready') \cap (handled \cup {running}) = {}
  BY <1>2, <1>3
<1>10. \A w \in W : \/ w \in In(ready') \cup handled \cup {running}
                    \/ \E j \in Ids : w \in In(pending'[j])
  BY <1>2, <1>3, <1>4
<1>11. QED
  BY <1>2, <1>3, <1>5, <1>6, <1>7, <1>8, <1>9, <1>10 DEF OncePlaced, W

LEMMA PlacedBySchedule ==
  ASSUME CallTypes, AsioTypes, IoTypes, OncePlaced, NEW p \in Procs, Schedule(p)
  PROVE  OncePlaced'
PROOF
<1> DEFINE i == timer[p]
           n == Len(due)
           w == n + 1
<1>1. /\ i \in Ids /\ n \in Nat /\ Len(due') = w
      /\ pending' = [pending EXCEPT ![i] = Append(@, w)]
      /\ UNCHANGED <<ready, running, handled>>
  <2>1. pc[p] # "idle"  BY DEF Schedule
  <2>2. i \in Ids  BY <2>1, Pointers
  <2>3. at[p] \in Times /\ due \in Seq(Times)  BY DEF CallTypes, AsioTypes
  <2>4. QED  BY <2>2, <2>3 DEF Schedule, ioVars
<1>2. /\ ready \in Seq(1 .. n) /\ handled \subseteq 1 .. n /\ running \in 0 .. n
      /\ \A j \in Ids : pending[j] \in Seq(1 .. n)
  BY DEF AsioTypes, IoTypes
<1>3. /\ w \notin In(ready) /\ w \notin handled /\ w # running
      /\ \A j \in Ids : w \notin In(pending[j])
  <2>1. \A s \in Seq(1 .. n) : In(s) \subseteq 1 .. n
    BY DEF In
  <2>2. w \notin 0 .. n /\ w \notin 1 .. n
    BY <1>1
  <2>3. QED  BY <1>2, <2>1, <2>2
<1>4. /\ \A j \in Ids : Distinct(pending[j])
      /\ Distinct(ready)
      /\ \A j, k \in Ids : j # k => In(pending[j]) \cap In(pending[k]) = {}
      /\ \A j \in Ids : In(pending[j]) \cap (In(ready) \cup handled \cup {running}) = {}
      /\ In(ready) \cap (handled \cup {running}) = {}
      /\ running \notin handled
      /\ \A v \in 1 .. n : \/ v \in In(ready) \cup handled \cup {running}
                           \/ \E j \in Ids : v \in In(pending[j])
  BY DEF OncePlaced
<1>5. /\ In(pending'[i]) = In(pending[i]) \cup {w} /\ Distinct(pending'[i])
      /\ \A j \in Ids \ {i} : pending'[j] = pending[j]
  <2>1. /\ pending'[i] = Append(pending[i], w)
        /\ \A j \in Ids \ {i} : pending'[j] = pending[j]
    BY <1>1 DEF AsioTypes
  <2>2. In(Append(pending[i], w)) = In(pending[i]) \cup {w}
        /\ Distinct(Append(pending[i], w))
    BY <1>1, <1>2, <1>3, <1>4, AppendIn
  <2>3. QED  BY <2>1, <2>2
<1>6. \A v \in 1 .. w : v = w \/ v \in 1 .. n
  BY <1>1
<1> HIDE DEF i, n, w
<1>7. \A j \in Ids : Distinct(pending'[j])
  BY <1>4, <1>5
<1>8. \A j, k \in Ids : j # k => In(pending'[j]) \cap In(pending'[k]) = {}
  BY <1>3, <1>4, <1>5
<1>9. \A j \in Ids : In(pending'[j]) \cap (In(ready) \cup handled \cup {running}) = {}
  BY <1>3, <1>4, <1>5
<1>10. \A v \in 1 .. w : \/ v \in In(ready) \cup handled \cup {running}
                         \/ \E j \in Ids : v \in In(pending'[j])
  BY <1>1, <1>4, <1>5, <1>6
<1>11. QED
  BY <1>1, <1>4, <1>7, <1>8, <1>9, <1>10 DEF OncePlaced

LEMMA PlacedByRun ==
  ASSUME AsioTypes, IoTypes, OncePlaced, RunHandler
  PROVE  OncePlaced'
PROOF
<1>1. /\ ready # <<>> /\ running' = Head(ready) /\ ready' = Tail(ready) /\ running = 0
      /\ UNCHANGED <<pending, handled, due>>
  BY DEF RunHandler, Dispatches
<1>2. ready \in Seq(1 .. Len(due)) /\ Distinct(ready)
  BY DEF AsioTypes, OncePlaced
<1>3. /\ running' \in In(ready) /\ In(ready') = In(ready) \ {running'} /\ Distinct(ready')
  BY <1>1, <1>2, TailIn
<1>4. /\ running' \notin handled
      /\ \A i \in Ids : In(pending[i]) \cap (In(ready') \cup handled \cup {running'}) = {}
      /\ In(ready') \cap (handled \cup {running'}) = {}
  BY <1>3 DEF OncePlaced
<1>5. ASSUME NEW w \in 1 .. Len(due)
      PROVE  \/ w \in In(ready') \cup handled \cup {running'}
             \/ \E i \in Ids : w \in In(pending[i])
  <2>1. w # running
    BY <1>1
  <2>2. w \in In(ready) \cup handled \/ \E i \in Ids : w \in In(pending[i])
    BY <2>1 DEF OncePlaced
  <2>3. QED  BY <1>3, <2>2
<1>6. QED
  BY <1>1, <1>3, <1>4, <1>5 DEF OncePlaced

LEMMA PlacedByReturn ==
  ASSUME AsioTypes, IoTypes, OncePlaced, HandlerReturns
  PROVE  OncePlaced'
PROOF
<1>1. /\ running # 0 /\ handled' = handled \cup {running} /\ running' = 0
      /\ UNCHANGED <<pending, ready, due>>
  BY DEF HandlerReturns, asioVars
<1>2. /\ 0 \notin In(ready) /\ 0 \notin handled' /\ \A i \in Ids : 0 \notin In(pending[i])
  <2>1. \A s \in Seq(1 .. Len(due)) : In(s) \subseteq 1 .. Len(due)
    BY DEF In
  <2>2. 0 \notin 1 .. Len(due)
    BY DEF AsioTypes
  <2>3. QED  BY <1>1, <2>1, <2>2 DEF AsioTypes, IoTypes
<1>3. QED
  BY <1>1, <1>2 DEF OncePlaced

LEMMA OncePlacedStep ==
  TypeOK /\ OncePlaced /\ [Next]_vars => OncePlaced'
PROOF
<1> SUFFICES ASSUME TypeOK, OncePlaced, [Next]_vars PROVE OncePlaced'  OBVIOUS
<1>0. CallTypes /\ AsioTypes /\ IoTypes  BY TypeGroups
<1>1. ASSUME UNCHANGED <<pending, ready, due, running, handled>> PROVE OncePlaced'
  BY <1>1 DEF OncePlaced
<1>2. ASSUME NEW p \in Procs, Pull(p) \/ Drop(p) PROVE OncePlaced'
  <2>1. timer[p] \in Ids /\ UNCHANGED <<due, ioVars>>
    BY <1>0, <1>2, Pointers DEF Pull, Drop
  <2>2. CASE Abort(timer[p])
    BY <1>0, <2>1, <2>2, PlacedByTransfer DEF Abort
  <2>3. CASE UNCHANGED <<pending, ready, aborted>>
    BY <1>1, <2>1, <2>3 DEF ioVars
  <2>4. QED  BY <1>2, <2>2, <2>3 DEF Pull, Drop
<1>3. ASSUME NEW i \in Ids, Expire(i) PROVE OncePlaced'
  BY <1>0, <1>3, PlacedByTransfer DEF Expire
<1>4. ASSUME NEW p \in Procs, Step(p) PROVE OncePlaced'
  BY <1>0, <1>1, <1>2, <1>4, PlacedBySchedule
  DEF Step, Look, Clear, Arm, asioVars, ioVars
<1>5. QED
  BY <1>0, <1>1, <1>3, <1>4, PlacedByRun, PlacedByReturn
  DEF Next, NewTimer, Rearm, Cancel, Remove, Forget, Uses, RunReturns, TestState, Start,
      StopThread, StopService, Tick, vars, asioVars, ioVars

LEMMA CountIn ==
  ASSUME NEW S, NEW s \in Seq(S), Distinct(s), NEW w
  PROVE  Count(s, w) = IF w \in In(s) THEN 1 ELSE 0
PROOF
<1> DEFINE K == {k \in DOMAIN s : s[k] = w}
<1>1. DOMAIN s = 1 .. Len(s)  BY LenProperties
<1>2. CASE w \in In(s)
  <2>1. PICK k \in 1 .. Len(s) : s[k] = w  BY <1>2 DEF In
  <2>2. K = {k}  BY <1>1, <2>1 DEF Distinct
  <2>3. QED  BY <1>2, <2>2, FS_Singleton DEF Count
<1>3. CASE w \notin In(s)
  <2>1. K = {}  BY <1>1, <1>3 DEF In
  <2>2. QED  BY <1>3, <2>1, FS_EmptySet DEF Count
<1>4. QED  BY <1>2, <1>3

LEMMA PlacedInit == Init => OncePlaced
PROOF
<1> SUFFICES ASSUME Init PROVE OncePlaced  OBVIOUS
<1>1. /\ \A i \in Ids : pending[i] = <<>>
      /\ ready = <<>> /\ due = <<>> /\ running = 0 /\ handled = {}
  BY DEF Init
<1>2. In(<<>>) = {} /\ Distinct(<<>>)  BY DEF In, Distinct
<1>3. QED  BY <1>1, <1>2 DEF OncePlaced

LEMMA PlacedIs == TypeOK /\ OncePlaced => HandledOnce
PROOF
<1>0. SUFFICES ASSUME TypeOK, OncePlaced PROVE HandledOnce
  OBVIOUS
<1> SUFFICES ASSUME NEW w \in 1 .. Len(due)
             PROVE  LET waiting == {i \in Ids : Count(pending[i], w) > 0} IN
                    /\ \A i \in waiting : Count(pending[i], w) = 1
                    /\ Cardinality(waiting) + Count(ready, w)
                         + (IF running = w THEN 1 ELSE 0)
                         + (IF w \in handled THEN 1 ELSE 0) = 1
  BY DEF HandledOnce
<1> DEFINE waiting == {i \in Ids : Count(pending[i], w) > 0}
<1>1. AsioTypes /\ IoTypes  BY <1>0, TypeGroups
<1>2. \A i \in Ids : Count(pending[i], w) = IF w \in In(pending[i]) THEN 1 ELSE 0
  BY <1>0, <1>1, CountIn DEF AsioTypes, OncePlaced
<1>3. Count(ready, w) = IF w \in In(ready) THEN 1 ELSE 0
  BY <1>0, <1>1, CountIn DEF AsioTypes, OncePlaced
<1>4. waiting = {i \in Ids : w \in In(pending[i])}
  BY <1>2
<1>5. Cardinality(waiting) = IF \E i \in Ids : w \in In(pending[i]) THEN 1 ELSE 0
  <2>1. CASE \E i \in Ids : w \in In(pending[i])
    <3>1. PICK i \in Ids : w \in In(pending[i])  BY <2>1
    <3>2. \A j \in Ids : w \in In(pending[j]) => j = i
      BY <1>0, <3>1 DEF OncePlaced
    <3>3. waiting = {i}  BY <1>4, <3>1, <3>2
    <3>4. QED  BY <2>1, <3>3, FS_Singleton
  <2>2. CASE ~\E i \in Ids : w \in In(pending[i])
    <3>1. waiting = {}  BY <1>4, <2>2
    <3>2. QED  BY <2>2, <3>1, FS_EmptySet
  <2>3. QED  BY <2>1, <2>2
<1>6. /\ (\E i \in Ids : w \in In(pending[i])) =>
           w \notin In(ready) /\ w # running /\ w \notin handled
      /\ w \in In(ready) => w # running /\ w \notin handled
      /\ w = running => w \notin handled
      /\ \/ \E i \in Ids : w \in In(pending[i])
         \/ w \in In(ready) \/ w = running \/ w \in handled
  BY <1>0 DEF OncePlaced
<1>7. \A i \in waiting : Count(pending[i], w) = 1
  BY <1>2, <1>4
<1> HIDE DEF waiting
<1>8. Cardinality(waiting) + Count(ready, w) + (IF running = w THEN 1 ELSE 0)
        + (IF w \in handled THEN 1 ELSE 0) = 1
  BY <1>3, <1>5, <1>6
<1>9. QED  BY <1>7, <1>8 DEF waiting

(* Every wait is in one place, whatever calls race for its timer: it is    *)
(* handled once and no more, and none is lost (cancel_timer,               *)
(* get_ready_timers, do_run_one), also when threads share a time_id.       *)
THEOREM WaitsAreHandledOnce == Spec => []HandledOnce
BY TypeCorrect, PlacedInit, OncePlacedStep, PlacedIs, PTL DEF Spec

(***************************************************************************)
(* The manager with its alarms.                                            *)
(***************************************************************************)
(* A thread that an alarm or mLock keeps is between two calls.  Who holds  *)
(* mLock is in addTimer() or in an alarm, and nobody else arms a timer.    *)
HeldInv ==
  /\ in \in [Procs -> {"free", "lock", "alarm", "asleep"}]
  /\ \A p \in Procs : in[p] # "free" => pc[p] = "idle"
  /\ \A p \in Procs : mLock = p => pc[p] # "idle" \/ p \in Alarming
  /\ \A p \in Procs : pc[p] \in {"arm", "schedule"} => mLock = p
  /\ \A p \in Procs : pc[p] = "drop" => mLock # p
  /\ running = 0 => pc[IoThread] = "idle"

LEMMA HeldInit == AlarmInit => HeldInv
BY ProcsAssumption DEF AlarmInit, Init, HeldInv, Procs

(* What alarms do by themselves.                                           *)
Alarms(p) == Wait(p) \/ Misuse(p) \/ AlarmReturns(p) \/ AlarmSleeps(p)

LEMMA AlarmsKeep ==
  ASSUME CallTypes, HeldInv, NEW p \in Procs, Alarms(p)
  PROVE  /\ UNCHANGED <<mTimers, mCrtTimerId, timeId, pc, timer, at,
                        asioVars, ioVars, now, lifeVars>>
         /\ mLock' \in Procs \cup {Nobody}
         /\ HeldInv'
         /\ LockWithin' = LockWithin
PROOF
<1>1. UNCHANGED <<mTimers, mCrtTimerId, timeId, pc, timer, at,
                  asioVars, ioVars, now, lifeVars>>
  BY DEF Alarms, Wait, Misuse, AlarmReturns, AlarmSleeps, vars, callVars
<1>2. CASE Wait(p) \/ AlarmSleeps(p)
  BY <1>1, <1>2, ProcsAssumption
  DEF Wait, AlarmSleeps, Becomes, HeldInv, LockWithin, Alarming, CallTypes, ioVars,
      vars, callVars
<1>3. CASE Misuse(p)
  BY <1>1, <1>3, ProcsAssumption
  DEF Misuse, Becomes, Calls, HeldInv, LockWithin, Alarming, CallTypes, ioVars
<1>4. CASE AlarmReturns(p)
  BY <1>1, <1>4, ProcsAssumption
  DEF AlarmReturns, Unlocked, Becomes, HeldInv, LockWithin, Alarming, CallTypes,
      ioVars
<1>5. QED  BY <1>1, <1>2, <1>3, <1>4 DEF Alarms

(* Every other step of AlarmNext is one of TimerMgr.                       *)
LEMMA CallsWithin ==
  ASSUME TypeOK, HeldInv, NEW p \in Procs, Call(p)
  PROVE  Next /\ HeldInv' /\ Manager!Next
PROOF
<1>0. CallTypes  BY TypeGroups
<1>1. in[p] = "lock" /\ in' = [in EXCEPT ![p] = "free"]
  BY DEF Call, Becomes
<1>2. PICK s \in Slots :
        \/ \E t \in Times : NewTimer(p, s, t) \/ Rearm(p, s, t)
        \/ Cancel(p, s) \/ Remove(p, s)
  BY DEF Call
<1>3. Next
  BY <1>2 DEF Next
<1>4. /\ mLock = Nobody /\ mLock' \in {Nobody, p} /\ pc' = [pc EXCEPT ![p] = "look"]
      /\ LockWithin = Nobody
  BY <1>2, ProcsAssumption
  DEF NewTimer, Rearm, Cancel, Remove, Uses, Calls, LockWithin, Alarming
<1>5. Alarming' = Alarming /\ p \notin Alarming
  BY <1>1 DEF Alarming, HeldInv
<1>6. LockWithin' = mLock'
  BY <1>4, <1>5, ProcsAssumption DEF LockWithin, Alarming
<1>7. HeldInv'
  BY <1>0, <1>1, <1>2, <1>4, <1>5, ProcsAssumption
  DEF HeldInv, CallTypes, NewTimer, Rearm, Cancel, Remove, Uses, Calls, ioVars
<1>8. ASSUME NEW t \in Times, NewTimer(p, s, t)
      PROVE  Manager!NewTimer(p, s, t)
  BY <1>4, <1>6, <1>8
  DEF NewTimer, Manager!NewTimer, Calls, Manager!Calls, asioVars, Manager!asioVars,
      ioVars, Manager!ioVars, lifeVars, Manager!lifeVars, NoId, Manager!NoId
<1>9. ASSUME NEW t \in Times, Rearm(p, s, t)
      PROVE  Manager!Rearm(p, s, t)
  BY <1>4, <1>6, <1>9
  DEF Rearm, Manager!Rearm, Calls, Manager!Calls, asioVars, Manager!asioVars,
      ioVars, Manager!ioVars, lifeVars, Manager!lifeVars
<1>10. ASSUME Cancel(p, s) \/ Remove(p, s)
       PROVE  Manager!Cancel(p, s) \/ Manager!Remove(p, s)
  BY <1>4, <1>6, <1>10
  DEF Cancel, Remove, Uses, Manager!Cancel, Manager!Remove, Manager!Uses,
      Calls, Manager!Calls, asioVars, Manager!asioVars,
      ioVars, Manager!ioVars, lifeVars, Manager!lifeVars
<1>11. Manager!Next
  BY <1>2, <1>8, <1>9, <1>10
  DEF Manager!Next, Manager!Procs, Procs, Manager!Times, Times
<1>12. QED  BY <1>3, <1>7, <1>11

LEMMA StepsWithin ==
  ASSUME TypeOK, HeldInv, NEW p \in Procs, Step(p), UNCHANGED in
  PROVE  HeldInv' /\ Manager!Step(p)
PROOF
<1>0. CallTypes  BY TypeGroups
<1>1. pc[p] # "idle" /\ p \notin Alarming /\ Alarming' = Alarming
  BY DEF Step, Look, Pull, Clear, Arm, Schedule, Drop, HeldInv, Alarming
<1>2. LockWithin = p <=> mLock = p
  BY <1>1, ProcsAssumption DEF LockWithin, Alarming
<1>3. AfterCancel(p) = Manager!AfterCancel(p)
  BY <1>2 DEF AfterCancel, Manager!AfterCancel
<1>4. mLock' = mLock => LockWithin' = LockWithin
  BY <1>1 DEF LockWithin
<1>5. CASE Look(p)
  <2>1. HeldInv'
    BY <1>0, <1>1, <1>5 DEF Look, AfterCancel, HeldInv, CallTypes, ioVars
  <2>2. Manager!Look(p)
    BY <1>3, <1>4, <1>5
    DEF Look, Manager!Look, WorthCancelling, Manager!WorthCancelling, asioVars,
        Manager!asioVars, ioVars, Manager!ioVars, lifeVars, Manager!lifeVars
  <2>3. QED  BY <2>1, <2>2 DEF Manager!Step
<1>6. CASE Pull(p)
  <2>1. HeldInv'
    BY <1>0, <1>1, <1>6 DEF Pull, HeldInv, CallTypes, ioVars
  <2>2. Manager!Pull(p)
    BY <1>4, <1>6
    DEF Pull, Manager!Pull, Abort, Manager!Abort, Range, Manager!Range,
        ioVars, Manager!ioVars, lifeVars, Manager!lifeVars
  <2>3. QED  BY <2>1, <2>2 DEF Manager!Step
<1>7. CASE Clear(p)
  <2>1. HeldInv'
    BY <1>0, <1>1, <1>7 DEF Clear, AfterCancel, HeldInv, CallTypes, ioVars
  <2>2. Manager!Clear(p)
    BY <1>3, <1>4, <1>7
    DEF Clear, Manager!Clear, ioVars, Manager!ioVars, lifeVars, Manager!lifeVars
  <2>3. QED  BY <2>1, <2>2 DEF Manager!Step
<1>8. CASE Arm(p)
  <2>1. HeldInv'
    BY <1>0, <1>1, <1>8 DEF Arm, HeldInv, CallTypes, ioVars
  <2>2. Manager!Arm(p)
    BY <1>4, <1>8
    DEF Arm, Manager!Arm, Flag, Manager!Flag, ioVars, Manager!ioVars,
        lifeVars, Manager!lifeVars
  <2>3. QED  BY <2>1, <2>2 DEF Manager!Step
<1>9. CASE Schedule(p)
  <2>1. mLock = p /\ mLock' = Nobody
    BY <1>9 DEF Schedule, HeldInv
  <2>2. LockWithin' = Nobody
    BY <2>1, ProcsAssumption DEF LockWithin, Alarming
  <2>3. HeldInv'
    BY <1>0, <1>1, <1>9, <2>1, ProcsAssumption DEF Schedule, HeldInv, CallTypes, ioVars
  <2>4. Manager!Schedule(p)
    BY <1>9, <2>2
    DEF Schedule, Manager!Schedule, Manager!NoId, NoId,
        ioVars, Manager!ioVars, lifeVars, Manager!lifeVars
  <2>5. QED  BY <2>3, <2>4 DEF Manager!Step
<1>10. CASE Drop(p)
  <2>1. HeldInv'
    BY <1>0, <1>1, <1>10 DEF Drop, HeldInv, CallTypes, ioVars
  <2>2. Manager!Drop(p)
    BY <1>4, <1>10
    DEF Drop, Manager!Drop, LastPointer, Manager!LastPointer, Procs, Manager!Procs,
        Abort, Manager!Abort, Range, Manager!Range, NoId, Manager!NoId,
        ioVars, Manager!ioVars, lifeVars, Manager!lifeVars
  <2>3. QED  BY <2>1, <2>2 DEF Manager!Step
<1>11. QED  BY <1>5, <1>6, <1>7, <1>8, <1>9, <1>10 DEF Step

(* The rest leaves mLock alone.                                            *)
LEMMA RestWithin ==
  ASSUME TypeOK, HeldInv, Loop \/ RunEnds \/ Others
  PROVE  Next /\ HeldInv' /\ Manager!Next
PROOF
<1>0. CallTypes  BY TypeGroups
<1>1. CASE \E p \in Procs : Step(p) /\ UNCHANGED in
  <2>1. PICK p \in Procs : Step(p) /\ UNCHANGED in  BY <1>1
  <2>2. HeldInv' /\ Manager!Step(p)  BY <2>1, StepsWithin
  <2>3. Next  BY <2>1 DEF Next
  <2>4. Manager!Next  BY <2>2 DEF Manager!Next, Manager!Procs, Procs
  <2>5. QED  BY <2>2, <2>3, <2>4
<1>2. CASE \E p \in Procs, s \in Slots : Forget(p, s) /\ UNCHANGED in
  <2>1. PICK p \in Procs, s \in Slots : Forget(p, s) /\ UNCHANGED in  BY <1>2
  <2>2. UNCHANGED <<mLock, pc>> /\ LockWithin' = LockWithin
    BY <2>1 DEF Forget, LockWithin, Alarming
  <2>3. HeldInv'
    BY <2>1, <2>2 DEF HeldInv, Alarming, Forget, ioVars
  <2>4. LockWithin = Nobody
    BY <2>1, ProcsAssumption DEF Forget, Calls, LockWithin, Alarming
  <2>5. Next  BY <2>1, BoundsAssumption DEF Next, Times
  <2>6. Manager!Forget(p, s)
    BY <2>1, <2>2, <2>4
    DEF Forget, Manager!Forget, Calls, Manager!Calls, NoId, Manager!NoId, asioVars,
        Manager!asioVars, ioVars, Manager!ioVars, lifeVars, Manager!lifeVars
  <2>7. Manager!Next
    BY <2>6, BoundsAssumption DEF Manager!Next, Manager!Procs, Procs, Manager!Times
  <2>8. QED  BY <2>3, <2>5, <2>7
<1>3. ASSUME \/ (\E i \in Ids : Expire(i)) \/ RunHandler \/ HandlerReturns
             \/ TestState \/ Start \/ StopThread \/ StopService \/ Tick,
             UNCHANGED in
      PROVE  Next /\ HeldInv' /\ Manager!Next
  <2>1. UNCHANGED callVars
    BY <1>3 DEF Expire, RunHandler, HandlerReturns, TestState, Start, StopThread, StopService, Tick
  <2>2. UNCHANGED <<mLock, pc>> /\ LockWithin' = LockWithin
    BY <1>3, <2>1 DEF callVars, LockWithin, Alarming
  <2>3. running' = 0 => running = 0 \/ pc[IoThread] = "idle"
    BY <1>3 DEF Expire, RunHandler, HandlerReturns, TestState, Start, StopThread, StopService, Tick,
                ioVars, Dispatches
  <2>4. HeldInv'
    BY <1>3, <2>2, <2>3 DEF HeldInv, Alarming
  <2>5. Next
    BY <1>3 DEF Next
  <2>6. UNCHANGED Manager!callVars
    BY <2>1, <2>2 DEF callVars, Manager!callVars
  <2>7. ASSUME NEW i \in Ids, Expire(i) PROVE Manager!Expire(i)
    BY <2>6, <2>7
    DEF Expire, Manager!Expire, Dispatches, Manager!Dispatches, Destroyed,
        Manager!Destroyed, Expired, Manager!Expired, Ids, Manager!Ids, Procs,
        Manager!Procs, ioVars, Manager!ioVars, lifeVars, Manager!lifeVars
  <2>8. RunHandler => Manager!RunHandler
    BY <2>6 DEF RunHandler, Manager!RunHandler, Dispatches, Manager!Dispatches,
                lifeVars, Manager!lifeVars
  <2>9. HandlerReturns => Manager!HandlerReturns
    BY <2>6 DEF HandlerReturns, Manager!HandlerReturns, asioVars, Manager!asioVars,
                lifeVars, Manager!lifeVars
  <2>10. TestState \/ Start \/ StopThread \/ StopService \/ Tick =>
           \/ Manager!TestState \/ Manager!Start
           \/ Manager!StopThread \/ Manager!StopService \/ Manager!Tick
    BY <2>6 DEF TestState, Start, StopThread, StopService, Tick, Manager!TestState,
                Manager!Start, Manager!StopThread, Manager!StopService, Manager!Tick, MayStop, Manager!MayStop,
                asioVars, Manager!asioVars, ioVars, Manager!ioVars,
                lifeVars, Manager!lifeVars
  <2>11. Manager!Next
    BY <1>3, <2>7, <2>8, <2>9, <2>10 DEF Manager!Next, Ids, Manager!Ids
  <2>12. QED  BY <2>4, <2>5, <2>11
<1>4. CASE RunEnds
  <2>1. /\ RunReturns /\ UNCHANGED callVars /\ UNCHANGED running /\ running = 0
        /\ in[IoThread] = "free"
        /\ in' = [in EXCEPT ![IoThread] = "alarm"]
    BY <1>4 DEF RunEnds, RunReturns, Becomes, ioVars
  <2>2. pc[IoThread] = "idle" /\ mLock # IoThread /\ IoThread \in Procs
    BY <2>1 DEF HeldInv, Alarming, Procs
  <2>3. UNCHANGED <<mLock, pc>>
    BY <2>1 DEF callVars
  <2>4. Alarming \subseteq Alarming' /\ Alarming' \subseteq Alarming \cup {IoThread}
    BY <2>1 DEF Alarming, HeldInv
  <2>5. LockWithin' = LockWithin
    BY <2>2, <2>3, <2>4 DEF LockWithin
  <2>6. HeldInv'
    BY <2>1, <2>2, <2>3, <2>4 DEF HeldInv
  <2>7. Manager!RunReturns
    BY <2>1, <2>3, <2>5
    DEF RunReturns, Manager!RunReturns, MaxErrors, Manager!MaxErrors, callVars, Manager!callVars,
        asioVars, Manager!asioVars, ioVars, Manager!ioVars
  <2>8. Next /\ Manager!Next
    BY <2>1, <2>7 DEF Next, Manager!Next
  <2>9. QED  BY <2>6, <2>8
<1>5. QED
  <2>1. Loop => (\E i \in Ids : Expire(i)) \/ RunHandler \/ HandlerReturns \/ TestState
    BY DEF Loop
  <2>2. Loop \/ Others => UNCHANGED in
    BY DEF Loop, Others
  <2>3. Others => \/ \E p \in Procs, s \in Slots : Forget(p, s)
                  \/ \E p \in Procs : Step(p)
                  \/ Start \/ StopThread \/ StopService \/ Tick
    BY DEF Others
  <2>4. QED  BY <1>1, <1>2, <1>3, <1>4, <2>1, <2>2, <2>3

LEMMA WithinInit == AlarmInit => Manager!Init
PROOF
<1> SUFFICES ASSUME AlarmInit PROVE Manager!Init
  OBVIOUS
<1>1. Init /\ LockWithin = Nobody
  BY ProcsAssumption DEF AlarmInit, Init, LockWithin, Alarming
<1>2. QED
  BY <1>1 DEF Init, Manager!Init, NoId, Manager!NoId, Procs, Manager!Procs, Ids, Manager!Ids

LEMMA AlarmStep ==
  ASSUME TypeOK, HeldInv, [AlarmNext]_allVars
  PROVE  /\ TypeOK' /\ HeldInv' /\ [Manager!Next]_(Manager!vars)
         /\ \/ [Next]_vars
            \/ \E p \in Procs : Alarms(p)
PROOF
<1>1. CASE \E p \in Procs : Alarms(p)
  <2>1. PICK p \in Procs : Alarms(p)  BY <1>1
  <2>2. CallTypes  BY TypeGroups
  <2>3. /\ UNCHANGED <<mTimers, mCrtTimerId, timeId, pc, timer, at,
                       asioVars, ioVars, now, lifeVars>>
        /\ mLock' \in Procs \cup {Nobody} /\ HeldInv' /\ LockWithin' = LockWithin
    BY <2>1, <2>2, AlarmsKeep
  <2>4. TypeOK'
    BY <2>3 DEF TypeOK, asioVars, ioVars, lifeVars
  <2>5. UNCHANGED Manager!vars
    BY <2>3
    DEF Manager!vars, Manager!callVars, Manager!asioVars, Manager!ioVars,
        Manager!lifeVars, asioVars, ioVars, lifeVars
  <2>6. QED  BY <1>1, <2>3, <2>4, <2>5
<1>2. CASE \/ \E p \in Procs : Call(p)
           \/ Loop \/ RunEnds \/ Others
  <2>1. Next /\ HeldInv' /\ Manager!Next
    BY <1>2, CallsWithin, RestWithin
  <2>2. TypeOK'
    BY <2>1, TypeStep
  <2>3. QED  BY <2>1, <2>2
<1>3. CASE UNCHANGED allVars
  <2>1. UNCHANGED vars /\ UNCHANGED in
    BY <1>3 DEF allVars
  <2>2. UNCHANGED <<callVars, asioVars, ioVars, now, lifeVars>>
    BY <2>1 DEF vars
  <2>3. TypeOK' /\ HeldInv' /\ UNCHANGED Manager!vars
    BY <2>1, <2>2
    DEF TypeOK, HeldInv, Alarming, LockWithin, callVars, asioVars, ioVars, lifeVars,
        Manager!vars, Manager!callVars, Manager!asioVars, Manager!ioVars,
        Manager!lifeVars
  <2>4. QED  BY <2>1, <2>3
<1>4. QED
  BY <1>1, <1>2, <1>3 DEF AlarmNext, Alarms

LEMMA HeldAlways == AlarmSpec => [](TypeOK /\ HeldInv)
PROOF
<1>1. AlarmInit => TypeOK /\ HeldInv
  BY TypeInit, HeldInit DEF AlarmInit
<1>2. TypeOK /\ HeldInv /\ [AlarmNext]_allVars => (TypeOK /\ HeldInv)'
  BY AlarmStep
<1>3. QED  BY <1>1, <1>2, PTL DEF AlarmSpec

(* A step of the manager with alarms is one of the manager without them,   *)
(* or changes nothing of it: an alarm that is raised with mLock held, that *)
(* sleeps with it, or that unlocks, is no more than a caller who is slow   *)
(* (AlarmMacros.h:123-132, TimerMgr.cpp:38-110).                           *)
THEOREM AlarmsKeepManager == AlarmSpec => ImplementsManager
PROOF
<1>1. TypeOK /\ HeldInv /\ [AlarmNext]_allVars => [Manager!Next]_(Manager!vars)
  BY AlarmStep
<1>2. QED
  BY <1>1, WithinInit, HeldAlways, PTL DEF AlarmSpec, ImplementsManager

(* An alarm loses no wait and makes none run twice.                        *)
THEOREM AlarmsLoseNoWait == AlarmSpec => []HandledOnce
PROOF
<1>1. AlarmInit => OncePlaced
  BY PlacedInit DEF AlarmInit
<1>2. ASSUME TypeOK, HeldInv, OncePlaced, [AlarmNext]_allVars PROVE OncePlaced'
  <2>1. CASE [Next]_vars
    BY <1>2, <2>1, OncePlacedStep
  <2>2. ASSUME NEW p \in Procs, Alarms(p) PROVE OncePlaced'
    <3>1. UNCHANGED <<pending, ready, due, running, handled>>
      BY <1>2, <2>2, TypeGroups, AlarmsKeep DEF asioVars, ioVars
    <3>2. QED  BY <1>2, <3>1 DEF OncePlaced
  <2>3. QED  BY <1>2, <2>1, <2>2, AlarmStep
<1>3. TypeOK /\ HeldInv /\ OncePlaced /\ [AlarmNext]_allVars => OncePlaced'
  BY <1>2
<1>4. QED  BY HeldAlways, PlacedIs, <1>1, <1>3, PTL DEF AlarmSpec

(* What holds when no two threads use one time_id holds with alarms: a     *)
(* timer has one wait, a destroyed one has none, and no handler is early,  *)
(* also while a thread sleeps in an alarm (TimerMgr.h:80-83,               *)
(* TimerMgr.cpp:85-110).                                                   *)
THEOREM AlarmsKeepTimers ==
  ASSUME OneUser PROVE AlarmSpec => [](OneWait /\ RemovedIsSilent /\ NeverEarly)
PROOF
<1> DEFINE All == Inv /\ DueInv /\ NeverEarly
<1>1. AlarmInit => All
  BY InvInit DEF AlarmInit, Init, DueInv, NeverEarly
<1>2. ASSUME All, HeldInv, NEW p \in Procs, Alarms(p) PROVE All'
  <2>0. CallTypes  BY <1>2, TypeGroups DEF Inv
  <2>1. /\ UNCHANGED <<mTimers, mCrtTimerId, timeId, pc, timer, at,
                       asioVars, ioVars, now, lifeVars>>
        /\ mLock' \in Procs \cup {Nobody}
    BY <1>2, <2>0, AlarmsKeep
  <2>2. TypeOK'
    BY <1>2, <2>1 DEF Inv, TypeOK, asioVars, ioVars, lifeVars
  <2>3. LockInv'
    <3>1. \/ mLock' = mLock
          \/ mLock' = p /\ pc[p] = "idle" /\ mLock = Nobody
          \/ mLock' = Nobody /\ mLock = p /\ pc[p] = "idle"
      BY <1>2
      DEF Alarms, Wait, Misuse, Calls, AlarmReturns, AlarmSleeps, Unlocked, Becomes,
          HeldInv, vars, callVars
    <3>2. QED
      BY <1>2, <2>1, <3>1, ProcsAssumption DEF Inv, LockInv
  <2>4. OwnInv' /\ FlagInv' /\ OneWait' /\ RemovedIsSilent'
    BY <1>2, <2>1 DEF Inv, OwnInv, FlagInv, OneWait, RemovedIsSilent, Destroyed, asioVars
  <2>5. DueInv' /\ NeverEarly'
    BY <1>2, <2>1 DEF DueInv, NeverEarly, asioVars, ioVars
  <2>6. QED  BY <2>2, <2>3, <2>4, <2>5 DEF Inv
<1>3. ASSUME All, HeldInv, [Next]_vars PROVE All'
  BY <1>3, InvStep, DueInvStep, NeverEarlyStep
<1>4. All /\ HeldInv /\ [AlarmNext]_allVars => All'
  BY <1>2, <1>3, AlarmStep DEF Inv
<1>5. All => OneWait /\ RemovedIsSilent /\ NeverEarly
  BY DEF Inv
<1>6. QED  BY HeldAlways, <1>1, <1>4, <1>5, PTL DEF AlarmSpec

=============================================================================
