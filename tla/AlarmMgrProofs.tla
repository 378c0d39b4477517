--------------------------- MODULE AlarmMgrProofs ---------------------------
(***************************************************************************)
(* Proofs about AlarmMgr, for any number of threads, lines, seconds, calls *)
(* and edits, any limits and any lists.                                    *)
(***************************************************************************)
EXTENDS AlarmMgr, FiniteSetTheorems, SequenceTheorems, TLAPS

(* Names for a single expression of an action.                             *)
USE DEF LockIsFree, Stamp, LockAfterLook, With

(***************************************************************************)
(* Types and the lock.                                                     *)
(***************************************************************************)

(* What the scan has left to add is a line when a thread holds the lock to *)
(* add it: it has looked at the item before it took the lock.              *)
ScanOK == \A t \in Threads : pc[t] = "add" => ~ScanEnds(edit[t].add)

TypeInv == TypeOK /\ LockHeldIffCritical /\ ScanOK

LEMMA EditTypes ==
  ASSUME NEW s \in Seq(Lines \cup {Malformed, NoColon}), ~ScanEnds(s)
  PROVE  /\ s # <<>>
         /\ Head(s) \in Lines
         /\ Tail(s) \in Seq(Lines \cup {Malformed, NoColon})
<1>1. s # <<>> /\ Head(s) \notin {Malformed, NoColon}
  BY DEF ScanEnds
<1>2. Head(s) \in Lines \cup {Malformed, NoColon}
       /\ Tail(s) \in Seq(Lines \cup {Malformed, NoColon})
  BY <1>1, HeadTailProperties
<1>3. QED
  BY <1>1, <1>2

LEMMA CountedTypes ==
  ASSUME NEW e \in Entries, NEW k \in Ticks
  PROVE  Counted(e, k) \in Entries /\ Counted(e, k).num > 0
BY DEF Counted, Restarts, Entries

LEMMA InitType == Init => TypeInv
<1>1. SUFFICES ASSUME Init PROVE TypeInv
  OBVIOUS
<1>2. 0 \in Ticks /\ NoEntry \in Entries
  BY BoundsAssumption DEF Ticks, NoEntry, Entries
<1>3. <<>> \in Seq(Lines \cup {Malformed, NoColon})
  BY EmptySeq
<1>4. TypeOK
  BY <1>1, <1>2, <1>3, EmptySeq DEF Init, TypeOK, Pcs, NoEdit
<1>5. LockHeldIffCritical /\ ScanOK
  BY <1>1, ThreadsAssumption DEF Init, LockHeldIffCritical, ScanOK, Critical
<1>6. QED
  BY <1>4, <1>5 DEF TypeInv

LEMMA BeginTypes ==
  ASSUME TypeOK, NEW t \in Threads, Begin(t)
  PROVE  TypeOK'
<1> DEFINE EditSet == [add : Seq(Lines \cup {Malformed, NoColon}),
                       remove : SUBSET Lines]
<1> USE DEF TypeOK, Pcs, Goto, callVars, whoVars, configVars, auxVars, coverVars
<1>1. ASSUME NEW l \in Lines, NEW c \in BOOLEAN, CloseEntry(t, l, c) PROVE TypeOK'
  <2>1. covered' \in [Threads -> SUBSET Lines]
    BY <1>1 DEF CloseEntry
  <2>2. copy' \in [Threads -> BOOLEAN] /\ renewed' \in [Threads -> BOOLEAN]
    BY <1>1 DEF CloseEntry
  <2>3. outer' \in [Threads -> Seq(Frames)]
    <3>1. [line |-> line[t], copy |-> copy[t]] \in Frames
      BY DEF Frames
    <3>2. /\ <<>> \in Seq(Frames)
          /\ <<[line |-> line[t], copy |-> copy[t]]>> \o outer[t] \in Seq(Frames)
      BY <3>1, EmptySeq
    <3>3. QED
      BY <1>1, <3>2 DEF CloseEntry
  <2>4. pc' \in [Threads -> Pcs] /\ calls' \in Nat
    BY <1>1 DEF CloseEntry
  <2>5. /\ entry' \in [Threads -> Lines] /\ line' \in [Threads -> Lines]
        /\ tick' \in [Threads -> Ticks]
    BY <1>1 DEF CloseEntry
  <2>6. QED
    BY <1>1, <2>1, <2>2, <2>3, <2>4, <2>5 DEF CloseEntry
<1>2. ASSUME NEW e \in EditSet, NEW to \in {"lock_add", "lock_remove"},
             StartEdit(t, e, to)
      PROVE  TypeOK'
  <2>1. edit' \in [Threads -> EditSet]
    BY <1>2 DEF StartEdit
  <2>2. pc' \in [Threads -> Pcs] /\ edits' \in Nat
    BY <1>2 DEF StartEdit
  <2>3. QED
    BY <1>2, <2>1, <2>2 DEF StartEdit
<1>3. <<>> \in Seq(Lines \cup {Malformed, NoColon})
  BY EmptySeq
<1>4. ASSUME NEW l \in Lines, SetIgnoredAlarm(t, l) PROVE TypeOK'
  <2>1. <<l>> \in Seq(Lines \cup {Malformed, NoColon})
    OBVIOUS
  <2>2. [NoEdit EXCEPT !.add = <<l>>] \in EditSet
    BY <2>1 DEF NoEdit
  <2>3. QED
    BY <1>4, <2>2, <1>2 DEF SetIgnoredAlarm
<1>5. ASSUME NEW l \in Lines, RemoveIgnoredAlarm(t, l) PROVE TypeOK'
  <2>1. [NoEdit EXCEPT !.remove = {l}] \in EditSet
    BY <1>3 DEF NoEdit
  <2>2. QED
    BY <1>5, <2>1, <1>2 DEF RemoveIgnoredAlarm
<1>6. ASSUME NEW s \in Lists, SetIgnoredAlarms(t, s) PROVE TypeOK'
  <2>1. [NoEdit EXCEPT !.add = s] \in EditSet
    BY ListsAssumption DEF NoEdit
  <2>2. QED
    BY <1>6, <2>1, <1>2 DEF SetIgnoredAlarms
<1>7. QED
  BY <1>1, <1>4, <1>5, <1>6 DEF Begin

LEMMA CountTypes ==
  ASSUME TypeOK, NEW t \in Threads, Count(t)
  PROVE  TypeOK'
<1> DEFINE e == found[t]
           k == tick[t]
           l == line[t]
<1>1. /\ e \in Entries /\ k \in Ticks /\ l \in Lines
      /\ Raised(e, k, maxAlarms) \in BOOLEAN
      /\ Counted(e, k) \in Entries
  BY CountedTypes DEF Raised, TypeOK
<1>2. /\ resets' \in [Lines -> [Ticks -> Nat]]
      /\ window' \in [Lines -> Nat]
  <2>1. resets[l][k] \in Nat /\ window[l] \in Nat
    BY <1>1 DEF TypeOK
  <2>2. resets' \in [Lines -> [Ticks -> Nat]]
    <3>1. /\ resets' = [resets EXCEPT ![l][k] = IF Restarts(e, k) THEN @ + 1 ELSE @]
          /\ resets \in [Lines -> [Ticks -> Nat]]
      BY DEF Count, TypeOK
    <3>2. QED
      BY <1>1, <2>1, <3>1
  <2>3. window' \in [Lines -> Nat]
    BY <1>1, <2>1 DEF Count, TypeOK
  <2>4. QED
    BY <2>2, <2>3
<1>3. /\ tracker' \in [Lines -> Entries]
      /\ needToRaise' \in [Threads -> BOOLEAN]
  BY <1>1 DEF Count, TypeOK
<1>4. QED
  BY <1>2, <1>3 DEF Count, TypeOK, Pcs, Goto, configVars, coverVars

LEMMA ReturnTypes ==
  ASSUME TypeOK, NEW t \in Threads, NEW from, Return(t, from)
  PROVE  /\ pc' \in [Threads -> Pcs]
         /\ line' \in [Threads -> Lines]
         /\ copy' \in [Threads -> BOOLEAN]
         /\ needToRaise' \in [Threads -> BOOLEAN]
         /\ outer' \in [Threads -> Seq(Frames)]
         /\ covered' \in [Threads -> SUBSET Lines]
         /\ renewed' \in [Threads -> BOOLEAN]
<1>1. pc' \in [Threads -> Pcs]
  BY DEF Return, Goto, TypeOK, Pcs
<1>2. CASE outer[t] = <<>>
  BY <1>1, <1>2 DEF Return, TypeOK
<1>3. CASE outer[t] # <<>>
  <2>1. Head(outer[t]) \in Frames /\ Tail(outer[t]) \in Seq(Frames)
    BY <1>3, HeadTailProperties DEF TypeOK
  <2>2. Head(outer[t]).line \in Lines /\ Head(outer[t]).copy \in BOOLEAN
    BY <2>1 DEF Frames
  <2>3. copy' \in [Threads -> BOOLEAN]
    BY <1>3, <2>2, Zenon DEF Return, TypeOK
  <2>4. QED
    BY <1>1, <1>3, <2>1, <2>2, <2>3 DEF Return, TypeOK
<1>4. QED
  BY <1>2, <1>3

LEMMA StepTypes ==
  ASSUME TypeOK, ScanOK, NEW t \in Threads, Step(t)
  PROVE  TypeOK'
<1> DEFINE EditSet == [add : Seq(Lines \cup {Malformed, NoColon}),
                       remove : SUBSET Lines]
<1> USE DEF TypeOK, Pcs, Goto, callVars, whoVars, configVars, auxVars, coverVars
<1>1. ASSUME NEW from, NEW to \in {"find", "look", "add", "remove"},
             Acquire(t, from, to)
      PROVE  TypeOK'
  BY <1>1 DEF Acquire
<1>2. NoEdit \in EditSet
  BY EmptySeq DEF NoEdit
<1>3. CASE LockTracker(t) \/ LockIgnored(t) \/ LockAdd(t) \/ LockRemove(t)
  BY <1>1, <1>3 DEF LockTracker, LockIgnored, LockAdd, LockRemove
<1>4. CASE Find(t)
  BY <1>4 DEF Find
<1>5. CASE Count(t)
  BY <1>5, CountTypes
<1>6. CASE UnlockTracker(t)
  BY <1>6 DEF UnlockTracker
<1>7. CASE PrintAlarm(t)
  BY <1>7 DEF PrintAlarm
<1>8. CASE Look(t) \/ PauseOnAlarm(t)
  <2>1. ASSUME NEW from, Return(t, from)
        PROVE  /\ pc' \in [Threads -> Pcs]
               /\ line' \in [Threads -> Lines]
               /\ copy' \in [Threads -> BOOLEAN]
               /\ needToRaise' \in [Threads -> BOOLEAN]
               /\ outer' \in [Threads -> Seq(Frames)]
               /\ covered' \in [Threads -> SUBSET Lines]
               /\ renewed' \in [Threads -> BOOLEAN]
    BY <2>1, ReturnTypes
  <2>2. QED
    BY <1>8, <2>1 DEF Look, PauseOnAlarm, LockAfterLook
<1>9. CASE StopScan(t)
  BY <1>9, <1>2 DEF StopScan
<1>10. CASE Add(t)
  <2>1. /\ Head(edit[t].add) \in Lines
        /\ Tail(edit[t].add) \in Seq(Lines \cup {Malformed, NoColon})
    BY <1>10, EditTypes DEF Add, ScanOK
  <2>2. edit' \in [Threads -> EditSet]
    BY <1>10, <2>1 DEF Add
  <2>3. QED
    BY <1>10, <2>1, <2>2 DEF Add
<1>11. CASE Remove(t)
  BY <1>11, <1>2 DEF Remove
<1>12. QED
  BY <1>3, <1>4, <1>5, <1>6, <1>7, <1>8, <1>9, <1>10, <1>11
     DEF Step, Close, Edit

LEMMA TypeStep == TypeOK /\ ScanOK /\ [Next]_vars => TypeOK'
<1> SUFFICES ASSUME TypeOK, ScanOK, [Next]_vars PROVE TypeOK'
  OBVIOUS
<1> USE DEF TypeOK, callVars, whoVars, configVars, auxVars, coverVars
<1>1. CASE UNCHANGED vars
  BY <1>1 DEF vars
<1>2. CASE Tick
  <2>1. clock' \in Ticks
    BY <1>2, BoundsAssumption DEF Tick, Ticks
  <2>2. QED
    BY <1>2, <2>1 DEF Tick
<1>3. ASSUME NEW n \in Limits, SetMaxAlarms(n) PROVE TypeOK'
  <2>1. maxAlarms' \in Limits /\ configs' \in Nat
    BY <1>3 DEF SetMaxAlarms
  <2>2. UNCHANGED <<pc, clock, sgLock, tracker, ignored, pauseOn, edit, calls, edits,
                    entry, line, copy, outer, tick, found, needToRaise, resets,
                    window, covered, renewed>>
    BY <1>3 DEF SetMaxAlarms
  <2>3. QED  BY <2>1, <2>2
<1>4. ASSUME NEW flag \in BOOLEAN, Config(flag) PROVE TypeOK'
  BY <1>4 DEF Config
<1>5. QED
  BY <1>1, <1>2, <1>3, <1>4, BeginTypes, StepTypes DEF Next, Sleep, Rest

LEMMA ScanStep == TypeOK /\ ScanOK /\ [Next]_vars => ScanOK'
<1> SUFFICES ASSUME TypeOK, ScanOK, [Next]_vars, NEW u \in Threads,
                    pc'[u] = "add"
             PROVE  ~ScanEnds(edit'[u].add)
  BY DEF ScanOK
<1> USE DEF TypeOK, ScanOK, Goto
<1>1. CASE UNCHANGED <<pc, edit>>
  BY <1>1
<1>2. ASSUME NEW t \in Threads, Begin(t) PROVE ~ScanEnds(edit'[u].add)
  BY <1>2 DEF Begin, CloseEntry, SetIgnoredAlarm, RemoveIgnoredAlarm,
              SetIgnoredAlarms, StartEdit
<1>3. ASSUME NEW t \in Threads, Close(t) PROVE ~ScanEnds(edit'[u].add)
  BY <1>3 DEF Close, LockTracker, Find, Count, UnlockTracker, PrintAlarm,
              LockIgnored, Look, PauseOnAlarm, Return, Acquire
<1>4. ASSUME NEW t \in Threads, Edit(t) PROVE ~ScanEnds(edit'[u].add)
  BY <1>4 DEF Edit, StopScan, LockAdd, Add, LockRemove, Remove, Acquire
<1>5. QED
  BY <1>1, <1>2, <1>3, <1>4 DEF Next, Step, Tick, SetMaxAlarms, Config, Sleep,
     Rest, vars

LEMMA LockStep == TypeOK /\ LockHeldIffCritical /\ [Next]_vars
                  => LockHeldIffCritical'
<1> SUFFICES ASSUME TypeOK, LockHeldIffCritical, [Next]_vars
             PROVE  LockHeldIffCritical'
  OBVIOUS
<1> USE ThreadsAssumption DEF TypeOK, LockHeldIffCritical, Critical, Goto
<1>1. CASE UNCHANGED <<pc, sgLock>>
  BY <1>1
<1>2. ASSUME NEW t \in Threads, Begin(t) PROVE LockHeldIffCritical'
  <2>1. /\ sgLock' = sgLock /\ pc[t] \notin Critical
        /\ \E to \in {"lock_tracker", "lock_add", "lock_remove"} :
             pc' = [pc EXCEPT ![t] = to]
    BY <1>2 DEF Begin, CloseEntry, SetIgnoredAlarm, RemoveIgnoredAlarm,
                SetIgnoredAlarms, StartEdit
  <2>2. QED  BY <2>1
<1>3. ASSUME NEW t \in Threads, Close(t) PROVE LockHeldIffCritical'
  <2>1. CASE LockTracker(t) \/ LockIgnored(t)
    BY <2>1 DEF LockTracker, LockIgnored, Acquire
  <2>2. CASE Find(t) \/ Count(t)
    <3>1. /\ sgLock' = sgLock
          /\ Goto(t, "find", "count") \/ Goto(t, "count", "unlock_tracker")
      BY <2>2 DEF Find, Count
    <3>2. QED
      BY <3>1
  <2>5. CASE UnlockTracker(t)
    <3>1. ASSUME NEW to \in {"print", "lock_ignored"}, sgLock' = NoThread,
                 Goto(t, "unlock_tracker", to)
          PROVE  LockHeldIffCritical'
      BY <3>1
    <3>2. QED
      BY <2>5, <3>1 DEF UnlockTracker
  <2>3. CASE PrintAlarm(t) \/ Look(t) \/ PauseOnAlarm(t)
    BY <2>3 DEF PrintAlarm, Look, PauseOnAlarm, Return
  <2>4. QED
    BY <1>3, <2>1, <2>2, <2>3, <2>5 DEF Close
<1>4. ASSUME NEW t \in Threads, Edit(t) PROVE LockHeldIffCritical'
  <2>1. CASE LockAdd(t) \/ LockRemove(t)
    BY <2>1 DEF LockAdd, LockRemove, Acquire
  <2>2. CASE StopScan(t)
    BY <2>2 DEF StopScan
  <2>3. CASE Add(t) \/ Remove(t)
    BY <2>3 DEF Add, Remove
  <2>4. QED
    BY <1>4, <2>1, <2>2, <2>3 DEF Edit
<1>5. QED
  BY <1>1, <1>2, <1>3, <1>4 DEF Next, Step, Tick, SetMaxAlarms, Config, Sleep,
     Rest, vars

LEMMA TypeInvStep == TypeInv /\ [Next]_vars => TypeInv'
BY TypeStep, ScanStep, LockStep DEF TypeInv

(* A call that returns leaves the other threads alone; its own goes back   *)
(* to the program or to the call it was inside of.                         *)
LEMMA ReturnFrame ==
  ASSUME TypeOK, NEW t \in Threads, NEW from, Return(t, from)
  PROVE  /\ \A u \in Threads \ {t} :
              /\ pc'[u] = pc[u] /\ line'[u] = line[u] /\ copy'[u] = copy[u]
              /\ needToRaise'[u] = needToRaise[u] /\ outer'[u] = outer[u]
              /\ covered'[u] = covered[u] /\ renewed'[u] = renewed[u]
         /\ pc[t] = from
         /\ covered'[t] \subseteq covered[t]
         /\ \/ pc'[t] = "idle" /\ outer[t] = <<>> /\ outer'[t] = <<>>
            \/ /\ pc'[t] = "print" /\ outer[t] # <<>> /\ outer'[t] = Tail(outer[t])
               /\ needToRaise'[t] /\ renewed'[t]
<1>1. pc' = [pc EXCEPT ![t] = IF outer[t] = <<>> THEN "idle" ELSE "print"] /\ pc[t] = from
  BY DEF Return, Goto
<1>2. CASE outer[t] = <<>>
  BY <1>1, <1>2 DEF Return, TypeOK
<1>3. CASE outer[t] # <<>>
  <2>1. copy' = [copy EXCEPT ![t] = Head(outer[t]).copy]
    BY <1>3 DEF Return
  <2>2. \A u \in Threads \ {t} : copy'[u] = copy[u]
    BY <2>1 DEF TypeOK
  <2>3. needToRaise'[t] /\ renewed'[t]
    BY <1>3 DEF Return, TypeOK
  <2>4. QED
    BY <1>1, <1>3, <2>2, <2>3 DEF Return, TypeOK
<1>4. QED
  BY <1>2, <1>3

(***************************************************************************)
(* Calls inside calls.                                                     *)
(***************************************************************************)

(* Until it is counted an alarm goes by the line its thread raised last;   *)
(* afterwards too, unless another one was raised while its text was made.  *)
(* Only a thread that makes a text has calls around its own.               *)
CallInv ==
  \A t \in Threads :
    /\ pc[t] \in Pending => entry[t] = line[t]
    /\ pc[t] \in Pending \cup Judged => entry[t] = line[t] \/ renewed[t]
    /\ pc[t] \notin Pending \cup Judged => outer[t] = <<>>
    /\ pc[t] = "print" => needToRaise[t]

LEMMA CallStep == TypeInv /\ CallInv /\ [Next]_vars => CallInv'
<1> SUFFICES ASSUME TypeInv, CallInv, [Next]_vars PROVE CallInv'
  OBVIOUS
<1> USE DEF TypeInv, TypeOK, CallInv, Pending, Judged, Goto
<1>1. CASE UNCHANGED <<pc, entry, line, outer, needToRaise, renewed>>
  BY <1>1
<1>2. ASSUME NEW t \in Threads, NEW l \in Lines, NEW c \in BOOLEAN, CloseEntry(t, l, c)
      PROVE  CallInv'
  <2>1. /\ pc'[t] = "lock_tracker" /\ entry'[t] = l /\ line'[t] = l
        /\ needToRaise' = needToRaise
    BY <1>2 DEF CloseEntry
  <2>2. \A u \in Threads \ {t} :
          /\ pc'[u] = pc[u] /\ entry'[u] = entry[u] /\ line'[u] = line[u]
          /\ renewed'[u] = renewed[u] /\ outer'[u] = outer[u]
    <3>1. outer' = [outer EXCEPT ![t] = outer'[t]]
      BY <1>2 DEF CloseEntry
    <3>2. QED
      BY <1>2, <3>1 DEF CloseEntry
  <2>3. QED
    BY <2>1, <2>2
<1>3. ASSUME NEW t \in Threads, NEW e, NEW to \in {"lock_add", "lock_remove"},
             StartEdit(t, e, to)
      PROVE  CallInv'
  BY <1>3 DEF StartEdit, callVars, whoVars, auxVars, coverVars
<1>4. ASSUME NEW t \in Threads, Begin(t) PROVE CallInv'
  BY <1>2, <1>3, <1>4 DEF Begin, SetIgnoredAlarm, RemoveIgnoredAlarm, SetIgnoredAlarms
<1>5. ASSUME NEW t \in Threads, Close(t), ~Count(t), ~Look(t), ~PauseOnAlarm(t)
      PROVE  CallInv'
  <2>1. UNCHANGED <<entry, line, outer, needToRaise, renewed>>
    BY <1>5 DEF Close, LockTracker, Find, UnlockTracker, PrintAlarm, LockIgnored,
       Acquire, callVars, whoVars, auxVars, coverVars
  <2>2. /\ \A u \in Threads \ {t} : pc'[u] = pc[u]
        /\ pc'[t] \in Pending => pc[t] \in Pending
        /\ pc[t] \in Pending \cup Judged /\ pc'[t] \in Pending \cup Judged
        /\ pc'[t] = "print" => needToRaise[t]
    BY <1>5 DEF Close, LockTracker, Find, UnlockTracker, PrintAlarm, LockIgnored,
       Acquire
  <2>3. QED
    BY <2>1, <2>2
<1>6. ASSUME NEW t \in Threads, Count(t) PROVE CallInv'
  BY <1>6 DEF Count, coverVars
<1>7. ASSUME NEW t \in Threads, NEW from \in {"look", "pause"}, Return(t, from),
             entry' = entry
      PROVE  CallInv'
  <2>1. \/ pc'[t] = "idle" /\ outer'[t] = <<>>
        \/ pc'[t] = "print" /\ needToRaise'[t] /\ renewed'[t]
    BY <1>7, ReturnFrame
  <2>2. \A u \in Threads \ {t} :
          /\ pc'[u] = pc[u] /\ entry'[u] = entry[u] /\ line'[u] = line[u]
          /\ needToRaise'[u] = needToRaise[u] /\ renewed'[u] = renewed[u]
          /\ outer'[u] = outer[u]
    BY <1>7, ReturnFrame
  <2>3. SUFFICES ASSUME NEW u \in Threads
                 PROVE  /\ pc'[u] \in Pending => entry'[u] = line'[u]
                        /\ pc'[u] \in Pending \cup Judged => entry'[u] = line'[u] \/ renewed'[u]
                        /\ pc'[u] \notin Pending \cup Judged => outer'[u] = <<>>
                        /\ pc'[u] = "print" => needToRaise'[u]
    OBVIOUS
  <2>4. CASE u = t
    BY <2>1, <2>4
  <2>5. CASE u # t
    BY <2>2, <2>5
  <2>6. QED
    BY <2>4, <2>5
<1>8. ASSUME NEW t \in Threads, Look(t) \/ PauseOnAlarm(t) PROVE CallInv'
  <2>1. CASE Return(t, "look") \/ Return(t, "pause")
    BY <1>7, <1>8, <2>1 DEF Look, PauseOnAlarm
  <2>2. CASE ~Return(t, "look") /\ ~Return(t, "pause")
    <3>1. UNCHANGED <<entry, line, outer, needToRaise, renewed>>
      BY <1>8, <2>2 DEF Look, PauseOnAlarm, whoVars, coverVars
    <3>2. /\ pc' = [pc EXCEPT ![t] = pc'[t]]
          /\ pc[t] \in {"look", "pause"} /\ pc'[t] \in {"pause", "paused"}
      BY <1>8, <2>2 DEF Look, PauseOnAlarm
    <3>3. QED
      BY <3>1, <3>2
  <2>3. QED
    BY <2>1, <2>2
<1>9. ASSUME NEW t \in Threads, Edit(t) PROVE CallInv'
  <2>1. UNCHANGED <<entry, line, outer, needToRaise, renewed>>
    BY <1>9 DEF Edit, StopScan, LockAdd, Add, LockRemove, Remove, Acquire,
       callVars, whoVars, auxVars, coverVars
  <2>2. /\ pc' = [pc EXCEPT ![t] = pc'[t]]
        /\ pc[t] \notin Pending \cup Judged /\ pc'[t] \notin Pending \cup Judged
    BY <1>9 DEF Edit, StopScan, LockAdd, Add, LockRemove, Remove, Acquire
  <2>3. QED
    BY <2>1, <2>2
<1>10. QED
  BY <1>1, <1>4, <1>5, <1>6, <1>8, <1>9 DEF Next, Step, Tick, SetMaxAlarms, Config,
     Sleep, Rest, vars, callVars, whoVars, auxVars, coverVars

(* Every variable keeps its type (AlarmMgr.h:43-52), in every behaviour.   *)
THEOREM TypeCorrect == Spec => []TypeOK
<1>1. Spec => []TypeInv
  BY InitType, TypeInvStep, PTL DEF Spec
<1>2. TypeInv => TypeOK
  BY DEF TypeInv
<1>3. QED
  BY <1>1, <1>2, PTL

(* sgLock is held exactly between its lock and unlock calls: one thread at *)
(* a time uses the maps, and none leaves them with the lock taken.         *)
THEOREM LockDiscipline == Spec => []LockHeldIffCritical
<1>1. Spec => []TypeInv
  BY InitType, TypeInvStep, PTL DEF Spec
<1>2. TypeInv => LockHeldIffCritical
  BY DEF TypeInv
<1>3. QED
  BY <1>1, <1>2, PTL

(***************************************************************************)
(* The count of an alarm is exact.                                         *)
(***************************************************************************)
Inv == TypeInv /\ CallInv /\ FoundIsFresh

LEMMA FreshStep == Inv /\ [Next]_vars => FoundIsFresh'
<1> SUFFICES ASSUME Inv, [Next]_vars, NEW u \in Threads, pc'[u] = "count"
             PROVE  found'[u] = tracker'[line'[u]]
  BY DEF FoundIsFresh
<1> USE DEF Inv, TypeInv, TypeOK, FoundIsFresh, LockHeldIffCritical, Critical,
            Goto, callVars, whoVars, configVars, auxVars, coverVars
<1>1. CASE UNCHANGED <<pc, tracker, line, found>>
  BY <1>1
<1>2. ASSUME NEW t \in Threads, Begin(t)
      PROVE  found'[u] = tracker'[line'[u]]
  <2>1. pc'[t] # "count" /\ UNCHANGED <<tracker, found>>
    BY <1>2 DEF Begin, CloseEntry, SetIgnoredAlarm, RemoveIgnoredAlarm,
                SetIgnoredAlarms, StartEdit
  <2>2. u # t /\ pc[u] = "count" /\ line'[u] = line[u]
    BY <1>2, <2>1 DEF Begin, CloseEntry, SetIgnoredAlarm, RemoveIgnoredAlarm,
                      SetIgnoredAlarms, StartEdit
  <2>3. QED
    BY <2>1, <2>2
<1>3. ASSUME NEW t \in Threads, Find(t) PROVE found'[u] = tracker'[line'[u]]
  BY <1>3 DEF Find
<1>4. ASSUME NEW t \in Threads, Count(t) PROVE found'[u] = tracker'[line'[u]]
  <2>1. pc[t] = "count" /\ pc' = [pc EXCEPT ![t] = "unlock_tracker"]
    BY <1>4 DEF Count
  <2>2. u # t /\ pc[u] = "count"
    BY <2>1
  <2>3. sgLock = t /\ sgLock = u
    BY <2>1, <2>2
  <2>4. QED
    BY <2>2, <2>3
<1>5. ASSUME NEW t \in Threads, Step(t), ~Find(t), ~Count(t)
      PROVE  found'[u] = tracker'[line'[u]]
  <2>1. UNCHANGED <<tracker, found>>
    BY <1>5 DEF Step, Close, LockTracker, UnlockTracker, PrintAlarm, LockIgnored,
       Look, PauseOnAlarm, Edit, StopScan, LockAdd, Add, LockRemove, Remove, Acquire
  <2>2. CASE Return(t, "look") \/ Return(t, "pause")
    <3>1. u # t /\ pc[u] = "count" /\ line'[u] = line[u]
      BY <2>2, ReturnFrame
    <3>2. QED
      BY <2>1, <3>1
  <2>3. CASE ~Return(t, "look") /\ ~Return(t, "pause")
    <3>1. line' = line /\ pc[u] = "count"
      BY <1>5, <2>3 DEF Step, Close, LockTracker, UnlockTracker, PrintAlarm, LockIgnored,
         Look, PauseOnAlarm, Edit, StopScan, LockAdd, Add, LockRemove, Remove, Acquire
    <3>2. QED
      BY <2>1, <3>1
  <2>4. QED
    BY <2>2, <2>3
<1>6. QED
  BY <1>1, <1>2, <1>3, <1>4, <1>5 DEF Next, Tick, SetMaxAlarms, Config, Sleep,
     Rest, vars

LEMMA InvInductive == (Init => Inv) /\ (Inv /\ [Next]_vars => Inv')
<1>1. Init => FoundIsFresh
  BY DEF Init, FoundIsFresh
<1>2. Init => CallInv
  BY DEF Init, CallInv, Pending, Judged
<1>3. QED
  BY <1>1, <1>2, InitType, TypeInvStep, CallStep, FreshStep DEF Inv

(* The entry a thread increments is the one in the tracker: the look-up    *)
(* and the increment of AlarmMgr.cpp:131-146 are as good as one step.      *)
THEOREM FoundStaysFresh == Spec => []FoundIsFresh
<1>1. Inv => FoundIsFresh
  BY DEF Inv
<1>2. QED
  BY InvInductive, <1>1, PTL DEF Spec

(***************************************************************************)
(* The limit holds between two restarts of a count.                        *)
(***************************************************************************)
WindowInv == \A l \in Lines : window[l] <= tracker[l].num

LEMMA WindowStep ==
  Inv /\ WindowInv /\ WindowBounded /\ [Next]_vars
    => WindowInv' /\ WindowBounded'
<1> SUFFICES ASSUME Inv, WindowInv, WindowBounded, [Next]_vars
             PROVE  WindowInv' /\ WindowBounded'
  OBVIOUS
<1> USE DEF WindowInv, WindowBounded, WindowCap
<1>1. CASE UNCHANGED <<tracker, window>>
  BY <1>1
<1>2. ASSUME NEW t \in Threads, Count(t) PROVE WindowInv' /\ WindowBounded'
  <2> DEFINE l == line[t]
             k == tick[t]
             e == found[t]
             base == IF Restarts(e, k) THEN 0 ELSE window[l]
             raise == Raised(e, k, maxAlarms)
  <2>1. /\ l \in Lines /\ k \in Ticks /\ e \in Entries /\ e = tracker[l]
        /\ maxAlarms \in Limits /\ window \in [Lines -> Nat]
        /\ tracker \in [Lines -> Entries]
    BY <1>2 DEF Inv, TypeInv, TypeOK, FoundIsFresh, Count, Goto
  <2>2. /\ tracker' = [tracker EXCEPT ![l] = Counted(e, k)]
        /\ window' = [window EXCEPT ![l] = IF raise THEN base + 1 ELSE base]
    BY <1>2 DEF Count
  <2>3. base \in Nat /\ base + 1 <= Counted(e, k).num
    BY <2>1 DEF Counted, Restarts, Entries
  <2>4. window'[l] <= tracker'[l].num
    BY <2>1, <2>2, <2>3, CountedTypes DEF Entries
  <2>5. base <= 1 \/ WindowCap(base)
    BY <2>1
  <2>6. ASSUME raise PROVE base + 1 <= 1 \/ WindowCap(base + 1)
    <3>1. CASE e.num = 0
      BY <3>1 DEF Restarts
    <3>2. CASE Counted(e, k).num < maxAlarms
      <4>1. base + 1 <= maxAlarms - 1
        BY <3>2, <2>1, <2>3, CountedTypes, BoundsAssumption DEF Entries
      <4>2. QED
        BY <4>1, <2>1
    <3>3. QED
      BY <2>6, <3>1, <3>2 DEF Raised
  <2>7. window'[l] <= 1 \/ WindowCap(window'[l])
    BY <2>1, <2>2, <2>5, <2>6
  <2>8. \A m \in Lines : m # l => /\ window'[m] = window[m]
                                  /\ tracker'[m] = tracker[m]
    BY <2>1, <2>2
  <2>9. QED
    BY <2>4, <2>7, <2>8
<1>3. ASSUME NEW t \in Threads, Step(t), ~Count(t)
      PROVE  UNCHANGED <<tracker, window>>
  BY <1>3 DEF Step, Close, LockTracker, Find, UnlockTracker, PrintAlarm, LockIgnored,
     Look, PauseOnAlarm, Return, Edit, StopScan, LockAdd, Add, LockRemove, Remove,
     Acquire, auxVars
<1>4. ASSUME NEW t \in Threads, Begin(t) PROVE UNCHANGED <<tracker, window>>
  BY <1>4 DEF Begin, CloseEntry, SetIgnoredAlarm, RemoveIgnoredAlarm,
     SetIgnoredAlarms, StartEdit, auxVars
<1>5. QED
  BY <1>1, <1>2, <1>3, <1>4 DEF Next, Tick, SetMaxAlarms, Config, Sleep, Rest,
     vars, auxVars

(* Between two restarts of its count a line is shown once or fewer times   *)
(* than the largest limit ever set (AlarmMgr.cpp:134-151).                 *)
THEOREM WindowsAreBounded == Spec => []WindowBounded
<1>1. Init => WindowInv /\ WindowBounded
  BY DEF Init, WindowInv, WindowBounded, NoEntry
<1>2. QED
  BY <1>1, InvInductive, WindowStep, PTL DEF Spec

(***************************************************************************)
(* Ignored lines do not pause.                                             *)
(***************************************************************************)
CoverInv == \A t \in Threads : covered[t] \subseteq ignored

LEMMA CoverStep ==
  Inv /\ CoverInv /\ CoveredNeverPauses /\ [Next]_vars
    => CoverInv' /\ CoveredNeverPauses'
<1> SUFFICES ASSUME Inv, CoverInv, CoveredNeverPauses, [Next]_vars
             PROVE  CoverInv' /\ CoveredNeverPauses'
  OBVIOUS
<1> USE DEF Inv, TypeInv, TypeOK, CoverInv, CoveredNeverPauses, LineOf, Goto
<1>1. CASE UNCHANGED <<pc, ignored, entry, line, copy, covered, renewed>>
  BY <1>1
<1>2. ASSUME NEW t \in Threads, NEW l \in Lines, NEW c \in BOOLEAN, CloseEntry(t, l, c)
      PROVE  CoverInv' /\ CoveredNeverPauses'
  <2>1. covered'[t] \subseteq ignored /\ ignored' = ignored /\ pc'[t] = "lock_tracker"
    BY <1>2 DEF CloseEntry
  <2>2. \A u \in Threads \ {t} :
          /\ pc'[u] = pc[u] /\ entry'[u] = entry[u] /\ line'[u] = line[u]
          /\ copy'[u] = copy[u] /\ covered'[u] = covered[u] /\ renewed'[u] = renewed[u]
    BY <1>2 DEF CloseEntry
  <2>3. QED
    BY <2>1, <2>2
<1>3. ASSUME NEW t \in Threads, NEW e, NEW to \in {"lock_add", "lock_remove"},
             StartEdit(t, e, to)
      PROVE  CoverInv' /\ CoveredNeverPauses'
  BY <1>3 DEF StartEdit, callVars, whoVars, auxVars, coverVars
<1>4. ASSUME NEW t \in Threads, Begin(t)
      PROVE  CoverInv' /\ CoveredNeverPauses'
  BY <1>2, <1>3, <1>4 DEF Begin, SetIgnoredAlarm, RemoveIgnoredAlarm,
     SetIgnoredAlarms
<1>5. ASSUME NEW t \in Threads, Close(t)
      PROVE  CoverInv' /\ CoveredNeverPauses'
  <2>1. CASE Return(t, "look") \/ Return(t, "pause")
    <3>1. ignored' = ignored /\ entry' = entry
      BY <1>5, <2>1 DEF Close, LockTracker, Find, Count, UnlockTracker, PrintAlarm,
         LockIgnored, Look, PauseOnAlarm, Acquire, Return, callVars
    <3>2. pc'[t] \in {"idle", "print"} /\ covered'[t] \subseteq covered[t]
      BY <2>1, ReturnFrame
    <3>3. \A u \in Threads \ {t} :
            /\ pc'[u] = pc[u] /\ line'[u] = line[u] /\ copy'[u] = copy[u]
            /\ covered'[u] = covered[u] /\ renewed'[u] = renewed[u]
      BY <2>1, ReturnFrame
    <3>4. QED
      BY <3>1, <3>2, <3>3
  <2>2. CASE ~Return(t, "look") /\ ~Return(t, "pause")
    <3>1. UNCHANGED <<ignored, entry, line, copy, covered, renewed>>
      BY <1>5, <2>2 DEF Close, LockTracker, Find, Count, UnlockTracker, PrintAlarm,
         LockIgnored, Look, PauseOnAlarm, Acquire, callVars, whoVars, auxVars, coverVars
    <3>2. \A u \in Threads \ {t} : pc'[u] = pc[u]
      BY <1>5, <2>2 DEF Close, LockTracker, Find, Count, UnlockTracker, PrintAlarm,
         LockIgnored, Look, PauseOnAlarm, Acquire
    <3>3. CASE Look(t)
      <4>1. LineOf(t) \notin ignored /\ pc[t] = "look"
        BY <2>2, <3>3 DEF Look, Ignored
      <4>2. LineOf(t) \notin covered[t]
        BY <4>1
      <4>3. line[t] = LineOf(t) \/ (~copy[t] /\ renewed[t])
        BY <4>1 DEF CallInv, Pending, Judged
      <4>4. QED
        BY <3>1, <3>2, <4>2, <4>3
    <3>4. CASE PauseOnAlarm(t)
      <4>1. pc[t] = "pause"
        BY <3>4 DEF PauseOnAlarm, Return
      <4>2. QED
        BY <3>1, <3>2, <4>1
    <3>5. CASE ~Look(t) /\ ~PauseOnAlarm(t)
      <4>1. pc'[t] \notin {"pause", "paused"}
        BY <1>5, <3>5 DEF Close, LockTracker, Find, Count, UnlockTracker, PrintAlarm,
           LockIgnored, Acquire
      <4>2. QED
        BY <3>1, <3>2, <4>1
    <3>6. QED
      BY <3>3, <3>4, <3>5
  <2>3. QED
    BY <2>1, <2>2
<1>6. ASSUME NEW t \in Threads, Edit(t)
      PROVE  CoverInv' /\ CoveredNeverPauses'
  <2>1. UNCHANGED <<entry, line, copy, renewed>>
    BY <1>6 DEF Edit, StopScan, LockAdd, Add, LockRemove, Remove, Acquire,
       callVars, whoVars, auxVars, coverVars
  <2>2. /\ \A u \in Threads \ {t} : pc'[u] = pc[u]
        /\ pc'[t] \in {"idle", "add", "lock_add", "remove"}
    BY <1>6 DEF Edit, StopScan, LockAdd, Add, LockRemove, Remove, Acquire
  <2>3. \A u \in Threads : covered'[u] \subseteq covered[u] \cap ignored'
    <3>1. CASE Remove(t)
      BY <3>1 DEF Remove
    <3>2. CASE ~Remove(t)
      BY <1>6, <3>2 DEF Edit, StopScan, LockAdd, Add, LockRemove, Acquire,
         auxVars, coverVars
    <3>3. QED
      BY <3>1, <3>2
  <2>4. QED
    BY <2>1, <2>2, <2>3
<1>7. QED
  BY <1>1, <1>4, <1>5, <1>6 DEF Next, Step, Tick, SetMaxAlarms, Config,
     Sleep, Rest, vars, callVars, whoVars, auxVars, coverVars

(* No thread pauses by a line that was in the list when its last alarm of  *)
(* the line was closed and was not removed meanwhile; an alarm of such a   *)
(* line pauses only when another was raised in making its text, by that    *)
(* one's line (AlarmMgr.cpp:157-171).                                      *)
THEOREM IgnoredLinesNeverPause == Spec => []CoveredNeverPauses
<1>1. Init => CoverInv /\ CoveredNeverPauses
  BY DEF Init, CoverInv, CoveredNeverPauses
<1>2. QED
  BY <1>1, InvInductive, CoverStep, PTL DEF Spec

(***************************************************************************)
(* Late calls.                                                             *)
(*                                                                         *)
(* Fix a line and a second k.  While the clock shows k, only a call        *)
(* stamped before k can take the count away from k, and every thread has   *)
(* at most one such call.  Once the clock has left k, only a call stamped  *)
(* k can bring the count back, and again every thread has at most one.     *)
(* The sum of the restarts made and of the calls that are still able to    *)
(* cause one therefore never grows, but for the first.                     *)
(***************************************************************************)
InFlight == {t \in Threads : pc[t] \in {"lock_tracker", "find", "count"}}
Late(k)  == {t \in InFlight : tick[t] < k}
On(k)    == {t \in InFlight : tick[t] = k}

(* The count of line l is one for second k.                                *)
Current(l, k) == tracker[l].num > 0 /\ tracker[l].tick = k

LateSum(l, k) == resets[l][k] + Cardinality(Late(k))

ResetsAt(l, k) ==
  /\ clock < k => resets[l][k] = 0
  /\ clock = k => /\ LateSum(l, k) <= N
                  /\ resets[l][k] > 0 /\ ~Current(l, k) =>
                       LateSum(l, k) <= N - 1
  /\ clock > k => \/ LateSum(l, k) + Cardinality(On(k)) <= 2 * N - 1
                  \/ On(k) = Threads /\ resets[l][k] <= N /\ Current(l, k)

PastStamps == \A t \in Threads : tick[t] <= clock

ResetInv == PastStamps /\ \A l \in Lines, k \in Ticks : ResetsAt(l, k)

LEMMA ThreadCount == N \in Nat /\ N > 0
BY ThreadsAssumption, FS_EmptySet, FS_CardinalityType DEF N

LEMMA Census ==
  ASSUME NEW S \in SUBSET Threads
  PROVE  /\ Cardinality(S) \in Nat
         /\ Cardinality(S) <= N
         /\ S # Threads => Cardinality(S) <= N - 1
         /\ S = {} => Cardinality(S) = 0
<1>1. IsFiniteSet(S) /\ Cardinality(S) <= N /\ (N = Cardinality(S) => S = Threads)
  BY ThreadsAssumption, FS_Subset DEF N
<1>2. Cardinality(S) \in Nat
  BY <1>1, FS_CardinalityType
<1>3. S = {} => Cardinality(S) = 0
  BY FS_EmptySet
<1>4. QED
  BY <1>1, <1>2, <1>3, ThreadCount

LEMMA CensusOfTwo ==
  ASSUME NEW S \in SUBSET Threads, NEW T \in SUBSET Threads, S \cap T = {}
  PROVE  Cardinality(S) + Cardinality(T) <= N
<1>1. IsFiniteSet(S) /\ IsFiniteSet(T)
  BY ThreadsAssumption, FS_Subset
<1>2. Cardinality(S \cup T) = Cardinality(S) + Cardinality(T)
  <2>1. Cardinality(S \cup T) =
          Cardinality(S) + Cardinality(T) - Cardinality(S \cap T)
    BY <1>1, FS_Union, Zenon
  <2>2. Cardinality(S \cap T) = 0
    BY FS_EmptySet
  <2>3. Cardinality(S) \in Nat /\ Cardinality(T) \in Nat
    BY Census
  <2>4. QED
    BY <2>1, <2>2, <2>3
<1>3. Cardinality(S \cup T) <= N
  BY Census
<1>4. QED
  BY <1>2, <1>3

LEMMA Leave ==
  ASSUME NEW S \in SUBSET Threads, NEW t \in Threads
  PROVE  Cardinality(S \ {t}) =
           IF t \in S THEN Cardinality(S) - 1 ELSE Cardinality(S)
<1>1. IsFiniteSet(S)
  BY ThreadsAssumption, FS_Subset
<1>2. QED
  BY <1>1, FS_RemoveElement

(* Steps that neither move the clock nor start or count a call.            *)
LEMMA QuietStep ==
  ASSUME TypeOK, [Next]_vars, ~Tick,
         \A t \in Threads : /\ ~Count(t)
                             /\ \A l \in Lines, c \in BOOLEAN : ~CloseEntry(t, l, c)
  PROVE  /\ UNCHANGED <<clock, tracker, tick, resets>>
         /\ InFlight' = InFlight
<1> USE DEF TypeOK, Goto, callVars, whoVars, configVars, auxVars, coverVars, InFlight
<1>1. CASE UNCHANGED <<clock, tracker, tick, resets, pc>>
  BY <1>1
<1>2. ASSUME NEW t \in Threads, Begin(t)
      PROVE  /\ UNCHANGED <<clock, tracker, tick, resets>>
             /\ pc[t] = "idle"
             /\ pc' = [pc EXCEPT ![t] = pc'[t]]
             /\ pc'[t] \in {"lock_add", "lock_remove"}
  BY <1>2 DEF Begin, SetIgnoredAlarm, RemoveIgnoredAlarm, SetIgnoredAlarms,
     StartEdit
<1>3. ASSUME NEW t \in Threads, Begin(t)
      PROVE  /\ UNCHANGED <<clock, tracker, tick, resets>>
             /\ InFlight' = InFlight
  BY <1>2, <1>3
<1>4. ASSUME NEW t \in Threads, Close(t)
      PROVE  /\ UNCHANGED <<clock, tracker, tick, resets>>
             /\ InFlight' = InFlight
  <2>1. UNCHANGED <<clock, tracker, tick, resets>>
    BY <1>4 DEF Close, LockTracker, Find, UnlockTracker, PrintAlarm,
       LockIgnored, Look, PauseOnAlarm, Return, Acquire
  <2>2. \A u \in Threads \ {t} : pc'[u] = pc[u]
    BY <1>4 DEF Close, LockTracker, Find, UnlockTracker, PrintAlarm,
       LockIgnored, Look, PauseOnAlarm, Return, Acquire
  <2>3. pc[t] \in {"lock_tracker", "find", "count"} <=>
          pc'[t] \in {"lock_tracker", "find", "count"}
    BY <1>4 DEF Close, LockTracker, Find, UnlockTracker, PrintAlarm,
       LockIgnored, Look, PauseOnAlarm, Return, Acquire
  <2>4. QED
    BY <2>1, <2>2, <2>3
<1>5. ASSUME NEW t \in Threads, Edit(t)
      PROVE  /\ UNCHANGED <<clock, tracker, tick, resets>>
             /\ InFlight' = InFlight
  <2>1. UNCHANGED <<clock, tracker, tick, resets>>
    BY <1>5 DEF Edit, StopScan, LockAdd, Add, LockRemove, Remove, Acquire
  <2>2. \A u \in Threads \ {t} : pc'[u] = pc[u]
    BY <1>5 DEF Edit, StopScan, LockAdd, Add, LockRemove, Remove, Acquire
  <2>3. /\ pc[t] \notin {"lock_tracker", "find", "count"}
        /\ pc'[t] \notin {"lock_tracker", "find", "count"}
    BY <1>5 DEF Edit, StopScan, LockAdd, Add, LockRemove, Remove, Acquire
  <2>4. QED
    BY <2>1, <2>2, <2>3
<1>6. QED
  BY <1>1, <1>3, <1>4, <1>5 DEF Next, Step, SetMaxAlarms, Config, Sleep,
     Rest, vars

LEMMA SetsOfCalls ==
  ASSUME NEW k \in Ticks
  PROVE  /\ Late(k) \in SUBSET Threads
         /\ On(k) \in SUBSET Threads
         /\ On(k) = Threads => Late(k) = {}
         /\ Late(k) \cap On(k) = {}
<1>1. ~(k < k)
  BY BoundsAssumption DEF Ticks
<1>2. /\ Late(k) \in SUBSET Threads
      /\ On(k) \in SUBSET Threads
  BY DEF Late, On, InFlight
<1>3. Late(k) \cap On(k) = {}
  BY <1>1 DEF Late, On
<1>4. QED
  BY <1>2, <1>3

(* The clock moves on: the calls stamped with the old second become late.  *)
LEMMA TickResets ==
  ASSUME TypeOK, ResetInv, Tick, NEW l \in Lines, NEW k \in Ticks
  PROVE  ResetsAt(l, k)'
<1>1. /\ clock' = clock + 1
      /\ clock \in Nat /\ k \in Nat
      /\ UNCHANGED <<pc, tracker, tick, resets>>
  BY BoundsAssumption DEF Tick, TypeOK, Ticks, callVars, auxVars
<1>2. /\ Late(k)' = Late(k) /\ On(k)' = On(k)
      /\ Current(l, k)' = Current(l, k)
      /\ resets'[l][k] = resets[l][k]
  BY <1>1 DEF Late, On, InFlight, Current
<1>3. resets[l][k] \in Nat /\ ResetsAt(l, k)
  BY DEF TypeOK, ResetInv
<1>4. /\ Cardinality(Late(k)) \in Nat /\ Cardinality(On(k)) \in Nat
      /\ Cardinality(Late(k)) + Cardinality(On(k)) <= N
      /\ On(k) # Threads => Cardinality(On(k)) <= N - 1
      /\ On(k) = Threads => Cardinality(Late(k)) = 0
      /\ Cardinality(On(k)) <= N /\ Cardinality(Late(k)) <= N
  BY SetsOfCalls, Census, CensusOfTwo
<1>5. /\ LateSum(l, k)' = LateSum(l, k)
      /\ Cardinality(On(k))' = Cardinality(On(k))
      /\ LateSum(l, k) = resets[l][k] + Cardinality(Late(k))
  BY <1>2 DEF LateSum
<1>6. CASE clock < k
  <2>1. resets[l][k] = 0
    BY <1>3, <1>6 DEF ResetsAt
  <2>2. LateSum(l, k) <= N
    BY <1>4, <1>5, <2>1
  <2>3. QED
    BY <1>1, <1>2, <1>5, <1>6, <2>1, <2>2 DEF ResetsAt
<1>7. CASE clock = k
  <2>1. \/ LateSum(l, k) + Cardinality(On(k)) <= 2 * N - 1
        \/ On(k) = Threads /\ resets[l][k] <= N /\ Current(l, k)
    <3>1. /\ LateSum(l, k) <= N
          /\ resets[l][k] > 0 /\ ~Current(l, k) => LateSum(l, k) <= N - 1
      BY <1>3, <1>7 DEF ResetsAt
    <3>2. CASE resets[l][k] = 0
      BY <1>3, <1>4, <1>5, <3>2, ThreadCount
    <3>3. CASE resets[l][k] > 0 /\ ~Current(l, k)
      BY <1>3, <1>4, <1>5, <3>1, <3>3, ThreadCount
    <3>4. CASE Current(l, k) /\ On(k) = Threads
      BY <1>3, <1>4, <1>5, <3>1, <3>4, ThreadCount
    <3>5. CASE Current(l, k) /\ On(k) # Threads
      BY <1>3, <1>4, <1>5, <3>1, <3>5, ThreadCount
    <3>6. QED
      BY <1>3, <3>2, <3>3, <3>4, <3>5
  <2>2. QED
    BY <1>1, <1>2, <1>5, <1>7, <2>1 DEF ResetsAt
<1>8. CASE clock > k
  BY <1>1, <1>2, <1>3, <1>5, <1>8 DEF ResetsAt
<1>9. QED
  BY <1>1, <1>6, <1>7, <1>8

(* A call that starts carries the present second: it is late for none.     *)
LEMMA CloseResets ==
  ASSUME TypeOK, ResetInv, NEW t \in Threads, NEW m \in Lines, NEW c \in BOOLEAN,
         CloseEntry(t, m, c),
         NEW l \in Lines, NEW k \in Ticks
  PROVE  ResetsAt(l, k)'
<1>1. /\ clock' = clock /\ tracker' = tracker /\ resets' = resets
      /\ clock \in Nat /\ k \in Nat
      /\ tick' = [tick EXCEPT ![t] = clock]
      /\ pc' = [pc EXCEPT ![t] = "lock_tracker"]
      /\ pc[t] \in {"idle", "print"}
  BY BoundsAssumption DEF CloseEntry, TypeOK, Ticks
<1>2. /\ t \notin InFlight
      /\ InFlight' = InFlight \cup {t}
      /\ \A u \in InFlight : tick'[u] = tick[u]
      /\ tick'[t] = clock
  BY <1>1 DEF InFlight, TypeOK
<1>3. clock >= k => Late(k)' = Late(k)
  BY <1>1, <1>2 DEF Late
<1>4. clock > k => On(k)' = On(k)
  BY <1>1, <1>2 DEF On
<1>5. Current(l, k)' = Current(l, k)
  BY <1>1 DEF Current
<1>6. ResetsAt(l, k)
  BY DEF ResetInv
<1>7. QED
  BY <1>1, <1>3, <1>4, <1>5, <1>6 DEF ResetsAt, LateSum

(* A call is counted: only now can a count be restarted.                   *)
LEMMA CountResets ==
  ASSUME Inv, ResetInv, NEW t \in Threads, Count(t),
         NEW l \in Lines, NEW k \in Ticks
  PROVE  ResetsAt(l, k)'
<1> DEFINE m == line[t]
           j == tick[t]
           e == found[t]
<1>1. /\ m \in Lines /\ j \in Ticks /\ j <= clock /\ e = tracker[m]
      /\ e \in Entries /\ pc[t] = "count"
      /\ clock \in Nat /\ k \in Nat /\ j \in Nat
      /\ resets[l][k] \in Nat /\ resets[m][j] \in Nat
  <2>1. pc[t] = "count"
    BY DEF Count, Goto
  <2>2. m \in Lines /\ j \in Ticks /\ e \in Entries /\ clock \in Ticks
    BY DEF Inv, TypeInv, TypeOK
  <2>3. e = tracker[m] /\ j <= clock
    BY <2>1 DEF Inv, FoundIsFresh, ResetInv, PastStamps
  <2>4. clock \in Nat /\ k \in Nat /\ j \in Nat
    BY <2>2, BoundsAssumption DEF Ticks
  <2>5. resets[l][k] \in Nat /\ resets[m][j] \in Nat
    BY <2>2 DEF Inv, TypeInv, TypeOK
  <2>6. QED
    BY <2>1, <2>2, <2>3, <2>4, <2>5
<1>2. /\ clock' = clock /\ tick' = tick
      /\ pc' = [pc EXCEPT ![t] = "unlock_tracker"]
      /\ tracker' = [tracker EXCEPT ![m] = Counted(e, j)]
      /\ resets' = [resets EXCEPT ![m][j] = IF Restarts(e, j) THEN @ + 1 ELSE @]
  BY DEF Count, Goto
<1>3. t \in InFlight /\ InFlight' = InFlight \ {t}
  BY <1>1, <1>2 DEF InFlight, Inv, TypeInv, TypeOK
<1>4. /\ Late(k)' = Late(k) \ {t} /\ On(k)' = On(k) \ {t}
      /\ t \in Late(k) <=> j < k
      /\ t \in On(k) <=> j = k
  BY <1>2, <1>3 DEF Late, On
<1>5. /\ Cardinality(Late(k)) \in Nat /\ Cardinality(On(k)) \in Nat
      /\ t \notin Late(k) => Cardinality(Late(k)) <= N - 1
      /\ t \in Late(k) => Cardinality(On(k)) <= N - 1
      /\ On(k) = Threads => Cardinality(Late(k)) = 0 /\ Cardinality(On(k)) = N
      /\ Cardinality(Late(k)) + Cardinality(On(k)) <= N
  BY <1>4, <1>1, SetsOfCalls, Census, CensusOfTwo DEF N
<1>6. /\ Cardinality(Late(k)') =
           IF j < k THEN Cardinality(Late(k)) - 1 ELSE Cardinality(Late(k))
      /\ Cardinality(On(k)') =
           IF j = k THEN Cardinality(On(k)) - 1 ELSE Cardinality(On(k))
  BY <1>4, SetsOfCalls, Leave
<1>7. resets'[l][k] = IF l = m /\ k = j /\ ~Current(l, k)
                        THEN resets[l][k] + 1 ELSE resets[l][k]
  <2>1. Restarts(e, j) <=> ~Current(m, j)
    BY <1>1 DEF Restarts, Current, Entries
  <2>2. resets \in [Lines -> [Ticks -> Nat]]
    BY DEF Inv, TypeInv, TypeOK
  <2>3. CASE l = m /\ k = j
    BY <1>1, <1>2, <2>1, <2>2, <2>3
  <2>4. CASE ~(l = m /\ k = j)
    BY <1>1, <1>2, <2>2, <2>4
  <2>5. QED
    BY <2>3, <2>4
<1>8. Current(l, k)' <=> (l = m /\ j = k) \/ (l # m /\ Current(l, k))
  BY <1>1, <1>2, CountedTypes DEF Inv, TypeInv, TypeOK, Counted, Restarts,
     Current, Entries
<1>9. ResetsAt(l, k)
  BY DEF ResetInv
<1>10. CASE clock < k
  BY <1>1, <1>2, <1>7, <1>9, <1>10 DEF ResetsAt
<1>11. CASE clock = k
  <2>1. LateSum(l, k)' <= N
    <3>1. /\ resets[l][k] + Cardinality(Late(k)) <= N
          /\ resets[l][k] > 0 /\ ~Current(l, k) =>
               resets[l][k] + Cardinality(Late(k)) <= N - 1
      BY <1>9, <1>11 DEF ResetsAt, LateSum
    <3>2. resets'[l][k] + Cardinality(Late(k)') <= N
      <4>1. CASE j = k
        BY <1>1, <1>4, <1>5, <1>6, <1>7, <3>1, <4>1, ThreadCount
      <4>2. CASE j # k
        BY <1>1, <1>4, <1>5, <1>6, <1>7, <3>1, <4>2, ThreadCount
      <4>3. QED
        BY <4>1, <4>2
    <3>3. QED
      BY <3>2 DEF LateSum
  <2>2. resets'[l][k] > 0 /\ ~Current(l, k)' => LateSum(l, k)' <= N - 1
    BY <1>1, <1>5, <1>6, <1>7, <1>8, <1>9, <1>11, ThreadCount
       DEF ResetsAt, LateSum
  <2>3. QED
    BY <1>1, <1>2, <1>11, <2>1, <2>2 DEF ResetsAt
<1>12. CASE clock > k
  <2>1. CASE On(k) = Threads /\ resets[l][k] <= N /\ Current(l, k)
    <3>1. j = k
      BY <2>1, <1>4
    <3>2. LateSum(l, k)' + Cardinality(On(k)') <= 2 * N - 1
      BY <1>1, <1>5, <1>6, <1>7, <2>1, <3>1, ThreadCount DEF LateSum
    <3>3. QED
      BY <1>1, <1>2, <1>12, <3>2 DEF ResetsAt
  <2>2. CASE LateSum(l, k) + Cardinality(On(k)) <= 2 * N - 1
    <3>1. LateSum(l, k)' + Cardinality(On(k)') <= 2 * N - 1
      BY <1>1, <1>5, <1>6, <1>7, <2>2, ThreadCount DEF LateSum
    <3>2. QED
      BY <1>1, <1>2, <1>12, <3>1 DEF ResetsAt
  <2>3. QED
    BY <1>9, <1>12, <2>1, <2>2 DEF ResetsAt
<1>13. QED
  BY <1>1, <1>10, <1>11, <1>12

LEMMA ResetStep == Inv /\ ResetInv /\ [Next]_vars => ResetInv'
<1> SUFFICES ASSUME Inv, ResetInv, [Next]_vars PROVE ResetInv'
  OBVIOUS
<1> USE DEF Inv, TypeInv
<1>1. CASE Tick
  <2>1. PastStamps'
    BY <1>1, BoundsAssumption DEF Tick, ResetInv, PastStamps, TypeOK, Ticks,
       callVars
  <2>2. QED
    BY <1>1, <2>1, TickResets DEF ResetInv
<1>2. ASSUME NEW t \in Threads, NEW m \in Lines, NEW c \in BOOLEAN,
             CloseEntry(t, m, c)
      PROVE  ResetInv'
  <2>1. PastStamps'
    BY <1>2, BoundsAssumption DEF CloseEntry, ResetInv, PastStamps, TypeOK, Ticks
  <2>2. QED
    BY <1>2, <2>1, CloseResets DEF ResetInv
<1>3. ASSUME NEW t \in Threads, Count(t) PROVE ResetInv'
  <2>1. PastStamps'
    BY <1>3 DEF Count, ResetInv, PastStamps
  <2>2. QED
    BY <1>3, <2>1, CountResets DEF ResetInv
<1>4. CASE ~Tick /\ \A t \in Threads :
                      ~Count(t) /\ \A m \in Lines, c \in BOOLEAN : ~CloseEntry(t, m, c)
  <2>1. UNCHANGED <<clock, tracker, tick, resets>> /\ InFlight' = InFlight
    BY <1>4, QuietStep
  <2>2. \A k \in Ticks : Late(k)' = Late(k) /\ On(k)' = On(k)
    BY <2>1 DEF Late, On
  <2>3. QED
    BY <2>1, <2>2 DEF ResetInv, PastStamps, ResetsAt, LateSum, Current
<1>5. QED
  BY <1>1, <1>2, <1>3, <1>4

(* Late calls (AlarmMgr.cpp:126-145) restart the count of a line for one   *)
(* second at most 2N-1 times, N being the number of threads.               *)
THEOREM ResetsAreBounded == Spec => []ResetsBounded
<1>1. Init => ResetInv
  <2>1. SUFFICES ASSUME Init PROVE ResetInv
    OBVIOUS
  <2>2. PastStamps
    BY <2>1 DEF Init, PastStamps
  <2>3. ASSUME NEW l \in Lines, NEW k \in Ticks PROVE ResetsAt(l, k)
    <3>1. clock = 0 /\ resets[l][k] = 0 /\ k \in Nat
      BY <2>1 DEF Init, Ticks
    <3>2. Late(k) = {}
      BY <2>1 DEF Init, Late, InFlight
    <3>3. QED
      BY <3>1, <3>2, Census, ThreadCount DEF ResetsAt, LateSum
  <2>4. QED
    BY <2>2, <2>3 DEF ResetInv
<1>2. Inv /\ ResetInv => ResetsBounded
  <2>1. SUFFICES ASSUME Inv, ResetInv, NEW l \in Lines, NEW k \in Ticks
                 PROVE  resets[l][k] <= 2 * N - 1
    BY DEF ResetsBounded
  <2>2. resets[l][k] \in Nat /\ clock \in Nat /\ k \in Nat /\ ResetsAt(l, k)
    BY <2>1, BoundsAssumption DEF Inv, TypeInv, TypeOK, ResetInv, Ticks
  <2>3. Cardinality(Late(k)) \in Nat /\ Cardinality(On(k)) \in Nat
    BY SetsOfCalls, Census
  <2>4. QED
    BY <2>2, <2>3, ThreadCount DEF ResetsAt, LateSum
<1>3. QED
  BY <1>1, <1>2, InvInductive, ResetStep, PTL DEF Spec

(***************************************************************************)
(* closeEntry() implements the limiter.                                    *)
(***************************************************************************)
Verdict == [t \in Threads |-> VerdictOf(t)]
Within  == [t \in Threads |-> Len(outer[t])]

Stutter == UNCHANGED <<clock, maxAlarms, tracker, entry, tick, Verdict, Within>>

LEMMA LimiterInit == Init => Limiter!Init
BY DEF Init, Limiter!Init, VerdictOf, Pending, Judged, NoEntry, Limiter!NoEntry

LEMMA SameVerdict ==
  ASSUME NEW t \in Threads, \A u \in Threads \ {t} : pc'[u] = pc[u],
         UNCHANGED needToRaise, VerdictOf(t)' = VerdictOf(t)
  PROVE  Verdict' = Verdict
<1>1. \A u \in Threads : VerdictOf(u)' = VerdictOf(u)
  BY DEF VerdictOf
<1>2. QED
  BY <1>1 DEF Verdict

LEMMA NewVerdict ==
  ASSUME NEW t \in Threads,
         \A u \in Threads \ {t} : /\ pc'[u] = pc[u]
                                  /\ needToRaise'[u] = needToRaise[u]
  PROVE  Verdict' = [Verdict EXCEPT ![t] = VerdictOf(t)']
<1>1. \A u \in Threads \ {t} : VerdictOf(u)' = VerdictOf(u)
  BY DEF VerdictOf
<1>2. QED
  BY <1>1 DEF Verdict

LEMMA SameWithin ==
  ASSUME UNCHANGED outer
  PROVE  Within' = Within
BY DEF Within

LEMMA NewWithin ==
  ASSUME NEW t \in Threads, NEW n,
         \A u \in Threads \ {t} : outer'[u] = outer[u],
         Len(outer'[t]) = n
  PROVE  Within' = [Within EXCEPT ![t] = n]
BY DEF Within

LEMMA BeginRefines ==
  ASSUME TypeOK, CallInv, NEW t \in Threads, Begin(t)
  PROVE  Stutter \/ \E l \in Lines : Limiter!Occur(t, l)
<1>1. ASSUME NEW l \in Lines, NEW c \in BOOLEAN, CloseEntry(t, l, c)
      PROVE  Limiter!Occur(t, l)
  <2>1. /\ pc[t] \in {"idle", "print"} /\ pc'[t] = "lock_tracker"
        /\ \A u \in Threads \ {t} : pc'[u] = pc[u]
        /\ needToRaise' = needToRaise
    BY <1>1 DEF CloseEntry, TypeOK
  <2>2. VerdictOf(t)' = "pending"
    BY <2>1 DEF VerdictOf, Pending
  <2>3. Verdict' = [Verdict EXCEPT ![t] = "pending"]
    BY <2>1, <2>2, NewVerdict
  <2>4. CASE pc[t] = "idle"
    <3>1. Verdict[t] = "none"
      BY <2>4 DEF Verdict, VerdictOf, Pending, Judged
    <3>2. outer[t] = <<>>
      BY <2>4 DEF CallInv, Pending, Judged
    <3>3. outer' = outer
      BY <1>1, <2>4, <3>2 DEF CloseEntry, TypeOK
    <3>4. QED
      BY <1>1, <2>3, <3>1, <3>3, SameWithin
         DEF CloseEntry, Limiter!Occur, Verdict, Within, configVars
  <2>5. CASE pc[t] = "print"
    <3>1. Verdict[t] = "show"
      BY <2>5 DEF CallInv, Verdict, VerdictOf, Pending, Judged
    <3>2. outer' = [outer EXCEPT ![t] = <<[line |-> line[t], copy |-> copy[t]]>> \o @]
      BY <1>1, <2>5 DEF CloseEntry
    <3>3. Len(outer'[t]) = Within[t] + 1
      <4>1. outer[t] \in Seq(Frames) /\ [line |-> line[t], copy |-> copy[t]] \in Frames
        BY DEF TypeOK, Frames
      <4>2. Len(<<[line |-> line[t], copy |-> copy[t]]>> \o outer[t]) = 1 + Len(outer[t])
        BY <4>1
      <4>3. Len(outer[t]) \in Nat /\ Within[t] = Len(outer[t])
        BY <4>1, LenProperties DEF Within
      <4>4. QED
        BY <3>2, <4>2, <4>3 DEF TypeOK
    <3>4. Within' = [Within EXCEPT ![t] = Within[t] + 1]
      BY <3>2, <3>3, NewWithin DEF TypeOK
    <3>5. QED
      BY <1>1, <2>3, <3>1, <3>4 DEF CloseEntry, Limiter!Occur, Verdict, Within, configVars
  <2>6. QED
    BY <2>1, <2>4, <2>5
<1>2. ASSUME NEW e, NEW to \in {"lock_add", "lock_remove"}, StartEdit(t, e, to)
      PROVE  Stutter
  <2>1. /\ pc[t] = "idle" /\ pc'[t] = to
        /\ \A u \in Threads \ {t} : pc'[u] = pc[u]
        /\ UNCHANGED <<clock, maxAlarms, tracker, entry, tick, needToRaise, outer>>
    BY <1>2 DEF StartEdit, Goto, TypeOK, callVars, whoVars, configVars
  <2>2. VerdictOf(t) = "none" /\ VerdictOf(t)' = "none"
    BY <2>1 DEF VerdictOf, Pending, Judged
  <2>3. QED
    BY <2>1, <2>2, SameVerdict, SameWithin DEF Stutter
<1>3. QED
  BY <1>1, <1>2 DEF Begin, SetIgnoredAlarm, RemoveIgnoredAlarm,
     SetIgnoredAlarms

LEMMA CountRefines ==
  ASSUME Inv, NEW t \in Threads, Count(t)
  PROVE  Limiter!Decide(t)
<1> DEFINE l == line[t]
           k == tick[t]
           e == found[t]
<1>1. /\ pc[t] = "count" /\ pc'[t] = "unlock_tracker"
      /\ \A u \in Threads \ {t} : /\ pc'[u] = pc[u]
                                  /\ needToRaise'[u] = needToRaise[u]
      /\ needToRaise'[t] = Raised(e, k, maxAlarms)
  BY DEF Count, Goto, Inv, TypeInv, TypeOK
<1>2. /\ e = tracker[l] /\ l \in Lines /\ tracker \in [Lines -> Entries]
      /\ entry[t] = l
  BY <1>1 DEF Inv, FoundIsFresh, TypeInv, TypeOK, CallInv, Pending
<1>3. Raised(e, k, maxAlarms) <=> Limiter!Shown(e, k, maxAlarms)
  BY DEF Raised, Counted, Restarts, Limiter!Shown, Limiter!Counted
<1>4. VerdictOf(t)' =
        IF Limiter!Shown(tracker[l], k, maxAlarms) THEN "show" ELSE "drop"
  BY <1>1, <1>2, <1>3 DEF VerdictOf, Pending, Judged
<1>5. Verdict[t] = "pending"
  BY <1>1 DEF Verdict, VerdictOf, Pending
<1>6. Verdict' = [Verdict EXCEPT ![t] =
        IF Limiter!Shown(tracker[l], k, maxAlarms) THEN "show" ELSE "drop"]
  BY <1>1, <1>4, NewVerdict
<1>7. tracker' = [tracker EXCEPT ![l] = Limiter!Counted(@, k)]
  BY <1>2 DEF Count, Counted, Restarts, Limiter!Counted
<1>8. UNCHANGED <<clock, maxAlarms, entry, tick, Within>>
  BY SameWithin DEF Count, configVars
<1>9. QED
  BY <1>2, <1>5, <1>6, <1>7, <1>8 DEF Limiter!Decide, Verdict, Within

LEMMA ReturnRefines ==
  ASSUME Inv, NEW t \in Threads, NEW from \in {"look", "pause"}, Return(t, from),
         UNCHANGED <<clock, maxAlarms, tracker, entry, tick>>
  PROVE  Limiter!Finish(t)
<1>1. /\ pc[t] = from
      /\ \A u \in Threads \ {t} : /\ pc'[u] = pc[u]
                                  /\ needToRaise'[u] = needToRaise[u]
                                  /\ outer'[u] = outer[u]
  BY ReturnFrame DEF Inv, TypeInv
<1>2. Verdict[t] \in {"show", "drop"}
  BY <1>1 DEF Verdict, VerdictOf, Pending, Judged
<1>3. Verdict' = [Verdict EXCEPT ![t] = VerdictOf(t)']
  BY <1>1, NewVerdict
<1>4. CASE pc'[t] = "idle" /\ outer[t] = <<>> /\ outer'[t] = <<>>
  <2>1. VerdictOf(t)' = "none"
    BY <1>4 DEF VerdictOf, Pending, Judged
  <2>2. outer' = outer
    BY <1>4 DEF Return
  <2>3. Within[t] = 0 /\ Within' = Within
    BY <1>4, <2>2, SameWithin DEF Within
  <2>4. QED
    BY <1>2, <1>3, <2>1, <2>3 DEF Limiter!Finish, Verdict, Within
<1>5. CASE /\ pc'[t] = "print" /\ outer[t] # <<>> /\ outer'[t] = Tail(outer[t])
           /\ needToRaise'[t]
  <2>1. VerdictOf(t)' = "show"
    BY <1>5 DEF VerdictOf, Pending, Judged
  <2>2. /\ Len(outer[t]) \in Nat /\ Len(outer[t]) > 0
        /\ Len(Tail(outer[t])) = Len(outer[t]) - 1
    <3>1. outer[t] \in Seq(Frames)
      BY DEF Inv, TypeInv, TypeOK
    <3>2. QED
      BY <1>5, <3>1
  <2>3. Within[t] > 0 /\ Len(outer'[t]) = Within[t] - 1
    BY <1>5, <2>2 DEF Within
  <2>4. Within' = [Within EXCEPT ![t] = Within[t] - 1]
    BY <1>1, <2>3, NewWithin
  <2>5. QED
    BY <1>2, <1>3, <2>1, <2>3, <2>4 DEF Limiter!Finish, Verdict, Within
<1>6. QED
  BY <1>4, <1>5, ReturnFrame DEF Inv, TypeInv

LEMMA CloseRefines ==
  ASSUME Inv, NEW t \in Threads, Close(t), ~Count(t)
  PROVE  Stutter \/ Limiter!Finish(t)
<1>1. UNCHANGED <<clock, maxAlarms, tracker, entry, tick>>
  BY DEF Close, LockTracker, Find, UnlockTracker, PrintAlarm, LockIgnored, Look,
     PauseOnAlarm, Acquire, callVars, configVars
<1>2. CASE Return(t, "look") \/ Return(t, "pause")
  BY <1>1, <1>2, ReturnRefines
<1>3. CASE ~Return(t, "look") /\ ~Return(t, "pause")
  <2>1. /\ \A u \in Threads \ {t} : pc'[u] = pc[u]
        /\ UNCHANGED <<needToRaise, outer>>
    BY <1>3 DEF Close, LockTracker, Find, UnlockTracker, PrintAlarm, LockIgnored, Look,
       PauseOnAlarm, Acquire, Goto, callVars, whoVars, Inv, TypeInv, TypeOK
  <2>2. \/ pc[t] \in Pending /\ pc'[t] \in Pending
        \/ pc[t] \in Judged /\ pc'[t] \in Judged
    BY <1>3 DEF Close, LockTracker, Find, UnlockTracker, PrintAlarm, LockIgnored, Look,
       PauseOnAlarm, Acquire, Goto, Pending, Judged, Inv, TypeInv, TypeOK
  <2>3. VerdictOf(t)' = VerdictOf(t)
    BY <2>1, <2>2 DEF VerdictOf, Pending, Judged
  <2>4. QED
    BY <1>1, <2>1, <2>3, SameVerdict, SameWithin DEF Stutter
<1>4. QED
  BY <1>2, <1>3

LEMMA EditRefines ==
  ASSUME TypeOK, NEW t \in Threads, Edit(t)
  PROVE  Stutter
<1>1. /\ \A u \in Threads \ {t} : pc'[u] = pc[u]
      /\ UNCHANGED <<clock, maxAlarms, tracker, entry, tick, needToRaise, outer>>
      /\ pc[t] \notin Pending \cup Judged
      /\ pc'[t] \notin Pending \cup Judged
  BY DEF Edit, StopScan, LockAdd, Add, LockRemove, Remove, Acquire, Goto,
     callVars, whoVars, configVars, Pending, Judged, TypeOK
<1>2. VerdictOf(t)' = VerdictOf(t)
  BY <1>1 DEF VerdictOf
<1>3. QED
  BY <1>1, <1>2, SameVerdict, SameWithin DEF Stutter

LEMMA LimiterStep == Inv /\ [Next]_vars => [Limiter!Next]_(Limiter!vars)
<1> SUFFICES ASSUME Inv, [Next]_vars PROVE Limiter!Next \/ UNCHANGED Limiter!vars
  OBVIOUS
<1>1. Stutter => UNCHANGED Limiter!vars
  BY DEF Stutter, Limiter!vars, Verdict, Within
<1>2. ASSUME UNCHANGED <<pc, needToRaise, outer>> PROVE UNCHANGED <<Verdict, Within>>
  BY <1>2 DEF Verdict, VerdictOf, Within
<1>3. CASE UNCHANGED vars
  BY <1>1, <1>2, <1>3 DEF vars, callVars, whoVars, configVars, Stutter
<1>4. CASE Tick
  <2>1. UNCHANGED <<pc, needToRaise, outer, maxAlarms, tracker, entry, tick>>
    BY <1>4 DEF Tick, callVars, whoVars, configVars
  <2>2. Limiter!Tick
    BY <1>2, <1>4, <2>1 DEF Tick, Limiter!Tick, Verdict, Within
  <2>3. QED
    BY <2>2 DEF Limiter!Next
<1>5. ASSUME NEW n \in Limits, SetMaxAlarms(n)
      PROVE  Limiter!Next \/ UNCHANGED Limiter!vars
  <2>1. UNCHANGED <<pc, needToRaise, outer, clock, tracker, entry, tick>>
    BY <1>5 DEF SetMaxAlarms, callVars, whoVars
  <2>2. Limiter!SetMax
    BY <1>2, <1>5, <2>1 DEF SetMaxAlarms, Limiter!SetMax, Verdict, Within
  <2>3. QED
    BY <2>2 DEF Limiter!Next
<1>6. ASSUME NEW flag \in BOOLEAN, Config(flag) PROVE UNCHANGED Limiter!vars
  BY <1>1, <1>2, <1>6 DEF Config, Stutter, callVars, whoVars
<1>7. ASSUME NEW t \in Threads, Begin(t) \/ Step(t)
      PROVE  Limiter!Next \/ UNCHANGED Limiter!vars
  <2>1. CASE Begin(t)
    BY <1>1, <2>1, BeginRefines DEF Limiter!Next, Inv, TypeInv
  <2>2. CASE Count(t)
    BY <2>2, CountRefines DEF Limiter!Next
  <2>3. CASE Close(t) /\ ~Count(t)
    BY <1>1, <2>3, CloseRefines DEF Limiter!Next
  <2>4. CASE Edit(t)
    BY <1>1, <2>4, EditRefines DEF Inv, TypeInv
  <2>5. QED
    BY <1>7, <2>1, <2>2, <2>3, <2>4 DEF Step
<1>8. QED
  BY <1>3, <1>4, <1>5, <1>6, <1>7 DEF Next, Sleep, Rest

(* closeEntry(), with its lock, look-up and late clock, implements the     *)
(* limiter that counts and judges an occurrence in one step.               *)
THEOREM AlarmMgrImplementsLimiter == Spec => ImplementsLimiter
<1>1. Spec => []Inv
  BY InvInductive, PTL DEF Spec
<1>2. QED
  BY <1>1, LimiterInit, LimiterStep, PTL
     DEF Spec, ImplementsLimiter, Limiter!Spec
=============================================================================
