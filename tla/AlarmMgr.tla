------------------------------ MODULE AlarmMgr ------------------------------
(***************************************************************************)
(* OmnAlarmMgr (src/src/Alarm/AlarmMgr.cpp): the life of an alarm from the *)
(* call of closeEntry() to its return, in every thread that raises one.    *)
(*                                                                         *)
(* One lock, sgLock, guards two hash maps: smAlarmTracker, which limits    *)
(* how often a source line is reported per second, and smIgnoredAlarms,    *)
(* the lines that must not stop the program when pause_on_alarm is set.    *)
(* The second an alarm belongs to is read BEFORE the lock is taken, the    *)
(* limit smMaxAlarms and the flag smPauseOnAlarm are read and written      *)
(* without it, and the alarm is printed after it has been released.        *)
(*                                                                         *)
(* A thread has ONE entry (stAlarmEntry).  OmnAlarm closes that entry      *)
(* itself, the assert macros and aos_alarm() close a copy of it.  Making   *)
(* the text of an alarm may raise alarms (AlarmEntry.cpp:164-197): calls   *)
(* of closeEntry() inside the one that is printing.  Each of them begins   *)
(* the thread's entry anew, and the outer call, when it goes on, reads     *)
(* file and line from the entry it closes again (168).                     *)
(***************************************************************************)
EXTENDS Integers, Sequences, FiniteSets

CONSTANTS Threads,    \* the threads of the program
          Lines,      \* the source lines alarms are raised at ("file_line")
          MaxTick,    \* bound: last value of the clock, in seconds
          MaxCalls,   \* bound: calls of closeEntry() in a behaviour
          MaxEdits,   \* bound: calls that edit smIgnoredAlarms
          MaxConfigs, \* bound: calls that change smMaxAlarms, smPauseOnAlarm
          Limits,     \* the values smMaxAlarms may be given
          Lists,      \* the arguments of setIgnoredAlarms(), parsed
          NoThread,   \* nobody: the value of a free lock
          Malformed,  \* an item of a list with too short a name or line
          NoColon     \* the text after the last item when it has no ':'

ASSUME ThreadsAssumption ==
  /\ IsFiniteSet(Threads)
  /\ Threads # {}
  /\ NoThread \notin Threads

ASSUME LinesAssumption ==
  /\ Lines # {}
  /\ {Malformed, NoColon} \cap Lines = {}

ASSUME BoundsAssumption ==
  /\ MaxTick \in Nat
  /\ MaxCalls \in Nat
  /\ MaxEdits \in Nat
  /\ MaxConfigs \in Nat
  /\ Limits \subseteq Int
  /\ Limits # {}

(* Once the text has no further ':' the scan is over, so NoColon is last.  *)
ASSUME ListsAssumption ==
  /\ Lists \subseteq Seq(Lines \cup {Malformed, NoColon})
  /\ \A s \in Lists : \A i \in 1..Len(s) : s[i] = NoColon => i = Len(s)

VARIABLES
  pc,         \* pc[t]: the statement thread t is about to execute
  clock,      \* OmnTime::getSecTick(): it never goes back
  sgLock,     \* the holder of the mutex, or NoThread
  tracker,    \* smAlarmTracker; num = 0 when the line has no entry
  ignored,    \* smIgnoredAlarms: the lines that do not pause
  maxAlarms,  \* smMaxAlarms
  pauseOn,    \* smPauseOnAlarm
  entry,      \* entry[t]: file and line in t's stAlarmEntry
  line,       \* line[t]: the local "key" of closeEntry()
  copy,       \* copy[t]: theEntry is a copy, not stAlarmEntry
  tick,       \* tick[t]: the local "tick" of closeEntry()
  found,      \* found[t]: what smAlarmTracker.find(key) returned
  needToRaise,\* needToRaise[t]: the local of that name
  outer,      \* outer[t]: the calls t's call is inside of, innermost first
  edit,       \* edit[t]: what t still has to do to smIgnoredAlarms
  calls, edits, configs    \* the counters the bounds speak of

(* Auxiliary variables: what happened, never read by an action's guard.    *)
VARIABLES
  resets,     \* resets[l][k]: times the count of l was restarted at second k
  window,     \* window[l]: alarms admitted since the last restart
  covered,    \* covered[t]: lines of t's present calls that have been in
              \* ignored ever since the last alarm of the line was closed
  renewed     \* renewed[t]: an alarm was raised while t's text was made

whoVars    == <<line, copy, needToRaise, outer>>
callVars   == <<entry, tick, found, whoVars>>
configVars == <<maxAlarms, pauseOn, configs>>
coverVars  == <<covered, renewed>>
auxVars    == <<resets, window, coverVars>>
vars == <<pc, clock, sgLock, tracker, ignored, edit, calls, edits,
          callVars, configVars, auxVars>>

Ticks   == 0..MaxTick
NoEntry == [tick |-> 0, num |-> 0]
NoEdit  == [add |-> <<>>, remove |-> {}]

Init ==
  /\ pc = [t \in Threads |-> "idle"]
  /\ clock = 0
  /\ sgLock = NoThread
  /\ tracker = [l \in Lines |-> NoEntry]
  /\ ignored = {}
  /\ maxAlarms \in Limits
  /\ pauseOn = FALSE
  /\ entry \in [Threads -> Lines]
  /\ line = entry
  /\ copy = [t \in Threads |-> FALSE]
  /\ tick = [t \in Threads |-> 0]
  /\ found = [t \in Threads |-> NoEntry]
  /\ needToRaise = [t \in Threads |-> FALSE]
  /\ outer = [t \in Threads |-> <<>>]
  /\ edit = [t \in Threads |-> NoEdit]
  /\ calls = 0
  /\ edits = 0
  /\ configs = 0
  /\ resets = [l \in Lines |-> [k \in Ticks |-> 0]]
  /\ window = [l \in Lines |-> 0]
  /\ covered = [t \in Threads |-> {}]
  /\ renewed = [t \in Threads |-> FALSE]

(***************************************************************************)
(* The environment: time, configuration.                                   *)
(***************************************************************************)
Tick ==
  /\ clock < MaxTick
  /\ clock' = clock + 1
  /\ UNCHANGED <<pc, sgLock, tracker, ignored, edit, calls, edits,
                 callVars, configVars, auxVars>>

(* setMaxAlarms(): a plain store, no lock.                                 *)
SetMaxAlarms(n) ==
  /\ configs < MaxConfigs
  /\ maxAlarms' = n
  /\ configs' = configs + 1
  /\ UNCHANGED <<pc, clock, sgLock, tracker, ignored, pauseOn, edit, calls,
                 edits, callVars, auxVars>>

(* config(): with an <AlarmMgr> tag it stores the flag, no lock either.    *)
Config(flag) ==
  /\ configs < MaxConfigs
  /\ pauseOn' = flag
  /\ configs' = configs + 1
  /\ UNCHANGED <<pc, clock, sgLock, tracker, ignored, maxAlarms, edit, calls,
                 edits, callVars, auxVars>>

(***************************************************************************)
(* sgLock.  (A definition named Mutant... is a plausible slip in the code  *)
(* of the definition below it; the runs must notice it when it is put in.) *)
(***************************************************************************)
Goto(t, from, to) == pc[t] = from /\ pc' = [pc EXCEPT ![t] = to]

MutantNoLock == TRUE
LockIsFree == sgLock = NoThread

(* OmnMutexLock(sgLock): wait until it is free, take it.                   *)
Acquire(t, from, to) ==
  /\ Goto(t, from, to)
  /\ LockIsFree
  /\ sgLock' = t
  /\ UNCHANGED <<clock, tracker, ignored, edit, calls, edits, callVars,
                 configVars, auxVars>>

(***************************************************************************)
(* closeEntry().                                                           *)
(***************************************************************************)
MutantStamp == clock + 1
Stamp == clock

(* The alarm of line l is closed, in the program or while t makes the text *)
(* of another: its second is read.  getEntry() has put l into the thread's *)
(* entry; what is closed may be a copy of that.                            *)
CloseEntry(t, l, copied) ==
  /\ pc[t] \in {"idle", "print"}
  /\ pc' = [pc EXCEPT ![t] = "lock_tracker"]
  /\ calls < MaxCalls
  /\ calls' = calls + 1
  /\ outer' = [outer EXCEPT ![t] =
        IF pc[t] = "idle" THEN <<>>
        ELSE <<[line |-> line[t], copy |-> copy[t]]>> \o @]
  /\ entry' = [entry EXCEPT ![t] = l]
  /\ line' = [line EXCEPT ![t] = l]
  /\ copy' = [copy EXCEPT ![t] = copied]
  /\ tick' = [tick EXCEPT ![t] = Stamp]
  /\ covered' = [covered EXCEPT ![t] = IF l \in ignored THEN @ \cup {l} ELSE @ \ {l}]
  /\ renewed' = [renewed EXCEPT ![t] = FALSE]
  /\ UNCHANGED <<clock, sgLock, tracker, ignored, found, needToRaise, edit,
                 edits, configVars, resets, window>>

LockTracker(t) == Acquire(t, "lock_tracker", "find")

(* smAlarmTracker.find(key)                                                *)
Find(t) ==
  /\ Goto(t, "find", "count")
  /\ found' = [found EXCEPT ![t] = tracker[line[t]]]
  /\ UNCHANGED <<clock, sgLock, tracker, ignored, entry, tick, whoVars,
                 edit, calls, edits, configVars, auxVars>>

(* The count starts again: the line is new, or its second is another one.  *)
MutantRestarts(e, k) == TRUE
Restarts(e, k) == e.num = 0 \/ e.tick # k

MutantCounted(e, k) == [tick |-> k, num |-> e.num + 1]
Counted(e, k) ==
  IF Restarts(e, k) THEN [tick |-> k, num |-> 1] ELSE [e EXCEPT !.num = @ + 1]

(* A line never seen before is raised whatever smMaxAlarms is.             *)
MutantRaised(e, k, limit) == e.num = 0 \/ Counted(e, k).num <= limit
Raised(e, k, limit) == e.num = 0 \/ Counted(e, k).num < limit

Count(t) ==
  LET l == line[t]
      k == tick[t]
      e == found[t]
      raise == Raised(e, k, maxAlarms)
      base  == IF Restarts(e, k) THEN 0 ELSE window[l]
  IN
  /\ Goto(t, "count", "unlock_tracker")
  /\ tracker' = [tracker EXCEPT ![l] = Counted(e, k)]
  /\ needToRaise' = [needToRaise EXCEPT ![t] = raise]
  /\ resets' = [resets EXCEPT ![l][k] = IF Restarts(e, k) THEN @ + 1 ELSE @]
  /\ window' = [window EXCEPT ![l] = IF raise THEN base + 1 ELSE base]
  /\ UNCHANGED <<clock, sgLock, ignored, entry, line, copy, outer, tick, found,
                 edit, calls, edits, configVars, coverVars>>

(* OmnMutexUnlock(sgLock), then toString() and OmnScreenError if needed.   *)
UnlockTracker(t) ==
  /\ Goto(t, "unlock_tracker",
          IF needToRaise[t] THEN "print" ELSE "lock_ignored")
  /\ sgLock' = NoThread
  /\ UNCHANGED <<clock, tracker, ignored, edit, calls, edits, callVars,
                 configVars, auxVars>>

(* toString() is done; the alarm, or "alarm error" when it failed, goes to *)
(* the screen.                                                             *)
PrintAlarm(t) ==
  /\ Goto(t, "print", "lock_ignored")
  /\ UNCHANGED <<clock, sgLock, tracker, ignored, edit, calls, edits, callVars,
                 configVars, auxVars>>

(* ignoreAlarm(), of the file and line that are in the entry by now.       *)
LineOf(t) == IF copy[t] THEN line[t] ELSE entry[t]

LockIgnored(t) == Acquire(t, "lock_ignored", "look")

Ignored(l) == l \in ignored

(* The call returns, to the program or to the toString() it came from,     *)
(* which goes on with its own call (an alarm that is shown).               *)
Return(t, from) ==
  /\ Goto(t, from, IF outer[t] = <<>> THEN "idle" ELSE "print")
  /\ IF outer[t] = <<>>
       THEN /\ copy' = [copy EXCEPT ![t] = FALSE]
            /\ covered' = [covered EXCEPT ![t] = {}]
            /\ renewed' = [renewed EXCEPT ![t] = FALSE]
            /\ UNCHANGED <<line, needToRaise, outer>>
       ELSE /\ line' = [line EXCEPT ![t] = Head(outer[t]).line]
            /\ copy' = [copy EXCEPT ![t] = Head(outer[t]).copy]
            /\ needToRaise' = [needToRaise EXCEPT ![t] = TRUE]
            /\ outer' = [outer EXCEPT ![t] = Tail(@)]
            /\ renewed' = [renewed EXCEPT ![t] = TRUE]
            /\ UNCHANGED covered

(* Both exits of ignoreAlarm() unlock.                                     *)
MutantLockAfterLook(l) == IF Ignored(l) THEN NoThread ELSE sgLock
LockAfterLook(l) == NoThread

Look(t) ==
  /\ \/ Ignored(LineOf(t)) /\ Return(t, "look")
     \/ ~Ignored(LineOf(t)) /\ Goto(t, "look", "pause") /\ UNCHANGED <<whoVars, coverVars>>
  /\ sgLock' = LockAfterLook(LineOf(t))
  /\ UNCHANGED <<clock, tracker, ignored, entry, tick, found, edit, calls, edits,
                 configVars, resets, window>>

(* pauseOnAlarm(): the flag is read once, and the loop never ends.         *)
PauseOnAlarm(t) ==
  /\ \/ ~pauseOn /\ Return(t, "pause")
     \/ pauseOn /\ Goto(t, "pause", "paused") /\ UNCHANGED <<whoVars, coverVars>>
  /\ UNCHANGED <<clock, sgLock, tracker, ignored, entry, tick, found, edit, calls,
                 edits, configVars, resets, window>>

Sleep(t) == pc[t] = "paused" /\ UNCHANGED vars

(***************************************************************************)
(* The list of ignored alarms.                                             *)
(***************************************************************************)
StartEdit(t, e, to) ==
  /\ Goto(t, "idle", to)
  /\ edits < MaxEdits
  /\ edits' = edits + 1
  /\ edit' = [edit EXCEPT ![t] = e]
  /\ UNCHANGED <<clock, sgLock, tracker, ignored, calls, callVars, configVars,
                 auxVars>>

SetIgnoredAlarm(t, l) == StartEdit(t, [NoEdit EXCEPT !.add = <<l>>], "lock_add")

RemoveIgnoredAlarm(t, l) ==
  StartEdit(t, [NoEdit EXCEPT !.remove = {l}], "lock_remove")

SetIgnoredAlarms(t, s) == StartEdit(t, [NoEdit EXCEPT !.add = s], "lock_add")

(* The scan stops at a malformed item ("return false") and at text without *)
(* a ':' ("break"); what was added before stays in force.                  *)
ScanEnds(s) == s # <<>> => Head(s) \in {Malformed, NoColon}

StopScan(t) ==
  /\ ScanEnds(edit[t].add)
  /\ Goto(t, "lock_add", "idle")
  /\ edit' = [edit EXCEPT ![t] = NoEdit]
  /\ UNCHANGED <<clock, sgLock, tracker, ignored, calls, edits, callVars,
                 configVars, auxVars>>

LockAdd(t) == ~ScanEnds(edit[t].add) /\ Acquire(t, "lock_add", "add")

MutantWith(l) == {l}
With(l) == ignored \cup {l}

(* smIgnoredAlarms[key] = line, unlock, on to the next item.               *)
Add(t) ==
  /\ Goto(t, "add", "lock_add")
  /\ ignored' = With(Head(edit[t].add))
  /\ edit' = [edit EXCEPT ![t].add = Tail(@)]
  /\ sgLock' = NoThread
  /\ UNCHANGED <<clock, tracker, calls, edits, callVars, configVars, auxVars>>

LockRemove(t) == Acquire(t, "lock_remove", "remove")

(* smIgnoredAlarms.erase(key), unlock.                                     *)
Remove(t) ==
  /\ Goto(t, "remove", "idle")
  /\ ignored' = ignored \ edit[t].remove
  /\ covered' = [u \in Threads |-> covered[u] \ edit[t].remove]
  /\ edit' = [edit EXCEPT ![t] = NoEdit]
  /\ sgLock' = NoThread
  /\ UNCHANGED <<clock, tracker, calls, edits, callVars, configVars, resets,
                 window, renewed>>

(***************************************************************************)
(* The program.                                                            *)
(***************************************************************************)
Close(t) ==
  \/ LockTracker(t)
  \/ Find(t)
  \/ Count(t)
  \/ UnlockTracker(t)
  \/ PrintAlarm(t)
  \/ LockIgnored(t)
  \/ Look(t)
  \/ PauseOnAlarm(t)

Edit(t) ==
  \/ StopScan(t)
  \/ LockAdd(t)
  \/ Add(t)
  \/ LockRemove(t)
  \/ Remove(t)

Step(t) == Close(t) \/ Edit(t)

Begin(t) ==
  \/ \E l \in Lines : \/ \E copied \in BOOLEAN : CloseEntry(t, l, copied)
                      \/ SetIgnoredAlarm(t, l)
                      \/ RemoveIgnoredAlarm(t, l)
  \/ \E s \in Lists : SetIgnoredAlarms(t, s)

(* Threads may do something else for ever, so the system may stop here.    *)
Rest == (\A t \in Threads : pc[t] = "idle") /\ UNCHANGED vars

Next ==
  \/ Tick
  \/ \E n \in Limits : SetMaxAlarms(n)
  \/ \E flag \in BOOLEAN : Config(flag)
  \/ \E t \in Threads : Begin(t) \/ Step(t) \/ Sleep(t)
  \/ Rest

Spec == Init /\ [][Next]_vars

(* A thread that is inside a call goes on with it; the mutex is handed to  *)
(* a waiting thread in the end (only finitely many calls compete for it).  *)
FairSpec == Spec /\ \A t \in Threads : WF_vars(Step(t))

(***************************************************************************)
(* Properties.                                                             *)
(***************************************************************************)
Pcs == {"idle", "lock_tracker", "find", "count", "unlock_tracker", "print",
        "lock_ignored", "look", "pause", "paused",
        "lock_add", "add", "lock_remove", "remove"}

Entries == [tick : Ticks, num : Nat]
Frames  == [line : Lines, copy : BOOLEAN]

(* Every variable has the type its declaration in the code gives it.       *)
TypeOK ==
  /\ pc \in [Threads -> Pcs]
  /\ clock \in Ticks
  /\ sgLock \in Threads \cup {NoThread}
  /\ tracker \in [Lines -> Entries]
  /\ ignored \subseteq Lines
  /\ maxAlarms \in Limits
  /\ pauseOn \in BOOLEAN
  /\ entry \in [Threads -> Lines]
  /\ line \in [Threads -> Lines]
  /\ copy \in [Threads -> BOOLEAN]
  /\ tick \in [Threads -> Ticks]
  /\ found \in [Threads -> Entries]
  /\ needToRaise \in [Threads -> BOOLEAN]
  /\ outer \in [Threads -> Seq(Frames)]
  /\ edit \in [Threads -> [add : Seq(Lines \cup {Malformed, NoColon}),
                           remove : SUBSET Lines]]
  /\ calls \in Nat
  /\ edits \in Nat
  /\ configs \in Nat
  /\ resets \in [Lines -> [Ticks -> Nat]]
  /\ window \in [Lines -> Nat]
  /\ covered \in [Threads -> SUBSET Lines]
  /\ renewed \in [Threads -> BOOLEAN]

(* The statements executed between OmnMutexLock and OmnMutexUnlock.        *)
Critical == {"find", "count", "unlock_tracker", "look", "add", "remove"}

(* A thread is between a lock and an unlock of sgLock exactly when it is   *)
(* its holder: no two threads touch the hash maps at once, none returns,   *)
(* prints or pauses (AlarmMgr.cpp:154-170) with the lock still taken, and  *)
(* both exits of ignoreAlarm (188, 192) release it.                        *)
LockHeldIffCritical == \A t \in Threads : sgLock = t <=> pc[t] \in Critical

(* The entry find() returned is still the entry of the tracker when it is  *)
(* incremented (131, 146): no count is lost.                               *)
FoundIsFresh ==
  \A t \in Threads : pc[t] = "count" => found[t] = tracker[line[t]]

N == Cardinality(Threads)

(* The second is read before the lock is taken (126, 130), so a call that  *)
(* is late puts an old second back and the count of the current one starts *)
(* again.  However the calls interleave this happens at most twice per     *)
(* OTHER thread: a line's count for one second is started at most 2N-1     *)
(* times, whatever the number of alarms.                                   *)
ResetsBounded == \A l \in Lines, k \in Ticks : resets[l][k] <= 2 * N - 1

(* The most that one count lets through: the first alarm of a line is let  *)
(* through unconditionally, a later one only below the limit.              *)
WindowCap(n) == \E m \in Limits : n <= m - 1

(* Between two restarts of its count a line is shown at most smMaxAlarms-1 *)
(* times, for the largest value smMaxAlarms was ever given, and at least   *)
(* its very first alarm is shown (138, 147).                               *)
WindowBounded == \A l \in Lines : window[l] <= 1 \/ WindowCap(window[l])

(* A thread never pauses by a line that has been in smIgnoredAlarms since  *)
(* the thread's last alarm of that line was closed (168), whatever the     *)
(* other threads add and remove meanwhile.  The line it pauses by is that  *)
(* of the alarm it closes, except for an OmnAlarm while whose text was     *)
(* made another alarm was raised: that one goes by the other's line, and   *)
(* only so can an alarm of an ignored line pause.                          *)
CoveredNeverPauses ==
  \A t \in Threads : pc[t] \in {"pause", "paused"} =>
    /\ LineOf(t) \notin covered[t]
    /\ line[t] \in covered[t] => ~copy[t] /\ renewed[t]

(* Every call made, with or without an alarm on the screen, comes back     *)
(* or, if pause_on_alarm is set, pauses; and a thread that pauses for ever *)
(* keeps nobody else from getting there.  (MaxCalls: the alarms raised in  *)
(* making a text come to an end.)                                          *)
CallsEnd == \A t \in Threads : pc[t] # "idle" ~> pc[t] \in {"idle", "paused"}

(* How a call stands with the limiter: it is pending until it is counted,  *)
(* judged until it returns or pauses.                                      *)
Pending == {"lock_tracker", "find", "count"}
Judged  == {"unlock_tracker", "print", "lock_ignored", "look", "pause", "paused"}

VerdictOf(t) ==
  IF pc[t] \in Pending THEN "pending"
  ELSE IF pc[t] \in Judged THEN IF needToRaise[t] THEN "show" ELSE "drop"
  ELSE "none"

Limiter == INSTANCE AlarmLimiter WITH
             line    <- entry,
             verdict <- [t \in Threads |-> VerdictOf(t)],
             within  <- [t \in Threads |-> Len(outer[t])]

(* closeEntry() implements the atomic limiter: however threads interleave, *)
(* each occurrence is counted and judged as if in one step.                *)
ImplementsLimiter == Limiter!Spec
=============================================================================
