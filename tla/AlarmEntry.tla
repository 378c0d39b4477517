---------------------------- MODULE AlarmEntry ----------------------------
(***************************************************************************)
(* OmnAlarmEntry and the statements that raise alarms (src/src/Alarm), on  *)
(* top of the trace entries they are printed with.                         *)
(*                                                                         *)
(*   OmnAlarm << piece << ... << enderr    uses the one entry its thread   *)
(*                                         has, from getEntry() to the end *)
(*   aos_assert(cond)                      copies that entry at once       *)
(*   aos_alarm(fmt, ...)                   formats its text into one of a  *)
(*                                         ring of buffers before that     *)
(*                                                                         *)
(* An operand of OmnAlarm may trace or raise alarms of its own, and so may *)
(* the making of the text of an alarm that is shown: toString() does not   *)
(* keep to its own rule (AlarmEntry.cpp:160).  sgAlarmId++ and slBufIndex++*)
(* are each a read and a write of a variable all threads share.            *)
(*                                                                         *)
(* Whether an alarm is shown, and whether it sleeps, is AlarmMgr's part.   *)
(***************************************************************************)
EXTENDS TraceEntry, Functions

CONSTANTS MaxAlarms,    \* bound: alarms raised
          MaxAlarmPieces, \* bound: pieces of one alarm
          RingSize      \* 8: the buffers aos_alarm_get_errmsg() goes round

ASSUME AlarmAssumption ==
  MaxAlarms \in Nat /\ MaxAlarmPieces \in Nat /\ RingSize \in Nat \ {0}

Alarms == 1 .. MaxAlarms
Kinds  == {"stream", "assert", "printf"}

VARIABLES
  sgAlarmId,
  alarmEntry,  \* alarmEntry[t]: stAlarmEntry, the number, head and text
  frames,      \* frames[t]: the alarms t is raising, the innermost last
  slBufIndex,
  slBuffer,    \* slBuffer[i]: the alarm whose text is in buffer i
  raised       \* alarms so far

(* Auxiliary variables, read by no guard.                                  *)
VARIABLES
  outer,       \* outer[a]: the alarms a was raised inside of
  no,          \* no[a]: the number a was given
  given,       \* the entries alarms were counted by or printed from
  idRaced,     \* two threads were in sgAlarmId++ at once
  ringRaced,   \* or in slBufIndex++
  during       \* during[a]: buffers taken while a was using its own

ringVars  == <<slBufIndex, slBuffer, ringRaced, during>>
idVars    == <<sgAlarmId, no, idRaced>>
alarmVars == <<alarmEntry, frames, raised, outer, given, ringVars, idVars>>

NoAlarm == [no |-> 0, of |-> 0, text |-> <<>>]

AlarmInit ==
  /\ Init
  /\ sgAlarmId = 101
  /\ alarmEntry = [t \in Threads |-> NoAlarm]
  /\ frames = [t \in Threads |-> <<>>]
  /\ slBufIndex = 0
  /\ slBuffer = [i \in 0 .. RingSize - 1 |-> 0]
  /\ raised = 0
  /\ outer = [a \in Alarms |-> {}]
  /\ no = [a \in Alarms |-> 0]
  /\ given = {}
  /\ idRaced = FALSE /\ ringRaced = FALSE
  /\ during = [a \in Alarms |-> 0]

(***************************************************************************)
(* A frame: the alarm, its kind, where the call is, the trace statements   *)
(* open around it, the value it has read of a shared counter, the buffer   *)
(* or the text that it has, the entry it has copied, the pieces it put.    *)
(***************************************************************************)
Top(t)    == Last(frames[t])
Raising(t, at) == frames[t] # <<>> /\ Top(t).at = at /\ Len(open[t]) = Top(t).depth
Set(t, f) == frames' = [frames EXCEPT ![t] = Append(Front(@), f)]
Leave(t)  == frames' = [frames EXCEPT ![t] = Front(@)]

(* The program runs, in an operand or in what toString() calls if t is     *)
(* raising an alarm.                                                       *)
Runs(t) == frames[t] # <<>> => Top(t).at \in {"open", "format"}
Depth(t) == IF frames[t] = <<>> THEN 0 ELSE Top(t).depth

Elsewhere(t, at) ==
  \E u \in Threads \ {t} : frames[u] # <<>> /\ Top(u).at = at

Raise(t, kind) ==
  /\ Runs(t)
  /\ raised < MaxAlarms
  /\ raised' = raised + 1
  /\ outer' = [outer EXCEPT ![raised'] = {f.alarm : f \in ToSet(frames[t])}]
  /\ frames' = [frames EXCEPT ![t] = Append(@,
        [alarm |-> raised', kind |-> kind, depth |-> Len(open[t]),
         at |-> IF kind = "printf" THEN "take" ELSE "number",
         read |-> 0, text |-> raised', copy |-> NoAlarm, put |-> 0])]
  /\ UNCHANGED <<vars, alarmEntry, given, ringVars, idVars>>

(***************************************************************************)
(* aos_alarm_get_errmsg(), and the OmnString its result is copied to.      *)
(***************************************************************************)
MutantBuffer(index) == index % (RingSize - 1)
Buffer(index) == index % RingSize

Using == {Top(u).alarm : u \in {u \in Threads : /\ frames[u] # <<>>
                                                /\ Top(u).at \in {"fill", "copy"}}}

Take(t) ==
  /\ Raising(t, "take")
  /\ Set(t, [Top(t) EXCEPT !.at = "store", !.read = slBufIndex])
  /\ ringRaced' = (ringRaced \/ Elsewhere(t, "store"))
  /\ UNCHANGED <<vars, alarmEntry, raised, outer, given, idVars,
                 slBufIndex, slBuffer, during>>

Store(t) ==
  /\ Raising(t, "store")
  /\ slBufIndex' = Top(t).read + 1
  /\ Set(t, [Top(t) EXCEPT !.at = "fill"])
  /\ during' = [a \in Alarms |-> IF a \in Using THEN during[a] + 1 ELSE during[a]]
  /\ UNCHANGED <<vars, alarmEntry, raised, outer, given, idVars,
                 slBuffer, ringRaced>>

Fill(t) ==
  /\ Raising(t, "fill")
  /\ slBuffer' = [slBuffer EXCEPT ![Buffer(Top(t).read)] = Top(t).alarm]
  /\ Set(t, [Top(t) EXCEPT !.at = "copy"])
  /\ UNCHANGED <<vars, alarmEntry, raised, outer, given, idVars,
                 slBufIndex, ringRaced, during>>

Copy(t) ==
  /\ Raising(t, "copy")
  /\ Set(t, [Top(t) EXCEPT !.at = "number", !.text = slBuffer[Buffer(Top(t).read)]])
  /\ UNCHANGED <<vars, alarmEntry, raised, outer, given, idVars, ringVars>>

(***************************************************************************)
(* getEntry(), and the rest of raiseAlarmFromAssert(), which goes on with  *)
(* a copy of the entry.                                                    *)
(***************************************************************************)
Number(t) ==
  /\ Raising(t, "number")
  /\ Set(t, [Top(t) EXCEPT !.at = "stamp", !.read = sgAlarmId])
  /\ idRaced' = (idRaced \/ Elsewhere(t, "stamp"))
  /\ UNCHANGED <<vars, alarmEntry, raised, outer, given, ringVars, sgAlarmId, no>>

MutantNextId(id) == id
NextId(id) == id + 1

Stamp(t) ==
  LET f == Top(t)
      e == [no |-> f.read, of |-> f.alarm, text |-> <<>>] IN
  /\ Raising(t, "stamp")
  /\ sgAlarmId' = NextId(f.read)
  /\ no' = [no EXCEPT ![f.alarm] = f.read]
  /\ alarmEntry' = [alarmEntry EXCEPT ![t] = e]
  /\ Set(t, IF f.kind = "stream" THEN [f EXCEPT !.at = "open"]
            ELSE [f EXCEPT !.at = "close", !.put = 1,
                           !.copy = [e EXCEPT !.text = <<f.text>>]])
  /\ UNCHANGED <<vars, raised, outer, given, ringVars, idRaced>>

(* operator << of a piece.                                                 *)
PutPiece(t) ==
  /\ Raising(t, "open")
  /\ Top(t).put < MaxAlarmPieces
  /\ alarmEntry' = [alarmEntry EXCEPT ![t].text = Append(@, Top(t).alarm)]
  /\ Set(t, [Top(t) EXCEPT !.put = @ + 1])
  /\ UNCHANGED <<vars, raised, outer, given, ringVars, idVars>>

(***************************************************************************)
(* operator << enderr: closeEntry() takes file and line from the entry to  *)
(* count the alarm, then, if it is to be shown, toString() all of it, and  *)
(* prints that.                                                            *)
(***************************************************************************)
MutantEntryClosed(t) == alarmEntry[t]
EntryClosed(t) == IF Top(t).kind = "stream" THEN alarmEntry[t] ELSE Top(t).copy

Give(t) ==
  given' = given \cup {[alarm |-> Top(t).alarm, kind |-> Top(t).kind,
                        put |-> Top(t).put, as |-> EntryClosed(t)]}

CloseEntry(t) ==
  /\ Raising(t, "open") \/ Raising(t, "close")
  /\ Give(t)
  /\ Leave(t) \/ Set(t, [Top(t) EXCEPT !.at = "format"])
  /\ UNCHANGED <<vars, alarmEntry, raised, outer, ringVars, idVars>>

(* OmnScreenError << buff << endl.  When toString() returns false, as it   *)
(* does where the stack is too shallow for a full backtrace or the text    *)
(* too long for its buffer, "alarm error" is printed in place of buff: the *)
(* screen gets nothing of the entry.                                       *)
OpenScreen(t) ==
  /\ Raising(t, "format")
  /\ Give(t) \/ UNCHANGED given
  /\ GetEntry(t)
  /\ Set(t, [Top(t) EXCEPT !.at = "print", !.depth = @ + 1])
  /\ UNCHANGED <<alarmEntry, raised, outer, ringVars, idVars>>

ScreenText(t) ==
  /\ Raising(t, "print")
  /\ Put(t)
  /\ Set(t, [Top(t) EXCEPT !.at = "endl"])
  /\ UNCHANGED <<alarmEntry, raised, outer, given, ringVars, idVars>>

ScreenEnd(t) ==
  /\ Raising(t, "endl")
  /\ Endl(t)
  /\ Set(t, [Top(t) EXCEPT !.at = "return"])
  /\ UNCHANGED <<alarmEntry, raised, outer, given, ringVars, idVars>>

CloseReturns(t) ==
  /\ Raising(t, "return")
  /\ Return(t)
  /\ Leave(t)
  /\ UNCHANGED <<alarmEntry, raised, outer, given, ringVars, idVars>>

Alarm(t) ==
  \/ \E kind \in Kinds : Raise(t, kind)
  \/ Take(t) \/ Store(t) \/ Fill(t) \/ Copy(t)
  \/ Number(t) \/ Stamp(t) \/ PutPiece(t)
  \/ CloseEntry(t) \/ OpenScreen(t) \/ ScreenText(t) \/ ScreenEnd(t) \/ CloseReturns(t)

Trace(t) ==
  /\ Runs(t)
  /\ \/ GetEntry(t)
     \/ Len(open[t]) > Depth(t) /\ (Put(t) \/ Endl(t) \/ Return(t))
  /\ UNCHANGED alarmVars

AlarmNext ==
  \/ \E t \in Threads : Alarm(t) \/ Trace(t)
  \/ (MakeMgr \/ DestroyMgr) /\ UNCHANGED alarmVars

AlarmSpec == AlarmInit /\ [][AlarmNext]_<<vars, alarmVars>>

(***************************************************************************)
(* Properties.                                                             *)
(***************************************************************************)
(* Whatever an alarm is counted by and whatever is printed of it is its    *)
(* own file, line and number and all of its text; an alarm whose text      *)
(* cannot be made is shown by nothing of that.  Only one raised with       *)
(* OmnAlarm may go by another's, when an operand of it or the making of    *)
(* its text raises an alarm: by the last of those, which began the         *)
(* thread's entry anew (94-106).                                           *)
AlarmsAreWhole ==
  \A g \in given :
    \/ /\ g.as.of = g.alarm /\ g.as.no = no[g.alarm]
       /\ Len(g.as.text) = g.put
       /\ g.kind # "printf" => ToSet(g.as.text) \subseteq {g.alarm}
    \/ g.kind = "stream" /\ g.alarm \in outer[g.as.of]

(* No two alarms have one number, until two threads are in sgAlarmId++ at  *)
(* once (99): alarms inside one another or one after the other differ.     *)
NumbersDiffer ==
  idRaced \/ IsInjective(Restrict(no, {a \in Alarms : no[a] # 0}))

(* aos_alarm() reports the text it was called with unless two threads take *)
(* a buffer at once or one is slow enough for the others to go round the   *)
(* ring: RingSize buffers serve that many calls that overlap (458-470).    *)
OwnText ==
  \A g \in given :
    g.kind = "printf" /\ g.as.text # <<g.alarm>>
      => ringRaced \/ \E a \in Alarms : during[a] >= RingSize

=============================================================================
