-------------------------- MODULE AlarmEntryProofs --------------------------
(***************************************************************************)
(* Proofs about AlarmEntry, for any threads, alarms and buffers: what the  *)
(* alarms trace is traced, their numbers, that they stay whole, and that   *)
(* texts made in the ring of buffers are their own.                        *)
(***************************************************************************)
EXTENDS AlarmEntry, TraceEntryProofs

(***************************************************************************)
(* What threads that raise alarms trace is traced as TraceEntry says: an   *)
(* alarm that is shown is one statement, everything else of it none.       *)
(***************************************************************************)
(* AlarmEntry implements TraceEntry: the alarms a thread raises never take *)
(* its trace entry in a way no statement does (AlarmMgr.cpp, closeEntry()).*)
THEOREM AlarmsTrace == AlarmSpec => Spec
PROOF
<1>1. AlarmInit => Init
  BY DEF AlarmInit
<1>2. [AlarmNext]_<<vars, alarmVars>> => [Next]_vars
  <2>1. ASSUME NEW t \in Threads, Alarm(t) PROVE Next \/ UNCHANGED vars
    BY <2>1 DEF Alarm, Raise, Take, Store, Fill, Copy, Number, Stamp, PutPiece,
         CloseEntry, OpenScreen, ScreenText, ScreenEnd, CloseReturns, Next
  <2>2. ASSUME NEW t \in Threads, Trace(t) PROVE Next
    BY <2>2 DEF Trace, Next
  <2>3. QED  BY <2>1, <2>2 DEF AlarmNext, Next
<1>3. QED  BY <1>1, <1>2, PTL DEF AlarmSpec, Spec

(* An alarm that is shown is traced like anything else: its text is        *)
(* written with the head of the statement that shows it, whatever operands *)
(* and other threads trace meanwhile (AlarmMgr.cpp, TraceEntry.cpp:43, 73).*)
THEOREM AlarmsKeepHeadsRight == AlarmSpec => []RightHead
PROOF
<1>1. QED  BY AlarmsTrace, HeadsAreRight, PTL

(* Nor is a statement torn by alarms, its own or those of other threads    *)
(* (AlarmMgr.cpp:160, TraceMgr.cpp:207).                                   *)
THEOREM AlarmsTearNothing == AlarmSpec => []NotTorn
PROOF
<1>1. QED  BY AlarmsTrace, StatementsAreNotTorn, PTL

(* And what is traced along with an alarm, its own text included, is never *)
(* lost while there is a trace manager (TraceEntry.cpp:71-78).             *)
THEOREM AlarmsLoseNothing == AlarmSpec => []NothingLost
PROOF
<1>1. QED  BY AlarmsTrace, NothingIsLost, PTL

LEMMA AlarmsKeepTypes == AlarmSpec => []TypeOK
PROOF
<1>1. QED  BY AlarmsTrace, TypeCorrect, PTL

(***************************************************************************)
(* What threads and alarms have.                                           *)
(***************************************************************************)
Places == {"take", "store", "fill", "copy", "number", "stamp", "open", "close",
           "format", "print", "endl", "return"}

Texts    == 0 .. MaxAlarms
Numbered == [no : Nat, of : Texts, text : Seq(Texts)]
Frame    == [alarm : Alarms, kind : Kinds, depth : Nat, at : Places, read : Nat,
             text : Texts, copy : Numbered, put : Nat]

AlarmTypes ==
  /\ sgAlarmId \in Nat
  /\ alarmEntry \in [Threads -> Numbered]
  /\ slBufIndex \in Nat
  /\ slBuffer \in [0 .. RingSize - 1 -> Texts]
  /\ raised \in Nat
  /\ no \in [Alarms -> Nat]
  /\ idRaced \in BOOLEAN

(* An alarm is raised from an operand or from toString() of the one around *)
(* it, which therefore is not in getEntry().                               *)
FramesInv ==
  /\ frames \in [Threads -> Seq(Frame)]
  /\ \A t \in Threads : \A i \in 1 .. Len(frames[t]) - 1 :
       frames[t][i].at \in {"open", "format"}

Stamping(t) == frames[t] # <<>> /\ Top(t).at = "stamp"

(* As long as one thread at a time is in sgAlarmId++: the numbers given    *)
(* are behind, each given once, and the thread about to write back has     *)
(* read the number that is next.                                           *)
Behind ==
  /\ \A a \in Alarms : no[a] < sgAlarmId
  /\ \A a, b \in Alarms : no[a] # 0 /\ no[a] = no[b] => a = b

Alone ==
  /\ \A t \in Threads : Stamping(t) => Top(t).read = sgAlarmId
  /\ \A t, u \in Threads : Stamping(t) /\ Stamping(u) => t = u

NumberInv == sgAlarmId > 0 /\ (idRaced \/ (Behind /\ Alone))

AlarmInv == AlarmTypes /\ FramesInv /\ NumberInv

(***************************************************************************)
(* Stacks of frames.                                                       *)
(***************************************************************************)
LEMMA FrontAndLast ==
  ASSUME NEW S, NEW s \in Seq(S), s # <<>>
  PROVE  /\ Front(s) \in Seq(S) /\ Len(Front(s)) = Len(s) - 1
         /\ \A i \in 1 .. Len(s) - 1 : Front(s)[i] = s[i]
         /\ Last(s) \in S /\ Last(s) = s[Len(s)]
PROOF
<1> DEFINE n == Len(s) - 1
<1>1. Len(s) \in Nat \ {0}
  BY EmptySeq
<1>2. n \in Nat /\ \A i \in 1 .. n : s[i] \in S
  BY <1>1, ElementOfSeq
<1>3. Front(s) = SubSeq(s, 1, n)
  BY DEF Front
<1>4. /\ SubSeq(s, 1, n) \in Seq(S)
      /\ Len(SubSeq(s, 1, n)) = IF 1 <= n THEN n - 1 + 1 ELSE 0
      /\ \A i \in 1 .. n - 1 + 1 : SubSeq(s, 1, n)[i] = s[1 + i - 1]
  <2> HIDE DEF n
  <2>1. n \in Int /\ 1 \in Int  BY <1>2
  <2>2. QED  BY <1>2, <2>1, SubSeqProperties
<1>5. Len(Front(s)) = n /\ \A i \in 1 .. n : Front(s)[i] = s[i]
  <2> HIDE DEF n
  <2>1. QED  BY <1>2, <1>3, <1>4
<1>6. Last(s) = s[Len(s)] /\ Last(s) \in S
  BY <1>1, ElementOfSeq DEF Last
<1>7. QED  BY <1>3, <1>4, <1>5, <1>6

LEMMA SetFrame ==
  ASSUME FramesInv, NEW t \in Threads, frames[t] # <<>>, NEW f \in Frame, Set(t, f)
  PROVE  /\ FramesInv'
         /\ frames'[t] # <<>> /\ Last(frames'[t]) = f
         /\ \A u \in Threads \ {t} : frames'[u] = frames[u]
PROOF
<1> DEFINE s == frames[t]
           r == Append(Front(s), f)
<1>1. s \in Seq(Frame) /\ s # <<>> /\ Len(s) \in Nat \ {0}
  BY EmptySeq DEF FramesInv
<1>2. /\ Front(s) \in Seq(Frame) /\ Len(Front(s)) = Len(s) - 1
      /\ \A i \in 1 .. Len(s) - 1 : Front(s)[i] = s[i]
  BY <1>1, FrontAndLast
<1>3. /\ r \in Seq(Frame) /\ Len(r) = Len(s) /\ r[Len(s)] = f
      /\ \A i \in 1 .. Len(s) - 1 : r[i] = s[i]
  BY <1>1, <1>2
<1>4. frames' = [frames EXCEPT ![t] = r]
  BY DEF Set, FramesInv
<1>5. frames'[t] = r /\ \A u \in Threads \ {t} : frames'[u] = frames[u]
  BY <1>4 DEF FramesInv
<1>6. r # <<>> /\ Last(r) = f
  BY <1>1, <1>3 DEF Last
<1>7. \A i \in 1 .. Len(r) - 1 : r[i].at \in {"open", "format"}
  BY <1>3 DEF FramesInv
<1>8. FramesInv'
  <2> HIDE DEF r
  <2>1. frames' \in [Threads -> Seq(Frame)]
    BY <1>3, <1>4 DEF FramesInv
  <2>2. \A u \in Threads : \A i \in 1 .. Len(frames'[u]) - 1 :
          frames'[u][i].at \in {"open", "format"}
    BY <1>5, <1>7 DEF FramesInv
  <2>3. QED  BY <2>1, <2>2 DEF FramesInv
<1>9. QED  BY <1>5, <1>6, <1>8

LEMMA LeaveFrame ==
  ASSUME FramesInv, NEW t \in Threads, frames[t] # <<>>, Leave(t)
  PROVE  /\ FramesInv'
         /\ frames'[t] # <<>> => Last(frames'[t]).at \in {"open", "format"}
         /\ \A u \in Threads \ {t} : frames'[u] = frames[u]
PROOF
<1> DEFINE s == frames[t]
           r == Front(s)
<1>1. s \in Seq(Frame) /\ s # <<>> /\ Len(s) \in Nat \ {0}
  BY EmptySeq DEF FramesInv
<1>2. /\ r \in Seq(Frame) /\ Len(r) = Len(s) - 1
      /\ \A i \in 1 .. Len(s) - 1 : r[i] = s[i]
  BY <1>1, FrontAndLast
<1>3. frames' = [frames EXCEPT ![t] = r]
  BY DEF Leave, FramesInv
<1>4. frames'[t] = r /\ \A u \in Threads \ {t} : frames'[u] = frames[u]
  BY <1>3 DEF FramesInv
<1>5. \A i \in 1 .. Len(s) - 1 : r[i].at \in {"open", "format"}
  BY <1>2 DEF FramesInv
<1>6. ASSUME r # <<>> PROVE Last(r).at \in {"open", "format"}
  <2> HIDE DEF r, s
  <2>1. Len(r) \in 1 .. Len(s) - 1 /\ Last(r) = r[Len(r)]
    BY <1>1, <1>2, <1>6, EmptySeq DEF Last
  <2>2. QED  BY <1>5, <2>1
<1>7. FramesInv'
  <2> HIDE DEF r, s
  <2>1. frames' \in [Threads -> Seq(Frame)]
    BY <1>2, <1>3 DEF FramesInv
  <2>2. \A i \in 1 .. Len(r) - 1 : r[i].at \in {"open", "format"}
    BY <1>1, <1>2, <1>5
  <2>3. \A u \in Threads : \A i \in 1 .. Len(frames'[u]) - 1 :
          frames'[u][i].at \in {"open", "format"}
    BY <1>4, <2>2 DEF FramesInv
  <2>4. QED  BY <2>1, <2>3 DEF FramesInv
<1>8. QED  BY <1>4, <1>6, <1>7

LEMMA TopFrame ==
  ASSUME FramesInv, NEW t \in Threads, frames[t] # <<>>
  PROVE  Top(t) \in Frame
BY FrontAndLast DEF FramesInv, Top

LEMMA FrameRead ==
  ASSUME NEW f \in Frame, NEW a \in Places, NEW r \in Nat
  PROVE  /\ [f EXCEPT !.at = a, !.read = r] \in Frame
         /\ [f EXCEPT !.at = a, !.read = r].at = a
BY DEF Frame

LEMMA FrameText ==
  ASSUME NEW f \in Frame, NEW a \in Places, NEW x \in Texts
  PROVE  /\ [f EXCEPT !.at = a, !.text = x] \in Frame
         /\ [f EXCEPT !.at = a, !.text = x].at = a
BY DEF Frame

LEMMA FrameDepth ==
  ASSUME NEW f \in Frame, NEW a \in Places, NEW n \in Nat
  PROVE  /\ [f EXCEPT !.at = a, !.depth = n] \in Frame
         /\ [f EXCEPT !.at = a, !.depth = n].at = a
BY DEF Frame

(***************************************************************************)
(* A step that gives no number.                                            *)
(***************************************************************************)
LEMMA OtherNumbers ==
  ASSUME AlarmInv, NEW t \in Threads, UNCHANGED idVars,
         \A u \in Threads \ {t} : frames'[u] = frames[u],
         frames'[t] # <<>> => Last(frames'[t]).at # "stamp"
  PROVE  NumberInv'
PROOF
<1>1. UNCHANGED <<sgAlarmId, no, idRaced>>
  BY DEF idVars
<1>2. ASSUME NEW u \in Threads, Stamping(u)'
      PROVE  u # t /\ Stamping(u) /\ Top(u)' = Top(u)
  BY <1>2 DEF Stamping, Top
<1>3. CASE idRaced
  BY <1>1, <1>3 DEF AlarmInv, NumberInv
<1>4. CASE ~idRaced
  <2>1. Behind /\ Alone
    BY <1>4 DEF AlarmInv, NumberInv
  <2>2. Behind'
    BY <1>1, <2>1 DEF Behind
  <2>3. \A u \in Threads : Stamping(u)' => Stamping(u) /\ Top(u)'.read = sgAlarmId'
    BY <1>1, <1>2, <2>1 DEF Alone
  <2>4. Alone'
    BY <2>1, <2>3 DEF Alone
  <2>5. QED  BY <1>1, <2>2, <2>4 DEF AlarmInv, NumberInv
<1>5. QED  BY <1>3, <1>4

LEMMA SetStep ==
  ASSUME AlarmInv, NEW t \in Threads, frames[t] # <<>>, NEW f \in Frame, f.at # "stamp",
         Set(t, f), UNCHANGED idVars
  PROVE  FramesInv' /\ NumberInv'
PROOF
<1>1. /\ FramesInv' /\ Last(frames'[t]) = f
      /\ \A u \in Threads \ {t} : frames'[u] = frames[u]
  BY SetFrame DEF AlarmInv
<1>2. QED  BY <1>1, OtherNumbers

LEMMA LeaveStep ==
  ASSUME AlarmInv, NEW t \in Threads, frames[t] # <<>>, Leave(t), UNCHANGED idVars
  PROVE  FramesInv' /\ NumberInv'
PROOF
<1>1. /\ FramesInv'
      /\ frames'[t] # <<>> => Last(frames'[t]).at \in {"open", "format"}
      /\ \A u \in Threads \ {t} : frames'[u] = frames[u]
  BY LeaveFrame DEF AlarmInv
<1>2. QED  BY <1>1, OtherNumbers

LEMMA SameFrames ==
  ASSUME AlarmInv, UNCHANGED alarmVars
  PROVE  AlarmInv'
BY DEF AlarmInv, AlarmTypes, FramesInv, NumberInv, Behind, Alone, Stamping, Top,
       alarmVars, ringVars, idVars

(***************************************************************************)
(* The actions.                                                            *)
(***************************************************************************)
LEMMA RaiseStep ==
  ASSUME AlarmInv, TypeOK, NEW t \in Threads, NEW kind \in Kinds, Raise(t, kind)
  PROVE  AlarmInv'
PROOF
<1> DEFINE f == [alarm |-> raised', kind |-> kind, depth |-> Len(open[t]),
                 at |-> IF kind = "printf" THEN "take" ELSE "number",
                 read |-> 0, text |-> raised', copy |-> NoAlarm, put |-> 0]
           s == frames[t]
           r == Append(s, f)
<1> USE AlarmAssumption
<1>1. /\ raised' = raised + 1 /\ raised' \in Alarms /\ raised' \in Texts
      /\ frames' = [frames EXCEPT ![t] = r]
      /\ UNCHANGED <<alarmEntry, sgAlarmId, slBufIndex, slBuffer, no, idRaced>>
      /\ UNCHANGED idVars
  BY DEF Raise, AlarmInv, AlarmTypes, Alarms, Texts, idVars, ringVars
<1>2. f \in Frame /\ f.at # "stamp"
  <2>1. Len(open[t]) \in Nat
    BY DEF TypeOK
  <2>2. NoAlarm \in Numbered
    BY EmptySeq DEF NoAlarm, Numbered, Texts
  <2>3. QED  BY <1>1, <2>1, <2>2 DEF Frame, Places
<1>3. s \in Seq(Frame) /\ Len(s) \in Nat /\ (s # <<>> => Len(s) \in Nat \ {0})
  BY EmptySeq DEF AlarmInv, FramesInv
<1>4. s # <<>> => s[Len(s)].at \in {"open", "format"}
  BY DEF Raise, Runs, Top, Last
<1>5. /\ r \in Seq(Frame) /\ Len(r) = Len(s) + 1 /\ r[Len(s) + 1] = f
      /\ \A i \in 1 .. Len(s) : r[i] = s[i]
  <2> HIDE DEF f, s
  <2>1. QED  BY <1>2, <1>3
<1>6. frames'[t] = r /\ \A u \in Threads \ {t} : frames'[u] = frames[u]
  BY <1>1 DEF AlarmInv, FramesInv
<1>7. ASSUME NEW i \in 1 .. Len(s) PROVE r[i].at \in {"open", "format"}
  <2>1. CASE i = Len(s)
    <3>1. s # <<>>  BY <1>3, <2>1
    <3>2. QED  BY <1>4, <1>5, <2>1, <3>1
  <2>2. CASE i \in 1 .. Len(s) - 1
    BY <1>5, <2>2 DEF AlarmInv, FramesInv
  <2>3. QED  BY <1>3, <2>1, <2>2
<1>8. FramesInv'
  <2> HIDE DEF r
  <2>1. frames' \in [Threads -> Seq(Frame)]
    BY <1>1, <1>5 DEF AlarmInv, FramesInv
  <2>2. \A i \in 1 .. Len(r) - 1 : r[i].at \in {"open", "format"}
    BY <1>3, <1>5, <1>7
  <2>3. \A u \in Threads : \A i \in 1 .. Len(frames'[u]) - 1 :
          frames'[u][i].at \in {"open", "format"}
    BY <1>6, <2>2 DEF AlarmInv, FramesInv
  <2>4. QED  BY <2>1, <2>3 DEF FramesInv
<1>9. Last(frames'[t]) = f
  BY <1>5, <1>6 DEF Last
<1>10. NumberInv'
  BY <1>1, <1>2, <1>6, <1>9, OtherNumbers
<1>11. AlarmTypes'
  BY <1>1 DEF AlarmInv, AlarmTypes
<1>12. QED  BY <1>8, <1>10, <1>11 DEF AlarmInv

LEMMA TakeStep ==
  ASSUME AlarmInv, NEW t \in Threads, Take(t)
  PROVE  AlarmInv'
PROOF
<1>1. /\ frames[t] # <<>> /\ Set(t, [Top(t) EXCEPT !.at = "store", !.read = slBufIndex])
      /\ UNCHANGED <<alarmEntry, raised, sgAlarmId, no, slBufIndex, slBuffer, idRaced>>
      /\ UNCHANGED idVars
  BY DEF Take, Raising, idVars
<1>2. /\ [Top(t) EXCEPT !.at = "store", !.read = slBufIndex] \in Frame
      /\ [Top(t) EXCEPT !.at = "store", !.read = slBufIndex].at = "store"
  <2>1. Top(t) \in Frame /\ slBufIndex \in Nat /\ "store" \in Places
    BY <1>1, TopFrame DEF AlarmInv, AlarmTypes, Places
  <2>2. QED  BY <2>1, FrameRead, Zenon
<1>3. FramesInv' /\ NumberInv'
  <2> DEFINE f == [Top(t) EXCEPT !.at = "store", !.read = slBufIndex]
  <2>1. f \in Frame /\ f.at = "store" /\ Set(t, f)  BY <1>1, <1>2
  <2> HIDE DEF f
  <2>2. f.at # "stamp"  BY <2>1
  <2>3. QED  BY <1>1, <2>1, <2>2, SetStep
<1>4. AlarmTypes'
  BY <1>1 DEF AlarmInv, AlarmTypes
<1>5. QED  BY <1>3, <1>4 DEF AlarmInv

LEMMA StoreStep ==
  ASSUME AlarmInv, NEW t \in Threads, Store(t)
  PROVE  AlarmInv'
PROOF
<1> DEFINE f == [Top(t) EXCEPT !.at = "fill"]
<1>1. /\ frames[t] # <<>> /\ Set(t, f) /\ slBufIndex' = Top(t).read + 1
      /\ UNCHANGED <<alarmEntry, raised, sgAlarmId, no, slBuffer, idRaced>>
      /\ UNCHANGED idVars
  BY DEF Store, Raising, idVars
<1>2. Top(t) \in Frame
  BY <1>1, TopFrame DEF AlarmInv
<1>3. f \in Frame /\ f.at = "fill"
  <2>1. "fill" \in Places  BY DEF Places
  <2>2. QED  BY <1>2, <2>1 DEF Frame
<1>4. FramesInv' /\ NumberInv'
  <2> HIDE DEF f
  <2>1. f.at # "stamp"  BY <1>3
  <2>2. QED  BY <1>1, <1>3, <2>1, SetStep
<1>5. AlarmTypes'
  <2>1. Top(t).read \in Nat  BY <1>2 DEF Frame
  <2>2. QED  BY <1>1, <2>1 DEF AlarmInv, AlarmTypes
<1>6. QED  BY <1>4, <1>5 DEF AlarmInv

LEMMA BufferExists ==
  ASSUME NEW n \in Nat PROVE Buffer(n) \in 0 .. RingSize - 1
BY AlarmAssumption DEF Buffer

LEMMA FillStep ==
  ASSUME AlarmInv, NEW t \in Threads, Fill(t)
  PROVE  AlarmInv'
PROOF
<1> DEFINE f == [Top(t) EXCEPT !.at = "copy"]
<1>1. /\ frames[t] # <<>> /\ Set(t, f)
      /\ slBuffer' = [slBuffer EXCEPT ![Buffer(Top(t).read)] = Top(t).alarm]
      /\ UNCHANGED <<alarmEntry, raised, sgAlarmId, no, slBufIndex, idRaced>>
      /\ UNCHANGED idVars
  BY DEF Fill, Raising, idVars
<1>2. Top(t) \in Frame
  BY <1>1, TopFrame DEF AlarmInv
<1>3. f \in Frame /\ f.at = "copy"
  <2>1. "copy" \in Places  BY DEF Places
  <2>2. QED  BY <1>2, <2>1 DEF Frame
<1>4. FramesInv' /\ NumberInv'
  <2> HIDE DEF f
  <2>1. f.at # "stamp"  BY <1>3
  <2>2. QED  BY <1>1, <1>3, <2>1, SetStep
<1>5. AlarmTypes'
  <2>1. Top(t).alarm \in Texts
    BY <1>2, AlarmAssumption DEF Frame, Alarms, Texts
  <2>2. QED  BY <1>1, <2>1 DEF AlarmInv, AlarmTypes
<1>6. QED  BY <1>4, <1>5 DEF AlarmInv

LEMMA CopyStep ==
  ASSUME AlarmInv, NEW t \in Threads, Copy(t)
  PROVE  AlarmInv'
PROOF
<1> DEFINE x == slBuffer[Buffer(Top(t).read)]
           f == [Top(t) EXCEPT !.at = "number", !.text = x]
<1>1. /\ frames[t] # <<>> /\ Set(t, f)
      /\ UNCHANGED <<alarmEntry, raised, sgAlarmId, no, slBufIndex, slBuffer, idRaced>>
      /\ UNCHANGED idVars
  BY DEF Copy, Raising, idVars, ringVars
<1>2. Top(t) \in Frame
  BY <1>1, TopFrame DEF AlarmInv
<1>3. x \in Texts
  <2>1. Top(t).read \in Nat  BY <1>2 DEF Frame
  <2>2. Buffer(Top(t).read) \in 0 .. RingSize - 1  BY <2>1, BufferExists
  <2>3. QED  BY <2>2 DEF AlarmInv, AlarmTypes
<1>4. f \in Frame /\ f.at = "number"
  <2>1. "number" \in Places  BY DEF Places
  <2>2. QED
    <3> HIDE DEF x
    <3>1. QED  BY <1>2, <1>3, <2>1, FrameText, Zenon
<1>5. FramesInv' /\ NumberInv'
  <2> HIDE DEF f
  <2>1. f.at # "stamp"  BY <1>4
  <2>2. QED  BY <1>1, <1>4, <2>1, SetStep
<1>6. AlarmTypes'
  BY <1>1 DEF AlarmInv, AlarmTypes
<1>7. QED  BY <1>5, <1>6 DEF AlarmInv

LEMMA NumberStep ==
  ASSUME AlarmInv, NEW t \in Threads, Number(t)
  PROVE  AlarmInv'
PROOF
<1> DEFINE f == [Top(t) EXCEPT !.at = "stamp", !.read = sgAlarmId]
<1>1. /\ frames[t] # <<>> /\ Set(t, f)
      /\ idRaced' = (idRaced \/ Elsewhere(t, "stamp"))
      /\ UNCHANGED <<alarmEntry, raised, sgAlarmId, no, slBufIndex, slBuffer>>
  BY DEF Number, Raising, ringVars
<1>2. f \in Frame /\ f.at = "stamp" /\ f.read = sgAlarmId
  <2>1. Top(t) \in Frame /\ sgAlarmId \in Nat /\ "stamp" \in Places
    BY <1>1, TopFrame DEF AlarmInv, AlarmTypes, Places
  <2>2. f \in Frame  BY <2>1, FrameRead, Zenon
  <2>3. f.at = "stamp"  BY <2>1, FrameRead, Zenon
  <2>4. f.read = sgAlarmId  BY <2>1, Zenon DEF Frame
  <2>5. QED  BY <2>2, <2>3, <2>4
<1>3. /\ FramesInv' /\ Last(frames'[t]) = f
      /\ \A u \in Threads \ {t} : frames'[u] = frames[u]
  <2> HIDE DEF f
  <2>1. QED  BY <1>1, <1>2, SetFrame DEF AlarmInv
<1>4. idRaced' \in BOOLEAN /\ (idRaced => idRaced')
  BY <1>1, Zenon DEF AlarmInv, AlarmTypes
<1>5. AlarmTypes'
  BY <1>1, <1>4 DEF AlarmInv, AlarmTypes
<1>6. ASSUME ~idRaced' PROVE Behind' /\ Alone'
  <2>1. ~idRaced /\ \A u \in Threads \ {t} : ~Stamping(u)
    BY <1>1, <1>6 DEF Elsewhere, Stamping
  <2>2. Behind
    BY <2>1 DEF AlarmInv, NumberInv
  <2>3. Behind'
    BY <1>1, <2>2 DEF Behind
  <2>4. \A u \in Threads \ {t} : ~Stamping(u)'
    BY <1>3, <2>1 DEF Stamping, Top
  <2>5. Top(t)'.read = sgAlarmId'
    <3> HIDE DEF f
    <3>1. QED  BY <1>1, <1>2, <1>3 DEF Top
  <2>6. QED  BY <2>3, <2>4, <2>5 DEF Alone
<1>7. NumberInv'
  <2>1. sgAlarmId' > 0  BY <1>1 DEF AlarmInv, NumberInv
  <2>2. QED  BY <1>6, <2>1 DEF NumberInv
<1>8. QED  BY <1>3, <1>5, <1>7 DEF AlarmInv

LEMMA StampStep ==
  ASSUME AlarmInv, NEW t \in Threads, Stamp(t)
  PROVE  AlarmInv'
PROOF
<1> DEFINE f == Top(t)
           e == [no |-> f.read, of |-> f.alarm, text |-> <<>>]
           c == [e EXCEPT !.text = <<f.text>>]
           g == IF f.kind = "stream" THEN [f EXCEPT !.at = "open"]
                ELSE [f EXCEPT !.at = "close", !.put = 1, !.copy = c]
<1>1. /\ frames[t] # <<>> /\ Stamping(t) /\ Set(t, g)
      /\ sgAlarmId' = f.read + 1
      /\ no' = [no EXCEPT ![f.alarm] = f.read]
      /\ alarmEntry' = [alarmEntry EXCEPT ![t] = e]
      /\ UNCHANGED <<raised, slBufIndex, slBuffer, idRaced>>
  BY DEF Stamp, Raising, ringVars, Stamping, NextId
<1>2. f \in Frame
  BY <1>1, TopFrame DEF AlarmInv
<1>3. f.read \in Nat /\ f.alarm \in Alarms /\ f.alarm \in Texts /\ f.text \in Texts
  BY <1>2, AlarmAssumption DEF Frame, Alarms, Texts
<1>4. e \in Numbered /\ c \in Numbered
  <2> HIDE DEF f
  <2>1. <<>> \in Seq(Texts) /\ <<f.text>> \in Seq(Texts)
    BY <1>3
  <2>2. e \in Numbered
    BY <1>3, <2>1 DEF Numbered
  <2>3. c \in Numbered
    <3> HIDE DEF e
    <3>1. QED  BY <2>1, <2>2 DEF Numbered
  <2>4. QED  BY <2>2, <2>3
<1>5. g \in Frame /\ g.at \in {"open", "close"}
  <2> HIDE DEF f, c
  <2>1. [f EXCEPT !.at = "open"] \in Frame /\ [f EXCEPT !.at = "open"].at = "open"
    BY <1>2 DEF Frame, Places
  <2>2. /\ [f EXCEPT !.at = "close", !.put = 1, !.copy = c] \in Frame
        /\ [f EXCEPT !.at = "close", !.put = 1, !.copy = c].at = "close"
    <3> DEFINE one == 1
    <3>1. "close" \in Places /\ one \in Nat  BY DEF Places
    <3>2. /\ [f EXCEPT !.at = "close", !.put = one, !.copy = c] \in Frame
          /\ [f EXCEPT !.at = "close", !.put = one, !.copy = c].at = "close"
      <4> HIDE DEF one
      <4>1. QED  BY <1>2, <1>4, <3>1, Zenon DEF Frame
    <3>3. QED  BY <3>2, Zenon
  <2>3. QED  BY <2>1, <2>2, Zenon
<1>6. /\ FramesInv' /\ Last(frames'[t]) = g
      /\ \A u \in Threads \ {t} : frames'[u] = frames[u]
  <2> HIDE DEF g
  <2>1. QED  BY <1>1, <1>5, SetFrame DEF AlarmInv
<1>7. AlarmTypes'
  <2> HIDE DEF f, e
  <2>1. QED  BY <1>1, <1>3, <1>4 DEF AlarmInv, AlarmTypes
<1>8. ~Stamping(t)'
  <2> HIDE DEF g
  <2>1. QED  BY <1>5, <1>6 DEF Stamping, Top
<1>9. ASSUME ~idRaced' PROVE Behind' /\ Alone'
  <2>1. Behind /\ Alone
    BY <1>1, <1>9 DEF AlarmInv, NumberInv
  <2>2. f.read = sgAlarmId /\ \A u \in Threads \ {t} : ~Stamping(u)
    BY <1>1, <2>1 DEF Alone
  <2>3. Behind'
    <3> HIDE DEF f
    <3>1. \A a \in Alarms : no'[a] = IF a = f.alarm THEN sgAlarmId ELSE no[a]
      BY <1>1, <2>2 DEF AlarmInv, AlarmTypes
    <3>2. \A a \in Alarms : no[a] < sgAlarmId /\ no[a] \in Nat /\ sgAlarmId \in Nat
      BY <2>1 DEF Behind, AlarmInv, AlarmTypes
    <3>3. sgAlarmId' = sgAlarmId + 1
      BY <1>1, <2>2
    <3>4. \A a \in Alarms : no'[a] < sgAlarmId'
      BY <3>1, <3>2, <3>3
    <3>5. ASSUME NEW a \in Alarms, NEW b \in Alarms, no'[a] # 0, no'[a] = no'[b]
          PROVE  a = b
      BY <2>1, <3>1, <3>2, <3>5 DEF Behind
    <3>6. QED  BY <3>4, <3>5 DEF Behind
  <2>4. \A u \in Threads : ~Stamping(u)'
    BY <1>6, <1>8, <2>2 DEF Stamping, Top
  <2>5. QED  BY <2>3, <2>4 DEF Alone
<1>10. NumberInv'
  <2>1. sgAlarmId' > 0  BY <1>1, <1>3
  <2>2. QED  BY <1>9, <2>1 DEF NumberInv
<1>11. QED  BY <1>6, <1>7, <1>10 DEF AlarmInv

LEMMA PutPieceStep ==
  ASSUME AlarmInv, NEW t \in Threads, PutPiece(t)
  PROVE  AlarmInv'
PROOF
<1> DEFINE f == [Top(t) EXCEPT !.put = @ + 1]
           text == Append(alarmEntry[t].text, Top(t).alarm)
<1>1. /\ frames[t] # <<>> /\ Set(t, f) /\ Top(t).at = "open"
      /\ alarmEntry' = [alarmEntry EXCEPT ![t].text = text]
      /\ UNCHANGED <<raised, sgAlarmId, no, slBufIndex, slBuffer, idRaced>>
      /\ UNCHANGED idVars
  BY DEF PutPiece, Raising, idVars, ringVars, AlarmInv, AlarmTypes
<1>2. Top(t) \in Frame
  BY <1>1, TopFrame DEF AlarmInv
<1>3. f \in Frame /\ f.at = "open"
  BY <1>1, <1>2 DEF Frame
<1>4. FramesInv' /\ NumberInv'
  <2> HIDE DEF f
  <2>1. f.at # "stamp"  BY <1>3
  <2>2. QED  BY <1>1, <1>3, <2>1, SetStep
<1>5. AlarmTypes'
  <2>1. Top(t).alarm \in Texts
    BY <1>2, AlarmAssumption DEF Frame, Alarms, Texts
  <2>2. alarmEntry[t] \in Numbered /\ text \in Seq(Texts)
    BY <2>1 DEF AlarmInv, AlarmTypes, Numbered
  <2>3. alarmEntry' \in [Threads -> Numbered]
    <3> HIDE DEF text
    <3>1. QED  BY <1>1, <2>2 DEF AlarmInv, AlarmTypes, Numbered
  <2>4. QED  BY <1>1, <2>3 DEF AlarmInv, AlarmTypes
<1>6. QED  BY <1>4, <1>5 DEF AlarmInv

(* The steps of closeEntry() change the frames only.                       *)
Closes(t) ==
  \/ CloseEntry(t) \/ OpenScreen(t) \/ ScreenText(t) \/ ScreenEnd(t) \/ CloseReturns(t)

LEMMA ClosesStep ==
  ASSUME AlarmInv, NEW t \in Threads, Closes(t)
  PROVE  AlarmInv'
PROOF
<1>1. /\ frames[t] # <<>> /\ UNCHANGED idVars
      /\ UNCHANGED <<alarmEntry, raised, sgAlarmId, no, slBufIndex, slBuffer, idRaced>>
  BY DEF Closes, CloseEntry, OpenScreen, ScreenText, ScreenEnd, CloseReturns, Raising,
         idVars, ringVars
<1>2. AlarmTypes'
  BY <1>1 DEF AlarmInv, AlarmTypes
<1>3. Top(t) \in Frame /\ Top(t).depth + 1 \in Nat
  <2>1. Top(t) \in Frame  BY <1>1, TopFrame DEF AlarmInv
  <2>2. QED  BY <2>1 DEF Frame
<1>4. ASSUME NEW f \in Frame, f.at # "stamp", Set(t, f)
      PROVE  AlarmInv'
  BY <1>1, <1>2, <1>4, SetStep DEF AlarmInv
<1>5. \A a \in Places : a # "stamp" /\ Set(t, [Top(t) EXCEPT !.at = a]) => AlarmInv'
  <2> SUFFICES ASSUME NEW a \in Places, a # "stamp", Set(t, [Top(t) EXCEPT !.at = a])
               PROVE  AlarmInv'
    OBVIOUS
  <2> DEFINE f == [Top(t) EXCEPT !.at = a]
  <2>1. f \in Frame /\ f.at # "stamp"
    BY <1>3 DEF Frame
  <2>2. QED
    <3> HIDE DEF f
    <3>1. Set(t, f)  BY DEF f
    <3>2. QED  BY <1>4, <2>1, <3>1
<1>6. CASE Leave(t)
  BY <1>1, <1>2, <1>6, LeaveStep DEF AlarmInv
<1>7. CASE CloseEntry(t) \/ CloseReturns(t)
  <2>1. "format" \in Places  BY DEF Places
  <2>2. Leave(t) \/ Set(t, [Top(t) EXCEPT !.at = "format"])
    BY <1>7 DEF CloseEntry, CloseReturns
  <2>3. QED  BY <1>5, <1>6, <2>1, <2>2
<1>8. CASE OpenScreen(t)
  <2> DEFINE n == Top(t).depth + 1
             f == [Top(t) EXCEPT !.at = "print", !.depth = n]
  <2>1. Set(t, f)  BY <1>8 DEF OpenScreen
  <2>2. f \in Frame /\ f.at = "print"
    <3> HIDE DEF n
    <3>1. "print" \in Places /\ n \in Nat  BY <1>3 DEF Places, n
    <3>2. QED  BY <1>3, <3>1, FrameDepth, Zenon
  <2>3. QED
    <3> HIDE DEF f
    <3>1. f.at # "stamp"  BY <2>2
    <3>2. QED  BY <1>4, <2>1, <2>2, <3>1
<1>9. CASE ScreenText(t) \/ ScreenEnd(t)
  <2>1. "endl" \in Places /\ "return" \in Places  BY DEF Places
  <2>2. \/ Set(t, [Top(t) EXCEPT !.at = "endl"])
        \/ Set(t, [Top(t) EXCEPT !.at = "return"])
    BY <1>9 DEF ScreenText, ScreenEnd
  <2>3. QED  BY <1>5, <2>1, <2>2
<1>10. QED  BY <1>7, <1>8, <1>9 DEF Closes

(***************************************************************************)
(* The invariant.                                                          *)
(***************************************************************************)
LEMMA AlarmInvStarts == AlarmInit => AlarmInv
PROOF
<1> SUFFICES ASSUME AlarmInit PROVE AlarmInv
  OBVIOUS
<1>1. NoAlarm \in Numbered
  BY EmptySeq, AlarmAssumption DEF NoAlarm, Numbered, Texts
<1>2. AlarmTypes
  <2>1. /\ sgAlarmId = 101 /\ raised = 0 /\ slBufIndex = 0 /\ idRaced = FALSE
        /\ alarmEntry = [t \in Threads |-> NoAlarm]
        /\ slBuffer = [i \in 0 .. RingSize - 1 |-> 0]
        /\ no = [a \in Alarms |-> 0]
    BY DEF AlarmInit
  <2>2. alarmEntry \in [Threads -> Numbered]
    BY <1>1, <2>1
  <2>3. slBuffer \in [0 .. RingSize - 1 -> Texts] /\ no \in [Alarms -> Nat]
    BY <2>1, AlarmAssumption DEF Texts
  <2>4. QED  BY <2>1, <2>2, <2>3 DEF AlarmTypes
<1>3. FramesInv
  BY EmptySeq DEF AlarmInit, FramesInv
<1>4. NumberInv
  BY DEF AlarmInit, NumberInv, Behind, Alone, Stamping
<1>5. QED  BY <1>2, <1>3, <1>4 DEF AlarmInv

LEMMA AlarmInvInductive ==
  AlarmInv /\ TypeOK /\ [AlarmNext]_<<vars, alarmVars>> => AlarmInv'
PROOF
<1> SUFFICES ASSUME AlarmInv, TypeOK, [AlarmNext]_<<vars, alarmVars>> PROVE AlarmInv'
  OBVIOUS
<1>1. ASSUME NEW t \in Threads, Alarm(t) PROVE AlarmInv'
  BY <1>1, RaiseStep, TakeStep, StoreStep, FillStep, CopyStep, NumberStep, StampStep,
     PutPieceStep, ClosesStep DEF Alarm, Closes
<1>2. CASE UNCHANGED alarmVars
  BY <1>2, SameFrames
<1>3. QED  BY <1>1, <1>2 DEF AlarmNext, Trace

(* As long as no two threads are in sgAlarmId++ at once, no two alarms get *)
(* one number, however alarms are raised inside one another and whatever   *)
(* is traced meanwhile (AlarmMgr.cpp:99), for any number of threads.       *)
THEOREM NumbersAreGivenOnce == AlarmSpec => []NumbersDiffer
PROOF
<1>1. ASSUME AlarmInv PROVE NumbersDiffer
  BY <1>1 DEF AlarmInv, NumberInv, Behind, NumbersDiffer, IsInjective, Restrict
<1>2. QED
  BY AlarmInvStarts, AlarmInvInductive, AlarmsKeepTypes, <1>1, PTL DEF AlarmSpec

(***************************************************************************)
(* Alarms are whole.                                                       *)
(***************************************************************************)
(* The alarms of a thread are inside one another in the order in which     *)
(* they were raised, and no two threads raise the same one.                *)
OrderInv ==
  /\ outer \in [Alarms -> SUBSET Alarms]
  /\ \A a \in Alarms : \A b \in outer[a] : b < a
  /\ \A t \in Threads : alarmEntry[t].of =< raised
  /\ \A t \in Threads : \A i \in 1 .. Len(frames[t]) : frames[t][i].alarm =< raised
  /\ \A t \in Threads : \A i, j \in 1 .. Len(frames[t]) :
       i < j => /\ frames[t][i].alarm < frames[t][j].alarm
                /\ frames[t][i].alarm \in outer[frames[t][j].alarm]
  /\ \A t, u \in Threads : t # u =>
       \A i \in 1 .. Len(frames[t]), j \in 1 .. Len(frames[u]) :
         frames[t][i].alarm # frames[u][j].alarm

(* Entry e is all of alarm a, of which n pieces were put, or, if a is one  *)
(* raised with OmnAlarm, it is of an alarm raised inside a.                *)
Whole(e, a, kind, n) ==
  \/ /\ e.of = a /\ e.no = no[a] /\ Len(e.text) = n
     /\ kind # "printf" => ToSet(e.text) \subseteq {a}
  \/ kind = "stream" /\ e.of \in Alarms /\ a \in outer[e.of]

Early  == {"take", "store", "fill", "copy", "number", "stamp"}
Filled == {"open", "close", "format"}

EntryOfFrame(t, f) == IF f.kind = "stream" THEN alarmEntry[t] ELSE f.copy

(* From its stamp to its closing the entry of a frame is whole.            *)
FrameWhole(t, f) ==
  /\ f.kind # "printf" => f.text = f.alarm /\ f.at \notin {"take", "store", "fill", "copy"}
  /\ f.kind = "stream" => f.at # "close" /\ (f.at \in Early => f.put = 0)
  /\ f.kind # "stream" => f.at # "open"
  /\ f.at \in Filled => Whole(EntryOfFrame(t, f), f.alarm, f.kind, f.put)

FramesWhole ==
  \A t \in Threads : \A i \in 1 .. Len(frames[t]) : FrameWhole(t, frames[t][i])

Report == [alarm : Alarms, kind : Kinds, put : Nat, as : Numbered]

GivenWhole ==
  /\ given \subseteq Report
  /\ \A g \in given : g.alarm =< raised /\ g.as.of =< raised
  /\ \A g \in given : Whole(g.as, g.alarm, g.kind, g.put)
  /\ \A g \in given, t \in Threads : \A i \in 1 .. Len(frames[t]) :
       frames[t][i].at \in Early => frames[t][i].alarm # g.alarm

WholeInv == OrderInv /\ FramesWhole /\ GivenWhole

(***************************************************************************)
(* The frames of a thread, one by one.                                     *)
(***************************************************************************)
LEMMA FrameAt ==
  ASSUME FramesInv, NEW t \in Threads, NEW i \in 1 .. Len(frames[t])
  PROVE  frames[t][i] \in Frame
BY ElementOfSeq DEF FramesInv

LEMMA TopAt ==
  ASSUME FramesInv, NEW t \in Threads, frames[t] # <<>>
  PROVE  /\ Len(frames[t]) \in Nat \ {0}
         /\ Top(t) = frames[t][Len(frames[t])]
         /\ \A i \in 1 .. Len(frames[t]) - 1 : frames[t][i].at \in {"open", "format"}
BY EmptySeq DEF FramesInv, Top, Last

LEMMA SetAt ==
  ASSUME FramesInv, NEW t \in Threads, frames[t] # <<>>, NEW f \in Frame, Set(t, f)
  PROVE  /\ Len(frames'[t]) = Len(frames[t])
         /\ frames'[t][Len(frames[t])] = f
         /\ \A i \in 1 .. Len(frames[t]) - 1 : frames'[t][i] = frames[t][i]
         /\ \A u \in Threads \ {t} : frames'[u] = frames[u]
PROOF
<1> DEFINE s == frames[t]
           r == Append(Front(s), f)
<1>1. s \in Seq(Frame) /\ s # <<>> /\ Len(s) \in Nat \ {0}
  BY EmptySeq DEF FramesInv
<1>2. /\ Front(s) \in Seq(Frame) /\ Len(Front(s)) = Len(s) - 1
      /\ \A i \in 1 .. Len(s) - 1 : Front(s)[i] = s[i]
  BY <1>1, FrontAndLast
<1>3. /\ Len(r) = Len(s) /\ r[Len(s)] = f
      /\ \A i \in 1 .. Len(s) - 1 : r[i] = s[i]
  BY <1>1, <1>2
<1>4. frames' = [frames EXCEPT ![t] = r]
  BY DEF Set, FramesInv
<1>5. frames'[t] = r /\ \A u \in Threads \ {t} : frames'[u] = frames[u]
  BY <1>4 DEF FramesInv
<1>6. QED
  <2> HIDE DEF r
  <2>1. QED  BY <1>3, <1>5

LEMMA LeaveAt ==
  ASSUME FramesInv, NEW t \in Threads, frames[t] # <<>>, Leave(t)
  PROVE  /\ Len(frames'[t]) = Len(frames[t]) - 1
         /\ \A i \in 1 .. Len(frames[t]) - 1 : frames'[t][i] = frames[t][i]
         /\ \A u \in Threads \ {t} : frames'[u] = frames[u]
PROOF
<1> DEFINE s == frames[t]
           r == Front(s)
<1>1. /\ Len(r) = Len(s) - 1
      /\ \A i \in 1 .. Len(s) - 1 : r[i] = s[i]
  BY FrontAndLast DEF FramesInv
<1>2. frames'[t] = r /\ \A u \in Threads \ {t} : frames'[u] = frames[u]
  BY DEF Leave, FramesInv
<1>3. QED
  <2> HIDE DEF r
  <2>1. QED  BY <1>1, <1>2

(***************************************************************************)
(* A step in which a thread goes on with its innermost alarm, or leaves it.*)
(***************************************************************************)
LEMMA SetOrder ==
  ASSUME AlarmInv, OrderInv, NEW t \in Threads, frames[t] # <<>>,
         NEW f \in Frame, Set(t, f), f.alarm = Top(t).alarm,
         UNCHANGED <<raised, outer>>,
         \A u \in Threads : alarmEntry'[u].of =< raised
  PROVE  OrderInv'
PROOF
<1> DEFINE n == Len(frames[t])
<1>1. /\ n \in Nat \ {0} /\ Top(t) = frames[t][n]
  BY TopAt DEF AlarmInv
<1>2. /\ Len(frames'[t]) = n
      /\ frames'[t][n] = f
      /\ \A i \in 1 .. n - 1 : frames'[t][i] = frames[t][i]
      /\ \A u \in Threads \ {t} : frames'[u] = frames[u]
  BY SetAt DEF AlarmInv
<1>3. \A u \in Threads : Len(frames'[u]) = Len(frames[u])
  BY <1>2
<1>4. \A u \in Threads : \A i \in 1 .. Len(frames[u]) :
        frames'[u][i].alarm = frames[u][i].alarm
  <2> SUFFICES ASSUME NEW i \in 1 .. n PROVE frames'[t][i].alarm = frames[t][i].alarm
    BY <1>2
  <2>1. i = n \/ i \in 1 .. n - 1  BY <1>1
  <2>2. QED  BY <1>1, <1>2, <2>1
<1>5. \A u \in Threads : \A i \in 1 .. Len(frames'[u]) : frames'[u][i].alarm =< raised'
  BY <1>3, <1>4 DEF OrderInv
<1>6. \A u \in Threads : \A i, j \in 1 .. Len(frames'[u]) :
        i < j => /\ frames'[u][i].alarm < frames'[u][j].alarm
                 /\ frames'[u][i].alarm \in outer'[frames'[u][j].alarm]
  BY <1>3, <1>4 DEF OrderInv
<1>7. \A u, v \in Threads : u # v =>
        \A i \in 1 .. Len(frames'[u]), j \in 1 .. Len(frames'[v]) :
          frames'[u][i].alarm # frames'[v][j].alarm
  BY <1>3, <1>4 DEF OrderInv
<1>8. QED  BY <1>5, <1>6, <1>7 DEF OrderInv

LEMMA LeaveOrder ==
  ASSUME AlarmInv, OrderInv, NEW t \in Threads, frames[t] # <<>>, Leave(t),
         UNCHANGED <<raised, outer, alarmEntry>>
  PROVE  OrderInv'
PROOF
<1> DEFINE n == Len(frames[t])
<1>1. n \in Nat \ {0}
  BY TopAt DEF AlarmInv
<1>2. /\ Len(frames'[t]) = n - 1
      /\ \A i \in 1 .. n - 1 : frames'[t][i] = frames[t][i]
      /\ \A u \in Threads \ {t} : frames'[u] = frames[u]
  BY LeaveAt DEF AlarmInv
<1>3. \A u \in Threads : \A i \in 1 .. Len(frames'[u]) :
        i \in 1 .. Len(frames[u]) /\ frames'[u][i] = frames[u][i]
  BY <1>1, <1>2
<1>4. ASSUME NEW u \in Threads, NEW i \in 1 .. Len(frames'[u]),
             NEW j \in 1 .. Len(frames'[u]), i < j
      PROVE  /\ frames'[u][i].alarm < frames'[u][j].alarm
             /\ frames'[u][i].alarm \in outer[frames'[u][j].alarm]
  BY <1>3, <1>4 DEF OrderInv
<1>5. ASSUME NEW u \in Threads, NEW w \in Threads, u # w,
             NEW i \in 1 .. Len(frames'[u]), NEW j \in 1 .. Len(frames'[w])
      PROVE  frames'[u][i].alarm # frames'[w][j].alarm
  <2>1. i \in 1 .. Len(frames[u]) /\ frames'[u][i] = frames[u][i]
    BY <1>3
  <2>2. j \in 1 .. Len(frames[w]) /\ frames'[w][j] = frames[w][j]
    BY <1>3
  <2>3. frames[u][i].alarm # frames[w][j].alarm
    BY <1>5, <2>1, <2>2 DEF OrderInv
  <2>4. QED  BY <2>1, <2>2, <2>3
<1>6. \A u \in Threads : \A i \in 1 .. Len(frames'[u]) : frames'[u][i].alarm =< raised
  BY <1>3 DEF OrderInv
<1>7. QED  BY <1>4, <1>5, <1>6 DEF OrderInv

(* No other frame has the alarm of the innermost one of t.                 *)
LEMMA TopAlone ==
  ASSUME AlarmInv, OrderInv, NEW t \in Threads, frames[t] # <<>>
  PROVE  /\ \A i \in 1 .. Len(frames[t]) - 1 :
              /\ frames[t][i].alarm < Top(t).alarm
              /\ frames[t][i].alarm \in outer[Top(t).alarm]
         /\ \A u \in Threads \ {t} : \A i \in 1 .. Len(frames[u]) :
              frames[u][i].alarm # Top(t).alarm
PROOF
<1>1. Len(frames[t]) \in Nat \ {0} /\ Top(t) = frames[t][Len(frames[t])]
  BY TopAt DEF AlarmInv
<1>2. \A i \in 1 .. Len(frames[t]) - 1 :
        i < Len(frames[t]) /\ i \in 1 .. Len(frames[t])
        /\ Len(frames[t]) \in 1 .. Len(frames[t])
  BY <1>1
<1>3. Len(frames[t]) \in 1 .. Len(frames[t])  BY <1>1
<1>4. QED  BY <1>1, <1>2, <1>3 DEF OrderInv

(* A frame that is not touched stays whole as long as its alarm keeps its  *)
(* number, its thread the entry, and the alarms around another theirs.     *)
LEMMA StaysWhole ==
  ASSUME NEW u, NEW f, FrameWhole(u, f), UNCHANGED outer,
         alarmEntry'[u] = alarmEntry[u], no'[f.alarm] = no[f.alarm]
  PROVE  FrameWhole(u, f)'
BY DEF FrameWhole, Whole, EntryOfFrame

(* What is given of an alarm from its stamp to its closing is whole.       *)
LEMMA GivesWhole ==
  ASSUME AlarmInv, WholeInv, NEW t \in Threads, frames[t] # <<>>, Top(t).at \in Filled
  PROVE  LET g == [alarm |-> Top(t).alarm, kind |-> Top(t).kind,
                   put |-> Top(t).put, as |-> EntryClosed(t)]
         IN  /\ g \in Report /\ Whole(g.as, g.alarm, g.kind, g.put)
             /\ g.alarm =< raised /\ g.as.of =< raised
PROOF
<1> DEFINE n == Len(frames[t])
           g == [alarm |-> Top(t).alarm, kind |-> Top(t).kind,
                 put |-> Top(t).put, as |-> EntryClosed(t)]
<1>1. /\ n \in 1 .. n /\ Top(t) = frames[t][n] /\ Top(t) \in Frame
  BY TopAt, TopFrame DEF AlarmInv
<1>2. EntryClosed(t) = EntryOfFrame(t, Top(t)) /\ EntryClosed(t) \in Numbered
  BY <1>1 DEF EntryClosed, EntryOfFrame, Frame, AlarmInv, AlarmTypes
<1>3. g \in Report
  BY <1>1, <1>2 DEF Report, Frame
<1>4. FrameWhole(t, Top(t))
  BY <1>1 DEF WholeInv, FramesWhole
<1>5. Whole(g.as, g.alarm, g.kind, g.put)
  BY <1>2, <1>4 DEF FrameWhole
<1>6. Top(t).alarm =< raised  BY <1>1 DEF WholeInv, OrderInv
<1>7. alarmEntry[t].of =< raised  BY DEF WholeInv, OrderInv
<1>8. Top(t).kind # "stream" => Top(t).copy.of = Top(t).alarm
  BY <1>2, <1>5 DEF Whole, EntryOfFrame
<1>9. g.as.of =< raised
  BY <1>2, <1>6, <1>7, <1>8 DEF EntryOfFrame
<1>10. QED  BY <1>3, <1>5, <1>6, <1>9

(* t goes on with its innermost alarm, and may give what it has of it.     *)
LEMMA SetWhole ==
  ASSUME AlarmInv, WholeInv, NEW t \in Threads, frames[t] # <<>>,
         NEW f \in Frame, Set(t, f), f.alarm = Top(t).alarm,
         UNCHANGED <<raised, outer, no, alarmEntry>>,
         FrameWhole(t, f),
         \/ UNCHANGED given /\ (f.at \in Early => Top(t).at \in Early)
         \/ Give(t) /\ Top(t).at \in Filled /\ f.at \notin Early
  PROVE  WholeInv'
PROOF
<1> DEFINE n == Len(frames[t])
<1>1. /\ n \in Nat \ {0} /\ Top(t) = frames[t][n] /\ Top(t) \in Frame
  BY TopAt, TopFrame DEF AlarmInv
<1>2. /\ Len(frames'[t]) = n
      /\ frames'[t][n] = f
      /\ \A i \in 1 .. n - 1 : frames'[t][i] = frames[t][i]
      /\ \A u \in Threads \ {t} : frames'[u] = frames[u]
  BY SetAt DEF AlarmInv
<1>3. OrderInv'
  BY SetOrder DEF WholeInv, OrderInv
<1>4. \A u \in Threads : \A g : FrameWhole(u, g) => FrameWhole(u, g)'
  BY StaysWhole
<1>5. ASSUME NEW u \in Threads, NEW i \in 1 .. Len(frames'[u])
      PROVE  \/ u = t /\ frames'[u][i] = f
             \/ /\ i \in 1 .. Len(frames[u]) /\ frames'[u][i] = frames[u][i]
                /\ u # t \/ i < n
  <2>1. CASE u # t
    BY <1>2, <2>1
  <2>2. CASE u = t /\ i = n
    BY <1>2, <2>2
  <2>3. CASE u = t /\ i \in 1 .. n - 1
    BY <1>1, <1>2, <2>3
  <2>4. QED  BY <1>1, <1>2, <2>1, <2>2, <2>3
<1>6. FramesWhole'
  BY <1>4, <1>5 DEF WholeInv, FramesWhole
<1>7. CASE UNCHANGED given /\ (f.at \in Early => Top(t).at \in Early)
  <2>1. ASSUME NEW g \in given, NEW u \in Threads, NEW i \in 1 .. Len(frames'[u]),
               frames'[u][i].at \in Early
        PROVE  frames'[u][i].alarm # g.alarm
    <3>1. n \in 1 .. Len(frames[t])  BY <1>1
    <3>2. QED  BY <1>1, <1>5, <1>7, <2>1, <3>1 DEF WholeInv, GivenWhole
  <2>2. given' \subseteq Report
    BY <1>7 DEF WholeInv, GivenWhole
  <2>3. \A h \in given' : h.alarm =< raised' /\ h.as.of =< raised'
    BY <1>7 DEF WholeInv, GivenWhole
  <2>4. \A h \in given' : Whole(h.as, h.alarm, h.kind, h.put)'
    BY <1>7 DEF WholeInv, GivenWhole, Whole
  <2>5. GivenWhole'  BY <1>7, <2>1, <2>2, <2>3, <2>4 DEF GivenWhole
  <2>6. QED  BY <1>3, <1>6, <2>5 DEF WholeInv
<1>8. CASE Give(t) /\ Top(t).at \in Filled /\ f.at \notin Early
  <2> DEFINE g == [alarm |-> Top(t).alarm, kind |-> Top(t).kind,
                   put |-> Top(t).put, as |-> EntryClosed(t)]
  <2>1. given' = given \cup {g}  BY <1>8 DEF Give
  <2>2. g \in Report /\ Whole(g.as, g.alarm, g.kind, g.put)
        /\ g.alarm =< raised /\ g.as.of =< raised
    BY <1>8, GivesWhole
  <2>7. ASSUME NEW u \in Threads, NEW i \in 1 .. Len(frames'[u]),
               frames'[u][i].at \in Early
        PROVE  i \in 1 .. Len(frames[u]) /\ frames'[u][i] = frames[u][i]
               /\ frames'[u][i].alarm # g.alarm
    <3>1. i \in 1 .. Len(frames[u]) /\ frames'[u][i] = frames[u][i] /\ (u # t \/ i < n)
      BY <1>5, <1>8, <2>7
    <3>2. u = t => i \in 1 .. n - 1
      BY <1>1, <3>1
    <3>3. \A k \in 1 .. n - 1 : frames[t][k].at \notin Early
      BY TopAt DEF AlarmInv, Early
    <3>4. u # t
      BY <2>7, <3>1, <3>2, <3>3
    <3>5. frames[u][i].alarm # Top(t).alarm
      BY <3>1, <3>4, TopAlone DEF WholeInv
    <3>6. QED  BY <3>1, <3>5
  <2>8. GivenWhole'
    <3> HIDE DEF g
    <3>1. given' \subseteq Report
      BY <2>1, <2>2 DEF WholeInv, GivenWhole
    <3>2. \A h \in given' : h.alarm =< raised' /\ h.as.of =< raised'
      BY <2>1, <2>2 DEF WholeInv, GivenWhole
    <3>3. \A h \in given' : Whole(h.as, h.alarm, h.kind, h.put)'
      BY <2>1, <2>2 DEF WholeInv, GivenWhole, Whole
    <3>4. \A h \in given', u \in Threads : \A i \in 1 .. Len(frames'[u]) :
            frames'[u][i].at \in Early => frames'[u][i].alarm # h.alarm
      BY <2>1, <2>7 DEF WholeInv, GivenWhole
    <3>5. QED  BY <3>1, <3>2, <3>3, <3>4 DEF GivenWhole
  <2>9. QED  BY <1>3, <1>6, <2>8 DEF WholeInv
<1>9. QED  BY <1>7, <1>8

(* t leaves its innermost alarm, and may give what it has of it.           *)
LEMMA LeaveWhole ==
  ASSUME AlarmInv, WholeInv, NEW t \in Threads, frames[t] # <<>>, Leave(t),
         UNCHANGED <<raised, outer, no, alarmEntry>>,
         UNCHANGED given \/ (Give(t) /\ Top(t).at \in Filled)
  PROVE  WholeInv'
PROOF
<1> DEFINE n == Len(frames[t])
<1>1. /\ n \in Nat \ {0} /\ Top(t) = frames[t][n] /\ Top(t) \in Frame
  BY TopAt, TopFrame DEF AlarmInv
<1>2. /\ Len(frames'[t]) = n - 1
      /\ \A i \in 1 .. n - 1 : frames'[t][i] = frames[t][i]
      /\ \A u \in Threads \ {t} : frames'[u] = frames[u]
  BY LeaveAt DEF AlarmInv
<1>3. OrderInv'
  BY LeaveOrder DEF WholeInv
<1>4. \A u \in Threads : \A g : FrameWhole(u, g) => FrameWhole(u, g)'
  BY StaysWhole
<1>5. ASSUME NEW u \in Threads, NEW i \in 1 .. Len(frames'[u])
      PROVE  i \in 1 .. Len(frames[u]) /\ frames'[u][i] = frames[u][i] /\ (u # t \/ i < n)
  <2>1. CASE u # t
    BY <1>2, <2>1
  <2>2. CASE u = t
    BY <1>1, <1>2, <2>2
  <2>3. QED  BY <2>1, <2>2
<1>6. FramesWhole'
  BY <1>4, <1>5 DEF WholeInv, FramesWhole
<1>7. CASE UNCHANGED given
  <2>1. given' \subseteq Report
    BY <1>7 DEF WholeInv, GivenWhole
  <2>2. \A h \in given' : h.alarm =< raised' /\ h.as.of =< raised'
    BY <1>7 DEF WholeInv, GivenWhole
  <2>3. \A h \in given' : Whole(h.as, h.alarm, h.kind, h.put)'
    BY <1>7 DEF WholeInv, GivenWhole, Whole
  <2>4. \A h \in given', u \in Threads : \A i \in 1 .. Len(frames'[u]) :
          frames'[u][i].at \in Early => frames'[u][i].alarm # h.alarm
    BY <1>5, <1>7 DEF WholeInv, GivenWhole
  <2>5. GivenWhole'  BY <2>1, <2>2, <2>3, <2>4 DEF GivenWhole
  <2>6. QED  BY <1>3, <1>6, <2>5 DEF WholeInv
<1>8. CASE Give(t) /\ Top(t).at \in Filled
  <2> DEFINE g == [alarm |-> Top(t).alarm, kind |-> Top(t).kind,
                   put |-> Top(t).put, as |-> EntryClosed(t)]
  <2>1. given' = given \cup {g}  BY <1>8 DEF Give
  <2>2. g \in Report /\ Whole(g.as, g.alarm, g.kind, g.put)
        /\ g.alarm =< raised /\ g.as.of =< raised
    BY <1>8, GivesWhole
  <2>3. ASSUME NEW u \in Threads, NEW i \in 1 .. Len(frames'[u]),
               frames'[u][i].at \in Early
        PROVE  frames'[u][i].alarm # g.alarm
    <3>1. i \in 1 .. Len(frames[u]) /\ frames'[u][i] = frames[u][i] /\ (u # t \/ i < n)
      BY <1>5
    <3>2. u = t => i \in 1 .. n - 1
      BY <1>1, <3>1
    <3>3. \A k \in 1 .. n - 1 : frames[t][k].at \notin Early
      BY TopAt DEF AlarmInv, Early
    <3>4. u # t
      BY <2>3, <3>1, <3>2, <3>3
    <3>5. frames[u][i].alarm # Top(t).alarm
      BY <3>1, <3>4, TopAlone DEF WholeInv
    <3>6. QED  BY <3>1, <3>5
  <2>4. GivenWhole'
    <3> HIDE DEF g
    <3>1. given' \subseteq Report
      BY <2>1, <2>2 DEF WholeInv, GivenWhole
    <3>2. \A h \in given' : h.alarm =< raised' /\ h.as.of =< raised'
      BY <2>1, <2>2 DEF WholeInv, GivenWhole
    <3>3. \A h \in given' : Whole(h.as, h.alarm, h.kind, h.put)'
      BY <2>1, <2>2 DEF WholeInv, GivenWhole, Whole
    <3>4. \A h \in given', u \in Threads : \A i \in 1 .. Len(frames'[u]) :
            frames'[u][i].at \in Early => frames'[u][i].alarm # h.alarm
      BY <1>5, <2>1, <2>3 DEF WholeInv, GivenWhole
    <3>5. QED  BY <3>1, <3>2, <3>3, <3>4 DEF GivenWhole
  <2>5. QED  BY <1>3, <1>6, <2>4 DEF WholeInv
<1>9. QED  BY <1>7, <1>8

(***************************************************************************)
(* The actions.                                                            *)
(***************************************************************************)
LEMMA TopWhole ==
  ASSUME AlarmInv, WholeInv, NEW t \in Threads, frames[t] # <<>>
  PROVE  FrameWhole(t, Top(t)) /\ Top(t) \in Frame
PROOF
<1>1. Len(frames[t]) \in 1 .. Len(frames[t]) /\ Top(t) = frames[t][Len(frames[t])]
  BY TopAt DEF AlarmInv
<1>2. QED  BY <1>1, TopFrame DEF WholeInv, FramesWhole, AlarmInv

(* A frame goes to a place where it asks nothing of the entry.             *)
LEMMA MoveWhole ==
  ASSUME AlarmInv, WholeInv, NEW t \in Threads, frames[t] # <<>>,
         NEW f \in Frame, Set(t, f), UNCHANGED <<raised, outer, no, alarmEntry>>,
         f.alarm = Top(t).alarm, f.kind = Top(t).kind, f.put = Top(t).put,
         f.kind # "printf" => f.text = Top(t).text,
         f.at \notin Filled,
         f.at \in {"take", "store", "fill", "copy"}
           => Top(t).at \in {"take", "store", "fill", "copy"},
         \/ UNCHANGED given /\ (f.at \in Early => Top(t).at \in Early)
         \/ Give(t) /\ Top(t).at \in Filled /\ f.at \notin Early
  PROVE  WholeInv'
PROOF
<1>1. FrameWhole(t, Top(t))
  BY TopWhole
<1>2. f.kind = "stream" /\ f.at \in Early => f.put = 0
  BY <1>1 DEF FrameWhole, Filled
<1>3. FrameWhole(t, f)
  BY <1>1, <1>2 DEF FrameWhole, Filled
<1>4. QED  BY <1>3, SetWhole

LEMMA RingWhole ==
  ASSUME AlarmInv, WholeInv, NEW t \in Threads, Take(t) \/ Store(t) \/ Fill(t)
  PROVE  WholeInv'
PROOF
<1>1. /\ frames[t] # <<>> /\ UNCHANGED <<raised, outer, no, alarmEntry, given>>
      /\ Top(t).at \in {"take", "store", "fill"}
  BY DEF Take, Store, Fill, Raising, idVars, ringVars
<1>2. Top(t) \in Frame
  BY <1>1, TopFrame DEF AlarmInv
<1>3. ASSUME NEW f \in Frame, Set(t, f), f.alarm = Top(t).alarm, f.kind = Top(t).kind,
             f.put = Top(t).put, f.text = Top(t).text, f.at \in {"store", "fill", "copy"}
      PROVE  WholeInv'
  BY <1>1, <1>3, MoveWhole DEF Filled, Early
<1>4. CASE Take(t)
  <2> DEFINE f == [Top(t) EXCEPT !.at = "store", !.read = slBufIndex]
  <2>1. Set(t, f)  BY <1>4 DEF Take
  <2>2. "store" \in Places /\ slBufIndex \in Nat  BY DEF Places, AlarmInv, AlarmTypes
  <2>3. /\ f \in Frame /\ f.at = "store" /\ f.alarm = Top(t).alarm /\ f.kind = Top(t).kind
        /\ f.put = Top(t).put /\ f.text = Top(t).text
    BY <1>2, <2>2, Zenon DEF Frame
  <2>4. QED
    <3> HIDE DEF f
    <3>1. QED  BY <1>3, <2>1, <2>3
<1>5. CASE Store(t)
  <2> DEFINE f == [Top(t) EXCEPT !.at = "fill"]
  <2>1. Set(t, f)  BY <1>5 DEF Store
  <2>2. "fill" \in Places  BY DEF Places
  <2>3. /\ f \in Frame /\ f.at = "fill" /\ f.alarm = Top(t).alarm /\ f.kind = Top(t).kind
        /\ f.put = Top(t).put /\ f.text = Top(t).text
    BY <1>2, <2>2 DEF Frame
  <2>4. QED
    <3> HIDE DEF f
    <3>1. QED  BY <1>3, <2>1, <2>3
<1>6. CASE Fill(t)
  <2> DEFINE f == [Top(t) EXCEPT !.at = "copy"]
  <2>1. Set(t, f)  BY <1>6 DEF Fill
  <2>2. "copy" \in Places  BY DEF Places
  <2>3. /\ f \in Frame /\ f.at = "copy" /\ f.alarm = Top(t).alarm /\ f.kind = Top(t).kind
        /\ f.put = Top(t).put /\ f.text = Top(t).text
    BY <1>2, <2>2 DEF Frame
  <2>4. QED
    <3> HIDE DEF f
    <3>1. QED  BY <1>3, <2>1, <2>3
<1>7. QED  BY <1>4, <1>5, <1>6

(* Only aos_alarm() has a text that comes from the ring.                   *)
LEMMA CopyWhole ==
  ASSUME AlarmInv, WholeInv, NEW t \in Threads, Copy(t)
  PROVE  WholeInv'
PROOF
<1> DEFINE x == slBuffer[Buffer(Top(t).read)]
           f == [Top(t) EXCEPT !.at = "number", !.text = x]
<1>1. /\ frames[t] # <<>> /\ Set(t, f) /\ Top(t).at = "copy"
      /\ UNCHANGED <<raised, outer, no, alarmEntry, given>>
  BY DEF Copy, Raising, idVars
<1>2. Top(t) \in Frame /\ Top(t).kind = "printf"
  BY <1>1, TopWhole DEF FrameWhole
<1>3. x \in Texts
  <2>1. Top(t).read \in Nat  BY <1>2 DEF Frame
  <2>2. Buffer(Top(t).read) \in 0 .. RingSize - 1  BY <2>1, BufferExists
  <2>3. QED  BY <2>2 DEF AlarmInv, AlarmTypes
<1>4. /\ f \in Frame /\ f.at = "number" /\ f.alarm = Top(t).alarm
      /\ f.kind = Top(t).kind /\ f.put = Top(t).put
  <2> HIDE DEF x
  <2>1. "number" \in Places  BY DEF Places
  <2>2. QED  BY <1>2, <1>3, <2>1, Zenon DEF Frame
<1>5. QED
  <2> HIDE DEF f
  <2>1. QED  BY <1>1, <1>2, <1>4, MoveWhole DEF Filled, Early

LEMMA NumberWhole ==
  ASSUME AlarmInv, WholeInv, NEW t \in Threads, Number(t)
  PROVE  WholeInv'
PROOF
<1> DEFINE f == [Top(t) EXCEPT !.at = "stamp", !.read = sgAlarmId]
<1>1. /\ frames[t] # <<>> /\ Set(t, f) /\ Top(t).at = "number"
      /\ UNCHANGED <<raised, outer, no, alarmEntry, given>>
  BY DEF Number, Raising
<1>2. Top(t) \in Frame /\ sgAlarmId \in Nat /\ "stamp" \in Places
  BY <1>1, TopFrame DEF AlarmInv, AlarmTypes, Places
<1>3. /\ f \in Frame /\ f.at = "stamp" /\ f.alarm = Top(t).alarm
      /\ f.kind = Top(t).kind /\ f.put = Top(t).put /\ f.text = Top(t).text
  BY <1>2, Zenon DEF Frame
<1>4. QED
  <2> HIDE DEF f
  <2>1. QED  BY <1>1, <1>3, MoveWhole DEF Filled, Early

LEMMA ClosesWhole ==
  ASSUME AlarmInv, WholeInv, NEW t \in Threads, Closes(t)
  PROVE  WholeInv'
PROOF
<1>1. frames[t] # <<>> /\ UNCHANGED <<raised, outer, no, alarmEntry>>
  BY DEF Closes, CloseEntry, OpenScreen, ScreenText, ScreenEnd, CloseReturns, Raising,
         idVars
<1>2. Top(t) \in Frame /\ Top(t).depth + 1 \in Nat
  <2>1. Top(t) \in Frame  BY <1>1, TopFrame DEF AlarmInv
  <2>2. QED  BY <2>1 DEF Frame
<1>3. CASE CloseEntry(t)
  <2>1. Give(t) /\ Top(t).at \in {"open", "close"}
    BY <1>3 DEF CloseEntry, Raising
  <2>2. CASE Leave(t)
    BY <1>1, <2>1, <2>2, LeaveWhole DEF Filled
  <2>3. CASE Set(t, [Top(t) EXCEPT !.at = "format"])
    <3> DEFINE f == [Top(t) EXCEPT !.at = "format"]
    <3>1. "format" \in Places  BY DEF Places
    <3>2. /\ f \in Frame /\ f.at = "format" /\ f.alarm = Top(t).alarm
          /\ f.kind = Top(t).kind /\ f.put = Top(t).put /\ f.text = Top(t).text
          /\ f.copy = Top(t).copy
      BY <1>2, <3>1 DEF Frame
    <3>3. FrameWhole(t, Top(t))
      BY <1>1, TopWhole
    <3>4. FrameWhole(t, f)
      <4> HIDE DEF f
      <4>1. QED  BY <2>1, <3>2, <3>3 DEF FrameWhole, EntryOfFrame, Whole, Filled, Early
    <3>5. QED
      <4> HIDE DEF f
      <4>1. Set(t, f)  BY <2>3 DEF f
      <4>2. QED  BY <1>1, <2>1, <3>2, <3>4, <4>1, SetWhole DEF Filled, Early
  <2>4. QED  BY <1>3, <2>2, <2>3 DEF CloseEntry
<1>4. CASE OpenScreen(t)
  <2> DEFINE d == Top(t).depth + 1
             f == [Top(t) EXCEPT !.at = "print", !.depth = d]
  <2>1. Set(t, f) /\ (Give(t) \/ UNCHANGED given) /\ Top(t).at = "format"
    BY <1>4 DEF OpenScreen, Raising
  <2>2. /\ f \in Frame /\ f.at = "print" /\ f.alarm = Top(t).alarm
        /\ f.kind = Top(t).kind /\ f.put = Top(t).put /\ f.text = Top(t).text
    <3> HIDE DEF d
    <3>1. "print" \in Places /\ d \in Nat  BY <1>2 DEF Places, d
    <3>2. QED  BY <1>2, <3>1, Zenon DEF Frame
  <2>3. QED
    <3> HIDE DEF f
    <3>1. QED  BY <1>1, <2>1, <2>2, MoveWhole DEF Filled, Early
<1>5. CASE ScreenText(t) \/ ScreenEnd(t)
  <2>1. PICK a \in {"endl", "return"} : Set(t, [Top(t) EXCEPT !.at = a])
    BY <1>5 DEF ScreenText, ScreenEnd
  <2> DEFINE f == [Top(t) EXCEPT !.at = a]
  <2>2. UNCHANGED given
    BY <1>5 DEF ScreenText, ScreenEnd
  <2>3. a \in Places  BY DEF Places
  <2>4. /\ f \in Frame /\ f.at = a /\ f.alarm = Top(t).alarm
        /\ f.kind = Top(t).kind /\ f.put = Top(t).put /\ f.text = Top(t).text
    BY <1>2, <2>3, Zenon DEF Frame
  <2>5. QED
    <3> HIDE DEF f
    <3>1. Set(t, f)  BY <2>1 DEF f
    <3>2. QED  BY <1>1, <2>2, <2>4, <3>1, MoveWhole DEF Filled, Early
<1>6. CASE CloseReturns(t)
  BY <1>1, <1>6, LeaveWhole DEF CloseReturns
<1>7. QED  BY <1>3, <1>4, <1>5, <1>6 DEF Closes

(* A piece makes the entry longer by what belongs to it.  The alarms it is *)
(* inside of have lost theirs already.                                     *)
LEMMA PutPieceWhole ==
  ASSUME AlarmInv, WholeInv, NEW t \in Threads, PutPiece(t)
  PROVE  WholeInv'
PROOF
<1>f. PICK f : f = [Top(t) EXCEPT !.put = @ + 1]
  OBVIOUS
<1>e. PICK e : e = alarmEntry[t]
  OBVIOUS
<1>t. PICK text : text = Append(e.text, Top(t).alarm)
  OBVIOUS
<1>n. PICK n : n = Len(frames[t])
  OBVIOUS
<1>1. /\ frames[t] # <<>> /\ Set(t, f) /\ Top(t).at = "open"
      /\ alarmEntry' = [alarmEntry EXCEPT ![t].text = text]
      /\ UNCHANGED <<raised, outer, no, given>>
  BY <1>f, <1>e, <1>t DEF PutPiece, Raising, idVars, AlarmInv, AlarmTypes
<1>2. Top(t) \in Frame /\ FrameWhole(t, Top(t)) /\ Top(t).kind = "stream"
  BY <1>1, TopWhole DEF FrameWhole, Kinds, Frame
<1>3. /\ f \in Frame /\ f.at = "open" /\ f.alarm = Top(t).alarm
      /\ f.kind = "stream" /\ f.put = Top(t).put + 1 /\ f.text = Top(t).text
  BY <1>1, <1>2, <1>f DEF Frame
<1>4. e \in Numbered /\ Top(t).alarm \in Texts /\ Top(t).alarm \in Alarms
  BY <1>2, <1>e, AlarmAssumption DEF Frame, Alarms, Texts, AlarmInv, AlarmTypes
<1>5. /\ alarmEntry'[t].of = e.of /\ alarmEntry'[t].no = e.no /\ alarmEntry'[t].text = text
      /\ \A u \in Threads \ {t} : alarmEntry'[u] = alarmEntry[u]
  BY <1>1, <1>4, <1>e DEF Numbered, AlarmInv, AlarmTypes
<1>6. Len(text) = Len(e.text) + 1 /\ ToSet(text) = ToSet(e.text) \cup {Top(t).alarm}
  <2>1. e.text \in Seq(Texts)  BY <1>4 DEF Numbered
  <2>2. Len(e.text) \in Nat /\ DOMAIN e.text = 1 .. Len(e.text)
    BY <2>1
  <2>3. /\ DOMAIN text = 1 .. Len(e.text) + 1 /\ Len(text) = Len(e.text) + 1
        /\ text[Len(e.text) + 1] = Top(t).alarm
        /\ \A i \in 1 .. Len(e.text) : text[i] = e.text[i]
    BY <1>4, <1>t, <2>1
  <2>4. QED  BY <2>2, <2>3 DEF ToSet
<1>7. FrameWhole(t, f)'
  <2>1. Whole(e, Top(t).alarm, "stream", Top(t).put)
    BY <1>1, <1>2, <1>e DEF FrameWhole, EntryOfFrame, Filled
  <2>2. Whole(alarmEntry[t], f.alarm, "stream", f.put)'
    BY <1>1, <1>3, <1>5, <1>6, <2>1 DEF Whole
  <2>3. QED  BY <1>2, <1>3, <2>2 DEF FrameWhole, EntryOfFrame, Early
<1>8. /\ n \in Nat \ {0} /\ n \in 1 .. n /\ Top(t) = frames[t][n]
      /\ \A i \in 1 .. n - 1 : frames[t][i].at \in {"open", "format"}
  BY <1>1, <1>n, TopAt DEF AlarmInv
<1>9. /\ Len(frames'[t]) = n
      /\ frames'[t][n] = f
      /\ \A i \in 1 .. n - 1 : frames'[t][i] = frames[t][i]
      /\ \A u \in Threads \ {t} : frames'[u] = frames[u]
  BY <1>1, <1>3, <1>n, SetAt DEF AlarmInv
<1>10. OrderInv'
  <2>1. \A u \in Threads : alarmEntry'[u].of =< raised
    BY <1>5, <1>e DEF WholeInv, OrderInv
  <2>2. QED  BY <1>1, <1>3, <2>1, SetOrder DEF WholeInv
<1>11. ASSUME NEW i \in 1 .. n - 1, NEW g, g = frames[t][i] PROVE FrameWhole(t, g)'
  <2>1. FrameWhole(t, g) /\ g.at \in {"open", "format"}
    <3>1. i \in 1 .. Len(frames[t])  BY <1>8, <1>n
    <3>2. QED  BY <1>8, <1>11, <3>1 DEF WholeInv, FramesWhole
  <2>2. g.alarm < Top(t).alarm /\ g.alarm \in Alarms
    <3>1. i \in 1 .. Len(frames[t])  BY <1>8, <1>n
    <3>2. g \in Frame  BY <1>11, <3>1, FrameAt DEF AlarmInv
    <3>3. QED  BY <1>1, <1>n, <1>11, <3>2, TopAlone DEF WholeInv, Frame
  <2>3. e.of # g.alarm
    <3>1. e.of = Top(t).alarm \/ (e.of \in Alarms /\ Top(t).alarm \in outer[e.of])
      BY <1>1, <1>2, <1>e DEF FrameWhole, EntryOfFrame, Filled, Whole
    <3>2. e.of \in Alarms => \A b \in outer[e.of] : b < e.of
      BY DEF WholeInv, OrderInv
    <3>3. QED  BY <1>4, <2>2, <3>1, <3>2 DEF Alarms
  <2>4. g.kind = "stream" => g.alarm \in outer[e.of] /\ e.of \in Alarms
    BY <1>e, <2>1, <2>3 DEF FrameWhole, EntryOfFrame, Filled, Whole
  <2>5. Whole(EntryOfFrame(t, g), g.alarm, g.kind, g.put)'
    <3>1. CASE g.kind = "stream"
      BY <1>1, <1>5, <2>4, <3>1 DEF EntryOfFrame, Whole
    <3>2. CASE g.kind # "stream"
      BY <1>1, <2>1, <3>2 DEF FrameWhole, EntryOfFrame, Filled, Whole
    <3>3. QED  BY <3>1, <3>2
  <2>6. QED  BY <2>1, <2>5 DEF FrameWhole
<1>12. ASSUME NEW u \in Threads \ {t}, NEW g, FrameWhole(u, g)
       PROVE  FrameWhole(u, g)'
  BY <1>1, <1>5, <1>12, StaysWhole
<1>13. FramesWhole'
  <2> SUFFICES ASSUME NEW u \in Threads, NEW i \in 1 .. Len(frames'[u])
               PROVE  FrameWhole(u, frames[u][i])'
    BY DEF FramesWhole
  <2>1. CASE u # t
    <3>1. i \in 1 .. Len(frames[u]) /\ frames'[u][i] = frames[u][i]
      BY <1>9, <2>1
    <3>2. FrameWhole(u, frames[u][i])
      BY <3>1 DEF WholeInv, FramesWhole
    <3>3. \A g : FrameWhole(u, g) => FrameWhole(u, g)'
      BY <1>12, <2>1
    <3>4. QED  BY <3>1, <3>2, <3>3
  <2>2. CASE u = t /\ i = n
    <3>1. frames'[u][i] = f  BY <1>9, <2>2
    <3>2. QED  BY <1>7, <2>2, <3>1
  <2>3. CASE u = t /\ i \in 1 .. n - 1
    <3>1. frames'[u][i] = frames[t][i]  BY <1>9, <2>3
    <3>2. \A g : g = frames[t][i] => FrameWhole(t, g)'
      BY <1>11, <2>3
    <3>3. QED  BY <2>3, <3>1, <3>2
  <2>4. QED  BY <1>8, <1>9, <2>1, <2>2, <2>3
<1>14. GivenWhole'
  <2>1. ASSUME NEW g \in given, NEW u \in Threads, NEW i \in 1 .. Len(frames'[u]),
               frames'[u][i].at \in Early
        PROVE  frames'[u][i].alarm # g.alarm
    <3>1. i \in 1 .. Len(frames[u]) /\ frames'[u][i] = frames[u][i]
      <4>1. CASE u # t
        BY <1>9, <4>1
      <4>2. CASE u = t
        <5>1. i # n  BY <1>3, <1>9, <2>1, <4>2 DEF Early
        <5>2. QED  BY <1>8, <1>9, <1>n, <4>2, <5>1
      <4>3. QED  BY <4>1, <4>2
    <3>2. QED  BY <2>1, <3>1 DEF WholeInv, GivenWhole
  <2>2. QED  BY <1>1, <2>1 DEF WholeInv, GivenWhole, Whole
<1>15. QED  BY <1>10, <1>13, <1>14 DEF WholeInv

(* getEntry() takes the entry from the alarms around this one, and gives   *)
(* it all it needs: nothing was put yet, or, with a copy, one piece.       *)
LEMMA StampWhole ==
  ASSUME AlarmInv, WholeInv, NEW t \in Threads, Stamp(t)
  PROVE  WholeInv'
PROOF
<1>n. PICK n : n = Len(frames[t])
  OBVIOUS
<1>h. PICK h : h = Top(t)
  OBVIOUS
<1>e. PICK e : e = [no |-> h.read, of |-> h.alarm, text |-> <<>>]
  OBVIOUS
<1>c. PICK c : c = [e EXCEPT !.text = <<h.text>>]
  OBVIOUS
<1>f. PICK f : f = IF h.kind = "stream" THEN [h EXCEPT !.at = "open"]
                   ELSE [h EXCEPT !.at = "close", !.put = 1, !.copy = c]
  OBVIOUS
<1>1. /\ frames[t] # <<>> /\ h.at = "stamp" /\ Set(t, f)
      /\ no' = [no EXCEPT ![h.alarm] = h.read]
      /\ alarmEntry' = [alarmEntry EXCEPT ![t] = e]
      /\ UNCHANGED <<raised, outer, given>>
  BY <1>h, <1>e, <1>c, <1>f DEF Stamp, Raising
<1>2. h \in Frame /\ FrameWhole(t, h)
  BY <1>1, <1>h, TopWhole
<1>3. /\ h.read \in Nat /\ h.alarm \in Alarms /\ h.alarm \in Texts /\ h.text \in Texts
      /\ h.put \in Nat
  BY <1>2, AlarmAssumption DEF Frame, Alarms, Texts
<1>4. <<>> \in Seq(Texts) /\ <<h.text>> \in Seq(Texts)
  BY <1>3
<1>5. e \in Numbered
  BY <1>3, <1>4, <1>e DEF Numbered
<1>6. /\ c \in Numbered /\ c.of = h.alarm /\ c.no = h.read /\ c.text = <<h.text>>
      /\ e.of = h.alarm /\ e.no = h.read /\ e.text = <<>>
  <2>1. e.of = h.alarm /\ e.no = h.read /\ e.text = <<>>
    BY <1>e
  <2>2. c \in Numbered /\ c.of = e.of /\ c.no = e.no /\ c.text = <<h.text>>
    BY <1>4, <1>5, <1>c DEF Numbered
  <2>3. QED  BY <2>1, <2>2
<1>7. /\ f \in Frame /\ f.alarm = h.alarm /\ f.kind = h.kind /\ f.text = h.text
      /\ f.kind = "stream" => f.at = "open" /\ f.put = h.put
      /\ f.kind # "stream" => f.at = "close" /\ f.put = 1 /\ f.copy = c
  <2>1. CASE h.kind = "stream"
    <3>1. f = [h EXCEPT !.at = "open"] /\ "open" \in Places
      BY <1>f, <2>1 DEF Places
    <3>2. QED  BY <1>2, <2>1, <3>1 DEF Frame
  <2>2. CASE h.kind # "stream"
    <3>1. PICK one \in Nat : one = 1  OBVIOUS
    <3>2. f = [h EXCEPT !.at = "close", !.put = one, !.copy = c] /\ "close" \in Places
      BY <1>f, <2>2, <3>1 DEF Places
    <3>3. /\ f \in Frame /\ f.alarm = h.alarm /\ f.kind = h.kind /\ f.text = h.text
          /\ f.at = "close" /\ f.put = one /\ f.copy = c
      BY <1>2, <1>6, <3>2, Zenon DEF Frame
    <3>4. QED  BY <2>2, <3>1, <3>3
  <2>3. QED  BY <2>1, <2>2
<1>8. /\ alarmEntry'[t] = e /\ \A u \in Threads \ {t} : alarmEntry'[u] = alarmEntry[u]
      /\ no'[h.alarm] = h.read
      /\ \A a \in Alarms : a # h.alarm => no'[a] = no[a]
  BY <1>1, <1>3 DEF AlarmInv, AlarmTypes
<1>9. FrameWhole(t, f)'
  <2>1. CASE f.kind = "stream"
    <3>1. h.put = 0  BY <1>1, <1>2, <1>7, <2>1 DEF FrameWhole, Early
    <3>2. ToSet(e.text) = {} /\ Len(e.text) = 0  BY <1>6 DEF ToSet
    <3>3. Whole(alarmEntry[t], f.alarm, f.kind, f.put)'
      BY <1>6, <1>7, <1>8, <2>1, <3>1, <3>2 DEF Whole
    <3>4. QED  BY <1>2, <1>7, <2>1, <3>3 DEF FrameWhole, EntryOfFrame, Early
  <2>2. CASE f.kind # "stream"
    <3>1. ToSet(c.text) = {h.text} /\ Len(c.text) = 1  BY <1>6 DEF ToSet
    <3>2. f.kind # "printf" => h.text = h.alarm  BY <1>2, <1>7 DEF FrameWhole
    <3>3. Whole(c, f.alarm, f.kind, f.put)'
      BY <1>6, <1>7, <1>8, <2>2, <3>1, <3>2 DEF Whole
    <3>4. QED  BY <1>2, <1>7, <2>2, <3>2, <3>3 DEF FrameWhole, EntryOfFrame, Early
  <2>3. QED  BY <2>1, <2>2
<1>10. /\ n \in Nat \ {0} /\ n \in 1 .. n /\ h = frames[t][n]
       /\ \A i \in 1 .. n - 1 : frames[t][i].at \in {"open", "format"}
  BY <1>1, <1>n, <1>h, TopAt DEF AlarmInv
<1>11. /\ Len(frames'[t]) = n
       /\ frames'[t][n] = f
       /\ \A i \in 1 .. n - 1 : frames'[t][i] = frames[t][i]
       /\ \A u \in Threads \ {t} : frames'[u] = frames[u]
  BY <1>1, <1>7, <1>n, SetAt DEF AlarmInv
<1>12. OrderInv'
  <2>1. e.of =< raised
    BY <1>6, <1>10, <1>n DEF WholeInv, OrderInv
  <2>2. \A u \in Threads : alarmEntry'[u].of =< raised
    BY <1>8, <2>1 DEF WholeInv, OrderInv
  <2>3. QED  BY <1>1, <1>7, <1>h, <2>2, SetOrder DEF WholeInv
<1>13. ASSUME NEW i \in 1 .. n - 1, NEW g, g = frames[t][i] PROVE FrameWhole(t, g)'
  <2>1. i \in 1 .. Len(frames[t])  BY <1>10, <1>n
  <2>2. FrameWhole(t, g) /\ g.at \in {"open", "format"} /\ g \in Frame
    BY <1>10, <1>13, <2>1, FrameAt DEF WholeInv, FramesWhole, AlarmInv
  <2>3. g.alarm < h.alarm /\ g.alarm \in outer[h.alarm] /\ g.alarm \in Alarms
    BY <1>1, <1>n, <1>h, <1>13, <2>2, TopAlone DEF WholeInv, Frame
  <2>4. Whole(EntryOfFrame(t, g), g.alarm, g.kind, g.put)'
    <3>1. CASE g.kind = "stream"
      BY <1>1, <1>3, <1>6, <1>8, <2>3, <3>1 DEF EntryOfFrame, Whole
    <3>2. CASE g.kind # "stream"
      <4>1. no'[g.alarm] = no[g.alarm]  BY <1>3, <1>8, <2>3 DEF Alarms
      <4>2. QED  BY <2>2, <3>2, <4>1 DEF FrameWhole, EntryOfFrame, Filled, Whole
    <3>3. QED  BY <3>1, <3>2
  <2>5. QED  BY <2>2, <2>4 DEF FrameWhole
<1>14. FramesWhole'
  <2> SUFFICES ASSUME NEW u \in Threads, NEW i \in 1 .. Len(frames'[u])
               PROVE  FrameWhole(u, frames[u][i])'
    BY DEF FramesWhole
  <2>1. CASE u # t
    <3>1. i \in 1 .. Len(frames[u]) /\ frames'[u][i] = frames[u][i]
      BY <1>11, <2>1
    <3>2. FrameWhole(u, frames[u][i])
      BY <3>1 DEF WholeInv, FramesWhole
    <3>3. frames[u][i].alarm # h.alarm /\ frames[u][i].alarm \in Alarms
      BY <1>1, <1>h, <2>1, <3>1, FrameAt, TopAlone DEF WholeInv, AlarmInv, Frame
    <3>4. \A g : g.alarm \in Alarms \ {h.alarm} /\ FrameWhole(u, g) => FrameWhole(u, g)'
      BY <1>1, <1>8, <2>1, StaysWhole
    <3>5. QED  BY <3>1, <3>2, <3>3, <3>4
  <2>2. CASE u = t /\ i = n
    <3>1. frames'[u][i] = f  BY <1>11, <2>2
    <3>2. QED  BY <1>9, <2>2, <3>1
  <2>3. CASE u = t /\ i \in 1 .. n - 1
    <3>1. frames'[u][i] = frames[t][i]  BY <1>11, <2>3
    <3>2. \A g : g = frames[t][i] => FrameWhole(t, g)'
      BY <1>13, <2>3
    <3>3. QED  BY <2>3, <3>1, <3>2
  <2>4. QED  BY <1>10, <1>11, <2>1, <2>2, <2>3
<1>15. GivenWhole'
  <2>1. ASSUME NEW g \in given, NEW u \in Threads, NEW i \in 1 .. Len(frames'[u]),
               frames'[u][i].at \in Early
        PROVE  frames'[u][i].alarm # g.alarm
    <3>1. i \in 1 .. Len(frames[u]) /\ frames'[u][i] = frames[u][i]
      <4>1. CASE u # t
        BY <1>11, <4>1
      <4>2. CASE u = t
        <5>1. i # n  BY <1>7, <1>11, <2>1, <4>2 DEF Early
        <5>2. QED  BY <1>10, <1>11, <1>n, <4>2, <5>1
      <4>3. QED  BY <4>1, <4>2
    <3>2. QED  BY <2>1, <3>1 DEF WholeInv, GivenWhole
  <2>2. ASSUME NEW g \in given PROVE Whole(g.as, g.alarm, g.kind, g.put)'
    <3>1. g.alarm \in Alarms  BY DEF WholeInv, GivenWhole, Report
    <3>2. g.alarm # h.alarm
      BY <1>1, <1>10, <1>n DEF WholeInv, GivenWhole, Early
    <3>3. no'[g.alarm] = no[g.alarm]  BY <1>8, <3>1, <3>2
    <3>4. QED  BY <1>1, <3>3 DEF WholeInv, GivenWhole, Whole
  <2>3. QED  BY <1>1, <2>1, <2>2 DEF WholeInv, GivenWhole
<1>16. QED  BY <1>12, <1>14, <1>15 DEF WholeInv

(* A new alarm is inside of all its thread is raising, and of nothing else *)
(* that was ever said of an alarm.                                         *)
LEMMA RaiseWhole ==
  ASSUME AlarmInv, WholeInv, TypeOK, NEW t \in Threads, NEW kind \in Kinds, Raise(t, kind)
  PROVE  WholeInv'
PROOF
<1> USE AlarmAssumption
<1>n. PICK n : n = Len(frames[t])
  OBVIOUS
<1>x. PICK x : x = raised + 1
  OBVIOUS
<1>f. PICK f : f = [alarm |-> x, kind |-> kind, depth |-> Len(open[t]),
                    at |-> IF kind = "printf" THEN "take" ELSE "number",
                    read |-> 0, text |-> x, copy |-> NoAlarm, put |-> 0]
  OBVIOUS
<1>s. PICK S : S = {g.alarm : g \in ToSet(frames[t])}
  OBVIOUS
<1>1. /\ raised \in Nat /\ raised' = x /\ x \in Alarms
      /\ frames' = [frames EXCEPT ![t] = Append(@, f)]
      /\ outer' = [outer EXCEPT ![x] = S]
      /\ UNCHANGED <<alarmEntry, no, given>>
  BY <1>x, <1>f, <1>s DEF Raise, AlarmInv, AlarmTypes, Alarms, idVars
<1>2. f.alarm = x /\ f.kind = kind /\ f.put = 0 /\ f.text = x
      /\ f.at = IF kind = "printf" THEN "take" ELSE "number"
  BY <1>f
<1>3. frames[t] \in Seq(Frame) /\ n \in Nat /\ f \in Frame
  <2>1. frames[t] \in Seq(Frame) /\ n \in Nat
    BY <1>n DEF AlarmInv, FramesInv
  <2>2. Len(open[t]) \in Nat
    BY DEF TypeOK
  <2>3. NoAlarm \in Numbered
    BY EmptySeq DEF NoAlarm, Numbered, Texts
  <2>4. f \in Frame
    BY <1>1, <1>f, <2>2, <2>3 DEF Frame, Places, Texts, Alarms
  <2>5. QED  BY <2>1, <2>4
<1>4. /\ Len(frames'[t]) = n + 1 /\ frames'[t][n + 1] = f
      /\ \A i \in 1 .. n : frames'[t][i] = frames[t][i]
      /\ \A u \in Threads \ {t} : frames'[u] = frames[u]
  <2>1. frames'[t] = Append(frames[t], f) /\ \A u \in Threads \ {t} : frames'[u] = frames[u]
    BY <1>1 DEF AlarmInv, FramesInv
  <2>2. QED  BY <1>3, <1>n, <2>1
<1>5. S = {frames[t][i].alarm : i \in 1 .. n}
  <2>1. DOMAIN frames[t] = 1 .. n  BY <1>3, <1>n
  <2>2. QED  BY <1>s, <2>1 DEF ToSet
<1>6. \A u \in Threads : \A i \in 1 .. Len(frames[u]) :
        frames[u][i].alarm \in Alarms /\ frames[u][i].alarm =< raised
  BY FrameAt DEF WholeInv, OrderInv, AlarmInv, Frame
<1>7. S \subseteq Alarms /\ \A b \in S : b < x
  BY <1>1, <1>5, <1>6, <1>n, <1>x DEF Alarms
<1>8. outer' \in [Alarms -> SUBSET Alarms] /\ outer'[x] = S
      /\ \A a \in Alarms : a # x => outer'[a] = outer[a]
  BY <1>1, <1>7 DEF WholeInv, OrderInv
<1>9. ASSUME NEW u \in Threads, NEW i \in 1 .. Len(frames'[u])
      PROVE  \/ u = t /\ i = n + 1 /\ frames'[u][i] = f
             \/ i \in 1 .. Len(frames[u]) /\ frames'[u][i] = frames[u][i]
  <2>1. CASE u # t
    BY <1>4, <2>1
  <2>2. CASE u = t /\ i = n + 1
    BY <1>4, <2>2
  <2>3. CASE u = t /\ i \in 1 .. n
    BY <1>4, <1>n, <2>3
  <2>4. QED  BY <1>3, <1>4, <2>1, <2>2, <2>3
<1>10. OrderInv'
  <2>1. \A a \in Alarms : \A b \in outer'[a] : b < a
    BY <1>7, <1>8 DEF WholeInv, OrderInv
  <2>2. ASSUME NEW u \in Threads PROVE alarmEntry'[u].of =< raised'
    <3>1. alarmEntry[u].of =< raised /\ alarmEntry[u].of \in Texts
      BY DEF WholeInv, OrderInv, AlarmInv, AlarmTypes, Numbered
    <3>2. QED  BY <1>1, <1>x, <3>1 DEF Texts
  <2>3. ASSUME NEW u \in Threads, NEW i \in 1 .. Len(frames'[u])
        PROVE  frames'[u][i].alarm =< raised'
    BY <1>1, <1>2, <1>6, <1>9, <1>x DEF Alarms
  <2>4. ASSUME NEW u \in Threads, NEW i \in 1 .. Len(frames'[u]),
               NEW j \in 1 .. Len(frames'[u]), i < j
        PROVE  /\ frames'[u][i].alarm < frames'[u][j].alarm
               /\ frames'[u][i].alarm \in outer'[frames'[u][j].alarm]
    <3>1. i \in 1 .. Len(frames[u]) /\ frames'[u][i] = frames[u][i]
      BY <1>3, <1>4, <1>9, <1>n, <2>4
    <3>2. CASE u = t /\ j = n + 1 /\ frames'[u][j] = f
      BY <1>1, <1>2, <1>5, <1>7, <1>8, <1>n, <3>1, <3>2
    <3>3. CASE j \in 1 .. Len(frames[u]) /\ frames'[u][j] = frames[u][j]
      <4>1. frames[u][j].alarm # x /\ frames[u][j].alarm \in Alarms
        BY <1>1, <1>6, <1>x, <3>3 DEF Alarms
      <4>2. QED  BY <1>8, <2>4, <3>1, <3>3, <4>1 DEF WholeInv, OrderInv
    <3>4. QED  BY <1>9, <3>2, <3>3
  <2>5. ASSUME NEW u \in Threads, NEW w \in Threads, u # w,
               NEW i \in 1 .. Len(frames'[u]), NEW j \in 1 .. Len(frames'[w])
        PROVE  frames'[u][i].alarm # frames'[w][j].alarm
    <3>1. \A v \in Threads : \A k \in 1 .. Len(frames[v]) : frames[v][k].alarm # x
      BY <1>1, <1>6, <1>x DEF Alarms
    <3>2. CASE frames'[u][i] = f /\ u = t
      <4>1. j \in 1 .. Len(frames[w]) /\ frames'[w][j] = frames[w][j]
        BY <1>4, <2>5, <3>2
      <4>2. QED  BY <1>2, <3>1, <3>2, <4>1
    <3>3. CASE frames'[w][j] = f /\ w = t
      <4>1. i \in 1 .. Len(frames[u]) /\ frames'[u][i] = frames[u][i]
        BY <1>4, <2>5, <3>3
      <4>2. QED  BY <1>2, <3>1, <3>3, <4>1
    <3>4. CASE /\ i \in 1 .. Len(frames[u]) /\ frames'[u][i] = frames[u][i]
               /\ j \in 1 .. Len(frames[w]) /\ frames'[w][j] = frames[w][j]
      BY <2>5, <3>4 DEF WholeInv, OrderInv
    <3>5. QED  BY <1>9, <3>2, <3>3, <3>4
  <2>6. QED  BY <1>8, <2>1, <2>2, <2>3, <2>4, <2>5 DEF OrderInv
<1>11. \A e, a, k, m : e.of =< raised /\ Whole(e, a, k, m) => Whole(e, a, k, m)'
  <2> SUFFICES ASSUME NEW e, NEW a, NEW k, NEW m, e.of =< raised, Whole(e, a, k, m)
               PROVE  Whole(e, a, k, m)'
    OBVIOUS
  <2>1. e.of \in Alarms => outer'[e.of] = outer[e.of]
    BY <1>1, <1>8, <1>x DEF Alarms
  <2>2. QED  BY <1>1, <2>1 DEF Whole
<1>12. ASSUME NEW u \in Threads, NEW g, g.alarm =< raised, FrameWhole(u, g)
       PROVE  FrameWhole(u, g)'
  <2>1. alarmEntry[u].of =< raised
    BY DEF WholeInv, OrderInv
  <2>2. g.at \in Filled => EntryOfFrame(u, g).of =< raised
    BY <1>12, <2>1 DEF FrameWhole, EntryOfFrame, Whole
  <2>3. EntryOfFrame(u, g)' = EntryOfFrame(u, g)
    BY <1>1 DEF EntryOfFrame
  <2>4. g.at \in Filled => Whole(EntryOfFrame(u, g), g.alarm, g.kind, g.put)'
    <3>1. PICK e : e = EntryOfFrame(u, g)  OBVIOUS
    <3>2. g.at \in Filled => Whole(e, g.alarm, g.kind, g.put)'
      BY <1>11, <1>12, <2>2, <3>1 DEF FrameWhole
    <3>3. QED  BY <2>3, <3>1, <3>2
  <2>5. QED  BY <1>12, <2>4 DEF FrameWhole
<1>13. FrameWhole(t, f)'
  BY <1>2 DEF FrameWhole, Filled, Early
<1>14. FramesWhole'
  <2> SUFFICES ASSUME NEW u \in Threads, NEW i \in 1 .. Len(frames'[u])
               PROVE  FrameWhole(u, frames[u][i])'
    BY DEF FramesWhole
  <2>1. CASE u = t /\ frames'[u][i] = f
    BY <1>13, <2>1
  <2>2. CASE i \in 1 .. Len(frames[u]) /\ frames'[u][i] = frames[u][i]
    <3>1. FrameWhole(u, frames[u][i]) /\ frames[u][i].alarm =< raised
      BY <1>6, <2>2 DEF WholeInv, FramesWhole
    <3>2. \A g : g.alarm =< raised /\ FrameWhole(u, g) => FrameWhole(u, g)'
      BY <1>12
    <3>3. QED  BY <2>2, <3>1, <3>2
  <2>3. QED  BY <1>9, <2>1, <2>2
<1>15. GivenWhole'
  <2>1. ASSUME NEW g \in given
        PROVE  /\ g.alarm =< raised' /\ g.alarm # x /\ g.as.of =< raised'
               /\ Whole(g.as, g.alarm, g.kind, g.put)'
    <3>1. /\ g.alarm =< raised /\ g.as.of =< raised
          /\ Whole(g.as, g.alarm, g.kind, g.put)
          /\ g.alarm \in Alarms /\ g.as.of \in Texts
      BY DEF WholeInv, GivenWhole, Report, Numbered
    <3>2. QED  BY <1>1, <1>11, <1>x, <3>1 DEF Alarms, Texts
  <2>2. ASSUME NEW g \in given, NEW u \in Threads, NEW i \in 1 .. Len(frames'[u]),
               frames'[u][i].at \in Early
        PROVE  frames'[u][i].alarm # g.alarm
    BY <1>2, <1>9, <2>1, <2>2 DEF WholeInv, GivenWhole
  <2>3. QED  BY <1>1, <2>1, <2>2 DEF WholeInv, GivenWhole
<1>16. QED  BY <1>10, <1>14, <1>15 DEF WholeInv

LEMMA WholeStarts == AlarmInit => WholeInv
PROOF
<1> SUFFICES ASSUME AlarmInit PROVE WholeInv
  OBVIOUS
<1>1. OrderInv
  BY EmptySeq DEF AlarmInit, OrderInv, NoAlarm
<1>2. FramesWhole
  BY EmptySeq DEF AlarmInit, FramesWhole
<1>3. GivenWhole
  BY DEF AlarmInit, GivenWhole
<1>4. QED  BY <1>1, <1>2, <1>3 DEF WholeInv

LEMMA WholeInductive ==
  WholeInv /\ AlarmInv /\ TypeOK /\ [AlarmNext]_<<vars, alarmVars>> => WholeInv'
PROOF
<1> SUFFICES ASSUME WholeInv, AlarmInv, TypeOK, [AlarmNext]_<<vars, alarmVars>>
             PROVE  WholeInv'
  OBVIOUS
<1>1. ASSUME NEW t \in Threads, Alarm(t) PROVE WholeInv'
  BY <1>1, RaiseWhole, RingWhole, CopyWhole, NumberWhole, StampWhole, PutPieceWhole,
     ClosesWhole DEF Alarm, Closes
<1>2. CASE UNCHANGED alarmVars
  <2>1. UNCHANGED <<alarmEntry, frames, raised, outer, given, no>>
    BY <1>2 DEF alarmVars, idVars
  <2>2. OrderInv'
    BY <2>1 DEF WholeInv, OrderInv
  <2>3. FramesWhole'
    <3>1. \A t \in Threads : \A g : FrameWhole(t, g) => FrameWhole(t, g)'
      BY <2>1, StaysWhole
    <3>2. QED  BY <2>1, <3>1 DEF WholeInv, FramesWhole
  <2>4. GivenWhole'
    BY <2>1 DEF WholeInv, GivenWhole, Whole
  <2>5. QED  BY <2>2, <2>3, <2>4 DEF WholeInv
<1>3. QED  BY <1>1, <1>2 DEF AlarmNext, Trace

(* What an alarm is counted by, and what is printed of it when its text    *)
(* can be made (158), is its own number, file, line and all of its text,   *)
(* unless it is one raised with OmnAlarm inside of which another was       *)
(* raised (AlarmMgr.cpp:94-165), for any nesting and threads.              *)
THEOREM AlarmsStayWhole == AlarmSpec => []AlarmsAreWhole
PROOF
<1>1. WholeInv => AlarmsAreWhole
  BY DEF WholeInv, GivenWhole, Whole, AlarmsAreWhole
<1>2. QED
  BY WholeStarts, WholeInductive, AlarmInvStarts, AlarmInvInductive, AlarmsKeepTypes,
     <1>1, PTL DEF AlarmSpec

(***************************************************************************)
(* The ring of buffers.                                                    *)
(***************************************************************************)
At(t, places) == frames[t] # <<>> /\ Top(t).at \in places

RingPlaces == {"take", "store", "fill", "copy"}

(* As long as one thread at a time is in slBufIndex++: whoever has taken a *)
(* buffer and not copied it yet took it as many buffers ago as were taken  *)
(* since, so that no two have taken the same.                              *)
RingInv ==
  /\ \A t \in Threads : At(t, {"store"}) => Top(t).read = slBufIndex
  /\ \A t, u \in Threads : At(t, {"store"}) /\ At(u, {"store"}) => t = u
  /\ \A t \in Threads : At(t, {"take", "store"}) => during[Top(t).alarm] = 0
  /\ \A t \in Threads : At(t, {"fill", "copy"}) =>
       Top(t).read + 1 + during[Top(t).alarm] = slBufIndex
  /\ \A t, u \in Threads : At(t, {"fill", "copy"}) /\ At(u, {"fill", "copy"}) =>
       t = u \/ Top(t).read # Top(u).read

(* What aos_alarm() has of its text, from the copy on.                     *)
FrameOwn(f) ==
  f.kind = "printf" =>
    /\ f.at \in {"number", "stamp"} => f.text = f.alarm
    /\ f.at \in {"close", "format"} => f.copy.text = <<f.alarm>>

FramesOwn == \A t \in Threads : \A i \in 1 .. Len(frames[t]) : FrameOwn(frames[t][i])
GivenOwn  == \A g \in given : g.kind = "printf" => g.as.text = <<g.alarm>>
BufferOwn == \A t \in Threads : At(t, {"copy"}) =>
               slBuffer[Buffer(Top(t).read)] = Top(t).alarm

Overtaken == ringRaced \/ \E a \in Alarms : during[a] >= RingSize

OwnInv ==
  /\ during \in [Alarms -> Nat] /\ ringRaced \in BOOLEAN
  /\ \A a \in Alarms : a > raised => during[a] = 0
  /\ ~ ringRaced => RingInv
  /\ ~ Overtaken => BufferOwn /\ FramesOwn /\ GivenOwn

LEMMA Divided ==
  ASSUME NEW r \in Nat \ {0}, NEW a \in Nat
  PROVE  a = r * (a \div r) + (a % r) /\ a \div r \in Int /\ a % r \in Int
BY SMT

(* Fewer than RingSize calls apart, two calls have two buffers.            *)
LEMMA Apart ==
  ASSUME NEW a \in Nat, NEW b \in Nat, a < b, b - a < RingSize
  PROVE  Buffer(a) # Buffer(b)
PROOF
<1> DEFINE p == a \div RingSize
           q == b \div RingSize
           r == a % RingSize
           s == b % RingSize
<1>1. a = RingSize * p + r /\ p \in Int /\ r \in Int
  BY Divided, AlarmAssumption
<1>2. b = RingSize * q + s /\ q \in Int /\ s \in Int
  BY Divided, AlarmAssumption
<1>3. SUFFICES ASSUME r = s PROVE FALSE
  BY DEF Buffer
<1> HIDE DEF p, q, r, s
<1>4. b - a = RingSize * (q - p) /\ RingSize \in Nat \ {0}
  BY <1>1, <1>2, <1>3, AlarmAssumption
<1>5. CASE q - p >= 1
  <2>1. RingSize * (q - p) >= RingSize  BY <1>1, <1>2, <1>4, <1>5
  <2>2. QED  BY <1>1, <1>2, <1>4, <2>1
<1>6. CASE q - p =< 0
  <2>1. RingSize * (q - p) =< 0  BY <1>1, <1>2, <1>4, <1>6
  <2>2. QED  BY <1>1, <1>2, <1>4, <2>1
<1>7. QED  BY <1>1, <1>2, <1>5, <1>6

(***************************************************************************)
(* Steps that leave the ring alone: t is through with it, has not begun,   *)
(* or goes on with the buffer it has.                                      *)
(***************************************************************************)
LEMMA RingStays ==
  ASSUME AlarmInv, OwnInv, NEW t \in Threads,
         UNCHANGED <<slBufIndex, during, ringRaced>>,
         \A u \in Threads \ {t} : frames'[u] = frames[u],
         \/ frames'[t] = <<>>
         \/ Top(t)'.at \notin RingPlaces
         \/ Top(t)'.at = "take" /\ during[Top(t)'.alarm] = 0
         \/ /\ At(t, {"fill", "copy"}) /\ Top(t)'.at \in {"fill", "copy"}
            /\ Top(t)'.read = Top(t).read /\ Top(t)'.alarm = Top(t).alarm
  PROVE  ~ ringRaced' => RingInv'
PROOF
<1> SUFFICES ASSUME ~ ringRaced' PROVE RingInv'
  OBVIOUS
<1>1. RingInv
  BY DEF OwnInv
<1>2. ASSUME NEW u \in Threads, u # t, NEW ps PROVE At(u, ps)' <=> At(u, ps)
  BY <1>2 DEF At, Top
<1>3. \A u \in Threads \ {t} : Top(u)' = Top(u)
  BY DEF Top
<1>4. ~ At(t, {"store"})'
  BY DEF At, RingPlaces
<1>5. At(t, {"take", "store"})' => during'[Top(t)'.alarm] = 0
  BY DEF At, RingPlaces
<1>6. At(t, {"fill", "copy"})' =>
        /\ At(t, {"fill", "copy"})
        /\ Top(t)'.read = Top(t).read /\ Top(t)'.alarm = Top(t).alarm
  BY DEF At, RingPlaces
<1>7. /\ \A u \in Threads : At(u, {"store"})' => At(u, {"store"}) /\ Top(u)' = Top(u)
      /\ \A u \in Threads : At(u, {"fill", "copy"})' =>
           /\ At(u, {"fill", "copy"})
           /\ Top(u)'.read = Top(u).read /\ Top(u)'.alarm = Top(u).alarm
      /\ \A u \in Threads : At(u, {"take", "store"})' => during'[Top(u)'.alarm] = 0
  <2>1. \A u \in Threads \ {t} : At(u, {"store"})' => At(u, {"store"})
    BY <1>2
  <2>2. \A u \in Threads \ {t} : At(u, {"fill", "copy"})' => At(u, {"fill", "copy"})
    BY <1>2
  <2>3. \A u \in Threads \ {t} : At(u, {"take", "store"})' => At(u, {"take", "store"})
    BY <1>2
  <2>4. QED  BY <1>1, <1>3, <1>4, <1>5, <1>6, <2>1, <2>2, <2>3 DEF RingInv
<1>8. QED  BY <1>1, <1>7 DEF RingInv

(* What is own stays own when t has what it has not by a copy.             *)
LEMMA OwnStays ==
  ASSUME AlarmInv, OwnInv, NEW t \in Threads,
         slBuffer' = slBuffer, Overtaken => Overtaken',
         \A u \in Threads \ {t} : frames'[u] = frames[u],
         BufferOwn /\ FramesOwn => \A i \in 1 .. Len(frames'[t]) : FrameOwn(frames'[t][i]),
         frames'[t] = <<>> \/ Top(t)'.at # "copy",
         FramesOwn /\ GivenOwn => GivenOwn'
  PROVE  ~ Overtaken' => BufferOwn' /\ FramesOwn' /\ GivenOwn'
PROOF
<1> SUFFICES ASSUME ~ Overtaken' PROVE BufferOwn' /\ FramesOwn' /\ GivenOwn'
  OBVIOUS
<1>1. BufferOwn /\ FramesOwn /\ GivenOwn
  BY DEF OwnInv
<1>2. \A u \in Threads : At(u, {"copy"})' => At(u, {"copy"}) /\ Top(u)' = Top(u)
  BY DEF At, Top
<1>3. BufferOwn'
  BY <1>1, <1>2 DEF BufferOwn
<1>4. FramesOwn'
  <2> SUFFICES ASSUME NEW u \in Threads, NEW i \in 1 .. Len(frames'[u])
               PROVE  FrameOwn(frames'[u][i])
    BY DEF FramesOwn, FrameOwn
  <2>1. CASE u # t  BY <1>1, <2>1 DEF FramesOwn
  <2>2. CASE u = t  BY <1>1, <2>2
  <2>3. QED  BY <2>1, <2>2
<1>5. QED  BY <1>1, <1>3, <1>4

(* What is given of an alarm has the text its frame has.                   *)
LEMMA GiveOwn ==
  ASSUME NEW t, Give(t), GivenOwn, FrameOwn(Top(t)),
         Top(t).at \in {"open", "close", "format"},
         Top(t).kind = "printf" => Top(t).at # "open"
  PROVE  GivenOwn'
PROOF
<1>g. PICK g : g = [alarm |-> Top(t).alarm, kind |-> Top(t).kind,
                    put |-> Top(t).put, as |-> EntryClosed(t)]
  OBVIOUS
<1>1. given' = given \cup {g}
  BY <1>g DEF Give
<1>2. g.kind = "printf" => g.as.text = <<g.alarm>>
  BY <1>g DEF FrameOwn, EntryClosed
<1>3. QED  BY <1>1, <1>2 DEF GivenOwn

(* The frames of t when the innermost one becomes f.                       *)
LEMMA FramesSet ==
  ASSUME AlarmInv, NEW t \in Threads, frames[t] # <<>>, NEW f \in Frame, Set(t, f)
  PROVE  /\ Top(t)' = f /\ frames'[t] # <<>>
         /\ \A u \in Threads \ {t} : frames'[u] = frames[u]
         /\ FramesOwn => FrameOwn(Top(t))
         /\ FramesOwn /\ FrameOwn(f) =>
              \A i \in 1 .. Len(frames'[t]) : FrameOwn(frames'[t][i])
PROOF
<1>n. PICK n : n = Len(frames[t])
  OBVIOUS
<1>1. n \in Nat \ {0} /\ Top(t) = frames[t][n]
  BY <1>n, TopAt DEF AlarmInv
<1>2. /\ Len(frames'[t]) = n /\ frames'[t][n] = f
      /\ \A i \in 1 .. n - 1 : frames'[t][i] = frames[t][i]
      /\ \A u \in Threads \ {t} : frames'[u] = frames[u]
  BY <1>n, SetAt DEF AlarmInv
<1>3. Top(t)' = f /\ frames'[t] # <<>>
  BY <1>2, SetFrame DEF Top, AlarmInv
<1>4. FramesOwn => FrameOwn(Top(t))
  BY <1>1, <1>n DEF FramesOwn
<1>5. ASSUME FramesOwn, FrameOwn(f), NEW i \in 1 .. n PROVE FrameOwn(frames'[t][i])
  <2>1. CASE i = n  BY <1>2, <1>5, <2>1
  <2>2. CASE i \in 1 .. n - 1
    <3>1. i \in 1 .. Len(frames[t])  BY <1>n
    <3>2. QED  BY <1>2, <1>5, <2>2, <3>1 DEF FramesOwn
  <2>3. QED  BY <1>1, <2>1, <2>2
<1>6. QED  BY <1>2, <1>3, <1>4, <1>5

(* t goes on with its innermost alarm outside of the ring.                 *)
LEMMA SetOwn ==
  ASSUME AlarmInv, OwnInv, NEW t \in Threads, frames[t] # <<>>, NEW f \in Frame, Set(t, f),
         UNCHANGED <<ringVars, raised>>,
         f.at \notin RingPlaces,
         BufferOwn /\ FrameOwn(Top(t)) => FrameOwn(f),
         \/ UNCHANGED given
         \/ Give(t) /\ Top(t).at \in {"open", "close", "format"}
            /\ (Top(t).kind = "printf" => Top(t).at # "open")
  PROVE  OwnInv'
PROOF
<1>1. UNCHANGED <<slBufIndex, slBuffer, ringRaced, during>>
  BY DEF ringVars
<1>2. /\ Top(t)' = f /\ frames'[t] # <<>>
      /\ \A u \in Threads \ {t} : frames'[u] = frames[u]
      /\ FramesOwn => FrameOwn(Top(t))
      /\ FramesOwn /\ FrameOwn(f) =>
           \A i \in 1 .. Len(frames'[t]) : FrameOwn(frames'[t][i])
  BY FramesSet
<1>3. ~ ringRaced' => RingInv'
  BY <1>1, <1>2, RingStays
<1>4. FramesOwn /\ GivenOwn => GivenOwn'
  BY <1>2, GiveOwn DEF GivenOwn
<1>5. ~ Overtaken' => BufferOwn' /\ FramesOwn' /\ GivenOwn'
  <2>1. Top(t)'.at # "copy"  BY <1>2 DEF RingPlaces
  <2>2. Overtaken => Overtaken'  BY <1>1 DEF Overtaken
  <2>3. QED  BY <1>1, <1>2, <1>4, <2>1, <2>2, OwnStays
<1>6. QED  BY <1>1, <1>3, <1>5 DEF OwnInv

LEMMA LeaveOwn ==
  ASSUME AlarmInv, OwnInv, NEW t \in Threads, frames[t] # <<>>, Leave(t),
         UNCHANGED <<ringVars, raised>>,
         \/ UNCHANGED given
         \/ Give(t) /\ Top(t).at \in {"open", "close", "format"}
            /\ (Top(t).kind = "printf" => Top(t).at # "open")
  PROVE  OwnInv'
PROOF
<1>1. UNCHANGED <<slBufIndex, slBuffer, ringRaced, during>>
  BY DEF ringVars
<1>n. PICK n : n = Len(frames[t])
  OBVIOUS
<1>2. n \in Nat \ {0} /\ Top(t) = frames[t][n]
  BY <1>n, TopAt DEF AlarmInv
<1>3. /\ Len(frames'[t]) = n - 1
      /\ \A i \in 1 .. n - 1 : frames'[t][i] = frames[t][i]
      /\ \A u \in Threads \ {t} : frames'[u] = frames[u]
      /\ frames'[t] = <<>> \/ Top(t)'.at \in {"open", "format"}
  BY <1>n, LeaveAt, LeaveFrame DEF AlarmInv, Top
<1>4. ~ ringRaced' => RingInv'
  BY <1>1, <1>3, RingStays DEF RingPlaces
<1>5. FramesOwn => FrameOwn(Top(t))
  BY <1>2, <1>n DEF FramesOwn
<1>6. FramesOwn => \A i \in 1 .. Len(frames'[t]) : FrameOwn(frames'[t][i])
  BY <1>2, <1>3, <1>n DEF FramesOwn
<1>7. FramesOwn /\ GivenOwn => GivenOwn'
  BY <1>5, GiveOwn DEF GivenOwn
<1>8. ~ Overtaken' => BufferOwn' /\ FramesOwn' /\ GivenOwn'
  <2>1. Overtaken => Overtaken'  BY <1>1 DEF Overtaken
  <2>2. QED  BY <1>1, <1>3, <1>6, <1>7, <2>1, OwnStays
<1>9. QED  BY <1>1, <1>4, <1>8 DEF OwnInv

(***************************************************************************)
(* The actions.                                                            *)
(***************************************************************************)
LEMMA RaiseOwn ==
  ASSUME AlarmInv, WholeInv, OwnInv, TypeOK, NEW t \in Threads, NEW kind \in Kinds,
         Raise(t, kind)
  PROVE  OwnInv'
PROOF
<1>x. PICK x : x = raised + 1
  OBVIOUS
<1>f. PICK f : f = [alarm |-> x, kind |-> kind, depth |-> Len(open[t]),
                    at |-> IF kind = "printf" THEN "take" ELSE "number",
                    read |-> 0, text |-> x, copy |-> NoAlarm, put |-> 0]
  OBVIOUS
<1>n. PICK n : n = Len(frames[t])
  OBVIOUS
<1>1. /\ raised \in Nat /\ raised' = x /\ x \in Alarms
      /\ frames' = [frames EXCEPT ![t] = Append(@, f)]
      /\ UNCHANGED <<given, slBufIndex, slBuffer, ringRaced, during>>
  BY <1>x, <1>f, AlarmAssumption DEF Raise, AlarmInv, AlarmTypes, Alarms, ringVars
<1>2. /\ f.alarm = x /\ f.kind = kind /\ f.text = x
      /\ f.at = IF kind = "printf" THEN "take" ELSE "number"
  BY <1>f
<1>3. frames[t] \in Seq(Frame) /\ n \in Nat
  BY <1>n DEF AlarmInv, FramesInv
<1>4. /\ Len(frames'[t]) = n + 1 /\ frames'[t][n + 1] = f
      /\ \A i \in 1 .. n : frames'[t][i] = frames[t][i]
      /\ \A u \in Threads \ {t} : frames'[u] = frames[u]
  <2>1. frames'[t] = Append(frames[t], f) /\ \A u \in Threads \ {t} : frames'[u] = frames[u]
    BY <1>1 DEF AlarmInv, FramesInv
  <2>2. QED  BY <1>3, <1>n, <2>1
<1>5. Top(t)' = f
  BY <1>4 DEF Top, Last
<1>6. during[x] = 0 /\ \A a \in Alarms : a > raised' => during'[a] = 0
  BY <1>1, <1>x DEF OwnInv, Alarms
<1>7. ~ ringRaced' => RingInv'
  <2>1. Top(t)'.at \notin RingPlaces \/ (Top(t)'.at = "take" /\ during[Top(t)'.alarm] = 0)
    BY <1>2, <1>5, <1>6 DEF RingPlaces
  <2>2. QED  BY <1>1, <1>4, <2>1, RingStays
<1>8. FramesOwn => \A i \in 1 .. Len(frames'[t]) : FrameOwn(frames'[t][i])
  <2> SUFFICES ASSUME FramesOwn, NEW i \in 1 .. n + 1 PROVE FrameOwn(frames'[t][i])
    BY <1>4
  <2>1. CASE i = n + 1  BY <1>2, <1>4, <2>1 DEF FrameOwn
  <2>2. CASE i \in 1 .. n  BY <1>4, <1>n, <2>2 DEF FramesOwn
  <2>3. QED  BY <1>3, <2>1, <2>2
<1>9. ~ Overtaken' => BufferOwn' /\ FramesOwn' /\ GivenOwn'
  <2>1. Top(t)'.at # "copy"  BY <1>2, <1>5
  <2>2. Overtaken => Overtaken'  BY <1>1 DEF Overtaken
  <2>3. GivenOwn => GivenOwn'  BY <1>1 DEF GivenOwn
  <2>4. QED  BY <1>1, <1>4, <1>8, <2>1, <2>2, <2>3, OwnStays
<1>10. QED  BY <1>1, <1>6, <1>7, <1>9 DEF OwnInv

(* Whoever reads slBufIndex while nobody is about to store it reads the    *)
(* number of the calls before.                                             *)
LEMMA TakeOwn ==
  ASSUME AlarmInv, WholeInv, OwnInv, NEW t \in Threads, Take(t)
  PROVE  OwnInv'
PROOF
<1>f. PICK f : f = [Top(t) EXCEPT !.at = "store", !.read = slBufIndex]
  OBVIOUS
<1>1. /\ frames[t] # <<>> /\ Set(t, f) /\ Top(t).at = "take"
      /\ ringRaced' = (ringRaced \/ Elsewhere(t, "store"))
      /\ UNCHANGED <<raised, given, slBufIndex, slBuffer, during>>
  BY <1>f DEF Take, Raising
<1>2. Top(t) \in Frame /\ "store" \in Places /\ slBufIndex \in Nat
  BY <1>1, TopFrame DEF Places, AlarmInv, AlarmTypes
<1>3. f \in Frame /\ f.at = "store" /\ f.read = slBufIndex /\ f.alarm = Top(t).alarm
  BY <1>2, <1>f, Zenon DEF Frame
<1>4. /\ Top(t)' = f /\ frames'[t] # <<>>
      /\ \A u \in Threads \ {t} : frames'[u] = frames[u]
      /\ FramesOwn /\ FrameOwn(f) =>
           \A i \in 1 .. Len(frames'[t]) : FrameOwn(frames'[t][i])
  BY <1>1, <1>3, FramesSet
<1>5. ringRaced' \in BOOLEAN /\ (ringRaced => ringRaced')
  BY <1>1, Zenon DEF OwnInv
<1>6. ASSUME ~ ringRaced' PROVE RingInv'
  <2>1. RingInv /\ \A u \in Threads \ {t} : ~ At(u, {"store"})
    BY <1>1, <1>5, <1>6 DEF OwnInv, Elsewhere, At
  <2>2. \A u \in Threads \ {t} :
          /\ ~ At(u, {"store"})' /\ Top(u)' = Top(u)
          /\ At(u, {"take", "store"})' => At(u, {"take", "store"})
          /\ At(u, {"fill", "copy"})' => At(u, {"fill", "copy"})
    BY <1>4, <2>1 DEF At, Top
  <2>3. ~ At(t, {"fill", "copy"})'
    BY <1>3, <1>4 DEF At
  <2>4. during'[f.alarm] = 0
    <3>1. At(t, {"take", "store"})  BY <1>1 DEF At
    <3>2. QED  BY <1>1, <1>3, <2>1, <3>1 DEF RingInv
  <2>5. QED  BY <1>1, <1>3, <1>4, <2>1, <2>2, <2>3, <2>4 DEF RingInv
<1>7. ~ Overtaken' => BufferOwn' /\ FramesOwn' /\ GivenOwn'
  <2>1. FrameOwn(f) /\ Top(t)'.at # "copy"  BY <1>3, <1>4 DEF FrameOwn
  <2>2. Overtaken => Overtaken'  BY <1>1, <1>5 DEF Overtaken
  <2>3. GivenOwn => GivenOwn'  BY <1>1 DEF GivenOwn
  <2>4. QED  BY <1>1, <1>4, <2>1, <2>2, <2>3, OwnStays
<1>8. QED  BY <1>1, <1>5, <1>6, <1>7 DEF OwnInv

LEMMA TopsDiffer ==
  ASSUME AlarmInv, WholeInv, NEW u \in Threads, frames[u] # <<>>
  PROVE  /\ Top(u) \in Frame /\ Top(u).alarm \in Alarms /\ Top(u).alarm =< raised
         /\ \A w \in Threads \ {u} : frames[w] # <<>> => Top(w).alarm # Top(u).alarm
PROOF
<1>1. ASSUME NEW w \in Threads, frames[w] # <<>>
      PROVE  Len(frames[w]) \in 1 .. Len(frames[w]) /\ Top(w) = frames[w][Len(frames[w])]
  BY <1>1, TopAt DEF AlarmInv
<1>2. Top(u) \in Frame
  BY TopFrame DEF AlarmInv
<1>3. Top(u).alarm =< raised
  BY <1>1 DEF WholeInv, OrderInv
<1>4. \A w \in Threads \ {u} : frames[w] # <<>> => Top(w).alarm # Top(u).alarm
  BY <1>1, TopAlone DEF WholeInv
<1>5. QED  BY <1>2, <1>3, <1>4 DEF Frame

(* A buffer is taken: whoever uses one sees one more taken since.          *)
LEMMA StoreOwn ==
  ASSUME AlarmInv, WholeInv, OwnInv, NEW t \in Threads, Store(t)
  PROVE  OwnInv'
PROOF
<1>f. PICK f : f = [Top(t) EXCEPT !.at = "fill"]
  OBVIOUS
<1>h. PICK h : h = Top(t)
  OBVIOUS
<1>1. /\ frames[t] # <<>> /\ Set(t, f) /\ h.at = "store"
      /\ slBufIndex' = h.read + 1
      /\ during' = [a \in Alarms |-> IF a \in Using THEN during[a] + 1 ELSE during[a]]
      /\ UNCHANGED <<raised, given, slBuffer, ringRaced>>
  BY <1>f, <1>h DEF Store, Raising
<1>2. h \in Frame /\ "fill" \in Places
  BY <1>1, <1>h, TopFrame DEF Places, AlarmInv
<1>3. f \in Frame /\ f.at = "fill" /\ f.read = h.read /\ f.alarm = h.alarm
  BY <1>2, <1>f, <1>h DEF Frame
<1>4. /\ Top(t)' = f /\ frames'[t] # <<>>
      /\ \A u \in Threads \ {t} : frames'[u] = frames[u]
      /\ FramesOwn /\ FrameOwn(f) =>
           \A i \in 1 .. Len(frames'[t]) : FrameOwn(frames'[t][i])
  BY <1>1, <1>3, FramesSet
<1>5. /\ during' \in [Alarms -> Nat]
      /\ \A a \in Alarms : during'[a] >= during[a]
      /\ \A a \in Alarms : a \in Using => during'[a] = during[a] + 1
      /\ \A a \in Alarms : a \notin Using => during'[a] = during[a]
  <2>1. during \in [Alarms -> Nat]  BY DEF OwnInv
  <2>2. QED  BY <1>1, <2>1
<1>6. \A a : a \in Using <=> \E u \in Threads : At(u, {"fill", "copy"}) /\ Top(u).alarm = a
  BY DEF Using, At
<1>7. \A u \in Threads : At(u, {"fill", "copy"}) => Top(u).alarm \in Using
  BY <1>6
<1>8. \A u \in Threads : At(u, {"take", "store"}) => Top(u).alarm \notin Using
  <2> SUFFICES ASSUME NEW u \in Threads, At(u, {"take", "store"}),
                      NEW w \in Threads, At(w, {"fill", "copy"}), Top(w).alarm = Top(u).alarm
               PROVE  FALSE
    BY <1>6
  <2>1. u # w /\ frames[u] # <<>> /\ frames[w] # <<>>  BY DEF At
  <2>2. QED  BY <2>1, TopsDiffer
<1>9. At(t, {"store"}) /\ At(t, {"take", "store"})
  BY <1>1, <1>h DEF At
<1>10. \A a \in Alarms : a > raised' => during'[a] = 0
  <2> SUFFICES ASSUME NEW a \in Alarms, a > raised PROVE during'[a] = 0
    BY <1>1
  <2>1. a \notin Using
    <3>1. \A u \in Threads : At(u, {"fill", "copy"}) => Top(u).alarm =< raised
      BY TopsDiffer DEF At
    <3>2. raised \in Nat  BY DEF AlarmInv, AlarmTypes
    <3>3. QED  BY <1>6, <3>1, <3>2 DEF Alarms
  <2>2. QED  BY <1>5, <2>1 DEF OwnInv
<1>11. ASSUME ~ ringRaced' PROVE RingInv'
  <2>1. RingInv
    BY <1>1, <1>11 DEF OwnInv
  <2>2. h.read = slBufIndex /\ slBufIndex \in Nat /\ slBufIndex' = slBufIndex + 1
    BY <1>1, <1>9, <1>h, <2>1 DEF RingInv, AlarmInv, AlarmTypes
  <2>3. \A u \in Threads \ {t} :
          /\ ~ At(u, {"store"})' /\ Top(u)' = Top(u)
          /\ At(u, {"take", "store"})' => At(u, {"take", "store"})
          /\ At(u, {"fill", "copy"})' => At(u, {"fill", "copy"})
    BY <1>4, <1>9, <2>1 DEF At, Top, RingInv
  <2>4. ~ At(t, {"take", "store"})' /\ ~ At(t, {"store"})'
    BY <1>3, <1>4 DEF At
  <2>5. during'[h.alarm] = 0 /\ f.read + 1 + during'[f.alarm] = slBufIndex'
    <3>1. h.alarm \in Alarms /\ h.alarm \notin Using  BY <1>2, <1>8, <1>9, <1>h DEF Frame
    <3>2. during[h.alarm] = 0  BY <1>9, <1>h, <2>1 DEF RingInv
    <3>3. during'[h.alarm] = 0  BY <1>5, <3>1, <3>2
    <3>4. QED  BY <1>3, <2>2, <3>3
  <2>6. ASSUME NEW u \in Threads \ {t}, At(u, {"fill", "copy"})'
        PROVE  /\ Top(u)'.read + 1 + during'[Top(u)'.alarm] = slBufIndex'
               /\ Top(u)'.read # f.read
    <3>1. At(u, {"fill", "copy"}) /\ Top(u)' = Top(u)  BY <2>3, <2>6
    <3>2. Top(u).read \in Nat /\ Top(u).alarm \in Alarms
      BY <3>1, TopsDiffer DEF At, Frame
    <3>3. Top(u).read + 1 + during[Top(u).alarm] = slBufIndex
      BY <2>1, <3>1 DEF RingInv
    <3>4. during'[Top(u).alarm] = during[Top(u).alarm] + 1 /\ during[Top(u).alarm] \in Nat
      BY <1>5, <1>7, <3>1, <3>2 DEF OwnInv
    <3>5. QED  BY <1>3, <2>2, <3>1, <3>2, <3>3, <3>4
  <2>7. ASSUME NEW u \in Threads, At(u, {"take", "store"})'
        PROVE  during'[Top(u)'.alarm] = 0
    <3>1. At(u, {"take", "store"}) /\ Top(u)' = Top(u)  BY <2>3, <2>4, <2>7
    <3>2. Top(u).alarm \in Alarms /\ Top(u).alarm \notin Using
      BY <1>8, <3>1, TopsDiffer DEF At
    <3>3. during[Top(u).alarm] = 0  BY <2>1, <3>1 DEF RingInv
    <3>4. QED  BY <1>5, <3>1, <3>2, <3>3
  <2>8. \A u \in Threads : ~ At(u, {"store"})'
    BY <2>3, <2>4
  <2>9. \A u \in Threads : At(u, {"fill", "copy"})' =>
          Top(u)'.read + 1 + during'[Top(u)'.alarm] = slBufIndex'
    BY <1>4, <2>5, <2>6
  <2>10. ASSUME NEW u \in Threads, NEW w \in Threads,
                At(u, {"fill", "copy"})', At(w, {"fill", "copy"})', u # w
         PROVE  Top(u)'.read # Top(w)'.read
    <3>1. CASE u = t \/ w = t
      BY <1>4, <2>6, <2>10, <3>1
    <3>2. CASE u # t /\ w # t
      BY <2>1, <2>3, <2>10, <3>2 DEF RingInv
    <3>3. QED  BY <3>1, <3>2
  <2>11. QED  BY <2>7, <2>8, <2>9, <2>10 DEF RingInv
<1>12. ~ Overtaken' => BufferOwn' /\ FramesOwn' /\ GivenOwn'
  <2>1. FrameOwn(f) /\ Top(t)'.at # "copy"  BY <1>3, <1>4 DEF FrameOwn
  <2>2. Overtaken => Overtaken'
    <3>1. \A a \in Alarms : during[a] \in Nat /\ during'[a] \in Nat  BY <1>5 DEF OwnInv
    <3>2. QED  BY <1>1, <1>5, <3>1, AlarmAssumption DEF Overtaken
  <2>3. GivenOwn => GivenOwn'  BY <1>1 DEF GivenOwn
  <2>4. QED  BY <1>1, <1>4, <2>1, <2>2, <2>3, OwnStays
<1>13. QED  BY <1>1, <1>5, <1>10, <1>11, <1>12 DEF OwnInv

(* A buffer that is filled is nobody else's.                               *)
LEMMA FillOwn ==
  ASSUME AlarmInv, WholeInv, OwnInv, NEW t \in Threads, Fill(t)
  PROVE  OwnInv'
PROOF
<1>f. PICK f : f = [Top(t) EXCEPT !.at = "copy"]
  OBVIOUS
<1>h. PICK h : h = Top(t)
  OBVIOUS
<1>1. /\ frames[t] # <<>> /\ Set(t, f) /\ h.at = "fill"
      /\ slBuffer' = [slBuffer EXCEPT ![Buffer(h.read)] = h.alarm]
      /\ UNCHANGED <<raised, given, slBufIndex, ringRaced, during>>
  BY <1>f, <1>h DEF Fill, Raising
<1>2. h \in Frame /\ "copy" \in Places /\ h.read \in Nat
  <2>1. h \in Frame  BY <1>1, <1>h, TopFrame DEF AlarmInv
  <2>2. QED  BY <2>1 DEF Places, Frame
<1>3. f \in Frame /\ f.at = "copy" /\ f.read = h.read /\ f.alarm = h.alarm
  BY <1>2, <1>f, <1>h DEF Frame
<1>4. /\ Top(t)' = f /\ frames'[t] # <<>>
      /\ \A u \in Threads \ {t} : frames'[u] = frames[u]
      /\ FramesOwn /\ FrameOwn(f) =>
           \A i \in 1 .. Len(frames'[t]) : FrameOwn(frames'[t][i])
  BY <1>1, <1>3, FramesSet
<1>5. At(t, {"fill", "copy"})
  BY <1>1, <1>h DEF At
<1>6. ~ ringRaced' => RingInv'
  BY <1>1, <1>3, <1>4, <1>5, <1>h, RingStays
<1>7. ASSUME ~ Overtaken' PROVE BufferOwn' /\ FramesOwn' /\ GivenOwn'
  <2>1. BufferOwn /\ FramesOwn /\ GivenOwn /\ RingInv
    BY <1>1, <1>7 DEF OwnInv, Overtaken
  <2>2. slBuffer'[Buffer(h.read)] = h.alarm
        /\ \A b : b # Buffer(h.read) => slBuffer'[b] = slBuffer[b]
    <3>1. Buffer(h.read) \in 0 .. RingSize - 1  BY <1>2, BufferExists
    <3>2. QED  BY <1>1, <3>1 DEF AlarmInv, AlarmTypes
  <2>3. ASSUME NEW u \in Threads \ {t}, At(u, {"copy"})
        PROVE  Buffer(Top(u).read) # Buffer(h.read)
    <3>1. At(u, {"fill", "copy"})  BY <2>3 DEF At
    <3>2. Top(u).read \in Nat /\ Top(u).alarm \in Alarms /\ h.alarm \in Alarms
      BY <1>2, <3>1, TopsDiffer DEF At, Frame
    <3>3. /\ Top(u).read + 1 + during[Top(u).alarm] = slBufIndex
          /\ h.read + 1 + during[h.alarm] = slBufIndex
          /\ Top(u).read # h.read
      BY <1>5, <1>h, <2>1, <3>1 DEF RingInv
    <3>4. /\ during[Top(u).alarm] \in Nat /\ during[h.alarm] \in Nat
          /\ ~ (during[Top(u).alarm] >= RingSize) /\ ~ (during[h.alarm] >= RingSize)
      BY <1>1, <1>7, <3>2 DEF OwnInv, Overtaken
    <3>5. RingSize \in Nat  BY AlarmAssumption
    <3>6. CASE Top(u).read < h.read
      <4>1. h.read - Top(u).read < RingSize  BY <1>2, <3>2, <3>3, <3>4, <3>5
      <4>2. QED  BY <1>2, <3>2, <3>6, <4>1, Apart
    <3>7. CASE h.read < Top(u).read
      <4>1. Top(u).read - h.read < RingSize  BY <1>2, <3>2, <3>3, <3>4, <3>5
      <4>2. QED  BY <1>2, <3>2, <3>7, <4>1, Apart
    <3>8. QED  BY <1>2, <3>2, <3>3, <3>6, <3>7
  <2>4. BufferOwn'
    <3> SUFFICES ASSUME NEW u \in Threads, At(u, {"copy"})'
                 PROVE  slBuffer'[Buffer(Top(u)'.read)] = Top(u)'.alarm
      BY DEF BufferOwn, Buffer
    <3>1. CASE u = t
      BY <1>3, <1>4, <2>2, <3>1
    <3>2. CASE u # t
      <4>1. At(u, {"copy"}) /\ Top(u)' = Top(u)  BY <1>4, <3>2 DEF At, Top
      <4>2. QED  BY <2>1, <2>2, <2>3, <3>2, <4>1 DEF BufferOwn
    <3>3. QED  BY <3>1, <3>2
  <2>5. FramesOwn'
    <3> SUFFICES ASSUME NEW u \in Threads, NEW i \in 1 .. Len(frames'[u])
                 PROVE  FrameOwn(frames'[u][i])
      BY DEF FramesOwn, FrameOwn
    <3>1. FrameOwn(f)  BY <1>3 DEF FrameOwn
    <3>2. CASE u # t  BY <1>4, <2>1, <3>2 DEF FramesOwn
    <3>3. CASE u = t  BY <1>4, <2>1, <3>1, <3>3
    <3>4. QED  BY <3>2, <3>3
  <2>6. QED  BY <1>1, <2>1, <2>4, <2>5 DEF GivenOwn
<1>8. QED  BY <1>1, <1>6, <1>7 DEF OwnInv

(* What is copied is what was filled in, unless the ring came round.       *)
LEMMA CopyOwn ==
  ASSUME AlarmInv, WholeInv, OwnInv, NEW t \in Threads, Copy(t)
  PROVE  OwnInv'
PROOF
<1>x. PICK x : x = slBuffer[Buffer(Top(t).read)]
  OBVIOUS
<1>f. PICK f : f = [Top(t) EXCEPT !.at = "number", !.text = x]
  OBVIOUS
<1>h. PICK h : h = Top(t)
  OBVIOUS
<1>1. /\ frames[t] # <<>> /\ Set(t, f) /\ h.at = "copy"
      /\ UNCHANGED <<ringVars, raised, given>>
  BY <1>x, <1>f, <1>h DEF Copy, Raising
<1>2. h \in Frame /\ "number" \in Places /\ x \in Texts
  <2>1. h \in Frame  BY <1>1, <1>h, TopFrame DEF AlarmInv
  <2>2. h.read \in Nat  BY <2>1 DEF Frame
  <2>3. x \in Texts  BY <1>x, <1>h, <2>2, BufferExists DEF AlarmInv, AlarmTypes
  <2>4. QED  BY <2>1, <2>3 DEF Places
<1>3. f \in Frame /\ f.at = "number" /\ f.text = x /\ f.alarm = h.alarm
  BY <1>2, <1>f, <1>h, Zenon DEF Frame
<1>4. BufferOwn => x = h.alarm
  BY <1>1, <1>x, <1>h DEF BufferOwn, At
<1>5. BufferOwn => FrameOwn(f)
  BY <1>3, <1>4 DEF FrameOwn
<1>6. QED
  BY <1>1, <1>3, <1>5, SetOwn DEF RingPlaces

LEMMA NumberOwn ==
  ASSUME AlarmInv, WholeInv, OwnInv, NEW t \in Threads, Number(t)
  PROVE  OwnInv'
PROOF
<1>f. PICK f : f = [Top(t) EXCEPT !.at = "stamp", !.read = sgAlarmId]
  OBVIOUS
<1>h. PICK h : h = Top(t)
  OBVIOUS
<1>1. /\ frames[t] # <<>> /\ Set(t, f) /\ h.at = "number"
      /\ UNCHANGED <<ringVars, raised, given>>
  BY <1>f, <1>h DEF Number, Raising
<1>2. h \in Frame /\ "stamp" \in Places /\ sgAlarmId \in Nat
  BY <1>1, <1>h, TopFrame DEF AlarmInv, AlarmTypes, Places
<1>3. /\ f \in Frame /\ f.at = "stamp" /\ f.text = h.text
      /\ f.alarm = h.alarm /\ f.kind = h.kind
  BY <1>2, <1>f, <1>h, Zenon DEF Frame
<1>4. FrameOwn(h) => FrameOwn(f)
  BY <1>1, <1>3 DEF FrameOwn
<1>5. QED
  BY <1>1, <1>3, <1>4, <1>h, SetOwn DEF RingPlaces

LEMMA StampOwn ==
  ASSUME AlarmInv, WholeInv, OwnInv, NEW t \in Threads, Stamp(t)
  PROVE  OwnInv'
PROOF
<1>h. PICK h : h = Top(t)
  OBVIOUS
<1>c. PICK c : c = [no |-> h.read, of |-> h.alarm, text |-> <<h.text>>]
  OBVIOUS
<1>f. PICK f : f = IF h.kind = "stream" THEN [h EXCEPT !.at = "open"]
                   ELSE [h EXCEPT !.at = "close", !.put = 1, !.copy = c]
  OBVIOUS
<1>1. /\ frames[t] # <<>> /\ Set(t, f) /\ h.at = "stamp"
      /\ UNCHANGED <<ringVars, raised, given>>
  <2>e. PICK e : e = [no |-> Top(t).read, of |-> Top(t).alarm, text |-> <<>>]
    OBVIOUS
  <2>1. c = [e EXCEPT !.text = <<Top(t).text>>]
    BY <1>h, <1>c, <2>e
  <2>2. f = IF Top(t).kind = "stream" THEN [Top(t) EXCEPT !.at = "open"]
            ELSE [Top(t) EXCEPT !.at = "close", !.put = 1,
                                !.copy = [e EXCEPT !.text = <<Top(t).text>>]]
    BY <1>h, <1>f, <2>1
  <2>3. Set(t, f)
    BY <2>e, <2>2, Zenon DEF Stamp
  <2>4. QED  BY <1>h, <2>3 DEF Stamp, Raising
<1>2. h \in Frame /\ "open" \in Places /\ "close" \in Places /\ c \in Numbered
  <2>1. h \in Frame  BY <1>1, <1>h, TopFrame DEF AlarmInv
  <2>2. h.text \in Texts /\ h.alarm \in Texts /\ h.read \in Nat
    BY <2>1 DEF Frame, Alarms, Texts
  <2>3. <<h.text>> \in Seq(Texts)  BY <2>2
  <2>4. c \in Numbered  BY <1>c, <2>2, <2>3 DEF Numbered
  <2>5. QED  BY <2>1, <2>4 DEF Places
<1>3. /\ f \in Frame /\ f.at \in {"open", "close"} /\ f.alarm = h.alarm
      /\ f.kind = h.kind /\ (h.kind # "stream" => f.copy = c)
  <2>1. CASE h.kind = "stream"  BY <1>2, <1>f, <2>1, Zenon DEF Frame
  <2>2. CASE h.kind # "stream"
    <3>1. f = [h EXCEPT !.at = "close", !.put = 1, !.copy = c]  BY <1>f, <2>2
    <3>2. 1 \in Nat  OBVIOUS
    <3>3. QED  BY <1>2, <2>2, <3>1, <3>2, Zenon DEF Frame
  <2>3. QED  BY <2>1, <2>2
<1>4. FrameOwn(h) => FrameOwn(f)
  BY <1>1, <1>3, <1>c DEF FrameOwn
<1>5. QED
  BY <1>1, <1>3, <1>4, <1>h, SetOwn DEF RingPlaces

LEMMA PutPieceOwn ==
  ASSUME AlarmInv, WholeInv, OwnInv, NEW t \in Threads, PutPiece(t)
  PROVE  OwnInv'
PROOF
<1>f. PICK f : f = [Top(t) EXCEPT !.put = @ + 1]
  OBVIOUS
<1>h. PICK h : h = Top(t)
  OBVIOUS
<1>1. /\ frames[t] # <<>> /\ Set(t, f) /\ h.at = "open"
      /\ UNCHANGED <<ringVars, raised, given>>
  BY <1>f, <1>h DEF PutPiece, Raising
<1>2. h \in Frame /\ h.put + 1 \in Nat /\ h.kind = "stream"
  <2>1. h \in Frame  BY <1>1, <1>h, TopFrame DEF AlarmInv
  <2>2. h.kind = "stream"  BY <1>1, <1>h, TopWhole DEF FrameWhole
  <2>3. QED  BY <2>1, <2>2 DEF Frame
<1>3. f \in Frame /\ f.at = "open" /\ f.kind = "stream"
  BY <1>1, <1>2, <1>f, <1>h DEF Frame
<1>4. FrameOwn(f)
  BY <1>3 DEF FrameOwn
<1>5. QED
  BY <1>1, <1>3, <1>4, SetOwn DEF RingPlaces

LEMMA ClosesOwn ==
  ASSUME AlarmInv, WholeInv, OwnInv, NEW t \in Threads, Closes(t)
  PROVE  OwnInv'
PROOF
<1>h. PICK h : h = Top(t)
  OBVIOUS
<1>1. frames[t] # <<>> /\ UNCHANGED <<raised, ringVars>>
  BY DEF Closes, CloseEntry, OpenScreen, ScreenText, ScreenEnd, CloseReturns, Raising
<1>2. h \in Frame /\ h.depth + 1 \in Nat /\ (h.kind = "printf" => h.at # "open")
  <2>1. h \in Frame  BY <1>1, <1>h, TopFrame DEF AlarmInv
  <2>2. h.at = "open" => h.kind = "stream"  BY <1>1, <1>h, TopWhole DEF FrameWhole
  <2>3. QED  BY <2>1, <2>2 DEF Frame
<1>3. CASE CloseEntry(t)
  <2>1. Give(t) /\ h.at \in {"open", "close"}
    BY <1>3, <1>h DEF CloseEntry, Raising
  <2>2. CASE Leave(t)
    BY <1>1, <1>2, <1>h, <2>1, <2>2, LeaveOwn
  <2>3. CASE Set(t, [Top(t) EXCEPT !.at = "format"])
    <3>f. PICK f : f = [h EXCEPT !.at = "format"]
      OBVIOUS
    <3>1. "format" \in Places  BY DEF Places
    <3>2. /\ f \in Frame /\ f.at = "format" /\ f.alarm = h.alarm
          /\ f.kind = h.kind /\ f.copy = h.copy
      BY <1>2, <3>1, <3>f, Zenon DEF Frame
    <3>3. Set(t, f)  BY <1>h, <2>3, <3>f
    <3>4. FrameOwn(h) => FrameOwn(f)
      BY <1>2, <2>1, <3>2 DEF FrameOwn
    <3>5. QED
      BY <1>1, <1>2, <1>h, <2>1, <3>2, <3>3, <3>4, SetOwn DEF RingPlaces
  <2>4. QED  BY <1>3, <2>2, <2>3 DEF CloseEntry
<1>4. CASE OpenScreen(t)
  <2>f. PICK f : f = [h EXCEPT !.at = "print", !.depth = h.depth + 1]
    OBVIOUS
  <2>1. Set(t, f) /\ (Give(t) \/ UNCHANGED given) /\ h.at = "format"
    BY <1>4, <1>h, <2>f DEF OpenScreen, Raising
  <2>2. "print" \in Places  BY DEF Places
  <2>3. f \in Frame /\ f.at = "print"
    BY <1>2, <2>2, <2>f, Zenon DEF Frame
  <2>4. FrameOwn(f)
    BY <2>3 DEF FrameOwn
  <2>5. QED
    BY <1>1, <1>2, <1>h, <2>1, <2>3, <2>4, SetOwn DEF RingPlaces
<1>5. CASE ScreenText(t) \/ ScreenEnd(t)
  <2>1. PICK a \in {"endl", "return"} : Set(t, [Top(t) EXCEPT !.at = a])
    BY <1>5 DEF ScreenText, ScreenEnd
  <2>f. PICK f : f = [h EXCEPT !.at = a]
    OBVIOUS
  <2>2. UNCHANGED given /\ Set(t, f)
    BY <1>5, <1>h, <2>1, <2>f DEF ScreenText, ScreenEnd
  <2>3. a \in Places  BY DEF Places
  <2>4. f \in Frame /\ f.at = a
    BY <1>2, <2>3, <2>f, Zenon DEF Frame
  <2>5. FrameOwn(f)
    BY <2>4 DEF FrameOwn
  <2>6. QED
    BY <1>1, <2>2, <2>4, <2>5, SetOwn DEF RingPlaces
<1>6. CASE CloseReturns(t)
  BY <1>1, <1>6, LeaveOwn DEF CloseReturns
<1>7. QED  BY <1>3, <1>4, <1>5, <1>6 DEF Closes

LEMMA OwnStarts == AlarmInit => OwnInv
PROOF
<1> SUFFICES ASSUME AlarmInit PROVE OwnInv
  OBVIOUS
<1>1. \A t \in Threads : frames[t] = <<>> /\ Len(frames[t]) = 0
  BY EmptySeq DEF AlarmInit
<1>2. RingInv /\ BufferOwn /\ FramesOwn
  BY <1>1 DEF RingInv, BufferOwn, FramesOwn, At
<1>3. QED  BY <1>2 DEF AlarmInit, OwnInv, GivenOwn

LEMMA OwnInductive ==
  OwnInv /\ WholeInv /\ AlarmInv /\ TypeOK /\ [AlarmNext]_<<vars, alarmVars>> => OwnInv'
PROOF
<1> SUFFICES ASSUME OwnInv, WholeInv, AlarmInv, TypeOK, [AlarmNext]_<<vars, alarmVars>>
             PROVE  OwnInv'
  OBVIOUS
<1>1. ASSUME NEW t \in Threads, Alarm(t) PROVE OwnInv'
  BY <1>1, RaiseOwn, TakeOwn, StoreOwn, FillOwn, CopyOwn, NumberOwn, StampOwn,
     PutPieceOwn, ClosesOwn DEF Alarm, Closes
<1>2. CASE UNCHANGED alarmVars
  <2>1. UNCHANGED <<frames, raised, given, slBufIndex, slBuffer, ringRaced, during>>
    BY <1>2 DEF alarmVars, ringVars
  <2>2. RingInv' <=> RingInv
    BY <2>1 DEF RingInv, At, Top
  <2>3. (Overtaken' <=> Overtaken) /\ (GivenOwn' <=> GivenOwn)
    BY <2>1 DEF Overtaken, GivenOwn
  <2>4. BufferOwn' <=> BufferOwn
    BY <2>1 DEF BufferOwn, At, Top, Buffer
  <2>5. FramesOwn' <=> FramesOwn
    BY <2>1 DEF FramesOwn, FrameOwn
  <2>6. QED  BY <2>1, <2>2, <2>3, <2>4, <2>5 DEF OwnInv
<1>3. QED  BY <1>1, <1>2 DEF AlarmNext, Trace

(* aos_alarm() reports the text it was called with as long as one thread   *)
(* at a time takes a buffer and the ring does not come round to a buffer   *)
(* in use (AlarmMgr.cpp:458-470), for any size of the ring and threads.    *)
THEOREM TextsAreOwn == AlarmSpec => []OwnText
PROOF
<1>1. OwnInv => OwnText
  BY DEF OwnInv, GivenOwn, Overtaken, OwnText
<1>2. QED
  BY OwnStarts, OwnInductive, WholeStarts, WholeInductive, AlarmInvStarts,
     AlarmInvInductive, AlarmsKeepTypes, <1>1, PTL DEF AlarmSpec
=============================================================================
