---------------------------- MODULE TraceEntry ----------------------------
(***************************************************************************)
(* OmnTraceEntry (src/src/TraceMgr/TraceEntry.cpp): what a thread traces.  *)
(*                                                                         *)
(* A statement  OmnScreen << piece << ... << endl  gets the one entry its  *)
(* thread has, which begins with a refresh(): whatever an earlier          *)
(* statement left in the buffer is written under that statement's head.    *)
(* endl is a refresh() too.  While a statement is executed an operand of   *)
(* it may trace something itself, and so take the entry away from it.      *)
(*                                                                         *)
(* A statement stands for its head (thread, file, line) and its level; a   *)
(* piece for what one << puts, provided that it is not empty.              *)
(***************************************************************************)
EXTENDS Integers, Sequences, SequencesExt, FiniteSets

CONSTANTS Threads,
          MaxStatements, \* bound: statements executed
          MaxPieces      \* bound: pieces put by one thread

ASSUME BoundsAssumption == MaxStatements \in Nat /\ MaxPieces \in Nat

VARIABLES
  mgr,       \* the singleton: "none" yet, "up", or "gone"
  entry,     \* entry[t]: head and stream of the entry of t
  open,      \* open[t]: the statements t is executing, the innermost last
  log,       \* what the logger was given
  begun      \* statements so far

(* Auxiliary variables, never read by a guard but put's bound.             *)
VARIABLES
  put,       \* put[t]: pieces put by t
  lost,      \* lost[t]: those refreshed without a manager
  around,    \* around[s]: the statements s was begun inside of
  breaks     \* breaks[s]: times s used endl, or its operands the entry

vars == <<mgr, entry, open, log, begun, put, lost, around, breaks>>

Statements == 1 .. MaxStatements

(* The entry of a thread is created by its first statement: until then it  *)
(* has an empty stream, like one that is never used.                       *)
NoEntry == [head |-> 0, stream |-> <<>>]

Init ==
  /\ mgr = "none"
  /\ entry = [t \in Threads |-> NoEntry]
  /\ open = [t \in Threads |-> <<>>]
  /\ log = <<>>
  /\ begun = 0
  /\ put = [t \in Threads |-> 0]
  /\ lost = [t \in Threads |-> {}]
  /\ around = [s \in Statements |-> {}]
  /\ breaks = [s \in Statements |-> 0]

(* stTraceEntry is __thread.                                               *)
MutantEntryOf(t) == CHOOSE u \in Threads : TRUE
EntryOf(t) == t

(***************************************************************************)
(* refresh(): a stream that is not empty is written if there is a manager, *)
(* and emptied in any case.                                                *)
(***************************************************************************)
MutantWorthWriting(stream) == mgr = "up"
WorthWriting(stream) == mgr = "up" /\ stream # <<>>

Written(e) == IF WorthWriting(e.stream) THEN Append(log, e) ELSE log

Numbers(stream) == {stream[i].no : i \in DOMAIN stream}

Refresh(t) ==
  /\ log' = Written(entry[EntryOf(t)])
  /\ lost' = IF mgr = "up" THEN lost
             ELSE [lost EXCEPT ![t] = @ \cup Numbers(entry[EntryOf(t)].stream)]

(* init() begins with refresh(), before the head is a new one.             *)
MutantBefore(t) == UNCHANGED <<log, lost>>
Before(t) == Refresh(t)

(* getEntry(), init() and initEntryHead() of the next statement.           *)
GetEntry(t) ==
  /\ begun < MaxStatements
  /\ begun' = begun + 1
  /\ Before(t)
  /\ entry' = [entry EXCEPT ![EntryOf(t)] = [head |-> begun', stream |-> <<>>]]
  /\ open' = [open EXCEPT ![t] = Append(@, begun')]
  /\ around' = [around EXCEPT ![begun'] = ToSet(open[t])]
  /\ breaks' = [s \in Statements |->
                  IF s \in ToSet(open[t]) THEN breaks[s] + 1 ELSE breaks[s]]
  /\ UNCHANGED <<mgr, put>>

(* operator << of a value.                                                 *)
Put(t) ==
  /\ open[t] # <<>>
  /\ put[t] < MaxPieces
  /\ put' = [put EXCEPT ![t] = @ + 1]
  /\ entry' = [entry EXCEPT ![EntryOf(t)].stream =
                 Append(@, [of |-> Last(open[t]), by |-> t, no |-> put'[t]])]
  /\ UNCHANGED <<mgr, open, log, begun, lost, around, breaks>>

(* operator << of a manipulator.                                           *)
Endl(t) ==
  /\ open[t] # <<>>
  /\ entry[EntryOf(t)].stream # <<>>
  /\ Refresh(t)
  /\ entry' = [entry EXCEPT ![EntryOf(t)].stream = <<>>]
  /\ breaks' = [s \in Statements |->
                  IF s \in ToSet(open[t]) THEN breaks[s] + 1 ELSE breaks[s]]
  /\ UNCHANGED <<mgr, open, begun, put, around>>

(* The statement is over, with or without endl: the stream stays.          *)
Return(t) ==
  /\ open[t] # <<>>
  /\ open' = [open EXCEPT ![t] = Front(@)]
  /\ UNCHANGED <<mgr, entry, log, begun, put, lost, around, breaks>>

(* The singleton is made and, at the end of the program, destroyed.        *)
GetSelf(from, to) ==
  /\ mgr = from
  /\ mgr' = to
  /\ UNCHANGED <<entry, open, log, begun, put, lost, around, breaks>>

MakeMgr    == GetSelf("none", "up")
DestroyMgr == GetSelf("up", "gone")

Next ==
  \/ \E t \in Threads : GetEntry(t) \/ Put(t) \/ Endl(t) \/ Return(t)
  \/ MakeMgr
  \/ DestroyMgr

Spec == Init /\ [][Next]_vars

(***************************************************************************)
(* Properties.                                                             *)
(***************************************************************************)
Piece == [of : Statements, by : Threads, no : 1 .. MaxPieces]

(* Types; and the logger is never given an empty record (TraceEntry.cpp:72).*)
TypeOK ==
  /\ mgr \in {"none", "up", "gone"}
  /\ entry \in [Threads -> [head : 0 .. begun, stream : Seq(Piece)]]
  /\ open \in [Threads -> Seq(1 .. begun)]
  /\ log \in Seq([head : 1 .. begun, stream : Seq(Piece) \ {<<>>}])
  /\ begun \in 0 .. MaxStatements
  /\ put \in [Threads -> 0 .. MaxPieces]
  /\ lost \in [Threads -> SUBSET (1 .. MaxPieces)]
  /\ around \in [Statements -> SUBSET Statements]
  /\ breaks \in [Statements -> Nat]

Records == ToSet(log) \cup {entry[t] : t \in Threads}

(* What a statement traces is written with the head and level of that      *)
(* statement, or of one that an operand of it executed (43, 73): never     *)
(* with those of an earlier, a later or another thread's statement.        *)
RightHead ==
  \A r \in Records : \A i \in DOMAIN r.stream :
    LET s == r.stream[i].of IN s = r.head \/ s \in around[r.head]

(* The pieces of t that are kept: the i-th of record k of the log, or,     *)
(* behind the last of these, of the entry of t.                            *)
StreamAt(t, k) == IF k <= Len(log) THEN log[k].stream ELSE entry[t].stream

Kept(t) ==
  UNION {{<<k, i>> : i \in {i \in DOMAIN StreamAt(t, k) :
                             k > Len(log) \/ StreamAt(t, k)[i].by = t}}
           : k \in 1 .. Len(log) + 1}

NumberAt(t, q) == StreamAt(t, q[1])[q[2]].no
Precedes(q, r) == q[1] < r[1] \/ (q[1] = r[1] /\ q[2] < r[2])

(* Every piece a thread has put is in the log or still in its stream, once *)
(* and in the order it was put, unless it was refreshed while there was no *)
(* manager: text without endl is late, never lost (71-78).                 *)
NothingLost ==
  \A t \in Threads :
    /\ {NumberAt(t, q) : q \in Kept(t)} = (1 .. put[t]) \ lost[t]
    /\ \A q, r \in Kept(t) : Precedes(q, r) => NumberAt(t, q) < NumberAt(t, r)

(* A statement is not torn: however other threads trace meanwhile, what it *)
(* puts is one record, and one more for each endl or trace in its midst.   *)
NotTorn ==
  \A s \in Statements :
    LET Has(r) == \E i \in DOMAIN r.stream : r.stream[i].of = s
    IN  Cardinality({i \in DOMAIN log : Has(log[i])})
          + Cardinality({t \in Threads : Has(entry[t])}) <= 1 + breaks[s]

=============================================================================
