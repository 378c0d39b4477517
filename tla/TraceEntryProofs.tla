-------------------------- MODULE TraceEntryProofs --------------------------
(***************************************************************************)
(* Proofs about TraceEntry, for any threads, statements and pieces.        *)
(***************************************************************************)
EXTENDS TraceEntry, SequenceTheorems, FiniteSetTheorems, TLAPS

(***************************************************************************)
(* A statement that is being executed is the one the entry was taken for   *)
(* last, or one that this one was begun inside of.                         *)
(***************************************************************************)
Headed ==
  \A t \in Threads :
    open[t] # <<>> \/ entry[t].stream # <<>> => entry[t].head \in 1 .. begun

Belongs(s, head) == s = head \/ s \in around[head]

OpenInv ==
  \A t \in Threads : \A i \in 1 .. Len(open[t]) : Belongs(open[t][i], entry[t].head)

RightlyHeaded(r) ==
  \A i \in 1 .. Len(r.stream) : Belongs(r.stream[i].of, r.head)

RightInv ==
  /\ \A k \in 1 .. Len(log) : RightlyHeaded(log[k])
  /\ \A t \in Threads : RightlyHeaded(entry[t])

Entry(n)  == [head : 0 .. n, stream : Seq(Piece)]
Record(n) == [head : 1 .. n, stream : Seq(Piece) \ {<<>>}]

Inv == TypeOK /\ Headed /\ OpenInv /\ RightInv

(***************************************************************************)
(* refresh().                                                              *)
(***************************************************************************)
LEMMA WrittenRecords ==
  ASSUME TypeOK, Headed, RightInv, NEW t \in Threads
  PROVE  /\ Written(entry[t]) \in Seq(Record(begun))
         /\ \A k \in 1 .. Len(Written(entry[t])) : RightlyHeaded(Written(entry[t])[k])
PROOF
<1>1. log \in Seq(Record(begun)) /\ entry[t] \in Entry(begun)
  BY DEF TypeOK, Record, Entry
<1>2. CASE WorthWriting(entry[t].stream)
  <2>1. entry[t] \in Record(begun)
    BY <1>1, <1>2 DEF Headed, Record, Entry, WorthWriting
  <2>2. Written(entry[t]) = Append(log, entry[t])
    BY <1>2 DEF Written
  <2>3. RightlyHeaded(entry[t]) /\ \A k \in 1 .. Len(log) : RightlyHeaded(log[k])
    BY DEF RightInv
  <2>4. \A k \in 1 .. Len(log) + 1 :
          Append(log, entry[t])[k] = IF k <= Len(log) THEN log[k] ELSE entry[t]
    BY <1>1, <2>1
  <2>5. Append(log, entry[t]) \in Seq(Record(begun))
          /\ Len(Append(log, entry[t])) = Len(log) + 1
    BY <1>1, <2>1
  <2>6. ASSUME NEW k \in 1 .. Len(log) + 1
        PROVE  RightlyHeaded(Append(log, entry[t])[k])
    BY <1>1, <2>3, <2>4
  <2>7. QED  BY <2>2, <2>5, <2>6
<1>3. CASE ~WorthWriting(entry[t].stream)
  BY <1>1, <1>3 DEF Written, RightInv
<1>4. QED  BY <1>2, <1>3

LEMMA LostTypes ==
  ASSUME TypeOK, NEW t \in Threads, Refresh(t)
  PROVE  lost' \in [Threads -> SUBSET (1 .. MaxPieces)]
PROOF
<1>1. entry[t].stream \in Seq(Piece)
  BY DEF TypeOK
<1>2. \A i \in DOMAIN entry[t].stream : entry[t].stream[i] \in Piece
  BY <1>1
<1>3. Numbers(entry[t].stream) \subseteq 1 .. MaxPieces
  <2>1. \A e \in Piece : e.no \in 1 .. MaxPieces
    BY DEF Piece
  <2>2. QED  BY <1>2, <2>1 DEF Numbers
<1>4. QED  BY <1>3 DEF Refresh, TypeOK, EntryOf

(***************************************************************************)
(* Each action keeps the invariant.                                        *)
(***************************************************************************)
LEMMA GetEntryStep ==
  ASSUME Inv, NEW t \in Threads, GetEntry(t)
  PROVE  Inv'
PROOF
<1> DEFINE n == begun + 1
<1> USE BoundsAssumption DEF Inv
<1>1. /\ n \in Statements /\ begun' = n /\ begun \in Nat /\ n \in 1 .. n
      /\ 1 .. begun \subseteq 1 .. n /\ 0 .. begun \subseteq 0 .. n
      /\ n \notin 0 .. begun
  BY DEF GetEntry, TypeOK, Statements
<1>2. /\ log' = Written(entry[t]) /\ Refresh(t)
      /\ entry' = [entry EXCEPT ![t] = [head |-> n, stream |-> <<>>]]
      /\ open' = [open EXCEPT ![t] = Append(@, n)]
      /\ around' = [around EXCEPT ![n] = ToSet(open[t])]
      /\ UNCHANGED <<mgr, put>>
  BY <1>1 DEF GetEntry, Before, Refresh, EntryOf
<1>3. /\ log' \in Seq(Record(begun))
      /\ \A k \in 1 .. Len(log') : RightlyHeaded(log'[k])
  BY <1>2, WrittenRecords
<1>4. open[t] \in Seq(1 .. begun) /\ ToSet(open[t]) \subseteq 1 .. begun
  BY DEF TypeOK, ToSet
<1>5. \A head \in 1 .. begun : around'[head] = around[head]
  BY <1>1, <1>2 DEF TypeOK, Statements
<1>6. around'[n] = ToSet(open[t])
  BY <1>1, <1>2 DEF TypeOK
<1>7. TypeOK'
  <2>1. log' \in Seq(Record(n))
    BY <1>1, <1>3, SeqMonotonic DEF Record
  <2>2. entry' \in [Threads -> Entry(n)]
    BY <1>1, <1>2, EmptySeq DEF TypeOK, Entry
  <2>3. open' \in [Threads -> Seq(1 .. n)]
    <3>1. \A u \in Threads : open[u] \in Seq(1 .. n)
      BY <1>1, SeqMonotonic DEF TypeOK
    <3>2. Append(open[t], n) \in Seq(1 .. n)
      BY <1>1, <3>1
    <3>3. QED  BY <1>2, <3>1, <3>2 DEF TypeOK
  <2>4. around' \in [Statements -> SUBSET Statements]
    <3>1. ToSet(open[t]) \subseteq Statements
      BY <1>1, <1>4 DEF Statements
    <3>2. QED  BY <1>2, <3>1 DEF TypeOK
  <2>5. breaks' \in [Statements -> Nat]
    BY DEF GetEntry, TypeOK
  <2>6. lost' \in [Threads -> SUBSET (1 .. MaxPieces)]
    BY <1>2, LostTypes
  <2>7. /\ mgr' \in {"none", "up", "gone"}
        /\ begun' \in 0 .. MaxStatements
        /\ put' \in [Threads -> 0 .. MaxPieces]
    BY <1>1, <1>2 DEF TypeOK, Statements
  <2>8. /\ log' \in Seq(Record(begun')) /\ entry' \in [Threads -> Entry(begun')]
        /\ open' \in [Threads -> Seq(1 .. begun')]
    BY <1>1, <2>1, <2>2, <2>3
  <2>9. QED
    BY <2>4, <2>5, <2>6, <2>7, <2>8, Zenon DEF TypeOK, Record, Entry
<1>8. Headed'
  <2>1. ASSUME NEW u \in Threads, open'[u] # <<>> \/ entry'[u].stream # <<>>
        PROVE  entry'[u].head \in 1 .. n
    BY <1>1, <1>2, <2>1 DEF Headed, TypeOK
  <2>2. QED  BY <1>1, <2>1 DEF Headed
<1>9. OpenInv'
  <2>1. ASSUME NEW u \in Threads, NEW i \in 1 .. Len(open'[u])
        PROVE  open'[u][i] = entry'[u].head \/ open'[u][i] \in around'[entry'[u].head]
    <3>1. CASE u = t
      <4>1. open'[t] = Append(open[t], n) /\ entry'[t].head = n
        BY <1>2 DEF TypeOK
      <4>2. CASE i = Len(open[t]) + 1
        BY <1>4, <3>1, <4>1, <4>2
      <4>3. CASE i \in 1 .. Len(open[t])
        <5>1. open'[u][i] = open[t][i]  BY <1>4, <3>1, <4>1, <4>3
        <5>2. open[t][i] \in ToSet(open[t])  BY <1>4, <4>3 DEF ToSet
        <5>3. QED  BY <1>6, <3>1, <4>1, <5>1, <5>2
      <4>4. QED  BY <1>4, <2>1, <3>1, <4>1, <4>2, <4>3
    <3>2. CASE u # t
      <4>1. open'[u] = open[u] /\ entry'[u] = entry[u]
        BY <1>2, <3>2 DEF TypeOK
      <4>2. i \in 1 .. Len(open[u])  BY <2>1, <4>1
      <4>3. open[u] # <<>>  BY <4>2
      <4>4. entry[u].head \in 1 .. begun  BY <4>3 DEF Headed
      <4>5. Belongs(open[u][i], entry[u].head)  BY <4>2 DEF OpenInv
      <4>6. QED  BY <1>5, <4>1, <4>4, <4>5 DEF Belongs
    <3>3. QED  BY <3>1, <3>2
  <2>2. QED  BY <2>1 DEF OpenInv, Belongs
<1>10. RightInv'
  <2>1. ASSUME NEW r, r.head \in 1 .. begun, RightlyHeaded(r)
        PROVE  RightlyHeaded(r)'
    BY <1>5, <2>1 DEF RightlyHeaded, Belongs
  <2>2. ASSUME NEW k \in 1 .. Len(log') PROVE RightlyHeaded(log[k])'
    <3>1. log'[k] \in Record(begun)  BY <1>3
    <3>2. \A i \in 1 .. Len(log'[k].stream) :
            Belongs(log'[k].stream[i].of, log'[k].head)
      BY <1>3 DEF RightlyHeaded
    <3>3. QED  BY <1>5, <3>1, <3>2 DEF RightlyHeaded, Belongs, Record
  <2>3. ASSUME NEW u \in Threads PROVE RightlyHeaded(entry[u])'
    <3>1. CASE u = t
      <4>1. entry'[u].stream = <<>>  BY <1>2, <3>1 DEF TypeOK
      <4>2. QED  BY <4>1 DEF RightlyHeaded
    <3>2. CASE u # t
      <4>1. entry'[u] = entry[u]  BY <1>2, <3>2 DEF TypeOK
      <4>2. CASE entry[u].stream = <<>>
        BY <4>1, <4>2 DEF RightlyHeaded
      <4>3. CASE entry[u].stream # <<>>
        <5>1. entry[u].head \in 1 .. begun  BY <4>3 DEF Headed
        <5>2. RightlyHeaded(entry[u])  BY DEF RightInv
        <5>3. QED  BY <1>5, <4>1, <5>1, <5>2 DEF RightlyHeaded, Belongs
      <4>4. QED  BY <4>2, <4>3
    <3>3. QED  BY <3>1, <3>2
  <2>4. QED  BY <2>2, <2>3 DEF RightInv
<1>11. QED  BY <1>7, <1>8, <1>9, <1>10

LEMMA PutStep ==
  ASSUME Inv, NEW t \in Threads, Put(t)
  PROVE  Inv'
PROOF
<1> DEFINE piece  == [of |-> Last(open[t]), by |-> t, no |-> put[t] + 1]
           stream == entry[t].stream
           longer == Append(stream, piece)
<1> USE BoundsAssumption DEF Inv
<1>1. /\ open[t] # <<>> /\ put[t] < MaxPieces
      /\ put' = [put EXCEPT ![t] = @ + 1]
      /\ entry' = [entry EXCEPT ![t].stream = longer]
      /\ UNCHANGED <<mgr, open, log, begun, lost, around, breaks>>
  BY DEF Put, EntryOf, TypeOK
<1>2. /\ Len(open[t]) \in 1 .. Len(open[t])
      /\ Last(open[t]) = open[t][Len(open[t])]
      /\ Last(open[t]) \in 1 .. begun
  BY <1>1, EmptySeq DEF TypeOK, Last
<1>3. Belongs(Last(open[t]), entry[t].head)
  BY <1>2 DEF OpenInv
<1>4. piece \in Piece
  BY <1>1, <1>2 DEF Piece, TypeOK, Statements
<1>5. /\ stream \in Seq(Piece) /\ longer \in Seq(Piece)
      /\ Len(longer) = Len(stream) + 1
      /\ \A i \in 1 .. Len(stream) : longer[i] = stream[i]
      /\ longer[Len(stream) + 1] = piece
  BY <1>4 DEF TypeOK
<1>6. /\ \A u \in Threads \ {t} : entry'[u] = entry[u]
      /\ entry'[t].head = entry[t].head /\ entry'[t].stream = longer
  BY <1>1 DEF TypeOK
<1>7. TypeOK'
  <2>1. entry' \in [Threads -> Entry(begun)]
    <3>1. entry \in [Threads -> Entry(begun)]  BY DEF TypeOK, Entry
    <3>2. QED  BY <1>1, <1>5, <3>1 DEF Entry
  <2>2. put' \in [Threads -> 0 .. MaxPieces]
    BY <1>1 DEF TypeOK
  <2>3. QED  BY <1>1, <2>1, <2>2 DEF TypeOK, Entry
<1>8. Headed'
  <2>1. entry[t].head \in 1 .. begun  BY <1>1 DEF Headed
  <2>2. QED  BY <1>1, <1>6, <2>1 DEF Headed
<1>9. OpenInv'
  BY <1>1, <1>6 DEF OpenInv, Belongs
<1>10. RightlyHeaded(entry[t])'
  <2>1. RightlyHeaded(entry[t])  BY DEF RightInv
  <2>2. ASSUME NEW i \in 1 .. Len(longer)
        PROVE  Belongs(longer[i].of, entry[t].head)
    <3>1. CASE i = Len(stream) + 1
      <4>1. longer[i].of = Last(open[t])  BY <1>5, <3>1
      <4>2. QED  BY <1>3, <4>1
    <3>2. CASE i \in 1 .. Len(stream)
      BY <1>5, <2>1, <3>2 DEF RightlyHeaded
    <3>3. QED  BY <1>5, <2>2, <3>1, <3>2
  <2>3. QED  BY <1>1, <1>6, <2>2 DEF RightlyHeaded, Belongs
<1>11. RightInv'
  <2>1. \A k \in 1 .. Len(log) : RightlyHeaded(log[k])'
    BY <1>1 DEF RightInv, RightlyHeaded, Belongs
  <2>2. \A u \in Threads \ {t} : RightlyHeaded(entry[u])'
    BY <1>1, <1>6 DEF RightInv, RightlyHeaded, Belongs
  <2>3. QED  BY <1>1, <1>10, <2>1, <2>2 DEF RightInv
<1>12. QED  BY <1>7, <1>8, <1>9, <1>11

LEMMA EndlStep ==
  ASSUME Inv, NEW t \in Threads, Endl(t)
  PROVE  Inv'
PROOF
<1> USE BoundsAssumption DEF Inv
<1>1. /\ log' = Written(entry[t]) /\ Refresh(t)
      /\ entry' = [entry EXCEPT ![t].stream = <<>>]
      /\ UNCHANGED <<mgr, open, begun, put, around>>
  BY DEF Endl, Refresh, EntryOf
<1>2. /\ log' \in Seq(Record(begun))
      /\ \A k \in 1 .. Len(log') : RightlyHeaded(log'[k])
  BY <1>1, WrittenRecords
<1>3. /\ \A u \in Threads \ {t} : entry'[u] = entry[u]
      /\ entry'[t].head = entry[t].head /\ entry'[t].stream = <<>>
  BY <1>1 DEF TypeOK
<1>4. TypeOK'
  <2>1. entry' \in [Threads -> Entry(begun)]
    <3>1. entry \in [Threads -> Entry(begun)]  BY DEF TypeOK, Entry
    <3>2. QED  BY <1>1, <3>1, EmptySeq DEF Entry
  <2>2. breaks' \in [Statements -> Nat]  BY DEF Endl, TypeOK
  <2>3. lost' \in [Threads -> SUBSET (1 .. MaxPieces)]  BY <1>1, LostTypes
  <2>4. QED  BY <1>1, <1>2, <2>1, <2>2, <2>3 DEF TypeOK, Entry, Record
<1>5. Headed'  BY <1>1, <1>3 DEF Headed
<1>6. OpenInv'  BY <1>1, <1>3 DEF OpenInv, Belongs
<1>7. RightInv'
  <2>1. \A k \in 1 .. Len(log') : RightlyHeaded(log[k])'
    BY <1>1, <1>2 DEF RightlyHeaded, Belongs
  <2>2. RightlyHeaded(entry[t])'  BY <1>3 DEF RightlyHeaded
  <2>3. \A u \in Threads \ {t} : RightlyHeaded(entry[u])'
    BY <1>1, <1>3 DEF RightInv, RightlyHeaded, Belongs
  <2>4. QED  BY <2>1, <2>2, <2>3 DEF RightInv
<1>8. QED  BY <1>4, <1>5, <1>6, <1>7

LEMMA ReturnStep ==
  ASSUME Inv, NEW t \in Threads, Return(t)
  PROVE  Inv'
PROOF
<1> DEFINE rest == Front(open[t])
<1> USE DEF Inv
<1>1. /\ open[t] # <<>>
      /\ open' = [open EXCEPT ![t] = rest]
      /\ UNCHANGED <<mgr, entry, log, begun, put, lost, around, breaks>>
  BY DEF Return
<1>2. open[t] \in Seq(1 .. begun) /\ Len(open[t]) \in Nat \ {0}
  BY <1>1, EmptySeq DEF TypeOK
<1>3. /\ rest \in Seq(1 .. begun)
      /\ Len(rest) = Len(open[t]) - 1
      /\ \A i \in 1 .. Len(rest) : rest[i] = open[t][i]
  <2> DEFINE n == Len(open[t]) - 1
  <2>1. n \in Nat /\ \A i \in 1 .. n : open[t][i] \in 1 .. begun
    <3>1. n \in Nat  BY <1>2
    <3>2. \A i \in 1 .. Len(open[t]) : open[t][i] \in 1 .. begun
      BY <1>2, ElementOfSeq
    <3>3. 1 .. n \subseteq 1 .. Len(open[t])  BY <1>2
    <3>4. QED
      <4> HIDE DEF n
      <4>1. QED  BY <3>1, <3>2, <3>3
  <2>2. rest = SubSeq(open[t], 1, n)  BY DEF Front
  <2>3. /\ SubSeq(open[t], 1, n) \in Seq(1 .. begun)
        /\ Len(SubSeq(open[t], 1, n)) = IF 1 <= n THEN n - 1 + 1 ELSE 0
        /\ \A i \in 1 .. n - 1 + 1 : SubSeq(open[t], 1, n)[i] = open[t][1 + i - 1]
    <3> HIDE DEF n
    <3>1. n \in Int /\ 1 \in Int  BY <2>1
    <3>2. QED  BY <2>1, <3>1, SubSeqProperties
  <2>4. Len(rest) = n
    <3> HIDE DEF n, rest
    <3>1. QED  BY <2>1, <2>2, <2>3
  <2>5. \A i \in 1 .. n : rest[i] = open[t][i]
    <3> HIDE DEF n, rest
    <3>1. QED  BY <2>1, <2>2, <2>3
  <2>6. QED  BY <2>2, <2>3, <2>4, <2>5
<1>4. TypeOK'  BY <1>1, <1>3 DEF TypeOK
<1>5. Headed'  BY <1>1 DEF Headed, TypeOK
<1>6. OpenInv'
  <2>1. ASSUME NEW i \in 1 .. Len(rest) PROVE Belongs(rest[i], entry[t].head)
    BY <1>2, <1>3 DEF OpenInv
  <2>2. \A u \in Threads \ {t} : open'[u] = open[u]  BY <1>1 DEF TypeOK
  <2>3. open'[t] = rest  BY <1>1 DEF TypeOK
  <2>4. QED  BY <1>1, <2>1, <2>2, <2>3 DEF OpenInv, Belongs
<1>7. RightInv'  BY <1>1 DEF RightInv, RightlyHeaded, Belongs
<1>8. QED  BY <1>4, <1>5, <1>6, <1>7

LEMMA InvInductive == (Init => Inv) /\ (Inv /\ [Next]_vars => Inv')
PROOF
<1>1. ASSUME Init PROVE Inv
  <2>1. TypeOK
    BY <1>1, BoundsAssumption, EmptySeq DEF Init, TypeOK, NoEntry
  <2>2. \A t \in Threads : entry[t].stream = <<>> /\ open[t] = <<>>
    BY <1>1 DEF Init, NoEntry
  <2>3. QED
    BY <1>1, <2>1, <2>2
    DEF Init, Inv, Headed, OpenInv, RightInv, RightlyHeaded
<1>2. ASSUME Inv, [Next]_vars PROVE Inv'
  <2>1. CASE UNCHANGED <<entry, open, log, begun, put, lost, around, breaks>>
          /\ mgr' \in {"none", "up", "gone"}
    BY <1>2, <2>1 DEF Inv, TypeOK, Headed, OpenInv, RightInv, RightlyHeaded, Belongs
  <2>2. CASE UNCHANGED vars
    BY <1>2, <2>1, <2>2 DEF vars, Inv, TypeOK
  <2>3. CASE MakeMgr \/ DestroyMgr
    BY <2>1, <2>3 DEF MakeMgr, DestroyMgr, GetSelf
  <2>4. QED
    BY <1>2, <2>2, <2>3, GetEntryStep, PutStep, EndlStep, ReturnStep DEF Next
<1>3. QED  BY <1>1, <1>2

(* Every variable keeps its type, and the logger is never given an empty   *)
(* record (TraceEntry.cpp:72), for any number of threads and statements.   *)
THEOREM TypeCorrect == Spec => []TypeOK
PROOF
<1>1. Inv => TypeOK  BY DEF Inv
<1>2. QED  BY InvInductive, <1>1, PTL DEF Spec

(* What a statement traces is written with its own head or that of one its *)
(* operands executed, however late it is written and whatever the other    *)
(* threads trace meanwhile (TraceEntry.cpp:43, 73).                        *)
THEOREM HeadsAreRight == Spec => []RightHead
PROOF
<1>1. ASSUME Inv PROVE RightHead
  <2>1. ASSUME NEW r, r \in Records PROVE RightlyHeaded(r)
    <3>1. CASE r \in ToSet(log)
      <4>1. PICK k \in 1 .. Len(log) : r = log[k]
        BY <1>1, <3>1 DEF Inv, TypeOK, ToSet
      <4>2. QED  BY <1>1, <4>1 DEF Inv, RightInv
    <3>2. CASE \E t \in Threads : r = entry[t]
      BY <1>1, <3>2 DEF Inv, RightInv
    <3>3. QED  BY <2>1, <3>1, <3>2 DEF Records
  <2>2. \A r \in Records : DOMAIN r.stream = 1 .. Len(r.stream)
    <3>1. \A s \in Seq(Piece) : DOMAIN s = 1 .. Len(s)  OBVIOUS
    <3>2. \A r \in Records : r.stream \in Seq(Piece)
      <4>1. log \in Seq(Record(begun)) /\ entry \in [Threads -> Entry(begun)]
        BY <1>1 DEF Inv, TypeOK, Record, Entry
      <4>2. \A r \in ToSet(log) : r \in Record(begun)  BY <4>1 DEF ToSet
      <4>3. QED  BY <4>1, <4>2 DEF Records, Record, Entry
    <3>3. QED  BY <3>1, <3>2
  <2>3. QED  BY <2>1, <2>2 DEF RightHead, RightlyHeaded, Belongs
<1>2. QED  BY InvInductive, <1>1, PTL DEF Spec

(***************************************************************************)
(* What a statement puts is in the records it was broken into, and in one  *)
(* entry at the end.  While it goes on, or has something in an entry, one  *)
(* more record is allowed than there are.                                  *)
(***************************************************************************)
Holds(r, s)     == \E i \in 1 .. Len(r.stream) : r.stream[i].of = s
RecordsOf(l, s) == {k \in 1 .. Len(l) : Holds(l[k], s)}
OpenIn(t, s)    == \E i \in 1 .. Len(open[t]) : open[t][i] = s

TornInv ==
  /\ \A s \in Statements, t, u \in Threads : OpenIn(t, s) /\ OpenIn(u, s) => t = u
  /\ \A s \in Statements, t, u \in Threads :
       Holds(entry[t], s) /\ (Holds(entry[u], s) \/ OpenIn(u, s)) => t = u
  /\ \A s \in Statements : s > begun =>
       RecordsOf(log, s) = {} /\ \A t \in Threads : ~ Holds(entry[t], s)
  /\ \A s \in Statements : Cardinality(RecordsOf(log, s)) <= breaks[s] + 1
  /\ \A s \in Statements, t \in Threads : Holds(entry[t], s) \/ OpenIn(t, s) =>
       Cardinality(RecordsOf(log, s)) <= breaks[s]

LEMMA RecordsCount ==
  ASSUME TypeOK, NEW s
  PROVE  IsFiniteSet(RecordsOf(log, s)) /\ Cardinality(RecordsOf(log, s)) \in Nat
PROOF
<1>1. IsFiniteSet(1 .. Len(log))
  <2>1. Len(log) \in Int  BY DEF TypeOK
  <2>2. QED  BY <2>1, FS_Interval
<1>2. RecordsOf(log, s) \in SUBSET (1 .. Len(log))
  BY DEF RecordsOf
<1>3. QED  BY <1>1, <1>2, FS_Subset, FS_CardinalityType

(* A refresh writes one record at most, and it is what the entry held.     *)
LEMMA RefreshCounts ==
  ASSUME TypeOK, NEW t \in Threads, Refresh(t), NEW s
  PROVE  /\ Cardinality(RecordsOf(log', s)) \in Nat
         /\ Cardinality(RecordsOf(log', s)) <= Cardinality(RecordsOf(log, s)) + 1
         /\ ~ Holds(entry[t], s) => RecordsOf(log', s) = RecordsOf(log, s)
PROOF
<1>e. PICK e : e = entry[t]
  OBVIOUS
<1>n. PICK n : n = Len(log)
  OBVIOUS
<1>k. PICK K : K = RecordsOf(log, s)
  OBVIOUS
<1>1. log' = log \/ log' = Append(log, e)
  BY <1>e DEF Refresh, Written, EntryOf
<1>2. IsFiniteSet(K) /\ Cardinality(K) \in Nat
  BY <1>k, RecordsCount
<1>3. CASE log' = log
  BY <1>2, <1>3, <1>k
<1>4. CASE log' = Append(log, e)
  <2>1. /\ n \in Nat /\ Len(log') = n + 1 /\ log'[n + 1] = e
        /\ \A k \in 1 .. n : log'[k] = log[k]
    BY <1>n, <1>4 DEF TypeOK
  <2>2. CASE Holds(e, s)
    <3>1. RecordsOf(log', s) = K \cup {n + 1}
      BY <1>k, <1>n, <2>1, <2>2 DEF RecordsOf
    <3>2. Cardinality(K \cup {n + 1}) \in {Cardinality(K), Cardinality(K) + 1}
      BY <1>2, FS_AddElement
    <3>3. QED
      BY <1>2, <1>e, <1>k, <2>2, <3>1, <3>2
  <2>3. CASE ~ Holds(e, s)
    <3>1. RecordsOf(log', s) = K
      BY <1>k, <1>n, <2>1, <2>3 DEF RecordsOf
    <3>2. QED  BY <1>2, <1>k, <3>1
  <2>4. QED  BY <2>2, <2>3
<1>5. QED  BY <1>1, <1>3, <1>4

(* getEntry() and endl: what t goes on with counts one more break.         *)
LEMMA RefreshTorn ==
  ASSUME TypeOK, TornInv, NEW t \in Threads, Refresh(t),
         entry'[t].stream = <<>>,
         \A u \in Threads \ {t} : entry'[u] = entry[u] /\ open'[u] = open[u],
         begun' \in Nat, begun <= begun',
         \A s \in Statements : OpenIn(t, s)' => OpenIn(t, s) \/ s > begun,
         \A s \in Statements : OpenIn(t, s)' => s <= begun',
         \A s \in Statements : breaks'[s] = IF OpenIn(t, s) THEN breaks[s] + 1 ELSE breaks[s]
  PROVE  TornInv'
PROOF
<1>1. \A s : ~ Holds(entry[t], s)'
  BY EmptySeq DEF Holds
<1>2. \A u \in Threads \ {t} : \A s : /\ Holds(entry[u], s)' <=> Holds(entry[u], s)
                                      /\ OpenIn(u, s)' <=> OpenIn(u, s)
  BY DEF Holds, OpenIn
<1>3. \A u \in Threads, s \in Statements : OpenIn(u, s) => s <= begun
  BY DEF OpenIn, TypeOK
<1>4. ASSUME NEW s \in Statements
      PROVE  /\ Cardinality(RecordsOf(log, s)) \in Nat /\ breaks[s] \in Nat
             /\ Cardinality(RecordsOf(log', s)) \in Nat
             /\ Cardinality(RecordsOf(log', s)) <= Cardinality(RecordsOf(log, s)) + 1
             /\ ~ Holds(entry[t], s) => RecordsOf(log', s) = RecordsOf(log, s)
  BY RecordsCount, RefreshCounts DEF TypeOK
<1>5. begun \in Nat /\ \A s \in Statements : s \in Nat
  BY BoundsAssumption DEF TypeOK, Statements
<1>6. ASSUME NEW s \in Statements, NEW u \in Threads, NEW w \in Threads,
             OpenIn(u, s)', OpenIn(w, s)'
      PROVE  u = w
  BY <1>2, <1>3, <1>5, <1>6 DEF TornInv
<1>7. ASSUME NEW s \in Statements, NEW u \in Threads, NEW w \in Threads,
             Holds(entry[u], s)', Holds(entry[w], s)' \/ OpenIn(w, s)'
      PROVE  u = w
  BY <1>1, <1>2, <1>3, <1>5, <1>7 DEF TornInv
<1>8. ASSUME NEW s \in Statements, s > begun'
      PROVE  RecordsOf(log', s) = {} /\ \A u \in Threads : ~ Holds(entry[u], s)'
  BY <1>1, <1>2, <1>4, <1>5, <1>8 DEF TornInv
<1>9. ASSUME NEW s \in Statements
      PROVE  Cardinality(RecordsOf(log', s)) <= breaks'[s] + 1
  <2>1. CASE Holds(entry[t], s)
    BY <1>4, <2>1 DEF TornInv
  <2>2. CASE ~ Holds(entry[t], s)
    BY <1>4, <2>2 DEF TornInv
  <2>3. QED  BY <2>1, <2>2
<1>10. ASSUME NEW s \in Statements, NEW u \in Threads, Holds(entry[u], s)' \/ OpenIn(u, s)'
       PROVE  Cardinality(RecordsOf(log', s)) <= breaks'[s]
  <2>1. CASE u = t /\ OpenIn(t, s)
    BY <1>4, <2>1 DEF TornInv
  <2>2. CASE u = t /\ ~ OpenIn(t, s)
    <3>1. s > begun  BY <1>1, <1>10, <2>2
    <3>2. RecordsOf(log', s) = {}  BY <1>4, <3>1 DEF TornInv
    <3>3. QED  BY <1>4, <2>2, <3>2, FS_EmptySet
  <2>3. CASE u # t
    <3>1. Holds(entry[u], s) \/ OpenIn(u, s)  BY <1>2, <1>10, <2>3
    <3>2. ~ Holds(entry[t], s)  BY <2>3, <3>1 DEF TornInv
    <3>3. QED  BY <1>4, <3>1, <3>2 DEF TornInv
  <2>4. QED  BY <2>1, <2>2, <2>3
<1>11. QED  BY <1>6, <1>7, <1>8, <1>9, <1>10 DEF TornInv

LEMMA OpenOnes ==
  ASSUME TypeOK, NEW t \in Threads, NEW s
  PROVE  s \in ToSet(open[t]) <=> OpenIn(t, s)
PROOF
<1>1. DOMAIN open[t] = 1 .. Len(open[t])
  BY DEF TypeOK
<1>2. QED  BY <1>1 DEF ToSet, OpenIn

LEMMA GetEntryTorn ==
  ASSUME TypeOK, TornInv, NEW t \in Threads, GetEntry(t)
  PROVE  TornInv'
PROOF
<1>1. /\ Refresh(t) /\ begun \in Nat /\ begun' = begun + 1
      /\ entry' = [entry EXCEPT ![t] = [head |-> begun', stream |-> <<>>]]
      /\ open' = [open EXCEPT ![t] = Append(@, begun')]
      /\ breaks' = [s \in Statements |->
                      IF s \in ToSet(open[t]) THEN breaks[s] + 1 ELSE breaks[s]]
  BY BoundsAssumption DEF GetEntry, Before, EntryOf, TypeOK
<1>2. /\ entry'[t].stream = <<>>
      /\ \A u \in Threads \ {t} : entry'[u] = entry[u] /\ open'[u] = open[u]
  BY <1>1 DEF TypeOK
<1>3. ASSUME NEW s \in Statements, OpenIn(t, s)'
      PROVE  (OpenIn(t, s) /\ s <= begun) \/ s = begun + 1
  <2>1. open[t] \in Seq(1 .. begun) /\ open'[t] = Append(open[t], begun + 1)
    BY <1>1 DEF TypeOK
  <2>2. PICK i \in 1 .. Len(open'[t]) : open'[t][i] = s
    BY <1>3 DEF OpenIn
  <2>3. CASE i = Len(open[t]) + 1
    BY <2>1, <2>2, <2>3
  <2>4. CASE i \in 1 .. Len(open[t])
    <3>1. open'[t][i] = open[t][i]  BY <2>1, <2>4
    <3>2. open[t][i] \in 1 .. begun  BY <2>1, <2>4, ElementOfSeq
    <3>3. QED  BY <1>1, <2>2, <2>4, <3>1, <3>2 DEF OpenIn
  <2>5. QED  BY <2>1, <2>2, <2>3, <2>4
<1>4. \A s \in Statements : breaks'[s] = IF OpenIn(t, s) THEN breaks[s] + 1 ELSE breaks[s]
  BY <1>1, OpenOnes
<1>5. ASSUME NEW s \in Statements, OpenIn(t, s)'
      PROVE  (OpenIn(t, s) \/ s > begun) /\ s <= begun'
  <2>1. (OpenIn(t, s) /\ s <= begun) \/ s = begun + 1
    BY <1>3, <1>5
  <2>2. s \in Nat
    BY BoundsAssumption DEF Statements
  <2>3. QED  BY <1>1, <2>1, <2>2
<1>6. begun' \in Nat /\ begun <= begun'
  BY <1>1
<1>7. QED  BY <1>1, <1>2, <1>4, <1>5, <1>6, RefreshTorn

LEMMA EndlTorn ==
  ASSUME TypeOK, TornInv, NEW t \in Threads, Endl(t)
  PROVE  TornInv'
PROOF
<1>1. /\ Refresh(t) /\ begun \in Nat /\ UNCHANGED <<open, begun>>
      /\ entry' = [entry EXCEPT ![t].stream = <<>>]
      /\ breaks' = [s \in Statements |->
                      IF s \in ToSet(open[t]) THEN breaks[s] + 1 ELSE breaks[s]]
  BY BoundsAssumption DEF Endl, EntryOf, TypeOK
<1>2. /\ entry'[t].stream = <<>>
      /\ \A u \in Threads \ {t} : entry'[u] = entry[u] /\ open'[u] = open[u]
  BY <1>1 DEF TypeOK
<1>3. \A s \in Statements : OpenIn(t, s)' => OpenIn(t, s) /\ s <= begun'
  BY <1>1 DEF OpenIn, TypeOK
<1>4. \A s \in Statements : breaks'[s] = IF OpenIn(t, s) THEN breaks[s] + 1 ELSE breaks[s]
  BY <1>1, OpenOnes
<1>5. QED  BY <1>1, <1>2, <1>3, <1>4, RefreshTorn

(* A piece belongs to the innermost statement, which is going on.          *)
LEMMA PutTorn ==
  ASSUME TypeOK, TornInv, NEW t \in Threads, Put(t)
  PROVE  TornInv'
PROOF
<1>p. PICK piece : piece = [of |-> Last(open[t]), by |-> t, no |-> put[t] + 1]
  OBVIOUS
<1>l. PICK longer : longer = Append(entry[t].stream, piece)
  OBVIOUS
<1>1. /\ open[t] # <<>> /\ put[t] < MaxPieces
      /\ entry' = [entry EXCEPT ![t].stream = longer]
      /\ UNCHANGED <<open, log, begun, breaks>>
  BY <1>p, <1>l DEF Put, EntryOf, TypeOK
<1>2. /\ OpenIn(t, piece.of) /\ piece.of = Last(open[t]) /\ piece.of \in 1 .. begun
  <2>1. Len(open[t]) \in 1 .. Len(open[t])  BY <1>1, EmptySeq DEF TypeOK
  <2>2. QED  BY <1>p, <2>1 DEF OpenIn, Last, TypeOK
<1>3. piece \in Piece
  BY <1>1, <1>2, <1>p, BoundsAssumption DEF Piece, TypeOK, Statements
<1>4. /\ entry'[t].stream = longer
      /\ \A u \in Threads \ {t} : entry'[u] = entry[u]
      /\ Len(longer) = Len(entry[t].stream) + 1 /\ longer[Len(entry[t].stream) + 1] = piece
      /\ \A i \in 1 .. Len(entry[t].stream) : longer[i] = entry[t].stream[i]
      /\ Len(entry[t].stream) \in Nat
  BY <1>1, <1>3, <1>l DEF TypeOK
<1>5. \A s : Holds(entry[t], s)' => Holds(entry[t], s) \/ s = piece.of
  BY <1>4 DEF Holds
<1>6. /\ \A u \in Threads \ {t} : \A s : Holds(entry[u], s)' <=> Holds(entry[u], s)
      /\ \A u \in Threads : \A s : OpenIn(u, s)' <=> OpenIn(u, s)
  BY <1>1, <1>4 DEF Holds, OpenIn
<1>7. ASSUME NEW s \in Statements, NEW u \in Threads, Holds(entry[u], s)'
      PROVE  Holds(entry[u], s) \/ (u = t /\ OpenIn(t, s) /\ s <= begun)
  <2>1. piece.of <= begun
    BY <1>2 DEF TypeOK
  <2>2. CASE u = t
    <3>1. Holds(entry[t], s)'  BY <1>7, <2>2
    <3>2. Holds(entry[t], s) \/ s = piece.of  BY <1>5, <3>1
    <3>3. s = piece.of => OpenIn(t, s) /\ s <= begun  BY <1>2, <2>1, Zenon
    <3>4. QED  BY <2>2, <3>2, <3>3, Zenon
  <2>3. CASE u # t
    <3>1. u \in Threads \ {t}  BY <2>3
    <3>2. Holds(entry[u], s)' <=> Holds(entry[u], s)  BY <1>6, <3>1, Zenon
    <3>3. QED  BY <1>7, <3>2, Zenon
  <2>4. QED  BY <2>2, <2>3
<1>8. \A s \in Statements, u, w \in Threads :
        Holds(entry[u], s)' /\ (Holds(entry[w], s)' \/ OpenIn(w, s)') => u = w
  BY <1>6, <1>7 DEF TornInv
<1>9. begun \in Nat /\ \A s \in Statements : s \in Nat
  BY BoundsAssumption DEF TypeOK, Statements
<1>10. \A s \in Statements : s > begun' =>
         RecordsOf(log, s)' = {} /\ \A u \in Threads : ~ Holds(entry[u], s)'
  BY <1>1, <1>7, <1>9 DEF TornInv, RecordsOf, Holds
<1>11. \A s \in Statements, u \in Threads : Holds(entry[u], s)' \/ OpenIn(u, s)' =>
         Cardinality(RecordsOf(log', s)) <= breaks'[s]
  BY <1>1, <1>6, <1>7 DEF TornInv
<1>12. QED  BY <1>1, <1>6, <1>8, <1>10, <1>11 DEF TornInv

LEMMA ReturnTorn ==
  ASSUME TypeOK, TornInv, NEW t \in Threads, Return(t)
  PROVE  TornInv'
PROOF
<1>1. /\ open[t] # <<>> /\ open' = [open EXCEPT ![t] = Front(@)]
      /\ UNCHANGED <<entry, log, begun, breaks>>
  BY DEF Return
<1>2. \A u \in Threads : \A s : OpenIn(u, s)' => OpenIn(u, s)
  <2> SUFFICES ASSUME NEW u \in Threads, NEW i \in 1 .. Len(open'[u])
               PROVE  i \in 1 .. Len(open[u]) /\ open'[u][i] = open[u][i]
    BY DEF OpenIn
  <2>1. CASE u # t  BY <1>1, <2>1 DEF TypeOK
  <2>2. CASE u = t
    <3>n. PICK n : n = Len(open[t]) - 1
      OBVIOUS
    <3>1. open[t] \in Seq(1 .. begun) /\ n \in Nat /\ n + 1 = Len(open[t])
      BY <1>1, <3>n, EmptySeq DEF TypeOK
    <3>2. open'[t] = SubSeq(open[t], 1, n)
      BY <1>1, <3>n DEF Front, TypeOK
    <3>3. \A k \in 1 .. n : k \in 1 .. Len(open[t]) /\ open[t][k] \in 1 .. begun
      <4>1. \A k \in 1 .. Len(open[t]) : open[t][k] \in 1 .. begun  BY <3>1, ElementOfSeq
      <4>2. QED  BY <3>1, <4>1
    <3>4. Len(open'[t]) = n /\ \A k \in 1 .. n : open'[t][k] = open[t][k]
      BY <3>1, <3>2, <3>3
    <3>5. QED  BY <2>2, <3>1, <3>3, <3>4
  <2>3. QED  BY <2>1, <2>2
<1>3. \A u \in Threads : \A s : Holds(entry[u], s)' <=> Holds(entry[u], s)
  BY <1>1 DEF Holds
<1>4. QED  BY <1>1, <1>2, <1>3 DEF TornInv, RecordsOf, Holds

LEMMA TornInductive ==
  (Init => TornInv) /\ (TypeOK /\ TornInv /\ [Next]_vars => TornInv')
PROOF
<1>1. ASSUME Init PROVE TornInv
  <2>1. /\ \A t \in Threads : entry[t].stream = <<>> /\ open[t] = <<>>
        /\ log = <<>> /\ \A s \in Statements : breaks[s] = 0
    BY <1>1 DEF Init, NoEntry
  <2>2. /\ \A t \in Threads, s \in Statements : ~ Holds(entry[t], s) /\ ~ OpenIn(t, s)
        /\ \A s \in Statements : RecordsOf(log, s) = {}
    BY <2>1, EmptySeq DEF Holds, OpenIn, RecordsOf
  <2>3. \A s \in Statements : Cardinality(RecordsOf(log, s)) = 0
    BY <2>2, FS_EmptySet
  <2>4. QED  BY <2>1, <2>2, <2>3 DEF TornInv
<1>2. ASSUME TypeOK, TornInv, [Next]_vars PROVE TornInv'
  <2>1. CASE UNCHANGED <<entry, open, log, begun, breaks>>
    BY <1>2, <2>1 DEF TornInv, RecordsOf, Holds, OpenIn
  <2>2. CASE MakeMgr \/ DestroyMgr \/ UNCHANGED vars
    BY <2>1, <2>2 DEF MakeMgr, DestroyMgr, GetSelf, vars
  <2>3. QED
    BY <1>2, <2>2, GetEntryTorn, PutTorn, EndlTorn, ReturnTorn DEF Next
<1>3. QED  BY <1>1, <1>2

(* What a statement puts is one record, and one more for each endl or      *)
(* trace in its midst: no other thread tears it (TraceMgr.cpp:207), for    *)
(* any number of threads, statements and pieces.                           *)
THEOREM StatementsAreNotTorn == Spec => []NotTorn
PROOF
<1>1. ASSUME TypeOK, TornInv PROVE NotTorn
  <2> SUFFICES ASSUME NEW s \in Statements
               PROVE  Cardinality({i \in DOMAIN log :
                         \E j \in DOMAIN log[i].stream : log[i].stream[j].of = s})
                        + Cardinality({t \in Threads :
                             \E j \in DOMAIN entry[t].stream : entry[t].stream[j].of = s})
                      <= 1 + breaks[s]
    BY DEF NotTorn
  <2>1. DOMAIN log = 1 .. Len(log)
    BY <1>1 DEF TypeOK
  <2>2. /\ \A i \in DOMAIN log : DOMAIN log[i].stream = 1 .. Len(log[i].stream)
        /\ \A t \in Threads : DOMAIN entry[t].stream = 1 .. Len(entry[t].stream)
    <3>1. /\ \A i \in DOMAIN log : log[i].stream \in Seq(Piece)
          /\ \A t \in Threads : entry[t].stream \in Seq(Piece)
      <4>0. log \in Seq(Record(begun)) /\ entry \in [Threads -> Entry(begun)]
        BY <1>1 DEF TypeOK, Record, Entry
      <4>1. /\ \A i \in 1 .. Len(log) : log[i] \in Record(begun)
            /\ \A t \in Threads : entry[t] \in Entry(begun)
        BY <4>0, ElementOfSeq
      <4>2. /\ \A r \in Record(begun) : r.stream \in Seq(Piece)
            /\ \A e \in Entry(begun) : e.stream \in Seq(Piece)
        BY DEF Record, Entry
      <4>3. QED  BY <2>1, <4>1, <4>2
    <3>2. \A stream \in Seq(Piece) : DOMAIN stream = 1 .. Len(stream)
      OBVIOUS
    <3>3. QED  BY <3>1, <3>2
  <2>h. PICK H : H = {t \in Threads : Holds(entry[t], s)}
    OBVIOUS
  <2>3. /\ {i \in DOMAIN log : \E j \in DOMAIN log[i].stream : log[i].stream[j].of = s}
             = RecordsOf(log, s)
        /\ {t \in Threads : \E j \in DOMAIN entry[t].stream : entry[t].stream[j].of = s} = H
    BY <2>1, <2>2, <2>h DEF RecordsOf, Holds
  <2>4. SUFFICES Cardinality(RecordsOf(log, s)) + Cardinality(H) <= 1 + breaks[s]
    BY <2>3, Zenon
  <2>r. Cardinality(RecordsOf(log, s)) \in Nat /\ breaks[s] \in Nat
    BY <1>1, RecordsCount DEF TypeOK
  <2>5. CASE H = {}
    <3>1. Cardinality(H) = 0  BY <2>5, FS_EmptySet
    <3>2. Cardinality(RecordsOf(log, s)) <= breaks[s] + 1  BY <1>1 DEF TornInv
    <3>3. QED  BY <2>r, <3>1, <3>2
  <2>6. CASE H # {}
    <3>1. PICK t \in Threads : Holds(entry[t], s)  BY <2>6, <2>h
    <3>2. H = {t}  BY <1>1, <2>h, <3>1 DEF TornInv
    <3>3. Cardinality(H) = 1  BY <3>2, FS_Singleton
    <3>4. Cardinality(RecordsOf(log, s)) <= breaks[s]  BY <1>1, <3>1 DEF TornInv
    <3>5. QED  BY <2>r, <3>3, <3>4
  <2>7. QED  BY <2>5, <2>6
<1>2. QED  BY TornInductive, TypeCorrect, <1>1, PTL DEF Spec

(***************************************************************************)
(* Why nothing is lost.  A thread alone puts into its entry; what it put   *)
(* is in the log, in its entry or among what was refreshed without a       *)
(* manager; the numbers grow along the log and on into the entry.          *)
(***************************************************************************)
InLog(t, n) ==
  \E k \in 1 .. Len(log) : \E i \in 1 .. Len(log[k].stream) :
    log[k].stream[i].by = t /\ log[k].stream[i].no = n

InEntry(t, n) == \E i \in 1 .. Len(entry[t].stream) : entry[t].stream[i].no = n

Increasing(stream, t) ==
  \A i, j \in 1 .. Len(stream) :
    i < j /\ stream[i].by = t /\ stream[j].by = t => stream[i].no < stream[j].no

OwnPiecesInv ==
  \A t \in Threads : \A i \in 1 .. Len(entry[t].stream) : entry[t].stream[i].by = t

AccountInv ==
  \A t \in Threads :
    /\ lost[t] \subseteq 1 .. put[t]
    /\ \A n \in 1 .. MaxPieces :
         InLog(t, n) \/ InEntry(t, n) <=> n \in (1 .. put[t]) \ lost[t]

GrowInv ==
  \A t \in Threads :
    /\ \A k \in 1 .. Len(log) : Increasing(log[k].stream, t)
    /\ Increasing(entry[t].stream, t)
    /\ \A k, l \in 1 .. Len(log) : k < l =>
         \A i \in 1 .. Len(log[k].stream), j \in 1 .. Len(log[l].stream) :
           log[k].stream[i].by = t /\ log[l].stream[j].by = t
             => log[k].stream[i].no < log[l].stream[j].no
    /\ \A m, n \in 1 .. MaxPieces : InLog(t, m) /\ InEntry(t, n) => m < n

KeptInv == OwnPiecesInv /\ AccountInv /\ GrowInv

(* The streams there are hold pieces.                                      *)
LEMMA StreamTypes ==
  ASSUME TypeOK
  PROVE  /\ \A k \in 1 .. Len(log) : /\ log[k].stream \in Seq(Piece)
                                     /\ DOMAIN log[k].stream = 1 .. Len(log[k].stream)
         /\ \A t \in Threads : /\ entry[t].stream \in Seq(Piece)
                               /\ DOMAIN entry[t].stream = 1 .. Len(entry[t].stream)
         /\ Len(log) \in Nat /\ DOMAIN log = 1 .. Len(log)
PROOF
<1>1. log \in Seq(Record(begun)) /\ entry \in [Threads -> Entry(begun)]
  BY DEF TypeOK, Record, Entry
<1>2. /\ \A k \in 1 .. Len(log) : log[k] \in Record(begun)
      /\ \A t \in Threads : entry[t] \in Entry(begun)
  BY <1>1, ElementOfSeq
<1>3. /\ \A r \in Record(begun) : r.stream \in Seq(Piece)
      /\ \A e \in Entry(begun) : e.stream \in Seq(Piece)
  BY DEF Record, Entry
<1>4. \A stream \in Seq(Piece) : DOMAIN stream = 1 .. Len(stream)
  OBVIOUS
<1>5. QED  BY <1>1, <1>2, <1>3, <1>4

(* A refresh moves what is in the entry behind all that is in the log, or  *)
(* counts it as lost.                                                      *)
LEMMA RefreshKeeps ==
  ASSUME TypeOK, KeptInv, NEW t \in Threads, Refresh(t),
         entry'[t].stream = <<>>,
         \A u \in Threads \ {t} : entry'[u] = entry[u],
         UNCHANGED put
  PROVE  KeptInv'
PROOF
<1>e. PICK e : e = entry[t]
  OBVIOUS
<1>n. PICK n : n = Len(log)
  OBVIOUS
<1>1. /\ n \in Nat /\ e.stream \in Seq(Piece) /\ Len(e.stream) \in Nat
      /\ \A i \in 1 .. Len(e.stream) : e.stream[i].no \in 1 .. MaxPieces
      /\ \A k \in 1 .. n : \A i \in 1 .. Len(log[k].stream) :
           log[k].stream[i].no \in 1 .. MaxPieces
  <2>1. \A stream \in Seq(Piece) : \A i \in 1 .. Len(stream) :
          stream[i].no \in 1 .. MaxPieces
    <3>1. \A q \in Piece : q.no \in 1 .. MaxPieces  BY DEF Piece
    <3>2. QED  BY <3>1, ElementOfSeq
  <2>2. QED  BY <1>e, <1>n, <2>1, StreamTypes
<1>2. OwnPiecesInv'
  BY EmptySeq DEF KeptInv, OwnPiecesInv
<1>3. \A u \in Threads : \A m : InEntry(u, m)' <=> u # t /\ InEntry(u, m)
  BY EmptySeq DEF InEntry
<1>4. CASE mgr # "up" \/ e.stream = <<>>
  <2>1. log' = log
    BY <1>4, <1>e DEF Refresh, Written, EntryOf, WorthWriting
  <2>2. \A u \in Threads : \A m : InLog(u, m)' <=> InLog(u, m)
    BY <2>1 DEF InLog
  <2>3. /\ \A u \in Threads \ {t} : lost'[u] = lost[u]
        /\ \A m \in 1 .. MaxPieces : m \in lost'[t] <=> m \in lost[t] \/ InEntry(t, m)
        /\ lost'[t] \subseteq lost[t] \cup {m \in 1 .. MaxPieces : InEntry(t, m)}
    <3>1. DOMAIN e.stream = 1 .. Len(e.stream)  BY <1>e, StreamTypes
    <3>2. \A m : m \in Numbers(e.stream) <=> InEntry(t, m)
      BY <1>e, <3>1 DEF Numbers, InEntry
    <3>3. Numbers(e.stream) \subseteq 1 .. MaxPieces
      BY <1>1, <3>1 DEF Numbers
    <3>4. CASE mgr # "up"
      <4>1. lost' = [lost EXCEPT ![t] = @ \cup Numbers(e.stream)]
        BY <1>e, <3>4 DEF Refresh, EntryOf
      <4>2. QED  BY <3>2, <3>3, <4>1 DEF TypeOK
    <3>5. CASE mgr = "up"
      <4>1. lost' = lost  BY <3>5 DEF Refresh
      <4>2. \A m : ~ InEntry(t, m)  BY <1>4, <1>e, <3>5, EmptySeq DEF InEntry
      <4>3. QED  BY <4>1, <4>2
    <3>6. QED  BY <3>4, <3>5
  <2>4. AccountInv'
    <3>1. ASSUME NEW u \in Threads
          PROVE  /\ lost'[u] \subseteq 1 .. put'[u]
                 /\ \A m \in 1 .. MaxPieces :
                      InLog(u, m)' \/ InEntry(u, m)' <=> m \in (1 .. put'[u]) \ lost'[u]
      <4>1. CASE u # t
        BY <1>3, <2>2, <2>3, <4>1 DEF KeptInv, AccountInv
      <4>2. CASE u = t
        <5>1. \A m \in 1 .. MaxPieces : ~ (InLog(t, m) /\ InEntry(t, m))
          BY DEF KeptInv, GrowInv
        <5>2. lost'[t] \subseteq 1 .. put'[t]
          BY <2>3 DEF KeptInv, AccountInv
        <5>3. QED  BY <1>3, <2>2, <2>3, <4>2, <5>1, <5>2 DEF KeptInv, AccountInv
      <4>3. QED  BY <4>1, <4>2
    <3>2. QED  BY <3>1 DEF AccountInv
  <2>5. GrowInv'
    <3>1. \A u \in Threads : Increasing(entry[u].stream, u)'
      BY EmptySeq DEF KeptInv, GrowInv, Increasing
    <3>2. \A u \in Threads, k \in 1 .. Len(log') : Increasing(log[k].stream, u)'
      BY <2>1 DEF KeptInv, GrowInv, Increasing
    <3>3. \A u \in Threads : \A m, o \in 1 .. MaxPieces :
            InLog(u, m)' /\ InEntry(u, o)' => m < o
      BY <1>3, <2>2 DEF KeptInv, GrowInv
    <3>4. QED  BY <2>1, <3>1, <3>2, <3>3 DEF KeptInv, GrowInv
  <2>6. QED  BY <1>2, <2>4, <2>5 DEF KeptInv
<1>5. CASE mgr = "up" /\ e.stream # <<>>
  <2>1. log' = Append(log, e) /\ lost' = lost
    BY <1>5, <1>e DEF Refresh, Written, EntryOf, WorthWriting
  <2>2. /\ Len(log') = n + 1 /\ log'[n + 1] = e
        /\ \A k \in 1 .. n : log'[k] = log[k]
        /\ 1 .. n + 1 = (1 .. n) \cup {n + 1}
    BY <1>n, <1>1, <2>1 DEF TypeOK
  <2>3. \A i \in 1 .. Len(e.stream) : e.stream[i].by = t
    BY <1>e DEF KeptInv, OwnPiecesInv
  <2>4. \A u \in Threads : \A m : InLog(u, m)' <=> InLog(u, m) \/ (u = t /\ InEntry(t, m))
    <3>1. ASSUME NEW u \in Threads, NEW m, InLog(u, m)'
          PROVE  InLog(u, m) \/ (u = t /\ InEntry(t, m))
      <4>1. PICK k \in 1 .. n + 1 : \E i \in 1 .. Len(log'[k].stream) :
              log'[k].stream[i].by = u /\ log'[k].stream[i].no = m
        BY <2>2, <3>1 DEF InLog
      <4>2. QED  BY <1>e, <1>n, <2>2, <2>3, <4>1 DEF InLog, InEntry
    <3>2. ASSUME NEW u \in Threads, NEW m, InLog(u, m) PROVE InLog(u, m)'
      <4>1. PICK k \in 1 .. n : \E i \in 1 .. Len(log[k].stream) :
              log[k].stream[i].by = u /\ log[k].stream[i].no = m
        BY <1>n, <3>2 DEF InLog
      <4>2. k \in 1 .. Len(log') /\ log'[k] = log[k]
        BY <1>1, <2>2
      <4>3. QED  BY <4>1, <4>2 DEF InLog
    <3>3. ASSUME NEW m, InEntry(t, m) PROVE InLog(t, m)'
      <4>1. PICK i \in 1 .. Len(e.stream) : e.stream[i].no = m
        BY <1>e, <3>3 DEF InEntry
      <4>2. n + 1 \in 1 .. Len(log') /\ log'[n + 1] = e
        BY <1>1, <2>2
      <4>3. QED  BY <2>3, <4>1, <4>2 DEF InLog
    <3>4. QED  BY <3>1, <3>2, <3>3
  <2>5. AccountInv'
    BY <1>3, <2>1, <2>4 DEF KeptInv, AccountInv
  <2>6. GrowInv'
    <3>1. \A u \in Threads : Increasing(entry[u].stream, u)'
      BY EmptySeq DEF KeptInv, GrowInv, Increasing
    <3>2. ASSUME NEW u \in Threads, NEW k \in 1 .. Len(log')
          PROVE  Increasing(log'[k].stream, u)
      <4>1. CASE k = n + 1
        BY <1>e, <2>2, <2>3, <4>1 DEF KeptInv, GrowInv, Increasing
      <4>2. CASE k \in 1 .. n
        BY <1>n, <2>2, <4>2 DEF KeptInv, GrowInv
      <4>3. QED  BY <2>2, <4>1, <4>2
    <3>3. ASSUME NEW u \in Threads, NEW k \in 1 .. Len(log'), NEW l \in 1 .. Len(log'),
                 k < l,
                 NEW i \in 1 .. Len(log'[k].stream), NEW j \in 1 .. Len(log'[l].stream),
                 log'[k].stream[i].by = u, log'[l].stream[j].by = u
          PROVE  log'[k].stream[i].no < log'[l].stream[j].no
      <4>1. k \in 1 .. n /\ log'[k] = log[k]  BY <1>1, <2>2, <3>3
      <4>2. CASE l \in 1 .. n
        BY <1>n, <2>2, <3>3, <4>1, <4>2 DEF KeptInv, GrowInv
      <4>3. CASE l = n + 1
        <5>1. u = t /\ log'[l] = e  BY <2>2, <2>3, <3>3, <4>3
        <5>2. InLog(t, log[k].stream[i].no) /\ InEntry(t, e.stream[j].no)
          BY <1>e, <1>n, <3>3, <4>1, <5>1 DEF InLog, InEntry
        <5>3. log[k].stream[i].no \in 1 .. MaxPieces /\ e.stream[j].no \in 1 .. MaxPieces
          BY <1>1, <3>3, <4>1, <5>1
        <5>4. QED  BY <4>1, <5>1, <5>2, <5>3 DEF KeptInv, GrowInv
      <4>4. QED  BY <2>2, <4>2, <4>3
    <3>4. \A u \in Threads : \A m, o \in 1 .. MaxPieces :
            InLog(u, m)' /\ InEntry(u, o)' => m < o
      BY <1>3, <2>4 DEF KeptInv, GrowInv
    <3>5. \A u \in Threads : \A k \in 1 .. Len(log') : Increasing(log'[k].stream, u)
      BY <3>2
    <3>6. QED  BY <3>1, <3>3, <3>4, <3>5 DEF GrowInv, Increasing
  <2>7. QED  BY <1>2, <2>5, <2>6 DEF KeptInv
<1>6. QED  BY <1>4, <1>5

LEMMA GetEntryKeeps ==
  ASSUME TypeOK, KeptInv, NEW t \in Threads, GetEntry(t)
  PROVE  KeptInv'
PROOF
<1>1. /\ Refresh(t) /\ UNCHANGED put
      /\ entry' = [entry EXCEPT ![t] = [head |-> begun', stream |-> <<>>]]
  BY DEF GetEntry, Before, EntryOf
<1>2. /\ entry'[t].stream = <<>>
      /\ \A u \in Threads \ {t} : entry'[u] = entry[u]
  BY <1>1 DEF TypeOK
<1>3. QED  BY <1>1, <1>2, RefreshKeeps

LEMMA EndlKeeps ==
  ASSUME TypeOK, KeptInv, NEW t \in Threads, Endl(t)
  PROVE  KeptInv'
PROOF
<1>1. /\ Refresh(t) /\ UNCHANGED put
      /\ entry' = [entry EXCEPT ![t].stream = <<>>]
  BY DEF Endl, EntryOf
<1>2. /\ entry'[t].stream = <<>>
      /\ \A u \in Threads \ {t} : entry'[u] = entry[u]
  BY <1>1 DEF TypeOK
<1>3. QED  BY <1>1, <1>2, RefreshKeeps

(* A piece gets the next number of its thread.                             *)
LEMMA PutKeeps ==
  ASSUME TypeOK, KeptInv, NEW t \in Threads, Put(t)
  PROVE  KeptInv'
PROOF
<1>x. PICK x : x = put[t] + 1
  OBVIOUS
<1>p. PICK piece : piece = [of |-> Last(open[t]), by |-> t, no |-> x]
  OBVIOUS
<1>e. PICK stream : stream = entry[t].stream
  OBVIOUS
<1>l. PICK longer : longer = Append(stream, piece)
  OBVIOUS
<1>1. /\ put[t] \in 0 .. MaxPieces /\ put[t] < MaxPieces
      /\ x \in 1 .. MaxPieces /\ x \in Nat /\ put[t] \in Nat
      /\ \A u \in Threads : put'[u] = IF u = t THEN x ELSE put[u]
      /\ entry' = [entry EXCEPT ![t].stream = longer]
      /\ UNCHANGED <<log, lost>>
  BY <1>x, <1>p, <1>e, <1>l, BoundsAssumption DEF Put, EntryOf, TypeOK
<1>2. stream \in Seq(Piece) /\ Len(stream) \in Nat
  BY <1>e, StreamTypes
<1>3. piece.by = t /\ piece.no = x
  BY <1>p
<1>4. /\ Len(longer) = Len(stream) + 1 /\ longer[Len(stream) + 1] = piece
      /\ \A i \in 1 .. Len(stream) : longer[i] = stream[i]
      /\ 1 .. Len(stream) + 1 = (1 .. Len(stream)) \cup {Len(stream) + 1}
  BY <1>2, <1>l
<1>5. entry'[t].stream = longer /\ \A u \in Threads \ {t} : entry'[u] = entry[u]
  BY <1>1 DEF TypeOK
<1>6. \A u \in Threads : \A m : InLog(u, m)' <=> InLog(u, m)
  BY <1>1 DEF InLog
<1>7. \A u \in Threads : \A m : InEntry(u, m)' <=> InEntry(u, m) \/ (u = t /\ m = x)
  <2>1. \A m : InEntry(t, m)' <=> InEntry(t, m) \/ m = x
    <3>1. ASSUME NEW m, InEntry(t, m) PROVE InEntry(t, m)'
      <4>1. PICK i \in 1 .. Len(stream) : stream[i].no = m
        BY <1>e, <3>1 DEF InEntry
      <4>2. i \in 1 .. Len(longer) /\ longer[i].no = m  BY <1>2, <1>4, <4>1
      <4>3. QED  BY <1>5, <4>2 DEF InEntry
    <3>2. InEntry(t, x)'
      <4>1. Len(stream) + 1 \in 1 .. Len(longer)  BY <1>2, <1>4
      <4>2. QED  BY <1>3, <1>4, <1>5, <4>1 DEF InEntry
    <3>3. ASSUME NEW m, InEntry(t, m)' PROVE InEntry(t, m) \/ m = x
      <4>1. PICK i \in 1 .. Len(longer) : longer[i].no = m
        BY <1>5, <3>3 DEF InEntry
      <4>2. CASE i = Len(stream) + 1
        BY <1>3, <1>4, <4>1, <4>2
      <4>3. CASE i \in 1 .. Len(stream)
        BY <1>4, <1>e, <4>1, <4>3 DEF InEntry
      <4>4. QED  BY <1>4, <4>2, <4>3
    <3>4. QED  BY <3>1, <3>2, <3>3
  <2>2. \A u \in Threads \ {t} : \A m : InEntry(u, m)' <=> InEntry(u, m)
    BY <1>5 DEF InEntry
  <2>3. QED  BY <2>1, <2>2
<1>8. \A m \in 1 .. MaxPieces : InLog(t, m) \/ InEntry(t, m) => m < x
  BY <1>1, <1>x DEF KeptInv, AccountInv
<1>9. OwnPiecesInv'
  <2>1. \A i \in 1 .. Len(longer) : longer[i].by = t
    BY <1>2, <1>3, <1>4, <1>e DEF KeptInv, OwnPiecesInv
  <2>2. QED  BY <1>5, <2>1 DEF KeptInv, OwnPiecesInv
<1>10. AccountInv'
  <2>1. ASSUME NEW u \in Threads
        PROVE  /\ lost'[u] \subseteq 1 .. put'[u]
               /\ \A m \in 1 .. MaxPieces :
                    InLog(u, m)' \/ InEntry(u, m)' <=> m \in (1 .. put'[u]) \ lost'[u]
    <3>1. CASE u # t
      BY <1>1, <1>6, <1>7, <3>1 DEF KeptInv, AccountInv
    <3>2. CASE u = t
      <4>1. lost[t] \subseteq 1 .. put[t]  BY DEF KeptInv, AccountInv
      <4>2. 1 .. put'[t] = (1 .. put[t]) \cup {x}  BY <1>1, <1>x
      <4>3. x \notin lost[t]  BY <1>1, <1>x, <4>1
      <4>4. \A m \in 1 .. MaxPieces :
              InLog(t, m) \/ InEntry(t, m) <=> m \in (1 .. put[t]) \ lost[t]
        BY DEF KeptInv, AccountInv
      <4>5. QED  BY <1>1, <1>6, <1>7, <3>2, <4>1, <4>2, <4>3, <4>4
    <3>3. QED  BY <3>1, <3>2
  <2>2. QED  BY <2>1 DEF AccountInv
<1>11. GrowInv'
  <2>1. Increasing(longer, t)
    <3>1. \A i \in 1 .. Len(stream) : stream[i].no \in 1 .. MaxPieces /\ stream[i].no < x
      <4>1. \A q \in Piece : q.no \in 1 .. MaxPieces  BY DEF Piece
      <4>2. QED  BY <1>2, <1>8, <1>e, <4>1, ElementOfSeq DEF InEntry
    <3>2. Increasing(stream, t)  BY <1>e DEF KeptInv, GrowInv
    <3>3. QED  BY <1>2, <1>3, <1>4, <3>1, <3>2 DEF Increasing
  <2>2. \A u \in Threads : Increasing(entry'[u].stream, u)
    BY <1>5, <2>1 DEF KeptInv, GrowInv
  <2>3. \A u \in Threads : \A m, o \in 1 .. MaxPieces :
          InLog(u, m)' /\ InEntry(u, o)' => m < o
    BY <1>6, <1>7, <1>8 DEF KeptInv, GrowInv
  <2>4. \A u \in Threads :
          /\ \A k \in 1 .. Len(log') : Increasing(log'[k].stream, u)
          /\ \A k, l \in 1 .. Len(log') : k < l =>
               \A i \in 1 .. Len(log'[k].stream), j \in 1 .. Len(log'[l].stream) :
                 log'[k].stream[i].by = u /\ log'[l].stream[j].by = u
                   => log'[k].stream[i].no < log'[l].stream[j].no
    <3>1. log' = log  BY <1>1
    <3>2. QED  BY <3>1 DEF KeptInv, GrowInv
  <2>5. GrowInv' <=>
          \A u \in Threads :
            /\ \A k \in 1 .. Len(log') : Increasing(log'[k].stream, u)
            /\ Increasing(entry'[u].stream, u)
            /\ \A k, l \in 1 .. Len(log') : k < l =>
                 \A i \in 1 .. Len(log'[k].stream), j \in 1 .. Len(log'[l].stream) :
                   log'[k].stream[i].by = u /\ log'[l].stream[j].by = u
                     => log'[k].stream[i].no < log'[l].stream[j].no
            /\ \A m, o \in 1 .. MaxPieces : InLog(u, m)' /\ InEntry(u, o)' => m < o
    BY DEF GrowInv, Increasing
  <2>6. QED  BY <2>2, <2>3, <2>4, <2>5
<1>12. QED  BY <1>9, <1>10, <1>11 DEF KeptInv

LEMMA KeptInductive ==
  (Init => KeptInv) /\ (TypeOK /\ KeptInv /\ [Next]_vars => KeptInv')
PROOF
<1>1. ASSUME Init PROVE KeptInv
  <2>1. /\ \A t \in Threads : entry[t].stream = <<>> /\ put[t] = 0 /\ lost[t] = {}
        /\ log = <<>>
    BY <1>1 DEF Init, NoEntry
  <2>2. \A t \in Threads : \A n : ~ InLog(t, n) /\ ~ InEntry(t, n)
    BY <2>1, EmptySeq DEF InLog, InEntry
  <2>3. OwnPiecesInv  BY <2>1, EmptySeq DEF OwnPiecesInv
  <2>4. AccountInv  BY <2>1, <2>2 DEF AccountInv
  <2>5. GrowInv  BY <2>1, <2>2, EmptySeq DEF GrowInv, Increasing
  <2>6. QED  BY <2>3, <2>4, <2>5 DEF KeptInv
<1>2. ASSUME TypeOK, KeptInv, [Next]_vars PROVE KeptInv'
  <2>1. CASE UNCHANGED <<entry, log, put, lost>>
    <3>1. /\ \A t \in Threads : \A n : InLog(t, n)' <=> InLog(t, n)
          /\ \A t \in Threads : \A n : InEntry(t, n)' <=> InEntry(t, n)
      BY <2>1 DEF InLog, InEntry
    <3>2. OwnPiecesInv'  BY <1>2, <2>1 DEF KeptInv, OwnPiecesInv
    <3>3. AccountInv'  BY <1>2, <2>1, <3>1 DEF KeptInv, AccountInv
    <3>4. GrowInv'  BY <1>2, <2>1, <3>1 DEF KeptInv, GrowInv, Increasing
    <3>5. QED  BY <3>2, <3>3, <3>4 DEF KeptInv
  <2>2. CASE MakeMgr \/ DestroyMgr \/ UNCHANGED vars \/ \E t \in Threads : Return(t)
    BY <2>1, <2>2 DEF MakeMgr, DestroyMgr, GetSelf, vars, Return
  <2>3. QED
    BY <1>2, <2>2, GetEntryKeeps, PutKeeps, EndlKeeps DEF Next
<1>3. QED  BY <1>1, <1>2

(* What a thread traces is written once and in the order it was put, or is *)
(* still in its entry; only what is refreshed without a manager is lost    *)
(* (TraceEntry.cpp:71-78): for any threads, statements and pieces.         *)
THEOREM NothingIsLost == Spec => []NothingLost
PROOF
<1>1. ASSUME TypeOK, KeptInv PROVE NothingLost
  <2> SUFFICES ASSUME NEW t \in Threads
               PROVE  /\ {NumberAt(t, q) : q \in Kept(t)} = (1 .. put[t]) \ lost[t]
                      /\ \A q, r \in Kept(t) :
                           Precedes(q, r) => NumberAt(t, q) < NumberAt(t, r)
    BY DEF NothingLost
  <2>n. PICK n : n = Len(log)
    OBVIOUS
  <2>1. n \in Nat /\ 1 .. n + 1 = (1 .. n) \cup {n + 1}
    BY <1>1, <2>n, StreamTypes
  <2>2. /\ \A k \in 1 .. n : StreamAt(t, k) = log[k].stream
        /\ StreamAt(t, n + 1) = entry[t].stream
    BY <2>n, <2>1 DEF StreamAt
  <2>3. \A k \in 1 .. n + 1 : DOMAIN StreamAt(t, k) = 1 .. Len(StreamAt(t, k))
    BY <1>1, <2>n, <2>1, <2>2, StreamTypes
  <2>4. ASSUME NEW q
        PROVE  q \in Kept(t) <=>
                 \E k \in 1 .. n + 1 : \E i \in 1 .. Len(StreamAt(t, k)) :
                   q = <<k, i>> /\ StreamAt(t, k)[i].by = t
    <3>1. \A i \in 1 .. Len(StreamAt(t, n + 1)) : StreamAt(t, n + 1)[i].by = t
      BY <1>1, <2>2 DEF KeptInv, OwnPiecesInv
    <3>2. \A k \in 1 .. n : ~ k > n
      BY <2>1
    <3>3. Kept(t) = UNION {{<<k, i>> : i \in {i \in 1 .. Len(StreamAt(t, k)) :
                                              StreamAt(t, k)[i].by = t}} : k \in 1 .. n + 1}
      BY <2>n, <2>1, <2>3, <3>1, <3>2 DEF Kept
    <3>4. QED  BY <3>3
  <2>5. \A k, i : NumberAt(t, <<k, i>>) = StreamAt(t, k)[i].no
    BY DEF NumberAt
  <2>6. \A k \in 1 .. n + 1 : \A i \in 1 .. Len(StreamAt(t, k)) :
          StreamAt(t, k)[i].no \in 1 .. MaxPieces
    <3>1. \A q \in Piece : q.no \in 1 .. MaxPieces  BY DEF Piece
    <3>2. \A k \in 1 .. n + 1 : StreamAt(t, k) \in Seq(Piece)
      BY <1>1, <2>n, <2>1, <2>2, StreamTypes
    <3>3. QED  BY <3>1, <3>2, ElementOfSeq
  <2>7. {NumberAt(t, q) : q \in Kept(t)} = (1 .. put[t]) \ lost[t]
    <3>1. \A m : m \in {NumberAt(t, q) : q \in Kept(t)} <=>
            \E k \in 1 .. n + 1 : \E i \in 1 .. Len(StreamAt(t, k)) :
              StreamAt(t, k)[i].by = t /\ StreamAt(t, k)[i].no = m
      <4>1. ASSUME NEW m, m \in {NumberAt(t, q) : q \in Kept(t)}
            PROVE  \E k \in 1 .. n + 1 : \E i \in 1 .. Len(StreamAt(t, k)) :
                     StreamAt(t, k)[i].by = t /\ StreamAt(t, k)[i].no = m
        <5>1. PICK q \in Kept(t) : m = NumberAt(t, q)  BY <4>1
        <5>2. PICK k \in 1 .. n + 1 : \E i \in 1 .. Len(StreamAt(t, k)) :
                q = <<k, i>> /\ StreamAt(t, k)[i].by = t
          BY <2>4, <5>1
        <5>3. PICK i \in 1 .. Len(StreamAt(t, k)) :
                q = <<k, i>> /\ StreamAt(t, k)[i].by = t
          BY <5>2
        <5>4. StreamAt(t, k)[i].no = m  BY <2>5, <5>1, <5>3
        <5>5. QED  BY <5>3, <5>4
      <4>2. ASSUME NEW k \in 1 .. n + 1, NEW i \in 1 .. Len(StreamAt(t, k)),
                   StreamAt(t, k)[i].by = t
            PROVE  StreamAt(t, k)[i].no \in {NumberAt(t, q) : q \in Kept(t)}
        <5>1. <<k, i>> \in Kept(t)  BY <2>4, <4>2
        <5>2. QED  BY <2>5, <5>1
      <4>3. QED  BY <4>1, <4>2
    <3>2. \A i \in 1 .. Len(entry[t].stream) : entry[t].stream[i].by = t
      BY <1>1 DEF KeptInv, OwnPiecesInv
    <3>3. ASSUME NEW m, m \in {NumberAt(t, q) : q \in Kept(t)}
          PROVE  (InLog(t, m) \/ InEntry(t, m)) /\ m \in 1 .. MaxPieces
      <4>1. PICK k \in 1 .. n + 1 : \E i \in 1 .. Len(StreamAt(t, k)) :
              StreamAt(t, k)[i].by = t /\ StreamAt(t, k)[i].no = m
        BY <3>1, <3>3
      <4>2. CASE k \in 1 .. n
        <5>1. InLog(t, m)  BY <2>n, <2>2, <4>1, <4>2 DEF InLog
        <5>2. QED  BY <2>6, <4>1, <5>1
      <4>3. CASE k = n + 1
        <5>1. InEntry(t, m)  BY <2>2, <4>1, <4>3 DEF InEntry
        <5>2. QED  BY <2>6, <4>1, <5>1
      <4>4. QED  BY <2>1, <4>2, <4>3
    <3>4. ASSUME NEW m, InLog(t, m) PROVE m \in {NumberAt(t, q) : q \in Kept(t)}
      <4>1. PICK k \in 1 .. n : \E i \in 1 .. Len(log[k].stream) :
              log[k].stream[i].by = t /\ log[k].stream[i].no = m
        BY <2>n, <3>4 DEF InLog
      <4>2. k \in 1 .. n + 1 /\ StreamAt(t, k) = log[k].stream
        BY <2>1, <2>2
      <4>3. QED  BY <3>1, <4>1, <4>2
    <3>5. ASSUME NEW m, InEntry(t, m) PROVE m \in {NumberAt(t, q) : q \in Kept(t)}
      <4>1. PICK i \in 1 .. Len(entry[t].stream) : entry[t].stream[i].no = m
        BY <3>5 DEF InEntry
      <4>2. n + 1 \in 1 .. n + 1 /\ StreamAt(t, n + 1) = entry[t].stream
        BY <2>1, <2>2
      <4>3. QED  BY <3>1, <3>2, <4>1, <4>2
    <3>6. 1 .. put[t] \subseteq 1 .. MaxPieces
      BY <1>1, BoundsAssumption DEF TypeOK
    <3>7. \A m \in 1 .. MaxPieces :
            InLog(t, m) \/ InEntry(t, m) <=> m \in (1 .. put[t]) \ lost[t]
      BY <1>1 DEF KeptInv, AccountInv
    <3>8. QED  BY <3>3, <3>4, <3>5, <3>6, <3>7
  <2>8. ASSUME NEW k \in 1 .. n + 1, NEW i \in 1 .. Len(StreamAt(t, k)),
               NEW l \in 1 .. n + 1, NEW j \in 1 .. Len(StreamAt(t, l)),
               StreamAt(t, k)[i].by = t, StreamAt(t, l)[j].by = t,
               k < l \/ (k = l /\ i < j)
        PROVE  StreamAt(t, k)[i].no < StreamAt(t, l)[j].no
    <3>1. CASE k = l
      <4>1. Increasing(StreamAt(t, k), t)
        BY <1>1, <2>n, <2>1, <2>2 DEF KeptInv, GrowInv
      <4>2. QED  BY <2>1, <2>8, <3>1, <4>1 DEF Increasing
    <3>2. CASE k < l /\ l \in 1 .. n
      BY <1>1, <2>n, <2>1, <2>2, <2>8, <3>2 DEF KeptInv, GrowInv
    <3>3. CASE k < l /\ l = n + 1
      <4>1. k \in 1 .. n  BY <2>1, <3>3
      <4>2. InLog(t, StreamAt(t, k)[i].no) /\ InEntry(t, StreamAt(t, l)[j].no)
        BY <2>n, <2>2, <2>8, <3>3, <4>1 DEF InLog, InEntry
      <4>3. QED  BY <1>1, <2>6, <4>2 DEF KeptInv, GrowInv
    <3>4. QED  BY <2>1, <2>8, <3>1, <3>2, <3>3
  <2>9. ASSUME NEW q \in Kept(t), NEW r \in Kept(t), Precedes(q, r)
        PROVE  NumberAt(t, q) < NumberAt(t, r)
    <3>1. PICK k \in 1 .. n + 1 : \E i \in 1 .. Len(StreamAt(t, k)) :
            q = <<k, i>> /\ StreamAt(t, k)[i].by = t
      BY <2>4
    <3>2. PICK i \in 1 .. Len(StreamAt(t, k)) : q = <<k, i>> /\ StreamAt(t, k)[i].by = t
      BY <3>1
    <3>3. PICK l \in 1 .. n + 1 : \E j \in 1 .. Len(StreamAt(t, l)) :
            r = <<l, j>> /\ StreamAt(t, l)[j].by = t
      BY <2>4
    <3>4. PICK j \in 1 .. Len(StreamAt(t, l)) : r = <<l, j>> /\ StreamAt(t, l)[j].by = t
      BY <3>3
    <3>5. k < l \/ (k = l /\ i < j)
      BY <2>9, <3>2, <3>4 DEF Precedes
    <3>6. QED  BY <2>5, <2>8, <3>2, <3>4, <3>5
  <2>10. QED  BY <2>7, <2>9
<1>2. QED  BY KeptInductive, TypeCorrect, <1>1, PTL DEF Spec

=============================================================================
