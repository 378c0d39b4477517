----------------------------- MODULE CsvRecord -----------------------------
(***************************************************************************)
(* AosRecordCSV (src/src/DataParser/CSVParser.cpp; the other three files   *)
(* of that directory are copies of it): a record is found in a buffer, and *)
(* its fields are read.                                                    *)
(*                                                                         *)
(* setData() runs parseData() for a field delimiter of one character and   *)
(* parseData2() for a longer one.  The two loops differ in what they do    *)
(* with the length of the delimiter and in nothing else: one set of        *)
(* actions, with Width for that length, is both.  Each action is one turn  *)
(* of the loop, named after the crt_status it handles.  Offsets count from *)
(* 0, as in the code.  A character stands for itself when the parser tells *)
(* it apart.                                                               *)
(***************************************************************************)
EXTENDS Integers, Sequences, SequencesExt, FiniteSets

CONSTANTS Delims,               \* the values of mFieldDelimiter
          LF, CR, Qual,         \* \n, \r, text qualifier
          Nul, Blank,           \* \000 and what it is replaced with
          Chars,                \* the characters of a buffer
          FieldsNum,            \* mFieldsNum: the fields of a record
          Rows,                 \* mRowDelimiterChar: LF ("lf"), CR ("crlf")
          Escapes,              \* the values of mBackslashEscape
          Unqualified,          \* the values of mNoTextQualifier
          Inputs,               \* what a caller has: buffers in sequence
          NoValue, Null,        \* no value read yet; the null value
          Unknown               \* bytes from outside the buffer

ASSUME CharsAssumption ==
  /\ {LF, CR, Qual, Nul, Blank} \subseteq Chars
  /\ Qual \notin {LF, CR, Nul, Blank} /\ {Nul, Blank} \cap {LF, CR} = {}
  /\ LF # CR /\ Nul # Blank
  /\ Delims \subseteq Seq(Chars \ {LF, CR, Qual, Nul}) \ {<<>>}

ASSUME ConfigAssumption ==
  /\ FieldsNum \in Nat \ {0}
  /\ Rows \subseteq {LF, CR}
  /\ Escapes \subseteq BOOLEAN /\ Unqualified \subseteq BOOLEAN

ASSUME InputsAssumption == Inputs \subseteq Seq(Seq(Chars) \ {<<>>})

ASSUME NoValueAssumption == NoValue \notin Seq(Chars) \cup {Null}

Fields == 0 .. FieldsNum - 1

VARIABLES
  conf,        \* mFieldDelimiter, mRowDelimiterChar, mBackslashEscape,
               \* mNoTextQualifier
  mIsEOF,
  mIsLastRecordMissRowDelimiter,
  field,       \* field[i]: offset, length and null flag of field i
  mNeedEscapeQualifier,
  mFieldValues,\* mFieldValues[i]: the value read, or NoValue: no flag set
  data,        \* the buffer
  p,           \* the local variables of parseData(), parseData2()
  status,      \* what setData() told: 0, -1: more data, -2: invalid
  record_len,
  input,       \* the buffers setData() is still to be called with
  cleared,     \* auxiliary: clear() was called after the last setData()
  fresh        \* auxiliary: it was called before the last setData()

objVars   == <<conf, mIsEOF>>
valVars   == <<mFieldValues, input, cleared, fresh>>
outVars   == <<mIsLastRecordMissRowDelimiter, status, record_len>>
fieldVars == <<field, mNeedEscapeQualifier>>
vars      == <<objVars, valVars, outVars, fieldVars, data, p>>

Start == [crt_status |-> "eFieldBegin", crtidx |-> 0, pre_field_pos |-> 0,
          field_idx |-> 0, numFields |-> 0, needEscapeQualifier |-> FALSE]

InitWith(inputs) ==
  /\ conf \in [delim : Delims, row : Rows, backslash : Escapes,
              unqualified : Unqualified]
  /\ mIsEOF = FALSE
  /\ mIsLastRecordMissRowDelimiter = FALSE
  /\ field = [i \in Fields |-> [offset |-> 0, len |-> 0, null |-> FALSE]]
  /\ mNeedEscapeQualifier = [i \in Fields |-> FALSE]
  /\ mFieldValues = [i \in Fields |-> NoValue]
  /\ data = <<>>
  /\ p = [Start EXCEPT !.crt_status = "done"]
  /\ status = -1
  /\ record_len = 0
  /\ input \in inputs
  /\ cleared = TRUE
  /\ fresh = TRUE

Init == InitWith(Inputs)

(***************************************************************************)
(* What the caller does between two buffers.                               *)
(***************************************************************************)
Idle == p.crt_status = "done"

MutantCleared == field
Cleared == [i \in Fields |-> [field[i] EXCEPT !.null = FALSE]]

Clear ==
  /\ Idle
  /\ mIsEOF' = FALSE
  /\ mIsLastRecordMissRowDelimiter' = FALSE
  /\ field' = Cleared
  /\ mNeedEscapeQualifier' = [i \in Fields |-> FALSE]
  /\ mFieldValues' = [i \in Fields |-> NoValue]
  /\ record_len' = 0
  /\ cleared' = TRUE
  /\ UNCHANGED <<conf, data, p, status, input, fresh>>

(* The buffer ends where the file does.                                    *)
SetEOF ==
  /\ Idle /\ cleared
  /\ mIsEOF' = TRUE
  /\ UNCHANGED <<conf, valVars, outVars, fieldVars, data, p>>

(* setData() and the beginning of parseData().                             *)
SetData ==
  /\ Idle
  /\ input # <<>>
  /\ input' = Tail(input)
  /\ fresh' = cleared
  /\ cleared' = FALSE
  /\ data' = Head(input)
  /\ p' = Start
  /\ field' = [field EXCEPT ![0].null = FALSE]
  /\ UNCHANGED <<objVars, outVars, mFieldValues, mNeedEscapeQualifier>>

(***************************************************************************)
(* parseData() and parseData2().                                           *)
(***************************************************************************)
Width      == Len(conf.delim)
At(i)      == data[i + 1]
EndsRow(c) == c = conf.row \/ c = CR
InField(s) == p.crt_status = s /\ p.crtidx < Len(data)

(* if (data[crtidx] == 0) data[crtidx] = ' '                               *)
Seen  == IF At(p.crtidx) = Nul THEN Blank ELSE At(p.crtidx)
Clean == data' = [data EXCEPT ![p.crtidx + 1] = Seen]

MutantGoto(s, i) == p' = [p EXCEPT !.crt_status = s]
Goto(s, i)    == p' = [p EXCEPT !.crt_status = s, !.crtidx = i]
SetNull(b)    == field' = [field EXCEPT ![p.field_idx].null = @ \/ b]
Return(st, n) ==
  /\ p' = [p EXCEPT !.crt_status = "done"]
  /\ status' = st
  /\ record_len' = n

(* A delimiter ends with c at position i: parseData2() looks back for it,  *)
(* into the delimiter before the field as well.                            *)
EndsDelim(i, c) ==
  /\ i + 1 >= Width
  /\ SubSeq(data, i - Width + 2, i) \o <<c>> = conf.delim

Opens(c) == c = Qual /\ ~conf.unqualified

FieldBegin ==
  /\ InField("eFieldBegin")
  /\ Clean
  /\ CASE EndsDelim(p.crtidx, Seen) -> Goto("eFieldEnd", p.crtidx)
       [] EndsRow(Seen) -> Goto("eRecordEnd", p.crtidx)
       [] Opens(Seen)   -> Goto("eStrField", p.crtidx + 1)
       [] OTHER         -> Goto("eField", p.crtidx + 1)
  /\ SetNull(EndsDelim(p.crtidx, Seen) \/ EndsRow(Seen))
  /\ UNCHANGED <<objVars, valVars, outVars, mNeedEscapeQualifier>>

Field ==
  /\ InField("eField")
  /\ Clean
  /\ CASE EndsDelim(p.crtidx, Seen) -> Goto("eFieldEnd", p.crtidx)
       [] EndsRow(Seen) -> Goto("eRecordEnd", p.crtidx)
       [] OTHER         -> Goto("eField", p.crtidx + 1)
  /\ SetNull(EndsDelim(p.crtidx, Seen) /\ p.pre_field_pos + Width = p.crtidx + 1)
  /\ UNCHANGED <<objVars, valVars, outVars, mNeedEscapeQualifier>>

(* Inside of qualifiers: any character but one ...                         *)
StrField ==
  /\ InField("eStrField")
  /\ Seen # Qual
  /\ Clean
  /\ Goto("eStrField", p.crtidx + 1)
  /\ UNCHANGED <<objVars, valVars, outVars, fieldVars>>

(* ... a second one after the first: an escape, unless backslash is ...    *)
IsEscape(c) == c = Qual

StrEscape ==
  /\ InField("eStrField")
  /\ Seen = Qual
  /\ p.crtidx + 1 < Len(data) /\ IsEscape(At(p.crtidx + 1))
  /\ p' = [p EXCEPT !.crtidx = @ + 2,
                    !.needEscapeQualifier = @ \/ ~conf.backslash]
  /\ UNCHANGED <<objVars, valVars, outVars, fieldVars, data>>

(* ... or the one that ends the field; nothing but a delimiter may follow. *)
StrEnd ==
  LET i == p.crtidx + 1
      c == At(i) IN
  /\ InField("eStrField")
  /\ Seen = Qual
  /\ i < Len(data) => ~IsEscape(c)
  /\ IF i >= Len(data) THEN Return(-1, -1) /\ UNCHANGED field
     ELSE IF EndsDelim(i, c) \/ EndsRow(c)
     THEN /\ Goto(IF EndsDelim(i, c) THEN "eFieldEnd" ELSE "eRecordEnd", i)
          /\ SetNull(i - p.pre_field_pos = 2 * Width)
          /\ UNCHANGED <<status, record_len>>
     ELSE Return(-2, i + 1) /\ UNCHANGED field
  /\ UNCHANGED <<objVars, valVars, mIsLastRecordMissRowDelimiter, data,
                 mNeedEscapeQualifier>>

(* The field ends before position end.  Between qualifiers it is what they *)
(* enclose, without the two around it, or the whole of it when it has to   *)
(* be unescaped.  parseData2() takes one character more for the last field *)
(* of a record.                                                            *)
IsQualified == ~conf.unqualified /\ At(p.pre_field_pos) = Qual

MutantAround(last) == 0
Around(last) == (IF p.needEscapeQualifier THEN 0 ELSE 2)
                  - (IF last /\ Width > 1 THEN 1 ELSE 0)

StoreField(end, last) ==
  LET i   == p.field_idx
      esc == IsQualified /\ p.needEscapeQualifier IN
  /\ field' = [field EXCEPT ![i] =
       [offset |-> p.pre_field_pos + (IF IsQualified /\ ~esc THEN 1 ELSE 0),
        len    |-> end - p.pre_field_pos - (IF IsQualified THEN Around(last) ELSE 0),
        null   |-> @.null]]
  /\ mNeedEscapeQualifier' = [mNeedEscapeQualifier EXCEPT ![i] = @ \/ esc]

MutantFull == p.field_idx >= FieldsNum
Full == p.field_idx + 1 >= FieldsNum

(* The delimiter found begins before the field: ",,," for ",,".            *)
FoundEarly == p.crtidx + 1 < p.pre_field_pos + Width

FieldEndsEarly ==
  /\ InField("eFieldEnd") /\ FoundEarly
  /\ Clean
  /\ Goto("eFieldBegin", p.crtidx + 1)
  /\ UNCHANGED <<objVars, valVars, outVars, fieldVars>>

FieldEnd ==
  /\ InField("eFieldEnd") /\ ~FoundEarly
  /\ Clean
  /\ StoreField(p.crtidx + 1 - Width, FALSE)
  /\ IF Full
       THEN Return(-2, p.crtidx + 1)
       ELSE /\ p' = [crt_status |-> "eFieldBegin",
                     crtidx |-> p.crtidx + 1,
                     pre_field_pos |-> p.crtidx + 1,
                     field_idx |-> p.field_idx + 1,
                     numFields |-> p.numFields + 1,
                     needEscapeQualifier |-> FALSE]
            /\ UNCHANGED <<status, record_len>>
  /\ UNCHANGED <<objVars, valVars, mIsLastRecordMissRowDelimiter>>

(* A \r must be followed by \n, whatever the row delimiter; then there are *)
(* enough fields or not.                                                   *)
MutantEnough == p.numFields < FieldsNum
Enough == p.numFields + 1 = FieldsNum

RecordEnd ==
  LET cr   == Seen = CR
      last == IF cr THEN p.crtidx + 1 ELSE p.crtidx IN
  /\ InField("eRecordEnd")
  /\ Clean
  /\ IF last >= Len(data) THEN Return(-1, -1) /\ UNCHANGED fieldVars
     ELSE IF cr /\ At(last) # LF THEN Return(-2, last + 1) /\ UNCHANGED fieldVars
     ELSE IF ~Enough THEN Return(-2, last + 1) /\ UNCHANGED fieldVars
     ELSE Return(0, last + 1) /\ StoreField(p.crtidx, TRUE)
  /\ UNCHANGED <<objVars, valVars, mIsLastRecordMissRowDelimiter>>

(* The data are used up: the last line of a file may do without its row    *)
(* delimiter.  Its last field is not stored here.                          *)
LastLine == p.numFields + 1 = FieldsNum /\ mIsEOF

UsedUp ==
  /\ ~Idle
  /\ p.crtidx >= Len(data)
  /\ IF LastLine THEN Return(0, p.crtidx) ELSE Return(-1, -1)
  /\ mIsLastRecordMissRowDelimiter' = (mIsLastRecordMissRowDelimiter \/ LastLine)
  /\ UNCHANGED <<objVars, valVars, fieldVars, data>>

(***************************************************************************)
(* getFieldValue().                                                        *)
(***************************************************************************)
(* OmnString::replace() of two qualifiers by one, from left to right: what *)
(* becomes of the last n characters.                                       *)
Halved(s) ==
  LET last[n \in 0 .. Len(s)] ==
        LET i == Len(s) - n + 1 IN
        IF n = 0 THEN <<>>
        ELSE IF n > 1 /\ s[i] = Qual /\ s[i + 1] = Qual THEN <<Qual>> \o last[n - 2]
        ELSE <<s[i]>> \o last[n - 1]
  IN  last

Halve(s) == Halved(s)[Len(s)]

(* getValueFromRecord(): the bytes of the field, or null.  Of a last line  *)
(* the last field is where an earlier record had it, maybe outside of this *)
(* buffer: what is read there is Unknown.                                  *)
Inside(i) == field[i].offset + field[i].len <= Len(data)
Raw(i)    == SubSeq(data, field[i].offset + 1, field[i].offset + field[i].len)

Inner(s) == SubSeq(s, 2, Len(s) - 1)

(* Too short a text is not unescaped: an assertion fails, but the value is *)
(* kept all the same.                                                      *)
Unescapes(i) ==
  mNeedEscapeQualifier[i] /\ ~field[i].null /\ field[i].len > 2

ReadValue(i) ==
  IF field[i].null THEN Null
  ELSE IF ~Inside(i) THEN Unknown
  ELSE IF Unescapes(i) THEN Halve(Inner(Raw(i))) ELSE Raw(i)

(* A value is read once and kept; a text of qualifiers is unescaped then.  *)
GetFieldValue(i) ==
  /\ Idle /\ ~cleared /\ status = 0
  /\ mFieldValues[i] = NoValue
  /\ mFieldValues' = [mFieldValues EXCEPT ![i] = ReadValue(i)]
  /\ mNeedEscapeQualifier' =
       [mNeedEscapeQualifier EXCEPT ![i] = @ /\ ~Unescapes(i)]
  /\ UNCHANGED <<objVars, outVars, field, data, p, input, cleared, fresh>>

Parse == FieldBegin \/ Field \/ StrField \/ StrEscape \/ StrEnd
           \/ FieldEndsEarly \/ FieldEnd \/ RecordEnd \/ UsedUp

Next ==
  \/ Clear
  \/ SetEOF
  \/ SetData
  \/ Parse
  \/ \E i \in Fields : GetFieldValue(i)

Spec == Init /\ [][Next]_vars /\ WF_vars(Parse)

(***************************************************************************)
(* What a record is: the comment at CSVParser.cpp:547-559, made precise.   *)
(***************************************************************************)
DelimAt(s, i) ==
  i + Width - 1 <= Len(s) /\ \A k \in 1 .. Width : s[i + k - 1] = conf.delim[k]

(* Without qualifiers: nothing that ends a field, and no qualifier in      *)
(* front.  With qualifiers around it: anything, with qualifiers in pairs.  *)
PlainField(s) ==
  /\ \A i \in DOMAIN s : ~DelimAt(s, i) /\ ~EndsRow(s[i])
  /\ s = <<>> \/ s[1] # Qual \/ conf.unqualified

(* The qualifiers from i to j are all there are around them.               *)
Run(s, i, j) ==
  /\ i <= j /\ \A k \in i .. j : s[k] = Qual
  /\ i > 1 => s[i - 1] # Qual
  /\ j < Len(s) => s[j + 1] # Qual

InPairs(s) == \A i, j \in DOMAIN s : Run(s, i, j) => (j - i) % 2 = 1

QualifiedField(s) ==
  /\ ~conf.unqualified
  /\ Len(s) >= 2 /\ s[1] = Qual /\ s[Len(s)] = Qual
  /\ InPairs(Inner(s))

ValueOf(s) ==
  LET t == IF ~QualifiedField(s) THEN s
           ELSE IF conf.backslash THEN Inner(s) ELSE Halve(Inner(s))
  IN  IF t = <<>> THEN Null ELSE t

(* Where the fields of s end when its delimiters are those at c: field i   *)
(* is between c[i] and c[i + 1].                                           *)
Piece(s, c, i) == SubSeq(s, c[i] + Width, c[i + 1] - 1)

Bounds(s) == {1 - Width, Len(s) + 1} \cup {i \in DOMAIN s : DelimAt(s, i)}

(* The ways to cut s into fields, with qualifiers in those of texts only.  *)
Cuts(s, texts) ==
  {c \in [0 .. FieldsNum -> Bounds(s)] :
     /\ c[0] = 1 - Width /\ c[FieldsNum] = Len(s) + 1
     /\ \A i \in Fields :
          /\ c[i] + Width <= c[i + 1]
          /\ LET f == Piece(s, c, i) IN
             PlainField(f) \/ (i \in texts /\ QualifiedField(f))}

RowEnds == {<<CR, LF>>} \cup (IF conf.row = LF THEN {<<LF>>} ELSE {})

(* s is a record, row delimiter included.                                  *)
EndsWith(s, e) == Len(s) >= Len(e) /\ SubSeq(s, Len(s) - Len(e) + 1, Len(s)) = e
Body(s, e)     == SubSeq(s, 1, Len(s) - Len(e))

IsRecordWith(s, texts) ==
  \E e \in RowEnds : EndsWith(s, e) /\ Cuts(Body(s, e), texts) # {}
IsRecord(s) == IsRecordWith(s, Fields)

Delimiters[n \in 0 .. FieldsNum] ==
  IF n = 0 THEN <<>> ELSE Delimiters[n - 1] \o conf.delim

(* parseData2() refuses a text that a delimiter follows (see               *)
(* TextsAreFields), so those are left out of what it accepts; and what it  *)
(* does with a delimiter that overlaps itself has no rule.                 *)
Texts     == IF Width = 1 THEN Fields ELSE {FieldsNum - 1}
Separable == \A n \in 1 .. Width - 1 :
               SubSeq(conf.delim, 1, n) # SubSeq(conf.delim, Width - n + 1, Width)

Told(st) == Idle /\ ~cleared /\ status = st
Complete == Told(0) /\ ~mIsLastRecordMissRowDelimiter

(***************************************************************************)
(* Properties.                                                             *)
(***************************************************************************)
(* Types; the parser stays within its buffer and its fields, whatever they *)
(* hold: every data[crtidx], mFieldsRaw[field_idx] of the loop exists.     *)
TypeOK ==
  /\ conf \in [delim : Delims, row : {LF, CR}, backslash : BOOLEAN,
              unqualified : BOOLEAN]
  /\ mIsEOF \in BOOLEAN /\ mIsLastRecordMissRowDelimiter \in BOOLEAN
  /\ field \in [Fields -> [offset : Nat, len : Nat, null : BOOLEAN]]
  /\ mNeedEscapeQualifier \in [Fields -> BOOLEAN]
  /\ data \in Seq(Chars)
  /\ p \in [crt_status : {"done", "eFieldBegin", "eField", "eStrField",
                          "eFieldEnd", "eRecordEnd"},
            crtidx : 0 .. Len(data), pre_field_pos : 0 .. Len(data),
            field_idx : Fields, numFields : Fields,
            needEscapeQualifier : BOOLEAN]
  /\ status \in {0, -1, -2}
  /\ record_len \in Int
  /\ input \in Seq(Seq(Chars) \ {<<>>})
  /\ cleared \in BOOLEAN /\ fresh \in BOOLEAN

(* What a field is said to be lies in the record that was accepted, and    *)
(* the caller gets ahead: a record, valid or not, is at least one          *)
(* character, and none behind the buffer (657-779, 934-1043).              *)
StaysInside ==
  /\ Told(0) \/ Told(-2) => record_len \in 1 .. Len(data)
  /\ Complete =>
       \A i \in Fields :
         field[i].offset + field[i].len <= record_len - (IF Width = 1 THEN 1 ELSE 0)

(* A buffer begins with a record, as the comment defines it, exactly when  *)
(* setData() tells 0; the record is the one it found, and no \000 is left  *)
(* in it (558-559).  It asks for more data only when more data can make a  *)
(* record: the end of a text, the other delimiters and the end of the row; *)
(* or when it has to see what follows a \r before it refuses the row       *)
(* (708-728, 977-997).                                                     *)
AcceptsRecords ==
  Separable =>
    /\ Complete => LET r == SubSeq(data, 1, record_len) IN
         IsRecordWith(r, Texts) /\ Nul \notin Range(r)
    /\ Told(-1) \/ Told(-2) =>
         \A n \in DOMAIN data : ~IsRecordWith(SubSeq(data, 1, n), Texts)
    /\ Told(-1) =>
         \/ Last(data) = CR
         \/ \E a \in {<<>>, <<Qual>>}, n \in 0 .. FieldsNum - 1, e \in RowEnds :
              IsRecord(data \o a \o Delimiters[n] \o e)

(* If clear() was called before setData(), every value read is the field's *)
(* of this buffer: its text without the qualifiers, escapes undone, null   *)
(* when it is empty, whatever the fields of earlier buffers were.  Texts   *)
(* in a record with a longer delimiter are left out.                       *)
ValuesAreFields ==
  Complete /\ fresh /\ Separable =>
    LET r == SubSeq(data, 1, record_len) IN
    \A e \in RowEnds : EndsWith(r, e) =>
      \A c \in Cuts(Body(r, e), Fields), i \in Fields :
        LET f == Piece(Body(r, e), c, i) IN
        \/ mFieldValues[i] \in {NoValue, ValueOf(f)}
        \/ Width > 1 /\ QualifiedField(f)

(* The loop ends.                                                          *)
ParseEnds == ~Idle ~> Idle

(* The comment at line 787: the last line of the file is allowed to miss   *)
(* its row delimiter.                                                      *)
LastLineMayMissDelimiter ==
  Told(-1) /\ mIsEOF => Cuts(data, Fields) = {}

(* The comment in parseData2() at lines 814-816: a text may be a field of  *)
(* a correct record, in front of a delimiter too.                          *)
TextsAreFields ==
  Told(-2) => \A n \in DOMAIN data : ~IsRecord(SubSeq(data, 1, n))

=============================================================================
