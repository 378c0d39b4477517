----------------------------- MODULE CsvWriter -----------------------------
(***************************************************************************)
(* AosRecordCSV::setFieldValue() (src/src/DataParser/CSVParser.cpp): a     *)
(* record is written, field by field, into memory of the caller's; then it *)
(* is given to another record object that reads it (CsvRecord).  All the   *)
(* fields are strings and none is virtual.                                 *)
(*                                                                         *)
(* A field is written in chunks, each after a check that there is room.    *)
(* When there is none the call returns with what it wrote so far behind    *)
(* mCrtRcdLen; the caller gets more memory and calls again.                *)
(***************************************************************************)
EXTENDS CsvRecord

CONSTANTS Backslash, Values,    \* the texts a field is set to, or Null
          Trims,                \* the values of mTrimCondition
          Sizes                 \* the sizes the caller's memory can have

ASSUME WriterAssumption ==
  /\ Backslash \in Chars \ {LF, CR, Qual, Nul, Blank}
  /\ Values \subseteq Seq(Chars) \cup {Null}
  /\ Trims \subseteq {"eInvalid", "eAll", "eHead", "eTail", "eNull"}
  /\ Sizes \subseteq Nat \ {0}

VARIABLES
  mTrimCondition,
  mMemory,      \* up to the last byte written
  mMemLen,
  mCrtRcdLen, mCrtFieldIdx,
  outofmem,     \* the result of the last call
  value,        \* value[i]: what the caller wants in field i
  phase         \* "idle": nothing to write; "writing"; "sent" to the reader;
                \* "overrun": what lies behind the memory is overwritten, and
                \* what the program does next is not defined

writer == <<mTrimCondition, mMemory, mMemLen, mCrtRcdLen, mCrtFieldIdx,
            outofmem, value, phase>>

(* Buffers for the reader come from elsewhere, or a record is written.     *)
WriterInit ==
  /\ mMemory = <<>> /\ mCrtRcdLen = 0 /\ mCrtFieldIdx = 0
  /\ outofmem = FALSE
  /\ \/ /\ Init
        /\ phase = "idle"
        /\ mTrimCondition = "eInvalid" /\ mMemLen = 0
        /\ value = [i \in Fields |-> Null]
     \/ /\ InitWith({<<>>})
        /\ phase = "writing"
        /\ mTrimCondition \in Trims /\ mMemLen \in Sizes
        /\ value \in [Fields -> Values]

(***************************************************************************)
(* What is written.  removeWhiteSpaces() and its like are OmnString's.     *)
(***************************************************************************)
IsSpace(c) == c \in {Blank, LF, CR}

Stripped(s, head, tail) ==
  LET text == {i \in DOMAIN s : ~IsSpace(s[i])} IN
  IF text = {} THEN <<>>
  ELSE SubSeq(s, IF head THEN Min(text) ELSE 1,
                 IF tail THEN Max(text) ELSE Len(s))

Trimmed(v) ==
  IF v = Null THEN Null
  ELSE CASE mTrimCondition = "eInvalid" -> v
         [] mTrimCondition = "eAll"  ->
              FlattenSeq([i \in DOMAIN v |->
                            IF IsSpace(v[i]) THEN <<>> ELSE <<v[i]>>])
         [] mTrimCondition = "eHead" -> Stripped(v, TRUE, FALSE)
         [] mTrimCondition = "eTail" -> Stripped(v, FALSE, TRUE)
         [] mTrimCondition = "eNull" ->
              LET s == Stripped(v, FALSE, TRUE) IN IF s = <<>> THEN Null ELSE s

Escaped(s) ==
  LET escape == IF conf.backslash THEN Backslash ELSE Qual IN
  FlattenSeq([i \in DOMAIN s |-> IF s[i] = Qual /\ ~conf.unqualified
                                   THEN <<escape, Qual>> ELSE <<s[i]>>])

(* A chunk, and the room there has to be for it and one byte more.  For a  *)
(* delimiter it is one, however long it is: one of three characters or     *)
(* more can be copied past the end of the memory (352-365).                *)
Chunk(s, n) == [text |-> s, room |-> n]
Whole(s)    == Chunk(s, Len(s))
Qualifier   == IF conf.unqualified THEN <<>> ELSE <<Whole(<<Qual>>)>>
RowDelimiter == IF conf.row = CR THEN <<CR, LF>> ELSE <<LF>>

Chunks(i, v) ==
  (IF i # 0 THEN <<Chunk(conf.delim, 1)>> ELSE <<>>)
    \o (IF v = Null THEN <<>>
        ELSE Qualifier \o <<Whole(Escaped(v))>> \o Qualifier)
    \o (IF i = FieldsNum - 1 THEN <<Whole(RowDelimiter)>> ELSE <<>>)

Bytes(cs) == FlattenSeq([k \in DOMAIN cs |-> cs[k].text])

(* The chunks that fit behind a record of n bytes.                         *)
Fits(cs, n, k) ==
  n + Len(Bytes(SubSeq(cs, 1, k - 1))) + cs[k].room < mMemLen

Fitting(cs, n) ==
  SubSeq(cs, 1, Max({k \in 0 .. Len(cs) : \A j \in 1 .. k : Fits(cs, n, j)}))

MutantOffset == Len(mMemory)
Offset == mCrtRcdLen

SetFieldValue ==
  LET i    == mCrtFieldIdx
      cs   == Chunks(i, Trimmed(value[i]))
      fits == Fitting(cs, Offset) IN
  /\ phase = "writing" /\ ~outofmem
  /\ i < FieldsNum
  /\ mMemory' = SubSeq(mMemory, 1, Offset) \o Bytes(fits)
  /\ outofmem' = (fits # cs)
  /\ IF outofmem' THEN UNCHANGED <<mCrtRcdLen, mCrtFieldIdx>>
     ELSE mCrtRcdLen' = Len(mMemory') /\ mCrtFieldIdx' = i + 1
  /\ phase' = IF Len(mMemory') > mMemLen THEN "overrun" ELSE "writing"
  /\ UNCHANGED <<vars, mTrimCondition, mMemLen, value>>

(* The caller gets more memory and calls again: the loop around            *)
(* setFieldValue() is the caller's, and not in this repository.            *)
Grow ==
  /\ phase = "writing" /\ outofmem
  /\ \E n \in Sizes : n > mMemLen /\ mMemLen' = n
  /\ outofmem' = FALSE
  /\ UNCHANGED <<vars, mTrimCondition, mMemory, mCrtRcdLen, mCrtFieldIdx,
                 value, phase>>

(* flush() asserts that all the fields were set.                           *)
Send ==
  /\ phase = "writing" /\ mCrtFieldIdx = FieldsNum
  /\ phase' = "sent"
  /\ input' = <<SubSeq(mMemory, 1, mCrtRcdLen)>>
  /\ UNCHANGED <<objVars, mFieldValues, cleared, fresh, outVars, fieldVars, data,
                 p, mTrimCondition, mMemory, mMemLen, mCrtRcdLen,
                 mCrtFieldIdx, outofmem, value>>

WriterNext ==
  \/ SetFieldValue
  \/ Grow
  \/ Send
  \/ (phase \in {"idle", "sent"} /\ Next /\ UNCHANGED writer)

WriterSpec == WriterInit /\ [][WriterNext]_<<vars, writer>>
                /\ WF_<<vars, writer>>(Parse /\ UNCHANGED writer)

(***************************************************************************)
(* Properties.                                                             *)
(***************************************************************************)
(* What the parser can read back: no \000, which it takes for a blank;      *)
(* without qualifiers a value that has no delimiter in it; with them any,  *)
(* unless backslash is the escape, which parseData() does not know, or a   *)
(* text has a longer delimiter.                                            *)
Readable(v) ==
  v # Null =>
    /\ Nul \notin Range(v)
    /\ IF conf.unqualified THEN PlainField(v)
       ELSE Width = 1 /\ (conf.backslash => Qual \notin Range(v))

(* What is written is read back: whatever memory there was and however     *)
(* often a field was written again for want of it, the reader takes all    *)
(* the bytes as one record and gets the trimmed values, with the empty     *)
(* text read as null (331-469, 528-1070).  And no call writes behind the   *)
(* memory it has, unless the delimiter has three characters or more, for   *)
(* which the check at 352 is too small.                                    *)
RoundTrip ==
  /\ phase = "overrun" => Width > 2
  /\ phase = "sent" /\ Separable
       /\ (\A i \in Fields : Readable(Trimmed(value[i]))) =>
       /\ ~Told(-1) /\ ~Told(-2)
       /\ Complete =>
            /\ record_len = Len(data)
            /\ \A i \in Fields :
                 LET v == Trimmed(value[i]) IN
                 mFieldValues[i] \in {NoValue, IF v = <<>> THEN Null ELSE v}
=============================================================================
