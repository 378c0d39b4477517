-------------------------- MODULE CsvRecordProofs --------------------------
(***************************************************************************)
(* Proofs about CsvRecord, for any buffers, delimiters and fields, and     *)
(* about CsvWriter: what is written is read back.                          *)
(***************************************************************************)
EXTENDS CsvWriter, FiniteSetTheorems, SequenceTheorems, WellFoundedInduction, TLAPS

Parsing == {"eFieldBegin", "eField", "eStrField", "eFieldEnd", "eRecordEnd"}

(* The field begins with a qualifier that counts.                          *)
Quoted == ~conf.unqualified /\ data[p.pre_field_pos + 1] = Qual

(***************************************************************************)
(* Where the parser is: a field that begins with a qualifier is behind     *)
(* both of its qualifiers when it ends, and was ended by a delimiter of    *)
(* one character if by any.                                                *)
(***************************************************************************)
PosInv ==
  /\ p.pre_field_pos <= p.crtidx
  /\ p.crt_status \in Parsing => Len(data) > 0 /\ p.field_idx = p.numFields
  /\ p.crt_status = "eFieldBegin" => p.crtidx = p.pre_field_pos \/ ~Quoted
  /\ p.crt_status = "eField"      => p.crtidx > p.pre_field_pos /\ ~Quoted
  /\ p.crt_status = "eStrField"   => p.crtidx > p.pre_field_pos
  /\ p.crt_status \in {"eFieldEnd", "eRecordEnd"} =>
       /\ p.crtidx < Len(data)
       /\ Quoted => p.crtidx >= p.pre_field_pos + 2
  /\ p.crt_status = "eFieldEnd" => (Quoted => Width = 1)

(* The fields before the one the parser is in end before it.               *)
FieldInv ==
  p.crt_status \in Parsing =>
    \A i \in Fields : i < p.field_idx => field[i].offset + field[i].len < p.pre_field_pos

Inv == TypeOK /\ PosInv /\ FieldInv /\ StaysInside

FieldRec  == [offset : Nat, len : Nat, null : BOOLEAN]
Locals(n) == [crt_status : {"done"} \cup Parsing, crtidx : 0 .. n,
              pre_field_pos : 0 .. n, field_idx : Fields, numFields : Fields,
              needEscapeQualifier : BOOLEAN]

LEMMA Types ==
  ASSUME TypeOK
  PROVE  /\ p \in Locals(Len(data)) /\ field \in [Fields -> FieldRec]
         /\ data \in Seq(Chars) /\ Len(data) \in Nat
         /\ conf.delim \in Seq(Chars \ {LF, CR, Qual, Nul}) /\ Width \in Nat \ {0}
PROOF
<1>1. p \in Locals(Len(data)) /\ field \in [Fields -> FieldRec]
  BY DEF TypeOK, Locals, FieldRec, Parsing
<1>2. data \in Seq(Chars) /\ Len(data) \in Nat
  BY DEF TypeOK
<1>3. conf.delim \in Delims
  BY DEF TypeOK
<1>4. conf.delim \in Seq(Chars \ {LF, CR, Qual, Nul}) /\ conf.delim # <<>>
  BY <1>3, CharsAssumption
<1>5. Width \in Nat \ {0}
  BY <1>4, EmptySeq DEF Width
<1>6. QED  BY <1>1, <1>2, <1>4, <1>5

(***************************************************************************)
(* A turn cleans one character: no qualifier comes or goes.                *)
(***************************************************************************)
LEMMA Cleaning ==
  ASSUME TypeOK, p.crtidx < Len(data)
  PROVE  /\ p.crtidx + 1 \in 1 .. Len(data)
         /\ Seen \in Chars /\ (Seen = Qual <=> data[p.crtidx + 1] = Qual)
         /\ Clean => /\ data' \in Seq(Chars) /\ Len(data') = Len(data)
                     /\ \A i \in 1 .. Len(data) : data'[i] = Qual <=> data[i] = Qual
PROOF
<1>1. data \in Seq(Chars) /\ p.crtidx + 1 \in 1 .. Len(data)
  BY Types DEF Locals
<1>2. data[p.crtidx + 1] \in Chars
  BY <1>1
<1>3. Blank \in Chars /\ Nul # Qual /\ Blank # Qual
  BY CharsAssumption
<1>4. Seen \in Chars /\ (Seen = Qual <=> data[p.crtidx + 1] = Qual)
  BY <1>2, <1>3 DEF Seen, At
<1>5. ASSUME Clean
      PROVE  /\ data' \in Seq(Chars) /\ Len(data') = Len(data)
             /\ \A i \in 1 .. Len(data) : data'[i] = Qual <=> data[i] = Qual
  BY <1>1, <1>4, <1>5 DEF Clean
<1>6. QED  BY <1>1, <1>4, <1>5

(***************************************************************************)
(* A delimiter ends with what is neither a qualifier nor the end of a row, *)
(* and there is no qualifier in it.                                        *)
(***************************************************************************)
LEMMA DelimEnds ==
  ASSUME TypeOK, NEW i \in Nat, i < Len(data), NEW c \in Chars, EndsDelim(i, c)
  PROVE  /\ c \notin {LF, CR, Qual, Nul}
         /\ i > 0 /\ data[i] = Qual => Width = 1
PROOF
<1> DEFINE C == Chars \ {LF, CR, Qual, Nul}
           m == i - Width + 2
           s == SubSeq(data, m, i)
           d == conf.delim
<1>1. /\ d \in Seq(C) /\ Width \in Nat \ {0} /\ Len(d) = Width
      /\ data \in Seq(Chars) /\ Len(data) \in Nat
  BY Types DEF Width
<1>2. i + 1 >= Width /\ s \o <<c>> = d
  BY DEF EndsDelim
<1>3. m \in Int /\ i \in Int /\ \A k \in m .. i : data[k] \in Chars
  <2>1. m \in Int /\ m >= 1  BY <1>1, <1>2
  <2>2. \A k \in 1 .. Len(data) : data[k] \in Chars  BY <1>1, ElementOfSeq
  <2>3. \A k \in m .. i : k \in 1 .. Len(data)
    <3> HIDE DEF m
    <3>1. QED  BY <1>1, <2>1
  <2>4. QED  BY <2>1, <2>2, <2>3
<1>4. /\ s \in Seq(Chars)
      /\ Len(s) = IF m <= i THEN i - m + 1 ELSE 0
      /\ \A k \in 1 .. i - m + 1 : s[k] = data[m + k - 1]
  <2> HIDE DEF m
  <2>1. QED  BY <1>3, SubSeqProperties
<1>5. Len(s) = Width - 1
  <2> HIDE DEF s
  <2>1. QED  BY <1>1, <1>2, <1>4
<1>6. /\ d[Width] = c
      /\ \A k \in 1 .. Width - 1 : d[k] = s[k]
  <2> HIDE DEF s
  <2>1. <<c>> \in Seq(Chars) /\ Len(<<c>>) = 1 /\ <<c>>[1] = c  OBVIOUS
  <2>2. \A k \in 1 .. Len(s) + 1 :
          (s \o <<c>>)[k] = IF k <= Len(s) THEN s[k] ELSE <<c>>[k - Len(s)]
    BY <1>4, <2>1, ConcatProperties
  <2>3. QED  BY <1>1, <1>2, <1>5, <2>1, <2>2
<1>7. \A k \in 1 .. Width : d[k] \in C
  BY <1>1, ElementOfSeq
<1>8. c \in C
  <2> HIDE DEF d, C
  <2>1. QED  BY <1>1, <1>6, <1>7
<1>9. ASSUME i > 0, data[i] = Qual, Width # 1 PROVE FALSE
  <2>1. Width - 1 \in 1 .. Width - 1 /\ Width - 1 \in 1 .. Width
        /\ i - m + 1 = Width - 1 /\ m + (Width - 1) - 1 = i
    BY <1>1, <1>9
  <2>2. s[Width - 1] = data[i]
    <3> HIDE DEF m, s
    <3>1. QED  BY <1>4, <2>1
  <2>3. d[Width - 1] = Qual
    <3> HIDE DEF m, s, d
    <3>1. QED  BY <1>6, <1>9, <2>1, <2>2
  <2>4. d[Width - 1] \in C
    <3> HIDE DEF m, s, d, C
    <3>1. QED  BY <1>7, <2>1
  <2>5. QED  BY <2>3, <2>4
<1>10. QED  BY <1>8, <1>9

LEMMA GotoTypes ==
  ASSUME NEW n \in Nat, p \in Locals(n), NEW s \in Parsing, NEW i \in 0 .. n, Goto(s, i)
  PROVE  /\ p' \in Locals(n)
         /\ p'.crt_status = s /\ p'.crtidx = i
         /\ p'.pre_field_pos = p.pre_field_pos
         /\ p'.field_idx = p.field_idx /\ p'.numFields = p.numFields
BY Zenon DEF Goto, Locals

LEMMA NullTypes ==
  ASSUME field \in [Fields -> FieldRec], p.field_idx \in Fields, NEW b \in BOOLEAN, SetNull(b)
  PROVE  /\ field' \in [Fields -> FieldRec]
         /\ \A i \in Fields : field'[i].offset = field[i].offset /\ field'[i].len = field[i].len
PROOF
<1> DEFINE k == p.field_idx
           b1 == field[k].null \/ b
<1>1. field' = [field EXCEPT ![k].null = b1]
  BY Zenon DEF SetNull
<1>2. b1 \in BOOLEAN
  BY DEF FieldRec
<1>3. QED
  <2> HIDE DEF b1
  <2>1. QED  BY <1>1, <1>2 DEF FieldRec

(***************************************************************************)
(* A turn that goes on within the field.                                   *)
(***************************************************************************)
SameQualifiers ==
  /\ data' \in Seq(Chars) /\ Len(data') = Len(data)
  /\ \A i \in 1 .. Len(data) : data'[i] = Qual <=> data[i] = Qual

Moves ==
  /\ p.crt_status \in Parsing /\ p.crtidx < Len(data) /\ SameQualifiers
  /\ p' \in Locals(Len(data)) /\ p'.crt_status \in Parsing
  /\ p'.pre_field_pos = p.pre_field_pos
  /\ p'.field_idx = p.field_idx /\ p'.numFields = p.numFields
  /\ field' \in [Fields -> FieldRec]
  /\ \A i \in Fields : field'[i].offset = field[i].offset /\ field'[i].len = field[i].len
  /\ UNCHANGED <<objVars, valVars, outVars, mNeedEscapeQualifier>>

LEMMA MovesKeep ==
  ASSUME Inv, Moves
  PROVE  /\ TypeOK' /\ FieldInv' /\ StaysInside'
         /\ Quoted' <=> Quoted
         /\ Width' = Width
         /\ Len(data') > 0 /\ p'.field_idx = p'.numFields
PROOF
<1>1. TypeOK'
  BY DEF Inv, TypeOK, Moves, SameQualifiers, Locals, FieldRec, Parsing,
         objVars, valVars, outVars
<1>2. FieldInv'
  BY DEF Inv, FieldInv, Moves
<1>3. p'.crt_status # "done" /\ StaysInside'
  BY DEF Moves, Parsing, StaysInside, Complete, Told, Idle
<1>4. conf' = conf
  BY DEF Moves, objVars
<1>5. p.pre_field_pos + 1 \in 1 .. Len(data)
  BY Types DEF Inv, PosInv, Moves, Locals
<1>6. Quoted' <=> Quoted
  <2>1. data'[p.pre_field_pos + 1] = Qual <=> data[p.pre_field_pos + 1] = Qual
    BY <1>5 DEF Moves, SameQualifiers
  <2>2. p'.pre_field_pos = p.pre_field_pos
    BY DEF Moves
  <2>3. QED  BY <1>4, <2>1, <2>2 DEF Quoted
<1>7. Width' = Width
  BY <1>4 DEF Width
<1>8. Len(data') > 0 /\ p'.field_idx = p'.numFields
  BY DEF Inv, PosInv, Moves, SameQualifiers
<1>9. QED  BY <1>1, <1>2, <1>3, <1>6, <1>7, <1>8

(***************************************************************************)
(* A turn that returns.                                                    *)
(***************************************************************************)
LEMMA ReturnKeeps ==
  ASSUME Inv, p.crt_status \in Parsing,
         NEW st \in {0, -1, -2}, NEW n \in Int, Return(st, n),
         SameQualifiers,
         field' \in [Fields -> FieldRec],
         mNeedEscapeQualifier' \in [Fields -> BOOLEAN],
         mIsLastRecordMissRowDelimiter' \in BOOLEAN,
         UNCHANGED <<objVars, valVars>>,
         st # -1 => n \in 1 .. Len(data),
         st = 0 /\ ~mIsLastRecordMissRowDelimiter' =>
           \A i \in Fields :
             field'[i].offset + field'[i].len <= n - (IF Width = 1 THEN 1 ELSE 0)
  PROVE  Inv'
PROOF
<1>1. /\ p' = [p EXCEPT !.crt_status = "done"] /\ status' = st /\ record_len' = n
      /\ UNCHANGED <<conf, mIsEOF, mFieldValues, input, cleared, fresh>>
  BY DEF Return, objVars, valVars
<1>2. p' \in Locals(Len(data)) /\ p'.crt_status = "done"
      /\ p'.pre_field_pos = p.pre_field_pos /\ p'.crtidx = p.crtidx
  BY <1>1, Types DEF Inv, Locals
<1>3. TypeOK'
  <2>1. /\ conf' \in [delim : Delims, row : {LF, CR}, backslash : BOOLEAN,
                     unqualified : BOOLEAN]
        /\ mIsEOF' \in BOOLEAN /\ input' \in Seq(Seq(Chars) \ {<<>>})
        /\ cleared' \in BOOLEAN /\ fresh' \in BOOLEAN
    BY <1>1 DEF Inv, TypeOK
  <2>2. QED  BY <1>1, <1>2, <2>1 DEF TypeOK, SameQualifiers, Locals, FieldRec, Parsing
<1>4. PosInv' /\ FieldInv'
  BY <1>2 DEF Inv, PosInv, FieldInv, Parsing
<1>5. StaysInside'
  <2>1. Len(data') = Len(data) /\ Width' = Width
    BY <1>1 DEF SameQualifiers, Width
  <2>2. Told(0)' \/ Told(-2)' => st # -1
    BY <1>1 DEF Told
  <2>3. Complete' => st = 0 /\ ~mIsLastRecordMissRowDelimiter'
    BY <1>1 DEF Complete, Told
  <2>4. QED  BY <1>1, <2>1, <2>2, <2>3 DEF StaysInside
<1>6. QED  BY <1>3, <1>4, <1>5 DEF Inv

(***************************************************************************)
(* The turns of the loop.                                                  *)
(***************************************************************************)
(* Cleans the character, and goes to s at it or behind it.                 *)
LEMMA CleanGoto ==
  ASSUME Inv, p.crt_status \in Parsing, p.crtidx < Len(data), Clean,
         NEW s \in Parsing, NEW i \in {p.crtidx, p.crtidx + 1}, Goto(s, i),
         field' \in [Fields -> FieldRec],
         \A k \in Fields : field'[k].offset = field[k].offset /\ field'[k].len = field[k].len,
         UNCHANGED <<objVars, valVars, outVars, mNeedEscapeQualifier>>
  PROVE  Moves /\ p'.crt_status = s /\ p'.crtidx = i
PROOF
<1>1. p \in Locals(Len(data)) /\ Len(data) \in Nat
  BY Types DEF Inv
<1>2. i \in 0 .. Len(data)
  BY <1>1 DEF Locals
<1>3. /\ p' \in Locals(Len(data)) /\ p'.crt_status = s /\ p'.crtidx = i
      /\ p'.pre_field_pos = p.pre_field_pos
      /\ p'.field_idx = p.field_idx /\ p'.numFields = p.numFields
  BY <1>1, <1>2, GotoTypes
<1>4. SameQualifiers
  BY Cleaning DEF Inv, SameQualifiers
<1>5. QED  BY <1>3, <1>4 DEF Moves

(* A field that begins with another character than a qualifier.            *)
LEMMA Unquoted ==
  ASSUME Inv, p.crt_status = "eFieldBegin", p.crtidx < Len(data),
         Seen # Qual \/ conf.unqualified
  PROVE  ~Quoted
PROOF
<1>1. Seen = Qual <=> data[p.crtidx + 1] = Qual
  BY Cleaning DEF Inv
<1>2. QED  BY <1>1 DEF Inv, PosInv, Quoted

LEMMA FieldBeginStep ==
  ASSUME Inv, FieldBegin
  PROVE  Inv'
PROOF
<1> DEFINE delim == EndsDelim(p.crtidx, Seen)
<1>1. /\ p.crt_status = "eFieldBegin" /\ p.crtidx < Len(data) /\ Clean
      /\ SetNull(delim \/ EndsRow(Seen))
      /\ UNCHANGED <<objVars, valVars, outVars, mNeedEscapeQualifier>>
  BY DEF FieldBegin, InField
<1>2. /\ p \in Locals(Len(data)) /\ field \in [Fields -> FieldRec] /\ Seen \in Chars
      /\ p.crtidx \in Nat /\ p.pre_field_pos \in Nat /\ p.field_idx \in Fields
      /\ Len(data) \in Nat
  BY <1>1, Types, Cleaning DEF Inv, Locals
<1>3. /\ field' \in [Fields -> FieldRec]
      /\ \A k \in Fields : field'[k].offset = field[k].offset /\ field'[k].len = field[k].len
  <2> DEFINE b == delim \/ EndsRow(Seen)
  <2>1. b \in BOOLEAN  OBVIOUS
  <2>2. SetNull(b)  BY <1>1
  <2> HIDE DEF b
  <2>3. QED  BY <1>2, <2>1, <2>2, NullTypes
<1>4. delim => Seen # Qual
  BY <1>1, <1>2, DelimEnds DEF Inv
<1>5. EndsRow(Seen) => Seen # Qual
  BY CharsAssumption DEF EndsRow, Inv, TypeOK
<1>6. p.pre_field_pos <= p.crtidx
  BY DEF Inv, PosInv
<1>7. CASE delim \/ EndsRow(Seen)
  <2>1. PICK s \in {"eFieldEnd", "eRecordEnd"} : Goto(s, p.crtidx)
    <3>1. ~Opens(Seen)  BY <1>4, <1>5, <1>7 DEF Opens
    <3>2. Goto("eFieldEnd", p.crtidx) \/ Goto("eRecordEnd", p.crtidx)
      BY <1>7, <3>1 DEF FieldBegin
    <3>3. QED  BY <3>2
  <2>2. Moves /\ p'.crt_status = s /\ p'.crtidx = p.crtidx
    BY <1>1, <1>3, <2>1, CleanGoto DEF Parsing
  <2>3. ~Quoted
    BY <1>1, <1>4, <1>5, <1>7, Unquoted
  <2>4. QED
    BY <1>1, <1>6, <2>1, <2>2, <2>3, MovesKeep DEF Inv, PosInv, Moves, SameQualifiers
<1>8. CASE ~delim /\ ~EndsRow(Seen) /\ Opens(Seen)
  <2>1. Goto("eStrField", p.crtidx + 1)
    BY <1>8 DEF FieldBegin
  <2>2. Moves /\ p'.crt_status = "eStrField" /\ p'.crtidx = p.crtidx + 1
    BY <1>1, <1>3, <2>1, CleanGoto DEF Parsing
  <2>3. QED
    BY <1>2, <1>6, <2>2, MovesKeep DEF Inv, PosInv, Moves, SameQualifiers
<1>9. CASE ~delim /\ ~EndsRow(Seen) /\ ~Opens(Seen)
  <2>1. Goto("eField", p.crtidx + 1)
    BY <1>9 DEF FieldBegin
  <2>2. Moves /\ p'.crt_status = "eField" /\ p'.crtidx = p.crtidx + 1
    BY <1>1, <1>3, <2>1, CleanGoto DEF Parsing
  <2>3. ~Quoted
    BY <1>1, <1>9, Unquoted DEF Opens
  <2>4. QED
    BY <1>2, <1>6, <2>2, <2>3, MovesKeep DEF Inv, PosInv, Moves, SameQualifiers
<1>10. QED  BY <1>7, <1>8, <1>9

LEMMA FieldStep ==
  ASSUME Inv, Field
  PROVE  Inv'
PROOF
<1> DEFINE delim == EndsDelim(p.crtidx, Seen)
           b     == delim /\ p.pre_field_pos + Width = p.crtidx + 1
<1>1. /\ p.crt_status = "eField" /\ p.crtidx < Len(data) /\ Clean /\ SetNull(b)
      /\ UNCHANGED <<objVars, valVars, outVars, mNeedEscapeQualifier>>
  BY DEF Field, InField
<1>2. /\ p \in Locals(Len(data)) /\ field \in [Fields -> FieldRec]
      /\ p.crtidx \in Nat /\ p.pre_field_pos \in Nat /\ p.field_idx \in Fields
      /\ Len(data) \in Nat
  BY Types DEF Inv, Locals
<1>3. /\ field' \in [Fields -> FieldRec]
      /\ \A k \in Fields : field'[k].offset = field[k].offset /\ field'[k].len = field[k].len
  <2>1. b \in BOOLEAN  OBVIOUS
  <2> HIDE DEF b
  <2>2. QED  BY <1>1, <1>2, <2>1, NullTypes
<1>4. ~Quoted /\ p.pre_field_pos < p.crtidx
  BY <1>1 DEF Inv, PosInv
<1>5. PICK s \in {"eFieldEnd", "eRecordEnd", "eField"}, i \in {p.crtidx, p.crtidx + 1} :
        Goto(s, i) /\ (s # "eField" => i = p.crtidx)
  BY DEF Field
<1>6. Moves /\ p'.crt_status = s /\ p'.crtidx = i
  BY <1>1, <1>3, <1>5, CleanGoto DEF Parsing
<1>7. QED
  BY <1>1, <1>2, <1>4, <1>5, <1>6, MovesKeep DEF Inv, PosInv, Moves, SameQualifiers

LEMMA StrFieldStep ==
  ASSUME Inv, StrField
  PROVE  Inv'
PROOF
<1>1. /\ p.crt_status = "eStrField" /\ p.crtidx < Len(data) /\ Clean
      /\ Goto("eStrField", p.crtidx + 1)
      /\ UNCHANGED <<objVars, valVars, outVars, fieldVars>>
  BY DEF StrField, InField
<1>2. field \in [Fields -> FieldRec] /\ p.crtidx \in Nat /\ p.pre_field_pos \in Nat
  BY Types DEF Inv, Locals
<1>3. UNCHANGED <<field, mNeedEscapeQualifier>>
  BY <1>1 DEF fieldVars
<1>4. Moves /\ p'.crt_status = "eStrField" /\ p'.crtidx = p.crtidx + 1
  BY <1>1, <1>2, <1>3, CleanGoto DEF Parsing
<1>5. QED
  BY <1>1, <1>2, <1>4, MovesKeep DEF Inv, PosInv, Moves, SameQualifiers

LEMMA StrEscapeStep ==
  ASSUME Inv, StrEscape
  PROVE  Inv'
PROOF
<1> DEFINE i == p.crtidx + 2
           b == p.needEscapeQualifier \/ ~conf.backslash
<1>1. /\ p.crt_status = "eStrField" /\ p.crtidx + 1 < Len(data)
      /\ p' = [p EXCEPT !.crtidx = i, !.needEscapeQualifier = b]
      /\ UNCHANGED <<objVars, valVars, outVars, fieldVars, data>>
  BY Zenon DEF StrEscape, InField
<1>2. /\ p \in Locals(Len(data)) /\ field \in [Fields -> FieldRec]
      /\ p.crtidx \in Nat /\ p.pre_field_pos \in Nat /\ Len(data) \in Nat
      /\ data \in Seq(Chars)
  BY Types DEF Inv, Locals
<1>3. /\ p' \in Locals(Len(data)) /\ p'.crtidx = i /\ p'.crt_status = "eStrField"
      /\ p'.pre_field_pos = p.pre_field_pos
      /\ p'.field_idx = p.field_idx /\ p'.numFields = p.numFields
  <2>1. i \in 0 .. Len(data)  BY <1>1, <1>2
  <2>2. b \in BOOLEAN  OBVIOUS
  <2> HIDE DEF i, b
  <2>3. QED  BY <1>1, <1>2, <2>1, <2>2, Zenon DEF Locals
<1>4. Moves
  BY <1>1, <1>2, <1>3 DEF Moves, SameQualifiers, fieldVars, Parsing, Inv, TypeOK
<1>5. QED
  BY <1>1, <1>2, <1>3, <1>4, MovesKeep DEF Inv, PosInv

LEMMA StrEndStep ==
  ASSUME Inv, StrEnd
  PROVE  Inv'
PROOF
<1> DEFINE i == p.crtidx + 1
           c == At(i)
           b == i - p.pre_field_pos = 2 * Width
<1>1. /\ p.crt_status = "eStrField" /\ p.crtidx < Len(data) /\ Seen = Qual
      /\ UNCHANGED <<objVars, valVars, mIsLastRecordMissRowDelimiter, data,
                     mNeedEscapeQualifier>>
  BY DEF StrEnd, InField
<1>2. /\ p \in Locals(Len(data)) /\ field \in [Fields -> FieldRec]
      /\ p.crtidx \in Nat /\ p.pre_field_pos \in Nat /\ Len(data) \in Nat
      /\ i \in Nat /\ i > 0 /\ p.field_idx \in Fields /\ data \in Seq(Chars)
      /\ mNeedEscapeQualifier' \in [Fields -> BOOLEAN]
      /\ mIsLastRecordMissRowDelimiter' \in BOOLEAN
  BY <1>1, Types DEF Inv, Locals, TypeOK
<1>3. SameQualifiers
  BY <1>1, <1>2 DEF SameQualifiers
<1>4. p.crt_status \in Parsing /\ p.pre_field_pos < p.crtidx
  BY <1>1 DEF Parsing, Inv, PosInv
<1>5. CASE i >= Len(data)
  <2>1. Return(-1, -1) /\ UNCHANGED field
    BY <1>5 DEF StrEnd
  <2>2. QED  BY <1>1, <1>2, <1>3, <1>4, <2>1, ReturnKeeps
<1>6. CASE i < Len(data) /\ ~(EndsDelim(i, c) \/ EndsRow(c))
  <2>1. Return(-2, i + 1) /\ UNCHANGED field
    BY <1>2, <1>6 DEF StrEnd
  <2>2. i + 1 \in Int /\ i + 1 \in 1 .. Len(data)
    BY <1>2, <1>6
  <2> HIDE DEF i
  <2>3. QED  BY <1>1, <1>2, <1>3, <1>4, <2>1, <2>2, ReturnKeeps
<1>7. CASE i < Len(data) /\ (EndsDelim(i, c) \/ EndsRow(c))
  <2> DEFINE s == IF EndsDelim(i, c) THEN "eFieldEnd" ELSE "eRecordEnd"
  <2>1. Goto(s, i) /\ SetNull(b) /\ UNCHANGED <<status, record_len>>
    BY <1>2, <1>7 DEF StrEnd
  <2>2. /\ field' \in [Fields -> FieldRec]
        /\ \A k \in Fields : field'[k].offset = field[k].offset /\ field'[k].len = field[k].len
    <3>1. b \in BOOLEAN  OBVIOUS
    <3> HIDE DEF b
    <3>2. QED  BY <1>2, <2>1, <3>1, NullTypes
  <2>3. s \in {"eFieldEnd", "eRecordEnd"} /\ s \in Parsing /\ i \in 0 .. Len(data)
    BY <1>2, <1>7 DEF Parsing
  <2>4. /\ p' \in Locals(Len(data)) /\ p'.crt_status = s /\ p'.crtidx = i
        /\ p'.pre_field_pos = p.pre_field_pos
        /\ p'.field_idx = p.field_idx /\ p'.numFields = p.numFields
    <3> HIDE DEF s, i
    <3>1. QED  BY <1>2, <2>1, <2>3, GotoTypes
  <2>5. Moves
    <3> HIDE DEF s, i
    <3>1. QED  BY <1>1, <1>2, <1>3, <1>4, <2>1, <2>2, <2>3, <2>4 DEF Moves, outVars
  <2>6. s = "eFieldEnd" => Width = 1
    <3>1. data[i] = Qual
      BY <1>1, Cleaning DEF Inv
    <3>2. c \in Chars
      BY <1>2, <1>7 DEF At
    <3>3. QED
      <4> HIDE DEF i, c
      <4>1. QED  BY <1>2, <1>7, <3>1, <3>2, DelimEnds DEF Inv
  <2>7. Len(data') = Len(data)
    BY <1>3 DEF SameQualifiers
  <2>8. PosInv'
    <3> HIDE DEF s
    <3>1. QED  BY <1>2, <1>4, <1>7, <2>3, <2>4, <2>5, <2>6, <2>7, MovesKeep DEF PosInv
  <2>9. QED  BY <2>5, <2>8, MovesKeep DEF Inv
<1>8. QED  BY <1>2, <1>5, <1>6, <1>7

LEMMA FieldEndsEarlyStep ==
  ASSUME Inv, FieldEndsEarly
  PROVE  Inv'
PROOF
<1>1. /\ p.crt_status = "eFieldEnd" /\ p.crtidx < Len(data) /\ Clean /\ FoundEarly
      /\ Goto("eFieldBegin", p.crtidx + 1)
      /\ UNCHANGED <<objVars, valVars, outVars, fieldVars>>
  BY DEF FieldEndsEarly, InField
<1>2. /\ field \in [Fields -> FieldRec] /\ p.crtidx \in Nat /\ p.pre_field_pos \in Nat
      /\ Width \in Nat
  BY Types DEF Inv, Locals
<1>3. UNCHANGED <<field, mNeedEscapeQualifier>>
  BY <1>1 DEF fieldVars
<1>4. ~Quoted /\ p.pre_field_pos <= p.crtidx
  BY <1>1, <1>2 DEF Inv, PosInv, FoundEarly
<1>5. Moves /\ p'.crt_status = "eFieldBegin" /\ p'.crtidx = p.crtidx + 1
  BY <1>1, <1>2, <1>3, CleanGoto DEF Parsing
<1>6. QED
  BY <1>1, <1>2, <1>4, <1>5, MovesKeep DEF Inv, PosInv, Moves, SameQualifiers

(* What is stored of a field that ends at end: it ends no later than that, *)
(* or one behind it if it is the last one.                                 *)
LEMMA Stored ==
  ASSUME Inv, p.crt_status \in {"eFieldEnd", "eRecordEnd"}, NEW last \in BOOLEAN,
         NEW end \in Nat, p.pre_field_pos <= end,
         Quoted => p.pre_field_pos + 2 <= end, StoreField(end, last)
  PROVE  /\ field' \in [Fields -> FieldRec]
         /\ mNeedEscapeQualifier' \in [Fields -> BOOLEAN]
         /\ \A k \in Fields \ {p.field_idx} : field'[k] = field[k]
         /\ LET f == field'[p.field_idx] IN
            f.offset + f.len <= end + (IF last /\ Width > 1 THEN 1 ELSE 0)
PROOF
<1> DEFINE k   == p.field_idx
           pre == p.pre_field_pos
           esc == IsQualified /\ p.needEscapeQualifier
           more == mNeedEscapeQualifier[k] \/ esc
           offset == pre + (IF IsQualified /\ ~esc THEN 1 ELSE 0)
           len == end - pre - (IF IsQualified THEN Around(last) ELSE 0)
           r   == [offset |-> offset, len |-> len, null |-> field[k].null]
<1>1. /\ k \in Fields /\ pre \in Nat /\ field \in [Fields -> FieldRec] /\ Width \in Nat \ {0}
      /\ mNeedEscapeQualifier \in [Fields -> BOOLEAN] /\ p.needEscapeQualifier \in BOOLEAN
  BY Types DEF Inv, Locals, TypeOK
<1>2. IsQualified <=> Quoted
  BY DEF IsQualified, Quoted, At
<1>3. /\ field' = [field EXCEPT ![k] = r]
      /\ mNeedEscapeQualifier' = [mNeedEscapeQualifier EXCEPT ![k] = more]
  <2>1. field' = [field EXCEPT ![k] = r]
    BY Zenon DEF StoreField
  <2>2. mNeedEscapeQualifier' = [mNeedEscapeQualifier EXCEPT ![k] = more]
    BY Zenon DEF StoreField
  <2>3. QED  BY <2>1, <2>2
<1>4. /\ offset \in Nat /\ len \in Nat
      /\ offset + len <= end + (IF last /\ Width > 1 THEN 1 ELSE 0)
  BY <1>1, <1>2 DEF Around
<1>5. r \in FieldRec
  <2>1. field[k].null \in BOOLEAN  BY <1>1 DEF FieldRec
  <2> HIDE DEF offset, len
  <2>2. QED  BY <1>4, <2>1 DEF FieldRec
<1>6. more \in BOOLEAN
  BY <1>1
<1>7. field' \in [Fields -> FieldRec] /\ mNeedEscapeQualifier' \in [Fields -> BOOLEAN]
      /\ field'[k] = r /\ \A j \in Fields \ {k} : field'[j] = field[j]
  <2> HIDE DEF r, more, k
  <2>1. QED  BY <1>1, <1>3, <1>5, <1>6
<1>8. field'[k].offset + field'[k].len <= end + (IF last /\ Width > 1 THEN 1 ELSE 0)
  <2>1. field'[k].offset = offset /\ field'[k].len = len
    <3> HIDE DEF offset, len
    <3>1. QED  BY <1>7
  <2> HIDE DEF offset, len
  <2>2. QED  BY <1>4, <2>1
<1>9. QED  BY <1>7, <1>8

LEMMA FieldEndStep ==
  ASSUME Inv, FieldEnd
  PROVE  Inv'
PROOF
<1> DEFINE end == p.crtidx + 1 - Width
<1>1. /\ p.crt_status = "eFieldEnd" /\ p.crtidx < Len(data) /\ Clean /\ ~FoundEarly
      /\ StoreField(end, FALSE)
      /\ UNCHANGED <<objVars, valVars, mIsLastRecordMissRowDelimiter>>
  BY DEF FieldEnd, InField
<1>2. /\ p \in Locals(Len(data)) /\ Len(data) \in Nat /\ Width \in Nat \ {0}
      /\ p.crtidx \in Nat /\ p.pre_field_pos \in Nat
      /\ p.field_idx \in Fields /\ p.field_idx = p.numFields
      /\ p.crtidx + 1 \in 1 .. Len(data)
      /\ mIsLastRecordMissRowDelimiter' \in BOOLEAN
  BY <1>1, Types DEF Inv, PosInv, Locals, Parsing, TypeOK
<1>3. end \in Nat /\ p.pre_field_pos <= end /\ (Quoted => p.pre_field_pos + 2 <= end)
  BY <1>1, <1>2 DEF FoundEarly, Inv, PosInv
<1>4. /\ field' \in [Fields -> FieldRec]
      /\ mNeedEscapeQualifier' \in [Fields -> BOOLEAN]
      /\ \A k \in Fields \ {p.field_idx} : field'[k] = field[k]
      /\ field'[p.field_idx].offset + field'[p.field_idx].len <= end
  <2> HIDE DEF end
  <2>1. end + (IF FALSE /\ Width > 1 THEN 1 ELSE 0) = end  BY <1>3
  <2>2. QED  BY <1>1, <1>3, <2>1, Stored
<1>5. SameQualifiers
  BY <1>1, Cleaning DEF Inv, SameQualifiers
<1>6. CASE Full
  <2>1. Return(-2, p.crtidx + 1)
    BY <1>6 DEF FieldEnd
  <2>2. p.crtidx + 1 \in Int /\ p.crt_status \in Parsing
    BY <1>1, <1>2 DEF Parsing
  <2>3. QED  BY <1>1, <1>2, <1>4, <1>5, <2>1, <2>2, ReturnKeeps
<1>7. CASE ~Full
  <2> DEFINE q == [crt_status |-> "eFieldBegin",
                   crtidx |-> p.crtidx + 1,
                   pre_field_pos |-> p.crtidx + 1,
                   field_idx |-> p.field_idx + 1,
                   numFields |-> p.numFields + 1,
                   needEscapeQualifier |-> FALSE]
  <2>1. p' = q /\ UNCHANGED <<status, record_len>>
    BY <1>7 DEF FieldEnd
  <2>2. p.field_idx + 1 \in Fields
    BY <1>2, <1>7, ConfigAssumption DEF Full, Fields
  <2>3. q \in Locals(Len(data))
    BY <1>2, <2>2 DEF Locals, Parsing
  <2>4. Len(data') = Len(data)
    BY <1>5 DEF SameQualifiers
  <2>5. TypeOK'
    <3>1. p' \in Locals(Len(data'))
      BY <2>1, <2>3, <2>4
    <3> HIDE DEF q
    <3>2. /\ UNCHANGED <<conf, mIsEOF, mFieldValues, input, cleared, fresh, status,
                         record_len>>
          /\ data' \in Seq(Chars)
      BY <1>1, <1>5, <2>1 DEF objVars, valVars, SameQualifiers
    <3>3. QED  BY <1>2, <1>4, <3>1, <3>2 DEF Inv, TypeOK, Locals, FieldRec, Parsing
  <2>6. PosInv'
    BY <1>2, <2>1, <2>4 DEF PosInv
  <2>7. FieldInv'
    <3>1. ASSUME NEW k \in Fields, k < p.field_idx + 1
          PROVE  field'[k].offset + field'[k].len < p.crtidx + 1
      <4>1. CASE k = p.field_idx
        BY <1>2, <1>3, <1>4, <4>1 DEF FieldRec
      <4>2. CASE k # p.field_idx
        <5>1. k < p.field_idx
          BY <1>2, <3>1, <4>2 DEF Fields
        <5>2. field[k].offset + field[k].len < p.pre_field_pos
          BY <1>1, <5>1 DEF Inv, FieldInv, Parsing
        <5>3. field'[k] = field[k] /\ field[k].offset \in Nat /\ field[k].len \in Nat
          BY <1>4, <4>2, Types DEF Inv, FieldRec
        <5>4. p.pre_field_pos <= p.crtidx
          BY DEF Inv, PosInv
        <5>5. QED  BY <1>2, <5>2, <5>3, <5>4
      <4>3. QED  BY <4>1, <4>2
    <3>2. p'.field_idx = p.field_idx + 1 /\ p'.pre_field_pos = p.crtidx + 1
      BY <2>1
    <3>3. QED  BY <3>1, <3>2 DEF FieldInv
  <2>8. StaysInside'
    BY <2>1 DEF StaysInside, Complete, Told, Idle
  <2>9. QED  BY <2>5, <2>6, <2>7, <2>8 DEF Inv
<1>8. QED  BY <1>6, <1>7

LEMMA RecordEndStep ==
  ASSUME Inv, RecordEnd
  PROVE  Inv'
PROOF
<1> DEFINE cr   == Seen = CR
           last == IF cr THEN p.crtidx + 1 ELSE p.crtidx
<1>1. /\ p.crt_status = "eRecordEnd" /\ p.crtidx < Len(data) /\ Clean
      /\ UNCHANGED <<objVars, valVars, mIsLastRecordMissRowDelimiter>>
  BY DEF RecordEnd, InField
<1>2. /\ p \in Locals(Len(data)) /\ Len(data) \in Nat /\ Width \in Nat \ {0}
      /\ p.crtidx \in Nat /\ p.pre_field_pos \in Nat /\ p.pre_field_pos <= p.crtidx
      /\ p.field_idx \in Fields /\ p.field_idx = p.numFields
      /\ p.crt_status \in Parsing /\ last \in Nat /\ p.crtidx <= last
      /\ mIsLastRecordMissRowDelimiter' \in BOOLEAN
      /\ field \in [Fields -> FieldRec] /\ mNeedEscapeQualifier \in [Fields -> BOOLEAN]
  BY <1>1, Types DEF Inv, PosInv, Locals, Parsing, TypeOK
<1>3. SameQualifiers
  BY <1>1, Cleaning DEF Inv, SameQualifiers
<1> HIDE DEF cr, last
<1>4. CASE UNCHANGED fieldVars /\ Return(-1, -1)
  <2>1. UNCHANGED <<field, mNeedEscapeQualifier>>  BY <1>4 DEF fieldVars
  <2>2. QED  BY <1>1, <1>2, <1>3, <1>4, <2>1, ReturnKeeps
<1>5. CASE UNCHANGED fieldVars /\ last < Len(data) /\ Return(-2, last + 1)
  <2>1. UNCHANGED <<field, mNeedEscapeQualifier>>  BY <1>5 DEF fieldVars
  <2>2. last + 1 \in Int /\ last + 1 \in 1 .. Len(data)  BY <1>2, <1>5
  <2>3. QED  BY <1>1, <1>2, <1>3, <1>5, <2>1, <2>2, ReturnKeeps
<1>6. CASE last < Len(data) /\ Enough /\ Return(0, last + 1) /\ StoreField(p.crtidx, TRUE)
  <2>1. last + 1 \in Int /\ last + 1 \in 1 .. Len(data)
    BY <1>2, <1>6
  <2>2. /\ field' \in [Fields -> FieldRec]
        /\ mNeedEscapeQualifier' \in [Fields -> BOOLEAN]
        /\ \A k \in Fields \ {p.field_idx} : field'[k] = field[k]
        /\ field'[p.field_idx].offset + field'[p.field_idx].len
             <= p.crtidx + (IF Width > 1 THEN 1 ELSE 0)
    <3>1. Quoted => p.pre_field_pos + 2 <= p.crtidx
      BY <1>1 DEF Inv, PosInv
    <3>2. (IF TRUE /\ Width > 1 THEN 1 ELSE 0) = IF Width > 1 THEN 1 ELSE 0
      OBVIOUS
    <3>3. QED  BY <1>1, <1>2, <1>6, <3>1, <3>2, Stored
  <2>3. ASSUME NEW k \in Fields
        PROVE  field'[k].offset + field'[k].len <= last + 1 - (IF Width = 1 THEN 1 ELSE 0)
    <3>1. field'[k].offset \in Nat /\ field'[k].len \in Nat
      BY <2>2 DEF FieldRec
    <3>2. CASE k = p.field_idx
      BY <1>2, <2>2, <3>1, <3>2
    <3>3. CASE k # p.field_idx
      <4>1. k < p.field_idx
        BY <1>2, <1>6, <3>3, ConfigAssumption DEF Enough, Fields
      <4>2. field[k].offset + field[k].len < p.pre_field_pos
        BY <1>2, <4>1 DEF Inv, FieldInv
      <4>3. field'[k] = field[k]
        BY <2>2, <3>3
      <4>4. QED  BY <1>2, <3>1, <4>2, <4>3
    <3>4. QED  BY <3>2, <3>3
  <2>4. \A k \in Fields :
          field'[k].offset + field'[k].len <= last + 1 - (IF Width = 1 THEN 1 ELSE 0)
    BY <2>3
  <2>5. QED  BY <1>1, <1>2, <1>3, <1>6, <2>1, <2>2, <2>4, ReturnKeeps
<1>7. \/ UNCHANGED fieldVars /\ Return(-1, -1)
      \/ UNCHANGED fieldVars /\ last < Len(data) /\ Return(-2, last + 1)
      \/ last < Len(data) /\ Enough /\ Return(0, last + 1) /\ StoreField(p.crtidx, TRUE)
  <2>1. IF last >= Len(data) THEN Return(-1, -1) /\ UNCHANGED fieldVars
        ELSE IF cr /\ At(last) # LF THEN Return(-2, last + 1) /\ UNCHANGED fieldVars
        ELSE IF ~Enough THEN Return(-2, last + 1) /\ UNCHANGED fieldVars
        ELSE Return(0, last + 1) /\ StoreField(p.crtidx, TRUE)
    BY Zenon DEF RecordEnd, last, cr
  <2>2. last < Len(data) <=> ~(last >= Len(data))
    BY <1>2
  <2>3. QED  BY <2>1, <2>2, Zenon
<1>8. QED  BY <1>4, <1>5, <1>6, <1>7

LEMMA UsedUpStep ==
  ASSUME Inv, UsedUp
  PROVE  Inv'
PROOF
<1>1. /\ p.crt_status # "done" /\ p.crtidx >= Len(data)
      /\ mIsLastRecordMissRowDelimiter' = (mIsLastRecordMissRowDelimiter \/ LastLine)
      /\ UNCHANGED <<objVars, valVars, fieldVars, data>>
  BY DEF UsedUp, Idle
<1>2. /\ p \in Locals(Len(data)) /\ Len(data) \in Nat /\ p.crt_status \in Parsing
      /\ p.crtidx \in 1 .. Len(data) /\ p.crtidx \in Int /\ data \in Seq(Chars)
  BY <1>1, Types DEF Inv, PosInv, Locals
<1>3. /\ SameQualifiers /\ UNCHANGED <<field, mNeedEscapeQualifier>>
      /\ field' \in [Fields -> FieldRec] /\ mNeedEscapeQualifier' \in [Fields -> BOOLEAN]
  BY <1>1, <1>2, Types DEF SameQualifiers, fieldVars, Inv, TypeOK
<1>4. /\ mIsLastRecordMissRowDelimiter' \in BOOLEAN
      /\ LastLine => mIsLastRecordMissRowDelimiter'
  BY <1>1, Zenon DEF Inv, TypeOK
<1>5. CASE LastLine
  <2>1. Return(0, p.crtidx)  BY <1>5 DEF UsedUp
  <2>2. QED  BY <1>1, <1>2, <1>3, <1>4, <1>5, <2>1, ReturnKeeps
<1>6. CASE ~LastLine
  <2>1. Return(-1, -1)  BY <1>6 DEF UsedUp
  <2>2. QED  BY <1>1, <1>2, <1>3, <1>4, <2>1, ReturnKeeps
<1>7. QED  BY <1>5, <1>6

(***************************************************************************)
(* What the caller does.                                                   *)
(***************************************************************************)
LEMMA ClearStep ==
  ASSUME Inv, Clear
  PROVE  Inv'
PROOF
<1>1. /\ p.crt_status = "done" /\ mIsEOF' = FALSE
      /\ mIsLastRecordMissRowDelimiter' = FALSE
      /\ field' = Cleared
      /\ mNeedEscapeQualifier' = [i \in Fields |-> FALSE]
      /\ record_len' = 0 /\ cleared' = TRUE
      /\ UNCHANGED <<conf, data, p, status, input, fresh>>
  BY DEF Clear, Idle
<1>2. Cleared \in [Fields -> FieldRec]
  BY Types DEF Cleared, Inv, FieldRec
<1>3. TypeOK'
  <2>1. field' \in [Fields -> FieldRec]
    BY <1>1, <1>2
  <2>2. mNeedEscapeQualifier' \in [Fields -> BOOLEAN]
    BY <1>1
  <2>3. /\ mIsEOF' \in BOOLEAN /\ mIsLastRecordMissRowDelimiter' \in BOOLEAN
        /\ cleared' \in BOOLEAN
    BY <1>1, Zenon
  <2>4. QED  BY <1>1, <2>1, <2>2, <2>3 DEF Inv, TypeOK, FieldRec
<1>4. PosInv' /\ FieldInv' /\ StaysInside'
  BY <1>1 DEF Inv, PosInv, FieldInv, StaysInside, Complete, Told, Parsing
<1>5. QED  BY <1>3, <1>4 DEF Inv

LEMMA SetEOFStep ==
  ASSUME Inv, SetEOF
  PROVE  Inv'
PROOF
<1>1. /\ mIsEOF' = TRUE
      /\ UNCHANGED <<conf, mFieldValues, input, cleared, fresh, field, data, p,
                     mIsLastRecordMissRowDelimiter, status, record_len,
                     mNeedEscapeQualifier>>
  BY DEF SetEOF, valVars, outVars, fieldVars
<1>2. TypeOK'
  BY <1>1 DEF Inv, TypeOK
<1>3. PosInv' /\ FieldInv' /\ StaysInside'
  BY <1>1 DEF Inv, PosInv, FieldInv, StaysInside, Complete, Told, Idle, Quoted, Width
<1>4. QED  BY <1>2, <1>3 DEF Inv

LEMMA SetDataStep ==
  ASSUME Inv, SetData
  PROVE  Inv'
PROOF
<1>1. /\ input # <<>> /\ input' = Tail(input) /\ fresh' = cleared /\ cleared' = FALSE
      /\ data' = Head(input) /\ p' = Start
      /\ field' = [field EXCEPT ![0].null = FALSE]
      /\ UNCHANGED <<conf, mIsEOF, mIsLastRecordMissRowDelimiter, status, record_len,
                     mNeedEscapeQualifier>>
  BY DEF SetData, objVars, outVars
<1>2. /\ Head(input) \in Seq(Chars) \ {<<>>}
      /\ Tail(input) \in Seq(Seq(Chars) \ {<<>>})
  BY <1>1 DEF Inv, TypeOK
<1>3. data' \in Seq(Chars) /\ Len(data') \in Nat /\ Len(data') > 0
  BY <1>1, <1>2, EmptySeq
<1>4. 0 \in Fields
  BY ConfigAssumption DEF Fields
<1>5. Start \in Locals(Len(data'))
  BY <1>3, <1>4 DEF Start, Locals, Parsing
<1>6. field' \in [Fields -> FieldRec]
  BY <1>1, <1>4, Types DEF Inv, FieldRec
<1>7. TypeOK'
  <2>1. p' \in Locals(Len(data'))
    BY <1>1, <1>5
  <2>2. QED
    BY <1>1, <1>2, <1>3, <1>6, <2>1 DEF Inv, TypeOK, Locals, FieldRec, Parsing
<1>8. PosInv' /\ StaysInside'
  BY <1>1, <1>3 DEF PosInv, Start, StaysInside, Complete, Told, Idle
<1>9. FieldInv'
  BY <1>1, ConfigAssumption DEF FieldInv, Start, Fields
<1>10. QED  BY <1>7, <1>8, <1>9 DEF Inv

LEMMA GetFieldValueStep ==
  ASSUME Inv, NEW i \in Fields, GetFieldValue(i)
  PROVE  Inv'
PROOF
<1> DEFINE b == mNeedEscapeQualifier[i] /\ ~Unescapes(i)
<1>1. /\ mNeedEscapeQualifier' = [mNeedEscapeQualifier EXCEPT ![i] = b]
      /\ UNCHANGED <<conf, mIsEOF, mIsLastRecordMissRowDelimiter, status, record_len,
                     field, data, p, input, cleared, fresh>>
  BY Zenon DEF GetFieldValue, objVars, outVars
<1>2. mNeedEscapeQualifier' \in [Fields -> BOOLEAN]
  <2>1. b \in BOOLEAN  BY DEF Inv, TypeOK
  <2> HIDE DEF b
  <2>2. QED  BY <1>1, <2>1 DEF Inv, TypeOK
<1>3. TypeOK'
  BY <1>1, <1>2 DEF Inv, TypeOK
<1>4. PosInv' /\ FieldInv' /\ StaysInside'
  BY <1>1 DEF Inv, PosInv, FieldInv, StaysInside, Complete, Told, Idle, Quoted, Width
<1>5. QED  BY <1>3, <1>4 DEF Inv

(***************************************************************************)
(* The invariant.                                                          *)
(***************************************************************************)
LEMMA InvStarts ==
  ASSUME NEW S, S \subseteq Seq(Seq(Chars) \ {<<>>}), InitWith(S)
  PROVE  Inv
PROOF
<1>1. /\ conf \in [delim : Delims, row : Rows, backslash : Escapes, unqualified : Unqualified]
      /\ mIsEOF = FALSE /\ mIsLastRecordMissRowDelimiter = FALSE
      /\ field = [i \in Fields |-> [offset |-> 0, len |-> 0, null |-> FALSE]]
      /\ mNeedEscapeQualifier = [i \in Fields |-> FALSE]
      /\ data = <<>> /\ p = [Start EXCEPT !.crt_status = "done"]
      /\ status = -1 /\ record_len = 0 /\ input \in S
      /\ cleared = TRUE /\ fresh = TRUE
  BY DEF InitWith
<1>2. conf \in [delim : Delims, row : {LF, CR}, backslash : BOOLEAN, unqualified : BOOLEAN]
  BY <1>1, ConfigAssumption
<1>3. data \in Seq(Chars) /\ Len(data) = 0
  BY <1>1, EmptySeq
<1>4. /\ p \in Locals(0) /\ p.crt_status = "done" /\ p.pre_field_pos = 0 /\ p.crtidx = 0
  <2>1. 0 \in Fields  BY ConfigAssumption DEF Fields
  <2>2. Start \in Locals(0)  BY <2>1 DEF Start, Locals, Parsing
  <2>3. Start.pre_field_pos = 0 /\ Start.crtidx = 0  BY DEF Start
  <2>4. QED  BY <1>1, <2>2, <2>3 DEF Locals
<1>5. field \in [Fields -> FieldRec]
  BY <1>1 DEF FieldRec
<1>6. TypeOK
  <2>1. input \in Seq(Seq(Chars) \ {<<>>})
    BY <1>1
  <2>2. mNeedEscapeQualifier \in [Fields -> BOOLEAN]
    BY <1>1
  <2>3. /\ mIsEOF \in BOOLEAN /\ mIsLastRecordMissRowDelimiter \in BOOLEAN
        /\ cleared \in BOOLEAN /\ fresh \in BOOLEAN
    BY <1>1, Zenon
  <2>4. p \in Locals(Len(data)) /\ status \in {0, -1, -2} /\ record_len \in Int
    BY <1>1, <1>3, <1>4
  <2>5. QED
    BY <1>2, <1>3, <1>5, <2>1, <2>2, <2>3, <2>4 DEF TypeOK, Locals, FieldRec, Parsing
<1>7. PosInv /\ FieldInv /\ StaysInside
  BY <1>1, <1>4 DEF PosInv, FieldInv, Parsing, StaysInside, Complete, Told
<1>8. QED  BY <1>6, <1>7 DEF Inv

LEMMA InvInductive == Inv /\ [Next]_vars => Inv'
PROOF
<1> SUFFICES ASSUME Inv, [Next]_vars PROVE Inv'
  OBVIOUS
<1>1. CASE UNCHANGED vars
  <2>1. UNCHANGED <<conf, mIsEOF, mIsLastRecordMissRowDelimiter, field,
                    mNeedEscapeQualifier, data, p, status, record_len, input,
                    cleared, fresh>>
    BY <1>1 DEF vars, objVars, valVars, outVars, fieldVars
  <2>2. TypeOK'
    BY <2>1 DEF Inv, TypeOK
  <2>3. PosInv' /\ FieldInv' /\ StaysInside'
    BY <2>1 DEF Inv, PosInv, FieldInv, StaysInside, Complete, Told, Idle, Quoted, Width
  <2>4. QED  BY <2>2, <2>3 DEF Inv
<1>2. CASE Parse
  BY <1>2, FieldBeginStep, FieldStep, StrFieldStep, StrEscapeStep, StrEndStep,
     FieldEndsEarlyStep, FieldEndStep, RecordEndStep, UsedUpStep DEF Parse
<1>3. QED
  BY <1>1, <1>2, ClearStep, SetEOFStep, SetDataStep, GetFieldValueStep DEF Next

(* The parser never leaves its buffer or its fields, whatever is in the    *)
(* buffer, for any number of fields and any delimiter: crtidx and          *)
(* pre_field_pos stay in it, field_idx is a field (655-779, 932-1043).     *)
THEOREM TypeCorrect == Spec => []TypeOK
PROOF
<1>1. Init => Inv  BY InvStarts, InputsAssumption DEF Init
<1>2. Inv => TypeOK  BY DEF Inv
<1>3. QED  BY InvInductive, <1>1, <1>2, PTL DEF Spec

(* The fields of a record that was accepted lie in that record, and the    *)
(* caller always gets ahead, by no more than there is.                     *)
THEOREM FieldsStayInside == Spec => []StaysInside
PROOF
<1>1. Init => Inv  BY InvStarts, InputsAssumption DEF Init
<1>2. Inv => StaysInside  BY DEF Inv
<1>3. QED  BY InvInductive, <1>1, <1>2, PTL DEF Spec

LEMMA LeastNumber ==
  ASSUME NEW S, S \subseteq Nat, S # {}
  PROVE  \E x \in S : \A y \in S : x <= y
PROOF
<1> DEFINE R  == StrictSubsetOrdering(Nat)
           TT == {1 .. n : n \in S}
<1>1. IsWellFoundedOn(R, FiniteSubsetsOf(Nat))
  BY FS_StrictSubsetOrderingWellFounded
<1>2. TT \subseteq FiniteSubsetsOf(Nat)
  <2>1. ASSUME NEW n \in S PROVE 1 .. n \in FiniteSubsetsOf(Nat)
    <3>1. n \in Int  OBVIOUS
    <3>2. IsFiniteSet(1 .. n)  BY <3>1, FS_Interval
    <3>3. 1 .. n \subseteq Nat  OBVIOUS
    <3>4. QED  BY <3>2, <3>3 DEF FiniteSubsetsOf
  <2>2. QED  BY <2>1
<1>3. TT # {}
  OBVIOUS
<1>4. \E X \in TT : \A Y \in TT : ~ (<<Y, X>> \in R)
  <2> HIDE DEF TT, R
  <2>1. QED  BY <1>1, <1>2, <1>3, WFMin
<1>5. PICK x \in S : \A y \in S : ~ (<<1 .. y, 1 .. x>> \in R)
  <2>1. PICK X \in TT : \A Y \in TT : ~ (<<Y, X>> \in R)  BY <1>4
  <2>2. PICK x \in S : X = 1 .. x  BY <2>1
  <2>3. \A y \in S : 1 .. y \in TT  OBVIOUS
  <2>4. QED  BY <2>1, <2>2, <2>3
<1>6. ASSUME NEW y \in S, ~ x <= y PROVE FALSE
  <2>1. x \in Nat /\ y \in Nat  OBVIOUS
  <2>2. 1 .. y \subseteq 1 .. x /\ 1 .. y # 1 .. x
    <3>1. x \in 1 .. x /\ x \notin 1 .. y  BY <1>6, <2>1
    <3>2. QED  BY <1>6, <2>1, <3>1
  <2>3. 1 .. y \in SUBSET Nat /\ 1 .. x \in SUBSET Nat
    BY <2>1
  <2>4. <<1 .. y, 1 .. x>> \in R
    BY <2>2, <2>3 DEF StrictSubsetOrdering
  <2>5. QED  BY <1>5, <2>4
<1>7. QED  BY <1>6

LEMMA Induction ==
  ASSUME NEW S, 0 \in S, \A n \in Nat : n \in S => n + 1 \in S
  PROVE  Nat \subseteq S
PROOF
<1>1. SUFFICES ASSUME Nat \ S # {} PROVE FALSE
  OBVIOUS
<1>2. PICK x \in Nat \ S : \A y \in Nat \ S : x <= y
  BY <1>1, LeastNumber
<1>3. x # 0 /\ x - 1 \in Nat
  BY <1>2
<1>4. x - 1 \in S
  BY <1>2, <1>3
<1>5. QED  BY <1>2, <1>3, <1>4

(***************************************************************************)
(* Qualifiers.  Alone(s, a, b, i, j): those from i to j are all there are  *)
(* around them between a and b.                                            *)
(***************************************************************************)
Alone(s, a, b, i, j) ==
  /\ i <= j /\ \A k \in i .. j : s[k] = Qual
  /\ i > a => s[i - 1] # Qual
  /\ j < b => s[j + 1] # Qual

Pairs(s, a, b) == \A i, j \in a .. b : Alone(s, a, b, i, j) => (j - i) % 2 = 1

(* A run of qualifiers has a first one.                                    *)
LEMMA RunBegins ==
  ASSUME NEW s, NEW a \in Nat, NEW j \in Nat, a <= j, s[j] = Qual
  PROVE  \E i \in a .. j : (\A k \in i .. j : s[k] = Qual) /\ (i > a => s[i - 1] # Qual)
PROOF
<1> DEFINE S == {i \in a .. j : \A k \in i .. j : s[k] = Qual}
<1>1. S \subseteq Nat /\ j \in S
  OBVIOUS
<1>2. PICK i \in S : \A y \in S : i <= y
  <2> HIDE DEF S
  <2>1. QED  BY <1>1, LeastNumber
<1>3. ASSUME i > a, s[i - 1] = Qual PROVE FALSE
  <2>1. i - 1 \in a .. j /\ i \in a .. j /\ i - 1 \in Nat  BY <1>3
  <2>2. \A k \in i - 1 .. j : s[k] = Qual
    <3>1. ASSUME NEW k \in i - 1 .. j PROVE s[k] = Qual
      <4>1. k = i - 1 \/ k \in i .. j  BY <2>1
      <4>2. QED  BY <1>2, <1>3, <4>1
    <3>2. QED  BY <3>1
  <2>3. i - 1 \in S  BY <2>1, <2>2
  <2>4. QED  BY <1>2, <2>1, <2>3
<1>4. QED  BY <1>2, <1>3

LEMMA PairsEmpty ==
  ASSUME NEW s, NEW a \in Nat, NEW b \in Int, b < a
  PROVE  Pairs(s, a, b)
BY DEF Pairs

LEMMA PairsOther ==
  ASSUME NEW s, NEW a \in Nat, NEW b \in Nat, a <= b + 1, Pairs(s, a, b), s[b + 1] # Qual
  PROVE  Pairs(s, a, b + 1)
PROOF
<1>1. SUFFICES ASSUME NEW i \in a .. b + 1, NEW j \in a .. b + 1, Alone(s, a, b + 1, i, j)
               PROVE  (j - i) % 2 = 1
  BY DEF Pairs
<1>2. j # b + 1
  BY <1>1 DEF Alone
<1>3. i \in a .. b /\ j \in a .. b
  BY <1>1, <1>2 DEF Alone
<1>4. Alone(s, a, b, i, j)
  BY <1>1, <1>3 DEF Alone
<1>5. QED  BY <1>3, <1>4 DEF Pairs

LEMMA PairsPair ==
  ASSUME NEW s, NEW a \in Nat, NEW b \in Nat, a <= b + 1, Pairs(s, a, b),
         s[b + 1] = Qual, s[b + 2] = Qual
  PROVE  Pairs(s, a, b + 2)
PROOF
<1>1. SUFFICES ASSUME NEW i \in a .. b + 2, NEW j \in a .. b + 2, Alone(s, a, b + 2, i, j)
               PROVE  (j - i) % 2 = 1
  BY DEF Pairs
<1>2. i \in Nat /\ j \in Nat /\ i <= j /\ j <= b + 2
  BY <1>1 DEF Alone
<1>3. j # b + 1 /\ j # b
  <2>1. j < b + 2 => s[j + 1] # Qual  BY <1>1 DEF Alone
  <2>2. QED  BY <1>2, <2>1
<1>4. CASE j < b
  <2>1. Alone(s, a, b, i, j)  BY <1>1, <1>4 DEF Alone
  <2>2. i \in a .. b /\ j \in a .. b  BY <1>1, <1>2, <1>4
  <2>3. QED  BY <2>1, <2>2 DEF Pairs
<1>5. CASE j = b + 2
  <2>1. i # b + 2
    <3>1. i > a => s[i - 1] # Qual  BY <1>1 DEF Alone
    <3>2. QED  BY <1>2, <3>1
  <2>2. CASE i = b + 1
    BY <1>5, <2>2
  <2>3. CASE i <= b
    <3>1. Alone(s, a, b, i, b)
      BY <1>1, <1>2, <1>5, <2>3 DEF Alone
    <3>2. i \in a .. b /\ b \in a .. b  BY <1>1, <2>3
    <3>3. (b - i) % 2 = 1  BY <3>1, <3>2 DEF Pairs
    <3>4. QED  BY <1>2, <1>5, <3>3
  <2>4. QED  BY <1>2, <1>5, <2>1, <2>2, <2>3
<1>6. QED  BY <1>2, <1>3, <1>4, <1>5

(* One more qualifier that no second one follows.                          *)
LEMMA PairsOdd ==
  ASSUME NEW s, NEW a \in Nat, NEW b \in Nat, a <= b + 1, Pairs(s, a, b),
         s[b + 1] = Qual, NEW n \in Nat, b + 1 <= n, n = b + 1 \/ s[b + 2] # Qual
  PROVE  ~Pairs(s, a, n)
PROOF
<1>1. SUFFICES ASSUME Pairs(s, a, n) PROVE FALSE
  OBVIOUS
<1>2. PICK i \in a .. b + 1 : (\A k \in i .. b + 1 : s[k] = Qual) /\ (i > a => s[i - 1] # Qual)
  BY RunBegins
<1>3. i \in a .. n /\ b + 1 \in a .. n /\ i \in Nat /\ i <= b + 1
  OBVIOUS
<1>4. Alone(s, a, n, i, b + 1)
  BY <1>2, <1>3 DEF Alone
<1>5. ((b + 1) - i) % 2 = 1
  BY <1>1, <1>3, <1>4 DEF Pairs
<1>6. i # b + 1
  BY <1>3, <1>5
<1>7. i \in a .. b /\ b \in a .. b
  BY <1>3, <1>6
<1>8. Alone(s, a, b, i, b)
  BY <1>2, <1>3, <1>7 DEF Alone
<1>9. (b - i) % 2 = 1
  BY <1>7, <1>8 DEF Pairs
<1>10. QED  BY <1>3, <1>5, <1>9

(***************************************************************************)
(* Fields by their positions: what is between a and b in a text s.         *)
(***************************************************************************)
Hit(s, i)    == \A k \in 1 .. Width : s[i + k - 1] = conf.delim[k]
Closed(s, b) == Hit(s, b) \/ EndsRow(s[b])

Plain(s, a, b) ==
  /\ \A i \in a .. b : ~EndsRow(s[i]) /\ ~(i + Width - 1 <= b /\ Hit(s, i))
  /\ a > b \/ s[a] # Qual \/ conf.unqualified

Text(s, a, b) ==
  /\ ~conf.unqualified
  /\ a < b /\ s[a] = Qual /\ s[b] = Qual
  /\ Pairs(s, a + 1, b - 1)

Good(s, a, b) == Plain(s, a, b) \/ Text(s, a, b)

(* The configuration, as far as the lemmas need it.                        *)
ConfOK ==
  /\ conf.delim \in Seq(Chars \ {LF, CR, Qual, Nul}) /\ Width \in Nat \ {0}
  /\ conf.row \in {LF, CR}

LEMMA DelimOther ==
  ASSUME ConfOK, NEW k \in 1 .. Width
  PROVE  conf.delim[k] \in Chars \ {LF, CR, Qual, Nul} /\ ~EndsRow(conf.delim[k])
PROOF
<1>1. conf.delim[k] \in Chars \ {LF, CR, Qual, Nul}
  BY ElementOfSeq DEF ConfOK, Width
<1>2. QED  BY <1>1 DEF ConfOK, EndsRow

(* A delimiter begins and ends with what is neither a qualifier nor the    *)
(* end of a row.                                                           *)
LEMMA HitOther ==
  ASSUME ConfOK, NEW s, NEW i \in Int, Hit(s, i), NEW j \in i .. i + Width - 1
  PROVE  s[j] \notin {LF, CR, Qual, Nul} /\ ~EndsRow(s[j])
PROOF
<1>1. Width \in Nat  BY DEF ConfOK
<1>2. PICK k \in 1 .. Width : k = j - i + 1
  <2>1. j - i + 1 \in 1 .. Width  BY <1>1
  <2>2. QED  BY <2>1
<1>3. i + k - 1 = j  BY <1>2
<1>4. s[j] = conf.delim[k]  BY <1>2, <1>3 DEF Hit
<1>5. QED  BY <1>4, DelimOther

LEMMA ClosedOther ==
  ASSUME ConfOK, NEW s, NEW b \in Int, Closed(s, b)
  PROVE  s[b] # Qual
PROOF
<1>1. b \in b .. b + Width - 1  BY DEF ConfOK
<1>2. CASE Hit(s, b)  BY <1>1, <1>2, HitOther
<1>3. CASE EndsRow(s[b])  BY <1>3, CharsAssumption DEF ConfOK, EndsRow
<1>4. QED  BY <1>2, <1>3 DEF Closed

(* Two delimiters do not overlap.                                          *)
LEMMA NoOverlap ==
  ASSUME ConfOK, Separable, NEW s, NEW i \in Int, NEW j \in Int, i < j,
         Hit(s, i), Hit(s, j)
  PROVE  i + Width <= j
PROOF
<1> DEFINE n == i + Width - j
           d == conf.delim
           C == Chars \ {LF, CR, Qual, Nul}
<1>0. Width \in Nat /\ d \in Seq(C) /\ Len(d) = Width  BY DEF ConfOK, Width
<1>1. SUFFICES ASSUME ~(i + Width <= j) PROVE FALSE
  OBVIOUS
<1>2. n \in 1 .. Width - 1  BY <1>0, <1>1
<1>3. n \in Nat /\ Width - n + 1 \in Nat /\ n <= Width /\ 1 <= Width - n + 1
  BY <1>0, <1>2
<1>4. /\ SubSeq(d, 1, n) \in Seq(C) /\ Len(SubSeq(d, 1, n)) = n
      /\ \A k \in 1 .. n : SubSeq(d, 1, n)[k] = d[k]
  <2> HIDE DEF n, d, C
  <2>1. \A k \in 1 .. n : d[k] \in C
    <3>1. \A k \in 1 .. n : k \in 1 .. Len(d)  BY <1>0, <1>3
    <3>2. QED  BY <1>0, <3>1, ElementOfSeq
  <2>2. n \in Int /\ 1 \in Int  BY <1>3
  <2>3. QED  BY <1>2, <1>3, <2>1, <2>2, SubSeqProperties
<1>5. /\ SubSeq(d, Width - n + 1, Width) \in Seq(C) /\ Len(SubSeq(d, Width - n + 1, Width)) = n
      /\ \A k \in 1 .. n : SubSeq(d, Width - n + 1, Width)[k] = d[Width - n + k]
  <2> DEFINE m == Width - n + 1
  <2>1. m \in Int /\ m <= Width /\ Width - m + 1 = n /\ m >= 1
    BY <1>0, <1>2
  <2>2. \A k \in m .. Width : d[k] \in C
    <3> HIDE DEF m
    <3>1. \A k \in m .. Width : k \in 1 .. Len(d)  BY <1>0, <2>1
    <3> HIDE DEF C, d
    <3>2. QED  BY <1>0, <3>1, ElementOfSeq
  <2>3. /\ SubSeq(d, m, Width) \in Seq(C) /\ Len(SubSeq(d, m, Width)) = n
        /\ \A k \in 1 .. n : SubSeq(d, m, Width)[k] = d[m + k - 1]
    <3> HIDE DEF m, d, C, n
    <3>1. QED  BY <1>0, <2>1, <2>2, SubSeqProperties
  <2>4. \A k \in 1 .. n : m + k - 1 = Width - n + k
    BY <1>0, <1>3
  <2>5. QED  BY <2>3, <2>4
<1>6. \A k \in 1 .. n : d[k] = d[Width - n + k]
  <2>1. ASSUME NEW k \in 1 .. n PROVE d[k] = d[Width - n + k]
    <3>1. k \in 1 .. Width /\ Width - n + k \in 1 .. Width
          /\ i + (Width - n + k) - 1 = j + k - 1
      BY <1>0, <1>2
    <3>2. s[j + k - 1] = d[k] /\ s[i + (Width - n + k) - 1] = d[Width - n + k]
      <4> HIDE DEF n
      <4>1. QED  BY <3>1 DEF Hit
    <3>3. QED  BY <3>1, <3>2
  <2>2. QED  BY <2>1
<1>7. SubSeq(d, 1, n) = SubSeq(d, Width - n + 1, Width)
  <2> DEFINE u == SubSeq(d, 1, n)
             v == SubSeq(d, Width - n + 1, Width)
  <2>1. u \in Seq(C) /\ v \in Seq(C) /\ Len(u) = Len(v)
        /\ \A k \in 1 .. Len(u) : u[k] = v[k]
    BY <1>4, <1>5, <1>6
  <2> HIDE DEF u, v, C
  <2>2. u = v  BY <2>1, SeqEqual
  <2>3. QED  BY <2>2 DEF u, v
<1>8. QED  BY <1>2, <1>7 DEF Separable

(***************************************************************************)
(* A field has one end.                                                    *)
(***************************************************************************)
LEMMA NoLaterEnd ==
  ASSUME ConfOK, Separable, NEW s, NEW a \in Nat \ {0}, NEW b \in Nat, NEW n \in Nat,
         a <= b, b < n, Good(s, a, b - 1), Closed(s, b), Good(s, a, n - 1), Closed(s, n)
  PROVE  FALSE
PROOF
<1>0. Width \in Nat \ {0} /\ a \in Int /\ b \in Int /\ n \in Int
      /\ b \in a .. n - 1
  BY DEF ConfOK
<1>1. s[b] # Qual /\ s[n] # Qual
  BY <1>0, ClosedOther
<1>2. CASE Plain(s, a, n - 1)
  <2>1. ~EndsRow(s[b]) /\ ~(b + Width - 1 <= n - 1 /\ Hit(s, b))
    BY <1>0, <1>2 DEF Plain
  <2>2. Hit(s, b) /\ n < b + Width
    BY <1>0, <2>1 DEF Closed
  <2>3. CASE Hit(s, n)
    BY <1>0, <2>2, <2>3, NoOverlap
  <2>4. CASE EndsRow(s[n])
    <3>1. n \in b .. b + Width - 1  BY <1>0, <2>2
    <3>2. QED  BY <1>0, <2>2, <2>4, <3>1, HitOther
  <2>5. QED  BY <2>3, <2>4 DEF Closed
<1>3. CASE Text(s, a, n - 1)
  <2>1. s[a] = Qual /\ ~conf.unqualified /\ s[n - 1] = Qual /\ Pairs(s, a + 1, n - 2)
    <3>1. (n - 1) - 1 = n - 2  BY <1>0
    <3>2. QED  BY <1>3, <3>1 DEF Text
  <2>2. a # b /\ a \in a .. b - 1
    BY <1>0, <1>1, <2>1
  <2>3. ~Plain(s, a, b - 1)
    BY <1>0, <2>1, <2>2 DEF Plain
  <2>4. Text(s, a, b - 1)
    BY <2>3 DEF Good
  <2>5. a < b - 1 /\ s[b - 1] = Qual /\ Pairs(s, a + 1, b - 2)
    <3>1. (b - 1) - 1 = b - 2  BY <1>0
    <3>2. QED  BY <2>4, <3>1 DEF Text
  <2>6. b # n - 1
    BY <1>1, <2>1
  <2>7. ~Pairs(s, a + 1, n - 2)
    <3>1. PICK m \in Nat : m = b - 2  BY <1>0, <2>5
    <3>2. PICK l \in Nat : l = n - 2  BY <1>0
    <3>3. a + 1 \in Nat /\ a + 1 <= m + 1 /\ m + 1 <= l /\ m + 1 = b - 1 /\ m + 2 = b
      BY <1>0, <2>5, <2>6, <3>1, <3>2
    <3>4. Pairs(s, a + 1, m) /\ s[m + 1] = Qual /\ s[m + 2] # Qual
      BY <1>1, <2>5, <3>1, <3>3
    <3>5. ~Pairs(s, a + 1, l)  BY <3>3, <3>4, PairsOdd
    <3>6. QED  BY <3>2, <3>5
  <2>8. QED  BY <2>1, <2>7
<1>4. QED  BY <1>2, <1>3 DEF Good

LEMMA OneEnd ==
  ASSUME ConfOK, Separable, NEW s, NEW a \in Nat \ {0}, NEW b \in Nat, NEW n \in Nat,
         a <= b, a <= n, Good(s, a, b - 1), Closed(s, b), Good(s, a, n - 1), Closed(s, n)
  PROVE  b = n
PROOF
<1>1. ~(b < n)  BY NoLaterEnd
<1>2. ~(n < b)  BY NoLaterEnd
<1>3. QED  BY <1>1, <1>2

(***************************************************************************)
(* Texts that are the same up to n.                                        *)
(***************************************************************************)
Same(s, t, n) == \A i \in 1 .. n : s[i] = t[i]

LEMMA SameHit ==
  ASSUME ConfOK, NEW s, NEW t, NEW n \in Nat, Same(s, t, n),
         NEW i \in Nat \ {0}, i + Width - 1 <= n, Hit(s, i)
  PROVE  Hit(t, i)
PROOF
<1>1. ASSUME NEW k \in 1 .. Width PROVE t[i + k - 1] = conf.delim[k]
  <2>1. i + k - 1 \in 1 .. n  BY DEF ConfOK
  <2>2. s[i + k - 1] = conf.delim[k]  BY DEF Hit
  <2>3. QED  BY <2>1, <2>2 DEF Same
<1>2. QED  BY <1>1 DEF Hit

LEMMA SameSwap ==
  ASSUME NEW s, NEW t, NEW n, Same(s, t, n)
  PROVE  Same(t, s, n)
BY DEF Same

LEMMA SamePlain ==
  ASSUME ConfOK, NEW s, NEW t, NEW n \in Nat, Same(s, t, n),
         NEW a \in Nat \ {0}, NEW b \in Int, b <= n, Plain(s, a, b)
  PROVE  Plain(t, a, b)
PROOF
<1>0. Same(t, s, n)  BY SameSwap
<1>1. \A i \in a .. b : i \in 1 .. n /\ i \in Nat \ {0}
  OBVIOUS
<1>2. ASSUME NEW i \in a .. b
      PROVE  ~EndsRow(t[i]) /\ ~(i + Width - 1 <= b /\ Hit(t, i))
  <2>1. ~EndsRow(s[i]) /\ ~(i + Width - 1 <= b /\ Hit(s, i))  BY DEF Plain
  <2>2. ~EndsRow(t[i])  BY <1>1, <2>1 DEF Same
  <2>3. ASSUME i + Width - 1 <= b, Hit(t, i) PROVE FALSE
    <3>1. i + Width - 1 <= n /\ i \in Nat \ {0}  BY <1>1, <2>3 DEF ConfOK
    <3>2. Hit(s, i)  BY <1>0, <2>3, <3>1, SameHit
    <3>3. QED  BY <2>1, <2>3, <3>2
  <2>4. QED  BY <2>2, <2>3
<1>3. a > b \/ t[a] # Qual \/ conf.unqualified
  <2>1. a > b \/ a \in 1 .. n  OBVIOUS
  <2>2. a > b \/ s[a] # Qual \/ conf.unqualified  BY DEF Plain
  <2>3. QED  BY <2>1, <2>2 DEF Same
<1>4. QED  BY <1>2, <1>3 DEF Plain

LEMMA SamePairs ==
  ASSUME NEW s, NEW t, NEW n \in Nat, Same(s, t, n),
         NEW a \in Nat \ {0}, NEW b \in Int, b <= n, Pairs(s, a, b)
  PROVE  Pairs(t, a, b)
PROOF
<1>1. SUFFICES ASSUME NEW i \in a .. b, NEW j \in a .. b, Alone(t, a, b, i, j)
               PROVE  (j - i) % 2 = 1
  BY DEF Pairs
<1>2. \A k \in a .. b : s[k] = t[k]
  BY DEF Same
<1>3. Alone(s, a, b, i, j)
  <2>1. i <= j /\ \A k \in i .. j : k \in a .. b  BY <1>1 DEF Alone
  <2>2. \A k \in i .. j : s[k] = Qual  BY <1>1, <1>2, <2>1 DEF Alone
  <2>3. i > a => i - 1 \in a .. b  OBVIOUS
  <2>4. j < b => j + 1 \in a .. b  OBVIOUS
  <2>5. i > a => s[i - 1] # Qual  BY <1>1, <1>2, <2>3 DEF Alone
  <2>6. j < b => s[j + 1] # Qual  BY <1>1, <1>2, <2>4 DEF Alone
  <2>7. QED  BY <2>1, <2>2, <2>5, <2>6 DEF Alone
<1>4. QED  BY <1>3 DEF Pairs

LEMMA SameText ==
  ASSUME NEW s, NEW t, NEW n \in Nat, Same(s, t, n),
         NEW a \in Nat \ {0}, NEW b \in Int, b <= n, Text(s, a, b)
  PROVE  Text(t, a, b)
PROOF
<1>1. a < b /\ a \in 1 .. n /\ b \in 1 .. n  BY DEF Text
<1>2. t[a] = Qual /\ t[b] = Qual  BY <1>1 DEF Text, Same
<1>3. Pairs(t, a + 1, b - 1)
  <2>1. a + 1 \in Nat \ {0} /\ b - 1 \in Int /\ b - 1 <= n  OBVIOUS
  <2>2. Pairs(s, a + 1, b - 1)  BY DEF Text
  <2>3. QED  BY <2>1, <2>2, SamePairs
<1>4. QED  BY <1>1, <1>2, <1>3 DEF Text

LEMMA SameGood ==
  ASSUME ConfOK, NEW s, NEW t, NEW n \in Nat, Same(s, t, n),
         NEW a \in Nat \ {0}, NEW b \in Int, b <= n, Good(s, a, b)
  PROVE  Good(t, a, b)
BY SamePlain, SameText DEF Good

LEMMA PartOf ==
  ASSUME NEW C, NEW s \in Seq(C), NEW i \in Nat, NEW j \in Int, 1 <= i, j <= Len(s)
  PROVE  /\ SubSeq(s, i, j) \in Seq(C)
         /\ Len(SubSeq(s, i, j)) = (IF i <= j THEN j - i + 1 ELSE 0)
         /\ \A k \in 1 .. j - i + 1 : SubSeq(s, i, j)[k] = s[i + k - 1]
PROOF
<1>1. \A k \in i .. j : s[k] \in C
  BY ElementOfSeq
<1>2. QED  BY <1>1, SubSeqProperties

(***************************************************************************)
(* A part of a text is a field if it is one by position.                   *)
(***************************************************************************)
Copied(u, s, a, n) == \A k \in 1 .. n : u[k] = s[a + k - 1]

LEMMA PartRuns ==
  ASSUME NEW s, NEW u, NEW a \in Nat, NEW b \in Int, NEW n \in Nat, n = b - a + 1,
         Copied(u, s, a, n)
  PROVE  Pairs(u, 1, n) <=> Pairs(s, a, b)
PROOF
<1> USE DEF Copied
<1>0. \A k \in a .. b : k - a + 1 \in 1 .. n /\ s[k] = u[k - a + 1]
  <2>1. ASSUME NEW k \in a .. b PROVE k - a + 1 \in 1 .. n /\ s[k] = u[k - a + 1]
    <3>1. PICK l \in 1 .. n : l = k - a + 1
      <4>1. k - a + 1 \in 1 .. n  OBVIOUS
      <4>2. QED  BY <4>1
    <3>2. u[l] = s[a + l - 1] /\ a + l - 1 = k  BY <3>1
    <3>3. QED  BY <3>1, <3>2
  <2>2. QED  BY <2>1
<1>1. ASSUME Pairs(u, 1, n), NEW i \in a .. b, NEW j \in a .. b, Alone(s, a, b, i, j)
      PROVE  (j - i) % 2 = 1
  <2>1. PICK k \in 1 .. n, l \in 1 .. n : k = i - a + 1 /\ l = j - a + 1
    BY <1>0
  <2>2. Alone(u, 1, n, k, l)
    <3>1. k <= l  BY <1>1, <2>1 DEF Alone
    <3>2. ASSUME NEW q \in k .. l PROVE u[q] = Qual
      <4>1. q \in 1 .. n /\ a + q - 1 \in i .. j  BY <2>1
      <4>2. QED  BY <1>1, <4>1 DEF Alone
    <3>3. k > 1 => u[k - 1] # Qual
      <4>1. ASSUME k > 1 PROVE u[k - 1] # Qual
        <5>1. i > a /\ k - 1 \in 1 .. n /\ a + (k - 1) - 1 = i - 1  BY <2>1, <4>1
        <5>2. u[k - 1] = s[i - 1]  BY <5>1
        <5>3. QED  BY <1>1, <5>1, <5>2 DEF Alone
      <4>2. QED  BY <4>1
    <3>4. l < n => u[l + 1] # Qual
      <4>1. ASSUME l < n PROVE u[l + 1] # Qual
        <5>1. j < b /\ l + 1 \in 1 .. n /\ a + (l + 1) - 1 = j + 1  BY <2>1, <4>1
        <5>2. u[l + 1] = s[j + 1]  BY <5>1
        <5>3. QED  BY <1>1, <5>1, <5>2 DEF Alone
      <4>2. QED  BY <4>1
    <3>5. QED  BY <3>1, <3>2, <3>3, <3>4 DEF Alone
  <2>3. (l - k) % 2 = 1  BY <1>1, <2>2 DEF Pairs
  <2>4. l - k = j - i  BY <2>1
  <2>5. QED  BY <2>3, <2>4
<1>2. ASSUME Pairs(s, a, b), NEW k \in 1 .. n, NEW l \in 1 .. n, Alone(u, 1, n, k, l)
      PROVE  (l - k) % 2 = 1
  <2>1. PICK i \in a .. b, j \in a .. b : i = a + k - 1 /\ j = a + l - 1
    <3>1. a + k - 1 \in a .. b /\ a + l - 1 \in a .. b  OBVIOUS
    <3>2. QED  BY <3>1
  <2>2. Alone(s, a, b, i, j)
    <3>1. i <= j  BY <1>2, <2>1 DEF Alone
    <3>2. ASSUME NEW q \in i .. j PROVE s[q] = Qual
      <4>1. q \in a .. b /\ q - a + 1 \in k .. l  BY <2>1
      <4>2. QED  BY <1>0, <1>2, <4>1 DEF Alone
    <3>3. i > a => s[i - 1] # Qual
      <4>1. ASSUME i > a PROVE s[i - 1] # Qual
        <5>1. k > 1 /\ i - 1 \in a .. b /\ (i - 1) - a + 1 = k - 1  BY <2>1, <4>1
        <5>2. s[i - 1] = u[k - 1]  BY <1>0, <5>1
        <5>3. QED  BY <1>2, <5>1, <5>2 DEF Alone
      <4>2. QED  BY <4>1
    <3>4. j < b => s[j + 1] # Qual
      <4>1. ASSUME j < b PROVE s[j + 1] # Qual
        <5>1. l < n /\ j + 1 \in a .. b /\ (j + 1) - a + 1 = l + 1  BY <2>1, <4>1
        <5>2. s[j + 1] = u[l + 1]  BY <1>0, <5>1
        <5>3. QED  BY <1>2, <5>1, <5>2 DEF Alone
      <4>2. QED  BY <4>1
    <3>5. QED  BY <3>1, <3>2, <3>3, <3>4 DEF Alone
  <2>3. (j - i) % 2 = 1  BY <1>2, <2>2 DEF Pairs
  <2>4. l - k = j - i  BY <2>1
  <2>5. QED  BY <2>3, <2>4
<1>3. QED  BY <1>1, <1>2 DEF Pairs

LEMMA InPairsIs ==
  ASSUME NEW u \in Seq(Chars)
  PROVE  InPairs(u) <=> Pairs(u, 1, Len(u))
PROOF
<1>1. Len(u) \in Nat /\ DOMAIN u = 1 .. Len(u)  BY LenProperties
<1>2. \A i, j \in 1 .. Len(u) : Run(u, i, j) <=> Alone(u, 1, Len(u), i, j)
  BY <1>1 DEF Run, Alone
<1>3. QED  BY <1>1, <1>2 DEF InPairs, Pairs

LEMMA PartPlain ==
  ASSUME ConfOK, NEW s \in Seq(Chars), NEW a \in Nat \ {0}, NEW b \in Int, b <= Len(s)
  PROVE  PlainField(SubSeq(s, a, b)) <=> Plain(s, a, b)
PROOF
<1>1. PICK u : u = SubSeq(s, a, b)  OBVIOUS
<1>2. PICK n \in Nat : n = IF a <= b THEN b - a + 1 ELSE 0
  <2>1. (IF a <= b THEN b - a + 1 ELSE 0) \in Nat  OBVIOUS
  <2>2. QED  BY <2>1
<1>3. /\ u \in Seq(Chars) /\ Len(u) = n
      /\ \A k \in 1 .. n : u[k] = s[a + k - 1]
  <2>1. a \in Nat /\ 1 <= a  OBVIOUS
  <2>2. /\ u \in Seq(Chars) /\ Len(u) = n
        /\ \A k \in 1 .. b - a + 1 : u[k] = s[a + k - 1]
    BY <1>1, <1>2, <2>1, PartOf
  <2>3. QED  BY <1>2, <2>2
<1>4. DOMAIN u = 1 .. n  BY <1>3, LenProperties
<1>5. u = <<>> <=> n = 0  BY <1>3, EmptySeq
<1>6. ASSUME NEW i \in 1 .. n
      PROVE  DelimAt(u, i) <=> (a + i - 1) + Width - 1 <= b /\ Hit(s, a + i - 1)
  <2>0. Width \in Nat \ {0}  BY DEF ConfOK
  <2>1. i + Width - 1 <= n <=> (a + i - 1) + Width - 1 <= b
    BY <1>2, <1>6, <2>0
  <2>2. ASSUME i + Width - 1 <= n, NEW k \in 1 .. Width
        PROVE  u[i + k - 1] = s[(a + i - 1) + k - 1]
    <3>1. i + k - 1 \in 1 .. n /\ a + (i + k - 1) - 1 = (a + i - 1) + k - 1
      BY <2>0, <2>2
    <3>2. QED  BY <1>3, <3>1
  <2>3. QED  BY <1>3, <2>1, <2>2 DEF DelimAt, Hit
<1>7. ASSUME PlainField(u) PROVE Plain(s, a, b)
  <2>1. ASSUME NEW j \in a .. b PROVE ~EndsRow(s[j]) /\ ~(j + Width - 1 <= b /\ Hit(s, j))
    <3>1. PICK i \in 1 .. n : a + i - 1 = j
      <4>1. j - a + 1 \in 1 .. n  BY <1>2
      <4>2. a + (j - a + 1) - 1 = j  OBVIOUS
      <4>3. QED  BY <4>1, <4>2
    <3>2. ~DelimAt(u, i) /\ ~EndsRow(u[i])  BY <1>4, <1>7 DEF PlainField
    <3>3. u[i] = s[j]  BY <1>3, <3>1
    <3>4. QED  BY <1>6, <3>1, <3>2, <3>3
  <2>2. a > b \/ s[a] # Qual \/ conf.unqualified
    <3>1. u = <<>> \/ u[1] # Qual \/ conf.unqualified  BY <1>7 DEF PlainField
    <3>2. n > 0 => u[1] = s[a]
      <4>1. n > 0 => 1 \in 1 .. n /\ a + 1 - 1 = a  OBVIOUS
      <4>2. QED  BY <1>3, <4>1
    <3>3. QED  BY <1>2, <1>5, <3>1, <3>2
  <2>3. QED  BY <2>1, <2>2 DEF Plain
<1>8. ASSUME Plain(s, a, b) PROVE PlainField(u)
  <2>1. ASSUME NEW i \in 1 .. n PROVE ~DelimAt(u, i) /\ ~EndsRow(u[i])
    <3>1. PICK j \in a .. b : a + i - 1 = j
      <4>1. a + i - 1 \in a .. b  BY <1>2
      <4>2. QED  BY <4>1
    <3>2. ~EndsRow(s[j]) /\ ~(j + Width - 1 <= b /\ Hit(s, j))  BY <1>8 DEF Plain
    <3>3. u[i] = s[j]  BY <1>3, <3>1
    <3>4. QED  BY <1>6, <3>1, <3>2, <3>3
  <2>2. u = <<>> \/ u[1] # Qual \/ conf.unqualified
    <3>1. a > b \/ s[a] # Qual \/ conf.unqualified  BY <1>8 DEF Plain
    <3>2. n > 0 => u[1] = s[a]
      <4>1. n > 0 => 1 \in 1 .. n /\ a + 1 - 1 = a  OBVIOUS
      <4>2. QED  BY <1>3, <4>1
    <3>3. QED  BY <1>2, <1>5, <3>1, <3>2
  <2>3. QED  BY <1>4, <2>1, <2>2 DEF PlainField
<1>9. QED  BY <1>1, <1>7, <1>8

LEMMA PartText ==
  ASSUME NEW s \in Seq(Chars), NEW a \in Nat \ {0}, NEW b \in Int, b <= Len(s)
  PROVE  QualifiedField(SubSeq(s, a, b)) <=> Text(s, a, b)
PROOF
<1>1. PICK u : u = SubSeq(s, a, b)  OBVIOUS
<1>2. PICK n \in Nat : n = IF a <= b THEN b - a + 1 ELSE 0
  <2>1. (IF a <= b THEN b - a + 1 ELSE 0) \in Nat  OBVIOUS
  <2>2. QED  BY <2>1
<1>3. /\ u \in Seq(Chars) /\ Len(u) = n
      /\ \A k \in 1 .. n : u[k] = s[a + k - 1]
  <2>1. a \in Nat /\ 1 <= a  OBVIOUS
  <2>2. /\ u \in Seq(Chars) /\ Len(u) = n
        /\ \A k \in 1 .. b - a + 1 : u[k] = s[a + k - 1]
    BY <1>1, <1>2, <2>1, PartOf
  <2>3. QED  BY <1>2, <2>2
<1>4. CASE n < 2
  <2>1. ~(a < b) /\ ~(Len(u) >= 2)  BY <1>2, <1>3, <1>4
  <2>2. QED  BY <1>1, <2>1 DEF QualifiedField, Text
<1>5. CASE n >= 2
  <2>1. a < b /\ n = b - a + 1  BY <1>2, <1>5
  <2>2. u[1] = s[a] /\ u[n] = s[b]
    <3>1. 1 \in 1 .. n /\ n \in 1 .. n /\ a + 1 - 1 = a /\ a + n - 1 = b  BY <1>5, <2>1
    <3>2. QED  BY <1>3, <3>1
  <2>3. PICK v : v = Inner(u)  OBVIOUS
  <2>4. PICK m \in Nat : m = n - 2  BY <1>5
  <2>5. /\ v \in Seq(Chars) /\ Len(v) = m
        /\ \A k \in 1 .. m : v[k] = u[2 + k - 1]
    <3>1. /\ SubSeq(u, 2, n - 1) \in Seq(Chars)
          /\ Len(SubSeq(u, 2, n - 1)) = (IF 2 <= n - 1 THEN (n - 1) - 2 + 1 ELSE 0)
          /\ \A k \in 1 .. (n - 1) - 2 + 1 : SubSeq(u, 2, n - 1)[k] = u[2 + k - 1]
      <4>1. n - 1 \in Int /\ 2 \in Nat /\ 1 <= 2 /\ n - 1 <= Len(u)  BY <1>3
      <4>2. QED  BY <1>3, <4>1, PartOf
    <3>2. v = SubSeq(u, 2, n - 1)  BY <1>3, <2>3 DEF Inner
    <3>3. QED  BY <1>5, <2>4, <3>1, <3>2
  <2>6. \A k \in 1 .. m : v[k] = s[(a + 1) + k - 1]
    <3>1. ASSUME NEW k \in 1 .. m PROVE v[k] = s[(a + 1) + k - 1]
      <4>1. k + 1 \in 1 .. n /\ 2 + k - 1 = k + 1 /\ a + (k + 1) - 1 = (a + 1) + k - 1
        BY <2>4
      <4>2. QED  BY <1>3, <2>5, <4>1
    <3>2. QED  BY <3>1
  <2>7. Pairs(v, 1, m) <=> Pairs(s, a + 1, b - 1)
    <3>1. PICK l \in Nat, r \in Int : l = a + 1 /\ r = b - 1  OBVIOUS
    <3>2. m = r - l + 1  BY <2>1, <2>4, <3>1
    <3>3. Copied(v, s, l, m)  BY <2>6, <3>1 DEF Copied
    <3>4. Pairs(v, 1, m) <=> Pairs(s, l, r)  BY <3>2, <3>3, PartRuns
    <3>5. QED  BY <3>1, <3>4
  <2>8. InPairs(v) <=> Pairs(s, a + 1, b - 1)
    BY <2>5, <2>7, InPairsIs
  <2>9. QED  BY <1>1, <1>3, <1>5, <2>1, <2>2, <2>3, <2>8 DEF QualifiedField, Text
<1>6. QED  BY <1>4, <1>5

(***************************************************************************)
(* Records by position: the fields of a text s up to m are between the     *)
(* delimiters at c; and the first k of them.                               *)
(***************************************************************************)
FieldAt(s, c, i, texts) ==
  \/ Plain(s, c[i] + Width, c[i + 1] - 1)
  \/ i \in texts /\ Text(s, c[i] + Width, c[i + 1] - 1)

Split(s, m, c, texts) ==
  /\ c \in [0 .. FieldsNum -> Int] /\ c[0] = 1 - Width /\ c[FieldsNum] = m + 1
  /\ \A i \in 0 .. FieldsNum : 1 - Width <= c[i] /\ c[i] <= m + 1
  /\ \A i \in Fields : c[i] + Width <= c[i + 1] /\ FieldAt(s, c, i, texts)
  /\ \A i \in 1 .. FieldsNum - 1 : Hit(s, c[i])

Begun(s, c, k, texts) ==
  /\ c \in [0 .. FieldsNum -> Int] /\ c[0] = 1 - Width
  /\ \A i \in 0 .. k : 1 - Width <= c[i] /\ c[i] <= c[k]
  /\ \A i \in 0 .. k - 1 :
       c[i] + Width <= c[i + 1] /\ Hit(s, c[i + 1]) /\ FieldAt(s, c, i, texts)

LEMMA FieldIsGood ==
  ASSUME NEW s, NEW c, NEW i, NEW T, FieldAt(s, c, i, T)
  PROVE  Good(s, c[i] + Width, c[i + 1] - 1)
BY DEF FieldAt, Good

LEMMA SameField ==
  ASSUME ConfOK, NEW s, NEW t, NEW n \in Nat, Same(s, t, n), NEW c, NEW i, NEW T,
         c[i] + Width \in Nat \ {0}, c[i + 1] \in Int, c[i + 1] - 1 <= n, FieldAt(s, c, i, T)
  PROVE  FieldAt(t, c, i, T)
PROOF
<1>1. PICK a \in Nat \ {0}, b \in Int : a = c[i] + Width /\ b = c[i + 1] - 1 /\ b <= n
  OBVIOUS
<1>2. CASE Plain(s, a, b)
  <2>1. Plain(t, a, b)  BY <1>1, <1>2, SamePlain
  <2>2. QED  BY <1>1, <2>1 DEF FieldAt
<1>3. CASE i \in T /\ Text(s, a, b)
  <2>1. Text(t, a, b)  BY <1>1, <1>3, SameText
  <2>2. QED  BY <1>1, <1>3, <2>1 DEF FieldAt
<1>4. QED  BY <1>1, <1>2, <1>3 DEF FieldAt

LEMMA SameBegun ==
  ASSUME ConfOK, NEW s, NEW t, NEW n \in Nat, Same(s, t, n), NEW c, NEW k \in Fields,
         NEW T, Begun(s, c, k, T), c[k] + Width - 1 <= n
  PROVE  Begun(t, c, k, T)
PROOF
<1>0. FieldsNum \in Nat /\ k \in Nat /\ k < FieldsNum /\ Width \in Nat \ {0}
  BY ConfigAssumption DEF Fields, ConfOK
<1>1. ASSUME NEW i \in 0 .. k - 1
      PROVE  c[i] + Width <= c[i + 1] /\ Hit(t, c[i + 1]) /\ FieldAt(t, c, i, T)
  <2>1. i \in 0 .. k /\ i + 1 \in 0 .. k /\ i \in 0 .. FieldsNum /\ i + 1 \in 0 .. FieldsNum
        /\ k \in 0 .. FieldsNum
    BY <1>0
  <2>2. c[i] \in Int /\ c[i + 1] \in Int /\ c[k] \in Int /\ c[i] + Width \in Nat \ {0}
        /\ c[i] + Width <= c[i + 1] /\ c[i + 1] <= c[k]
    BY <1>0, <2>1 DEF Begun
  <2>3. c[i + 1] \in Nat \ {0} /\ c[i + 1] + Width - 1 <= n /\ c[i + 1] - 1 <= n
    BY <1>0, <2>2
  <2>4. Hit(s, c[i + 1]) /\ FieldAt(s, c, i, T)
    BY DEF Begun
  <2>5. FieldAt(t, c, i, T)
    BY <2>2, <2>3, <2>4, SameField
  <2>6. Hit(t, c[i + 1])
    BY <2>3, <2>4, SameHit
  <2>7. QED  BY <2>2, <2>5, <2>6
<1>2. QED  BY <1>1 DEF Begun

LEMMA SameSplit ==
  ASSUME ConfOK, NEW s, NEW t, NEW m \in Nat, NEW n \in Nat, m <= n, Same(s, t, n), NEW c,
         NEW T, Split(s, m, c, T)
  PROVE  Split(t, m, c, T)
PROOF
<1>0. FieldsNum \in Nat \ {0} /\ Width \in Nat \ {0}
  BY ConfigAssumption DEF ConfOK
<1>1. ASSUME NEW i \in Fields
      PROVE  c[i] + Width <= c[i + 1] /\ FieldAt(t, c, i, T)
  <2>1. i \in 0 .. FieldsNum /\ i + 1 \in 0 .. FieldsNum
    BY <1>0 DEF Fields
  <2>2. c[i] + Width \in Nat \ {0} /\ c[i + 1] \in Int /\ c[i + 1] - 1 <= n
        /\ FieldAt(s, c, i, T) /\ c[i] + Width <= c[i + 1]
    BY <1>0, <2>1 DEF Split
  <2>3. QED  BY <2>2, SameField
<1>2. ASSUME NEW i \in 1 .. FieldsNum - 1
      PROVE  Hit(t, c[i])
  <2>1. i \in Fields /\ i - 1 \in Fields /\ (i - 1) + 1 = i /\ i \in 0 .. FieldsNum
        /\ i - 1 \in 0 .. FieldsNum /\ i + 1 \in 0 .. FieldsNum
    BY <1>0 DEF Fields
  <2>2. /\ c[i - 1] \in Int /\ c[i] \in Int /\ c[i + 1] \in Int
        /\ 1 - Width <= c[i - 1] /\ c[i - 1] + Width <= c[i]
        /\ c[i] + Width <= c[i + 1] /\ c[i + 1] <= m + 1
    BY <2>1 DEF Split
  <2>3. c[i] \in Nat \ {0} /\ c[i] + Width - 1 <= n
    BY <1>0, <2>2
  <2>4. Hit(s, c[i])  BY DEF Split
  <2>5. QED  BY <2>3, <2>4, SameHit
<1>3. QED  BY <1>1, <1>2 DEF Split

LEMMA Ascending ==
  ASSUME NEW c \in [0 .. FieldsNum -> Int], NEW k \in 0 .. FieldsNum, Width \in Nat,
         \A i \in 0 .. k - 1 : c[i] + Width <= c[i + 1]
  PROVE  \A i \in 0 .. k : c[i] <= c[k]
PROOF
<1> DEFINE S == {j \in Nat : j <= k => \A l \in 0 .. j : c[l] <= c[j]}
<1>1. k \in Nat /\ FieldsNum \in Nat
  BY ConfigAssumption
<1>2. 0 \in S
  <2>1. c[0] \in Int  BY <1>1
  <2>2. \A l \in 0 .. 0 : l = 0  OBVIOUS
  <2>3. QED  BY <2>1, <2>2
<1>3. ASSUME NEW j \in Nat, j \in S PROVE j + 1 \in S
  <2>1. SUFFICES ASSUME j + 1 <= k, NEW l \in 0 .. j + 1 PROVE c[l] <= c[j + 1]
    OBVIOUS
  <2>2. j \in 0 .. k - 1 /\ j \in 0 .. FieldsNum /\ j + 1 \in 0 .. FieldsNum
        /\ l \in 0 .. FieldsNum /\ j <= k
    BY <1>1, <2>1
  <2>3. c[j] \in Int /\ c[j + 1] \in Int /\ c[l] \in Int /\ c[j] + Width <= c[j + 1]
    BY <2>2
  <2>4. CASE l = j + 1
    BY <2>3, <2>4
  <2>5. CASE l \in 0 .. j
    <3>1. c[l] <= c[j]  BY <1>3, <2>2, <2>5
    <3>2. QED  BY <2>3, <3>1
  <2>6. QED  BY <2>4, <2>5
<1>4. Nat \subseteq S
  <2> HIDE DEF S
  <2>1. QED  BY <1>2, <1>3, Induction
<1>5. k \in S /\ k <= k
  BY <1>1, <1>4
<1>6. QED  BY <1>5

LEMMA BegunLess ==
  ASSUME ConfOK, NEW s, NEW k \in Fields, NEW c, NEW T, Begun(s, c, k + 1, T)
  PROVE  Begun(s, c, k, T)
PROOF
<1>1. k \in Nat /\ k \in 0 .. FieldsNum /\ Width \in Nat
      /\ (\A i \in 0 .. k - 1 : i \in 0 .. (k + 1) - 1)
      /\ (\A i \in 0 .. k : i \in 0 .. k + 1)
  BY ConfigAssumption DEF Fields, ConfOK
<1>2. c \in [0 .. FieldsNum -> Int] /\ c[0] = 1 - Width
  BY DEF Begun
<1>3. \A i \in 0 .. k - 1 :
        c[i] + Width <= c[i + 1] /\ Hit(s, c[i + 1]) /\ FieldAt(s, c, i, T)
  BY <1>1 DEF Begun
<1>4. \A i \in 0 .. k : c[i] <= c[k]
  BY <1>1, <1>2, <1>3, Ascending
<1>5. \A i \in 0 .. k : 1 - Width <= c[i]
  BY <1>1 DEF Begun
<1>6. QED  BY <1>2, <1>3, <1>4, <1>5 DEF Begun

LEMMA SplitBegun ==
  ASSUME ConfOK, NEW s, NEW m, NEW c, NEW T, Split(s, m, c, T), NEW k \in Fields
  PROVE  Begun(s, c, k, T)
PROOF
<1>1. k \in Nat /\ k \in 0 .. FieldsNum /\ Width \in Nat
      /\ (\A i \in 0 .. k - 1 : i \in Fields /\ i + 1 \in 1 .. FieldsNum - 1)
      /\ (\A i \in 0 .. k : i \in 0 .. FieldsNum)
  BY ConfigAssumption DEF Fields, ConfOK
<1>2. c \in [0 .. FieldsNum -> Int] /\ c[0] = 1 - Width
  BY DEF Split
<1>3. \A i \in 0 .. k - 1 :
        c[i] + Width <= c[i + 1] /\ Hit(s, c[i + 1]) /\ FieldAt(s, c, i, T)
  BY <1>1 DEF Split
<1>4. \A i \in 0 .. k : c[i] <= c[k]
  BY <1>1, <1>2, <1>3, Ascending
<1>5. \A i \in 0 .. k : 1 - Width <= c[i]
  BY <1>1 DEF Split
<1>6. QED  BY <1>2, <1>3, <1>4, <1>5 DEF Begun

(***************************************************************************)
(* Where the fields found begin is certain: they are those of any record   *)
(* the text begins with.                                                   *)
(***************************************************************************)
LEMMA BegunOnce ==
  ASSUME ConfOK, Separable, NEW s, NEW k \in Fields, NEW c, NEW T, Begun(s, c, k, T),
         NEW d, NEW U, Begun(s, d, k, U)
  PROVE  \A i \in 0 .. k : d[i] = c[i]
PROOF
<1> DEFINE S == {i \in Nat : i <= k => d[i] = c[i]}
<1>0. FieldsNum \in Nat \ {0} /\ Width \in Nat \ {0} /\ k \in Nat /\ k < FieldsNum
  BY ConfigAssumption DEF ConfOK, Fields
<1>1. 0 \in S
  BY DEF Begun
<1>2. ASSUME NEW i \in Nat, i \in S PROVE i + 1 \in S
  <2>1. SUFFICES ASSUME i + 1 <= k PROVE d[i + 1] = c[i + 1]
    OBVIOUS
  <2>2. /\ i \in 0 .. k - 1 /\ i \in 0 .. k /\ i + 1 \in 0 .. k
        /\ i \in 0 .. FieldsNum /\ i + 1 \in 0 .. FieldsNum
    BY <1>0, <2>1
  <2>3. d[i] = c[i]
    BY <1>2, <2>1, <2>2
  <2>4. /\ c[i] \in Int /\ c[i + 1] \in Int /\ d[i + 1] \in Int
        /\ 1 - Width <= c[i] /\ c[i] + Width <= c[i + 1]
        /\ Hit(s, c[i + 1]) /\ FieldAt(s, c, i, T)
    BY <2>2 DEF Begun
  <2>5. d[i] + Width <= d[i + 1] /\ FieldAt(s, d, i, U) /\ Hit(s, d[i + 1])
    BY <2>2 DEF Begun
  <2>6. PICK a \in Nat \ {0}, b \in Nat, n \in Nat :
          a = c[i] + Width /\ b = c[i + 1] /\ n = d[i + 1]
    <3>1. c[i] + Width \in Nat \ {0} /\ c[i + 1] \in Nat /\ d[i + 1] \in Nat
      BY <1>0, <2>3, <2>4, <2>5
    <3>2. QED  BY <3>1
  <2>7. a <= b /\ a <= n
    BY <1>0, <2>3, <2>4, <2>5, <2>6
  <2>8. Good(s, a, b - 1) /\ Good(s, a, n - 1)
    BY <2>3, <2>4, <2>5, <2>6, FieldIsGood
  <2>9. Closed(s, b) /\ Closed(s, n)
    BY <2>4, <2>5, <2>6 DEF Closed
  <2>10. b = n
    BY <2>7, <2>8, <2>9, OneEnd
  <2>11. QED  BY <2>6, <2>10
<1>3. Nat \subseteq S
  <2> HIDE DEF S
  <2>1. QED  BY <1>1, <1>2, Induction
<1>4. QED  BY <1>0, <1>3

LEMMA SplitBegins ==
  ASSUME ConfOK, Separable, NEW s, NEW k \in Fields, NEW c, NEW T, Begun(s, c, k, T),
         NEW m \in Nat, NEW d, NEW U, Split(s, m, d, U)
  PROVE  \A i \in 0 .. k : d[i] = c[i]
BY SplitBegun, BegunOnce

(* The field after them: where it begins, and how it ends.                 *)
LEMMA NextField ==
  ASSUME ConfOK, Separable, NEW s, NEW k \in Fields, NEW c, NEW T, Begun(s, c, k, T),
         NEW m \in Nat, NEW d, NEW U, Split(s, m, d, U), EndsRow(s[m + 1]),
         NEW a \in Nat, a = c[k] + Width
  PROVE  \E n \in Nat :
           /\ n = d[k + 1] /\ a <= n /\ n <= m + 1
           /\ Good(s, a, n - 1) /\ Closed(s, n)
           /\ Plain(s, a, n - 1) \/ (k \in U /\ Text(s, a, n - 1))
           /\ k + 1 < FieldsNum => Hit(s, n) /\ n + Width - 1 <= m
           /\ k + 1 = FieldsNum => n = m + 1 /\ EndsRow(s[n])
PROOF
<1>0. /\ FieldsNum \in Nat \ {0} /\ Width \in Nat \ {0} /\ k \in Nat /\ k < FieldsNum
      /\ k \in 0 .. k /\ k \in 0 .. FieldsNum /\ k + 1 \in 0 .. FieldsNum
  BY ConfigAssumption DEF ConfOK, Fields
<1>1. d[k] = c[k]
  BY <1>0, SplitBegins
<1>2. /\ c[k] \in Int /\ d[k + 1] \in Int /\ d[k + 1] <= m + 1
      /\ d[k] + Width <= d[k + 1] /\ FieldAt(s, d, k, U)
  BY <1>0 DEF Begun, Split
<1>3. PICK n \in Nat : n = d[k + 1]
  <2>1. d[k + 1] \in Nat  BY <1>0, <1>1, <1>2
  <2>2. QED  BY <2>1
<1>4. a <= n /\ n <= m + 1 /\ Good(s, a, n - 1)
      /\ (Plain(s, a, n - 1) \/ (k \in U /\ Text(s, a, n - 1)))
  BY <1>1, <1>2, <1>3 DEF FieldAt, Good
<1>5. ASSUME k + 1 = FieldsNum PROVE n = m + 1 /\ EndsRow(s[n])
  BY <1>3, <1>5 DEF Split
<1>6. ASSUME k + 1 < FieldsNum PROVE Hit(s, n) /\ n + Width - 1 <= m
  <2>1. k + 1 \in 1 .. FieldsNum - 1 /\ k + 1 \in Fields /\ (k + 1) + 1 \in 0 .. FieldsNum
    BY <1>0, <1>6 DEF Fields
  <2>2. /\ Hit(s, d[k + 1]) /\ d[k + 1] + Width <= d[(k + 1) + 1]
        /\ d[(k + 1) + 1] <= m + 1 /\ d[(k + 1) + 1] \in Int
    BY <2>1 DEF Split
  <2>3. QED  BY <1>0, <1>3, <2>2
<1>7. Closed(s, n)
  BY <1>0, <1>5, <1>6 DEF Closed
<1>8. QED  BY <1>3, <1>4, <1>5, <1>6, <1>7

(* One more field.                                                         *)
LEMMA NextBegun ==
  ASSUME ConfOK, NEW s, NEW k \in Fields, NEW c, NEW T, Begun(s, c, k, T),
         NEW a \in Nat, c[k] + Width = a, NEW b \in Nat \ {0}, a <= b, Hit(s, b),
         Plain(s, a, b - 1) \/ (k \in T /\ Text(s, a, b - 1))
  PROVE  /\ Begun(s, [c EXCEPT ![k + 1] = b], k + 1, T)
         /\ [c EXCEPT ![k + 1] = b][k + 1] = b
PROOF
<1>1. PICK d : d = [c EXCEPT ![k + 1] = b]  OBVIOUS
<1>2. k \in Nat /\ k + 1 \in 0 .. FieldsNum /\ k \in 0 .. FieldsNum /\ k + 1 # 0
      /\ 0 \in 0 .. FieldsNum /\ Width \in Nat \ {0}
  BY ConfigAssumption DEF Fields, ConfOK
<1>3. c \in [0 .. FieldsNum -> Int] /\ c[0] = 1 - Width
      /\ (\A i \in 0 .. k : 1 - Width <= c[i] /\ c[i] <= c[k])
  BY DEF Begun
<1>4. /\ d \in [0 .. FieldsNum -> Int] /\ d[k + 1] = b
      /\ \A i \in 0 .. FieldsNum : i # k + 1 => d[i] = c[i]
  BY <1>1, <1>2, <1>3
<1>5. d[0] = 1 - Width
  BY <1>2, <1>3, <1>4
<1>6. ASSUME NEW i \in 0 .. k + 1 PROVE 1 - Width <= d[i] /\ d[i] <= d[k + 1]
  <2>1. CASE i = k + 1
    BY <1>2, <1>4, <2>1
  <2>2. CASE i \in 0 .. k
    <3>1. i \in 0 .. FieldsNum /\ i # k + 1 /\ k \in 0 .. k
      BY <1>2, <2>2, ConfigAssumption
    <3>2. d[i] = c[i] /\ c[i] \in Int /\ c[k] \in Int  BY <1>2, <1>3, <1>4, <3>1
    <3>3. c[i] <= c[k] /\ 1 - Width <= c[i]  BY <1>3, <2>2
    <3>4. c[k] <= b  BY <1>2, <3>2
    <3>5. QED  BY <1>4, <3>2, <3>3, <3>4
  <2>3. QED  BY <1>2, <2>1, <2>2
<1>7. ASSUME NEW i \in 0 .. k
      PROVE  d[i] + Width <= d[i + 1] /\ Hit(s, d[i + 1]) /\ FieldAt(s, d, i, T)
  <2>1. CASE i = k
    <3>1. d[i] = c[k] /\ d[i + 1] = b  BY <1>2, <1>4, <2>1
    <3>2. FieldAt(s, d, i, T)  BY <2>1, <3>1 DEF FieldAt
    <3>3. QED  BY <3>1, <3>2
  <2>2. CASE i # k
    <3>1. i \in 0 .. k - 1 /\ i \in 0 .. FieldsNum /\ i + 1 \in 0 .. FieldsNum
          /\ i # k + 1 /\ i + 1 # k + 1
      BY <1>2, <2>2, ConfigAssumption
    <3>2. d[i] = c[i] /\ d[i + 1] = c[i + 1]  BY <1>4, <3>1
    <3>3. c[i] + Width <= c[i + 1] /\ Hit(s, c[i + 1]) /\ FieldAt(s, c, i, T)
      BY <3>1 DEF Begun
    <3>4. QED  BY <3>2, <3>3 DEF FieldAt
  <2>3. QED  BY <2>1, <2>2
<1>8. Begun(s, d, k + 1, T)
  <2>1. (k + 1) - 1 = k  BY <1>2
  <2>2. QED  BY <1>4, <1>5, <1>6, <1>7, <2>1 DEF Begun
<1>9. QED  BY <1>1, <1>4, <1>8

(* The last field makes a record.                                          *)
LEMMA LastField ==
  ASSUME ConfOK, NEW s, NEW k \in Fields, k + 1 = FieldsNum, NEW c, NEW T, k \in T,
         Begun(s, c, k, T), NEW a \in Nat \ {0}, c[k] + Width = a,
         NEW x \in Nat, a <= x + 1, Good(s, a, x)
  PROVE  Split(s, x, [c EXCEPT ![k + 1] = x + 1], T)
PROOF
<1> DEFINE n == x + 1
<1>1. PICK d : d = [c EXCEPT ![k + 1] = n]  OBVIOUS
<1>2. k \in Nat /\ k + 1 \in 0 .. FieldsNum /\ k \in 0 .. FieldsNum /\ k + 1 # 0
      /\ k \in 0 .. k /\ 0 \in 0 .. FieldsNum
  BY ConfigAssumption DEF Fields
<1>3. c \in [0 .. FieldsNum -> Int] /\ c[0] = 1 - Width
      /\ (\A i \in 0 .. k : 1 - Width <= c[i] /\ c[i] <= c[k])
  BY DEF Begun
<1>4. /\ n \in Int /\ n = x + 1 /\ Width \in Nat \ {0}
  BY DEF ConfOK
<1> HIDE DEF n
<1>5. /\ d \in [0 .. FieldsNum -> Int] /\ d[k + 1] = n
      /\ \A i \in 0 .. FieldsNum : i # k + 1 => d[i] = c[i]
  BY <1>1, <1>2, <1>3, <1>4
<1>6. d[0] = 1 - Width
  BY <1>2, <1>3, <1>5
<1>7. ASSUME NEW i \in 0 .. FieldsNum PROVE 1 - Width <= d[i] /\ d[i] <= n
  <2>1. CASE i = k + 1
    BY <1>4, <1>5, <2>1
  <2>2. CASE i # k + 1
    <3>1. i \in 0 .. k  BY <1>2, <2>2
    <3>2. d[i] = c[i] /\ c[i] \in Int /\ c[k] \in Int  BY <1>2, <1>3, <1>5, <2>2
    <3>3. c[i] <= c[k] /\ 1 - Width <= c[i]  BY <1>3, <3>1
    <3>4. QED  BY <1>4, <3>2, <3>3
  <2>3. QED  BY <2>1, <2>2
<1>8. ASSUME NEW i \in Fields PROVE d[i] + Width <= d[i + 1] /\ FieldAt(s, d, i, T)
  <2>1. CASE i = k
    <3>1. d[i] = c[k] /\ d[i + 1] = n  BY <1>2, <1>5, <2>1
    <3>2. d[i] + Width = a /\ d[i + 1] - 1 = x  BY <1>4, <3>1
    <3>3. FieldAt(s, d, i, T)  BY <2>1, <3>2 DEF FieldAt, Good
    <3>4. d[i] + Width <= d[i + 1]  BY <1>4, <3>1
    <3>5. QED  BY <3>3, <3>4
  <2>2. CASE i # k
    <3>1. i \in 0 .. k - 1 /\ i \in 0 .. FieldsNum /\ i + 1 \in 0 .. FieldsNum
          /\ i # k + 1 /\ i + 1 # k + 1
      BY <1>2, <2>2, ConfigAssumption DEF Fields
    <3>2. d[i] = c[i] /\ d[i + 1] = c[i + 1]  BY <1>5, <3>1
    <3>3. c[i] + Width <= c[i + 1] /\ FieldAt(s, c, i, T)
      BY <3>1 DEF Begun
    <3>4. QED  BY <3>2, <3>3 DEF FieldAt
  <2>3. QED  BY <2>1, <2>2
<1>9. ASSUME NEW i \in 1 .. FieldsNum - 1 PROVE Hit(s, d[i])
  <2>1. i - 1 \in 0 .. k - 1 /\ i \in 0 .. FieldsNum /\ i # k + 1 /\ (i - 1) + 1 = i
    BY <1>2, ConfigAssumption
  <2>2. Hit(s, c[(i - 1) + 1])
    BY <2>1 DEF Begun
  <2>3. QED  BY <1>5, <2>1, <2>2
<1>10. Split(s, x, d, T)
  BY <1>4, <1>5, <1>6, <1>7, <1>8, <1>9 DEF Split
<1>11. QED  BY <1>1, <1>10 DEF n

(***************************************************************************)
(* The definition of a record, by position.                                *)
(***************************************************************************)
RowEnd(r, m) ==
  \/ Len(r) = m + 2 /\ r[m + 1] = CR /\ r[m + 2] = LF
  \/ conf.row = LF /\ Len(r) = m + 1 /\ r[m + 1] = LF

LEMMA BoundsAre ==
  ASSUME ConfOK, NEW s \in Seq(Chars), NEW v \in Bounds(s)
  PROVE  /\ v \in Int /\ 1 - Width <= v /\ v <= Len(s) + 1
         /\ v # 1 - Width /\ v # Len(s) + 1 => Hit(s, v)
PROOF
<1>1. Width \in Nat \ {0} /\ Len(s) \in Nat /\ DOMAIN s = 1 .. Len(s)
  BY LenProperties DEF ConfOK
<1>2. CASE v \in {1 - Width, Len(s) + 1}
  BY <1>1, <1>2
<1>3. CASE v \in 1 .. Len(s) /\ DelimAt(s, v)
  BY <1>1, <1>3 DEF DelimAt, Hit
<1>4. QED  BY <1>1, <1>2, <1>3 DEF Bounds

LEMMA PieceIs ==
  ASSUME ConfOK, NEW s \in Seq(Chars), NEW c, NEW i, NEW T,
         c[i] \in Int, c[i + 1] \in Int, 1 - Width <= c[i], c[i + 1] <= Len(s) + 1
  PROVE  FieldAt(s, c, i, T) <=>
           PlainField(Piece(s, c, i)) \/ (i \in T /\ QualifiedField(Piece(s, c, i)))
PROOF
<1>1. PICK a \in Nat \ {0}, b \in Int : a = c[i] + Width /\ b = c[i + 1] - 1 /\ b <= Len(s)
  <2>1. c[i] + Width \in Nat \ {0}  BY DEF ConfOK
  <2>2. c[i + 1] - 1 <= Len(s)  BY LenProperties
  <2>3. QED  BY <2>1, <2>2
<1>2. Piece(s, c, i) = SubSeq(s, a, b)
  BY <1>1 DEF Piece
<1>3. PlainField(SubSeq(s, a, b)) <=> Plain(s, a, b)
  BY <1>1, PartPlain
<1>4. QualifiedField(SubSeq(s, a, b)) <=> Text(s, a, b)
  BY <1>1, PartText
<1>5. QED  BY <1>1, <1>2, <1>3, <1>4 DEF FieldAt

LEMMA CutsAre ==
  ASSUME ConfOK, NEW s \in Seq(Chars), NEW c, NEW T
  PROVE  c \in Cuts(s, T) <=> Split(s, Len(s), c, T)
PROOF
<1>0. /\ Width \in Nat \ {0} /\ Len(s) \in Nat /\ DOMAIN s = 1 .. Len(s)
      /\ FieldsNum \in Nat \ {0}
  BY LenProperties, ConfigAssumption DEF ConfOK
<1>1. \A i \in Fields : i \in 0 .. FieldsNum /\ i + 1 \in 0 .. FieldsNum
  BY <1>0 DEF Fields
<1>2. \A i \in 1 .. FieldsNum - 1 :
        i \in Fields /\ i \in 0 .. FieldsNum /\ i - 1 \in Fields /\ (i - 1) + 1 = i
  BY <1>0 DEF Fields
<1>3. ASSUME c \in Cuts(s, T) PROVE Split(s, Len(s), c, T)
  <2>1. /\ c \in [0 .. FieldsNum -> Bounds(s)]
        /\ c[0] = 1 - Width /\ c[FieldsNum] = Len(s) + 1
        /\ \A i \in Fields :
             /\ c[i] + Width <= c[i + 1]
             /\ PlainField(Piece(s, c, i)) \/ (i \in T /\ QualifiedField(Piece(s, c, i)))
    BY <1>3 DEF Cuts
  <2>2. \A i \in 0 .. FieldsNum :
          c[i] \in Int /\ 1 - Width <= c[i] /\ c[i] <= Len(s) + 1
          /\ (c[i] # 1 - Width /\ c[i] # Len(s) + 1 => Hit(s, c[i]))
    <3>1. \A i \in 0 .. FieldsNum : c[i] \in Bounds(s)  BY <2>1
    <3>2. QED  BY <3>1, BoundsAre
  <2>3. c \in [0 .. FieldsNum -> Int]
    BY <2>1, <2>2
  <2>4. ASSUME NEW i \in Fields PROVE FieldAt(s, c, i, T)
    BY <1>1, <2>1, <2>2, PieceIs
  <2>5. ASSUME NEW i \in 1 .. FieldsNum - 1 PROVE Hit(s, c[i])
    <3>1. c[i] + Width <= c[i + 1] /\ c[i - 1] + Width <= c[i]
      BY <1>2, <2>1
    <3>2. /\ c[i] \in Int /\ c[i + 1] \in Int /\ c[i - 1] \in Int
          /\ 1 - Width <= c[i - 1] /\ c[i + 1] <= Len(s) + 1
      BY <1>1, <1>2, <2>2
    <3>3. c[i] # 1 - Width /\ c[i] # Len(s) + 1
      BY <1>0, <3>1, <3>2
    <3>4. QED  BY <1>2, <2>2, <3>3
  <2>6. QED  BY <2>1, <2>2, <2>3, <2>4, <2>5 DEF Split
<1>4. ASSUME Split(s, Len(s), c, T) PROVE c \in Cuts(s, T)
  <2>1. ASSUME NEW i \in 0 .. FieldsNum PROVE c[i] \in Bounds(s)
    <3>1. CASE i = 0 \/ i = FieldsNum
      BY <1>4, <3>1 DEF Split, Bounds
    <3>2. CASE i # 0 /\ i # FieldsNum
      <4>1. i \in 1 .. FieldsNum - 1 /\ i - 1 \in Fields /\ (i - 1) + 1 = i /\ i \in Fields
            /\ i - 1 \in 0 .. FieldsNum /\ i + 1 \in 0 .. FieldsNum
        BY <1>0, <3>2 DEF Fields
      <4>2. /\ Hit(s, c[i]) /\ c[i] \in Int /\ c[i - 1] \in Int /\ c[i + 1] \in Int
            /\ c[i - 1] + Width <= c[i] /\ 1 - Width <= c[i - 1]
            /\ c[i] + Width <= c[i + 1] /\ c[i + 1] <= Len(s) + 1
        BY <1>4, <4>1 DEF Split
      <4>3. c[i] \in 1 .. Len(s) /\ c[i] + Width - 1 <= Len(s)
        <5>1. PICK u \in Int, v \in Int, w \in Int : u = c[i - 1] /\ v = c[i] /\ w = c[i + 1]
          BY <4>2
        <5>2. u + Width <= v /\ 1 - Width <= u /\ v + Width <= w /\ w <= Len(s) + 1
          BY <4>2, <5>1
        <5>3. v \in 1 .. Len(s) /\ v + Width - 1 <= Len(s)
          BY <1>0, <5>2
        <5>4. QED  BY <5>1, <5>3
      <4>4. DelimAt(s, c[i])
        BY <4>2, <4>3 DEF DelimAt, Hit
      <4>5. QED  BY <1>0, <4>3, <4>4 DEF Bounds
    <3>3. QED  BY <3>1, <3>2
  <2>2. c \in [0 .. FieldsNum -> Bounds(s)]
    BY <1>4, <2>1 DEF Split
  <2>3. ASSUME NEW i \in Fields
        PROVE  PlainField(Piece(s, c, i)) \/ (i \in T /\ QualifiedField(Piece(s, c, i)))
    <3>1. c[i] \in Int /\ c[i + 1] \in Int /\ 1 - Width <= c[i] /\ c[i + 1] <= Len(s) + 1
          /\ FieldAt(s, c, i, T)
      BY <1>1, <1>4 DEF Split
    <3>2. QED  BY <3>1, PieceIs
  <2>4. QED  BY <1>4, <2>2, <2>3 DEF Cuts, Split
<1>5. QED  BY <1>3, <1>4

LEMMA RowEndsAre ==
  ASSUME ConfOK, NEW r \in Seq(Chars)
  PROVE  /\ \A e \in RowEnds : EndsWith(r, e) =>
              /\ Len(e) \in Nat /\ Len(r) - Len(e) \in Nat /\ RowEnd(r, Len(r) - Len(e))
         /\ \A m \in Nat : RowEnd(r, m) =>
              \E e \in RowEnds : EndsWith(r, e) /\ Len(e) \in Nat /\ Len(r) - Len(e) = m
PROOF
<1>0. Len(r) \in Nat  BY LenProperties
<1>1. ASSUME NEW n \in Nat, n <= Len(r)
      PROVE  LET u == SubSeq(r, Len(r) - n + 1, Len(r))
             IN  /\ u \in Seq(Chars) /\ Len(u) = n
                 /\ \A k \in 1 .. n : u[k] = r[Len(r) - n + k]
  <2>1. PICK i \in Nat : i = Len(r) - n + 1 /\ 1 <= i  BY <1>0, <1>1
  <2>2. PICK j \in Nat : j = Len(r)  BY <1>0
  <2>3. j - i + 1 = n /\ (IF i <= j THEN j - i + 1 ELSE 0) = n
    BY <1>0, <1>1, <2>1, <2>2
  <2>4. /\ SubSeq(r, i, j) \in Seq(Chars) /\ Len(SubSeq(r, i, j)) = n
        /\ \A k \in 1 .. n : SubSeq(r, i, j)[k] = r[i + k - 1]
    BY <2>1, <2>2, <2>3, PartOf
  <2>5. \A k \in 1 .. n : i + k - 1 = Len(r) - n + k
    BY <1>0, <2>1
  <2>6. QED  BY <2>1, <2>2, <2>4, <2>5
<1>2. EndsWith(r, <<CR, LF>>) <=>
        Len(r) >= 2 /\ r[Len(r) - 1] = CR /\ r[Len(r)] = LF
  <2>1. CASE Len(r) >= 2
    <3>1. PICK u : u = SubSeq(r, Len(r) - 2 + 1, Len(r))  OBVIOUS
    <3>2. u \in Seq(Chars) /\ Len(u) = 2 /\ \A k \in 1 .. 2 : u[k] = r[Len(r) - 2 + k]
      BY <1>1, <2>1, <3>1
    <3>3. 1 \in 1 .. 2 /\ 2 \in 1 .. 2 /\ Len(r) - 2 + 1 = Len(r) - 1 /\ Len(r) - 2 + 2 = Len(r)
      BY <1>0
    <3>4. u[1] = r[Len(r) - 1] /\ u[2] = r[Len(r)]
      BY <3>2, <3>3
    <3>5. u = <<CR, LF>> <=> u[1] = CR /\ u[2] = LF
      <4>1. <<CR, LF>> \in Seq(Chars)  BY CharsAssumption
      <4>2. Len(<<CR, LF>>) = 2 /\ <<CR, LF>>[1] = CR /\ <<CR, LF>>[2] = LF  OBVIOUS
      <4>3. \A k \in 1 .. 2 : k = 1 \/ k = 2  OBVIOUS
      <4>4. ASSUME u[1] = CR, u[2] = LF PROVE u = <<CR, LF>>
        <5>1. PICK w : w = <<CR, LF>>  OBVIOUS
        <5>2. w \in Seq(Chars) /\ Len(w) = Len(u) /\ w[1] = u[1] /\ w[2] = u[2]
          BY <3>2, <4>1, <4>2, <4>4, <5>1
        <5>3. \A k \in 1 .. Len(u) : w[k] = u[k]
          BY <3>2, <4>3, <5>2
        <5>4. u = w  BY <3>2, <5>2, <5>3, SeqEqual
        <5>5. QED  BY <5>1, <5>4
      <4>5. QED  BY <4>2, <4>4
    <3>6. Len(<<CR, LF>>) = 2  OBVIOUS
    <3>7. EndsWith(r, <<CR, LF>>) <=> u = <<CR, LF>>
      BY <2>1, <3>1, <3>6 DEF EndsWith
    <3>8. QED  BY <2>1, <3>4, <3>5, <3>7
  <2>2. CASE ~(Len(r) >= 2)
    <3>1. Len(<<CR, LF>>) = 2  OBVIOUS
    <3>2. QED  BY <2>2, <3>1 DEF EndsWith
  <2>3. QED  BY <2>1, <2>2
<1>3. EndsWith(r, <<LF>>) <=> Len(r) >= 1 /\ r[Len(r)] = LF
  <2>1. CASE Len(r) >= 1
    <3>1. PICK u : u = SubSeq(r, Len(r) - 1 + 1, Len(r))  OBVIOUS
    <3>2. u \in Seq(Chars) /\ Len(u) = 1 /\ \A k \in 1 .. 1 : u[k] = r[Len(r) - 1 + k]
      BY <1>1, <2>1, <3>1
    <3>3. 1 \in 1 .. 1 /\ Len(r) - 1 + 1 = Len(r)
      BY <1>0
    <3>4. u[1] = r[Len(r)]
      BY <3>2, <3>3
    <3>5. u = <<LF>> <=> u[1] = LF
      <4>1. <<LF>> \in Seq(Chars)  BY CharsAssumption
      <4>2. Len(<<LF>>) = 1 /\ <<LF>>[1] = LF  OBVIOUS
      <4>3. \A k \in 1 .. 1 : k = 1  OBVIOUS
      <4>4. ASSUME u[1] = LF PROVE u = <<LF>>
        <5>1. PICK w : w = <<LF>>  OBVIOUS
        <5>2. w \in Seq(Chars) /\ Len(w) = Len(u) /\ w[1] = u[1]
          BY <3>2, <4>1, <4>2, <4>4, <5>1
        <5>3. \A k \in 1 .. Len(u) : w[k] = u[k]
          BY <3>2, <4>3, <5>2
        <5>4. u = w  BY <3>2, <5>2, <5>3, SeqEqual
        <5>5. QED  BY <5>1, <5>4
      <4>5. QED  BY <4>2, <4>4
    <3>6. Len(<<LF>>) = 1  OBVIOUS
    <3>7. EndsWith(r, <<LF>>) <=> u = <<LF>>
      BY <2>1, <3>1, <3>6 DEF EndsWith
    <3>8. QED  BY <2>1, <3>4, <3>5, <3>7
  <2>2. CASE ~(Len(r) >= 1)
    <3>1. Len(<<LF>>) = 1  OBVIOUS
    <3>2. QED  BY <2>2, <3>1 DEF EndsWith
  <2>3. QED  BY <2>1, <2>2
<1>4. Len(<<CR, LF>>) = 2 /\ Len(<<LF>>) = 1
  OBVIOUS
<1>5. ASSUME NEW e \in RowEnds, EndsWith(r, e)
      PROVE  Len(e) \in Nat /\ Len(r) - Len(e) \in Nat /\ RowEnd(r, Len(r) - Len(e))
  <2>1. CASE e = <<CR, LF>>
    <3>1. Len(e) = 2 /\ Len(r) >= 2 /\ r[Len(r) - 1] = CR /\ r[Len(r)] = LF
      BY <1>2, <1>4, <1>5, <2>1
    <3>2. PICK m \in Nat : m = Len(r) - 2  BY <1>0, <3>1
    <3>3. m + 1 = Len(r) - 1 /\ m + 2 = Len(r)  BY <1>0, <3>2
    <3>4. RowEnd(r, m)  BY <3>1, <3>3 DEF RowEnd
    <3>5. QED  BY <3>1, <3>2, <3>4
  <2>2. CASE conf.row = LF /\ e = <<LF>>
    <3>1. Len(e) = 1 /\ Len(r) >= 1 /\ r[Len(r)] = LF
      BY <1>3, <1>4, <1>5, <2>2
    <3>2. PICK m \in Nat : m = Len(r) - 1  BY <1>0, <3>1
    <3>3. m + 1 = Len(r)  BY <1>0, <3>2
    <3>4. RowEnd(r, m)  BY <2>2, <3>1, <3>3 DEF RowEnd
    <3>5. QED  BY <3>1, <3>2, <3>4
  <2>3. QED  BY <2>1, <2>2 DEF RowEnds
<1>6. ASSUME NEW m \in Nat, RowEnd(r, m)
      PROVE  \E e \in RowEnds : EndsWith(r, e) /\ Len(e) \in Nat /\ Len(r) - Len(e) = m
  <2>1. CASE Len(r) = m + 2 /\ r[m + 1] = CR /\ r[m + 2] = LF
    <3>1. Len(r) - 1 = m + 1 /\ Len(r) - 2 = m /\ Len(r) >= 2 /\ Len(r) = m + 2  BY <2>1
    <3>2. EndsWith(r, <<CR, LF>>)  BY <1>2, <2>1, <3>1
    <3>3. <<CR, LF>> \in RowEnds  BY DEF RowEnds
    <3>4. QED  BY <1>4, <3>1, <3>2, <3>3
  <2>2. CASE conf.row = LF /\ Len(r) = m + 1 /\ r[m + 1] = LF
    <3>1. Len(r) - 1 = m /\ Len(r) >= 1 /\ Len(r) = m + 1  BY <2>2
    <3>2. EndsWith(r, <<LF>>)  BY <1>3, <2>2, <3>1
    <3>3. <<LF>> \in RowEnds  BY <2>2 DEF RowEnds
    <3>4. QED  BY <1>4, <3>1, <3>2, <3>3
  <2>3. QED  BY <1>6, <2>1, <2>2 DEF RowEnd
<1>7. QED  BY <1>5, <1>6

LEMMA BodyIs ==
  ASSUME NEW r \in Seq(Chars), NEW e, Len(e) \in Nat, Len(r) - Len(e) \in Nat
  PROVE  /\ Body(r, e) \in Seq(Chars) /\ Len(Body(r, e)) = Len(r) - Len(e)
         /\ Same(r, Body(r, e), Len(r) - Len(e))
PROOF
<1>1. PICK m \in Nat : m = Len(r) - Len(e) /\ m <= Len(r)
  <2>1. Len(r) \in Nat  BY LenProperties
  <2>2. Len(r) - Len(e) <= Len(r)  BY <2>1
  <2>3. QED  BY <2>2
<1>2. /\ SubSeq(r, 1, m) \in Seq(Chars)
      /\ Len(SubSeq(r, 1, m)) = (IF 1 <= m THEN m - 1 + 1 ELSE 0)
      /\ \A k \in 1 .. m - 1 + 1 : SubSeq(r, 1, m)[k] = r[1 + k - 1]
  <2>1. 1 \in Nat /\ m \in Int /\ 1 <= 1  OBVIOUS
  <2>2. QED  BY <1>1, <2>1, PartOf
<1>3. Body(r, e) = SubSeq(r, 1, m)  BY <1>1 DEF Body
<1>4. m - 1 + 1 = m /\ (IF 1 <= m THEN m - 1 + 1 ELSE 0) = m
      /\ \A k \in 1 .. m : 1 + k - 1 = k
  OBVIOUS
<1>5. QED  BY <1>1, <1>2, <1>3, <1>4 DEF Same

LEMMA RecordIs ==
  ASSUME ConfOK, NEW r \in Seq(Chars), NEW T
  PROVE  IsRecordWith(r, T) <=> \E c : \E m \in Nat : RowEnd(r, m) /\ Split(r, m, c, T)
PROOF
<1>1. ASSUME IsRecordWith(r, T) PROVE \E c : \E m \in Nat : RowEnd(r, m) /\ Split(r, m, c, T)
  <2>1. PICK e \in RowEnds : EndsWith(r, e) /\ Cuts(Body(r, e), T) # {}
    BY <1>1 DEF IsRecordWith
  <2>2. PICK c : c \in Cuts(Body(r, e), T)
    BY <2>1
  <2>3. PICK m \in Nat : m = Len(r) - Len(e) /\ Len(e) \in Nat /\ RowEnd(r, m)
    BY <2>1, RowEndsAre
  <2>4. PICK b : b = Body(r, e)  OBVIOUS
  <2>5. b \in Seq(Chars) /\ Len(b) = m /\ Same(r, b, m)
    BY <2>3, <2>4, BodyIs
  <2>6. Split(b, m, c, T)
    BY <2>2, <2>4, <2>5, CutsAre
  <2>7. Same(b, r, m)
    BY <2>5, SameSwap
  <2>8. Split(r, m, c, T)
    <3>1. m <= m  OBVIOUS
    <3>2. QED  BY <2>6, <2>7, <3>1, SameSplit
  <2>9. QED  BY <2>3, <2>8
<1>2. ASSUME NEW m \in Nat, NEW c, RowEnd(r, m), Split(r, m, c, T) PROVE IsRecordWith(r, T)
  <2>1. PICK e \in RowEnds : EndsWith(r, e) /\ Len(e) \in Nat /\ Len(r) - Len(e) = m
    BY <1>2, RowEndsAre
  <2>2. PICK b : b = Body(r, e)  OBVIOUS
  <2>3. b \in Seq(Chars) /\ Len(b) = m /\ Same(r, b, m)
    BY <2>1, <2>2, BodyIs
  <2>4. Split(b, m, c, T)
    <3>1. m <= m  OBVIOUS
    <3>2. QED  BY <1>2, <2>3, <3>1, SameSplit
  <2>5. c \in Cuts(b, T)
    BY <2>3, <2>4, CutsAre
  <2>6. QED  BY <2>1, <2>2, <2>5 DEF IsRecordWith
<1>3. QED  BY <1>1, <1>2

(***************************************************************************)
(* What the parser has found: the text s begins with k fields and their    *)
(* delimiters, and what is between them and the character to come is the   *)
(* beginning of a field, or one that has ended.                            *)
(***************************************************************************)
NoNul(s, n) == \A i \in 1 .. n : s[i] # Nul

Mark(s, q, c) ==
  LET a == q.pre_field_pos + 1
      x == q.crtidx
      b == x + 2 - Width IN
  /\ Begun(s, c, q.field_idx, Texts) /\ c[q.field_idx] + Width = a
  /\ NoNul(s, x)
  /\ q.crt_status = "eFieldBegin" => x + 1 = a
  /\ q.crt_status = "eField"    => Plain(s, a, x)
  /\ q.crt_status = "eStrField" => ~conf.unqualified /\ s[a] = Qual /\ Pairs(s, a + 1, x)
  /\ q.crt_status = "eFieldEnd" =>
       /\ a <= b /\ Hit(s, b)
       /\ Plain(s, a, b - 1) \/ (Width = 1 /\ Text(s, a, b - 1))
  /\ q.crt_status = "eRecordEnd" =>
       a <= x + 1 /\ EndsRow(s[x + 1]) /\ Good(s, a, x)

RowEndAt(s, m, n) ==
  \/ n = m + 2 /\ s[m + 1] = CR /\ s[m + 2] = LF
  \/ conf.row = LF /\ n = m + 1 /\ s[m + 1] = LF

(* It takes the first n characters for a record; or there is none.         *)
Taken(s, n) ==
  /\ NoNul(s, n)
  /\ \E c : \E m \in Nat : RowEndAt(s, m, n) /\ Split(s, m, c, Texts)

Refused(s) ==
  \A d : \A n \in 1 .. Len(s), m \in Nat : RowEndAt(s, m, n) => ~Split(s, m, d, Texts)

(* There is the beginning of one.                                          *)
Open(s) ==
  \/ s[Len(s)] = CR
  \/ \E c : \E k \in Fields, a \in Nat :
       /\ Begun(s, c, k, Fields) /\ c[k] + Width = a /\ a <= Len(s) + 1
       /\ \/ Good(s, a, Len(s))
          \/ /\ ~conf.unqualified /\ a <= Len(s)
             /\ s[a] = Qual /\ Pairs(s, a + 1, Len(s))

MarkInv == Separable /\ p.crt_status \in Parsing => \E c : Mark(data, p, c)

ToldInv ==
  Separable =>
    /\ Complete => Taken(data, record_len)
    /\ Told(-1) \/ Told(-2) => Refused(data)
    /\ Told(-1) => Open(data)

LEMMA ConfTypes ==
  ASSUME TypeOK
  PROVE  ConfOK
BY Types DEF ConfOK, TypeOK

(* The configuration stays: the next state's text can be judged by it now. *)
LEMMA AtNext ==
  ASSUME conf' = conf
  PROVE  /\ Width' = Width /\ Texts' = Texts
         /\ \A v : EndsRow(v)' = EndsRow(v)
         /\ \A i : Hit(data, i)' = Hit(data', i)
         /\ \A a, b : Pairs(data, a, b)' = Pairs(data', a, b)
BY DEF EndsRow, Hit, Width, Texts, Pairs, Alone

LEMMA FieldNext ==
  ASSUME conf' = conf, NEW a, NEW b
  PROVE  /\ Plain(data, a, b)' = Plain(data', a, b)
         /\ Text(data, a, b)' = Text(data', a, b)
         /\ Good(data, a, b)' = Good(data', a, b)
PROOF
<1>1. Plain(data, a, b)' = Plain(data', a, b)
  BY DEF Plain, Hit, EndsRow, Width
<1>2. Text(data, a, b)' = Text(data', a, b)
  BY DEF Text, Pairs, Alone
<1>3. QED  BY <1>1, <1>2 DEF Good

LEMMA BegunNext ==
  ASSUME conf' = conf, NEW c, NEW k, NEW T, Begun(data', c, k, T)
  PROVE  Begun(data, c, k, T)'
BY DEF Begun, FieldAt, Plain, Text, Hit, EndsRow, Width, Pairs, Alone

(* The configuration stays: the next state's text can be judged by it now. *)
LEMMA MarkNext ==
  ASSUME conf' = conf, NEW c, Mark(data', p', c)
  PROVE  Mark(data, p, c)'
PROOF
<1>1. PICK a, x, b, k : a = p'.pre_field_pos + 1 /\ x = p'.crtidx /\ b = x + 2 - Width
                        /\ k = p'.field_idx
  OBVIOUS
<1>2. Begun(data, c, k, Texts)' /\ c[k] + Width = a /\ NoNul(data, x)'
  BY <1>1, BegunNext, AtNext DEF Mark, NoNul
<1>3. p'.crt_status = "eFieldBegin" => x + 1 = a
  BY <1>1 DEF Mark
<1>4. p'.crt_status = "eField" => Plain(data, a, x)'
  BY <1>1, FieldNext DEF Mark
<1>5. p'.crt_status = "eStrField" =>
        ~conf.unqualified /\ data'[a] = Qual /\ Pairs(data', a + 1, x)
  BY <1>1 DEF Mark
<1>6. p'.crt_status = "eFieldEnd" =>
        /\ a <= b /\ Hit(data', b)
        /\ Plain(data', a, b - 1) \/ (Width = 1 /\ Text(data', a, b - 1))
  BY <1>1 DEF Mark
<1>7. p'.crt_status = "eRecordEnd" =>
        a <= x + 1 /\ EndsRow(data'[x + 1]) /\ Good(data', a, x)
  BY <1>1 DEF Mark
<1>8. QED
  BY <1>1, <1>2, <1>3, <1>4, <1>5, <1>6, <1>7, AtNext, FieldNext DEF Mark

LEMMA SeparableNext ==
  ASSUME conf' = conf, Separable'
  PROVE  Separable
BY DEF Separable, Width

LEMMA TakenNext ==
  ASSUME conf' = conf, NEW n, Taken(data', n)
  PROVE  record_len' = n => Taken(data, record_len)'
PROOF
<1>1. PICK c : \E m \in Nat : RowEndAt(data', m, n) /\ Split(data', m, c, Texts)
  BY DEF Taken
<1>2. PICK m \in Nat : RowEndAt(data', m, n) /\ Split(data', m, c, Texts)
  BY <1>1
<1>3. ASSUME record_len' = n PROVE RowEndAt(data, m, record_len)'
  BY <1>2, <1>3 DEF RowEndAt
<1>4. Split(data, m, c, Texts)'
  BY <1>2 DEF Split, FieldAt, Plain, Text, Hit, EndsRow, Width, Texts, Pairs, Alone
<1>5. ASSUME record_len' = n PROVE NoNul(data, record_len)'
  BY <1>5 DEF NoNul, Taken
<1>6. QED  BY <1>3, <1>4, <1>5 DEF Taken

LEMMA RefusedNext ==
  ASSUME conf' = conf, Refused(data')
  PROVE  Refused(data)'
PROOF
<1>1. ASSUME NEW n \in 1 .. Len(data'), NEW m \in Nat, NEW d, RowEndAt(data, m, n)',
             Split(data, m, d, Texts)'
      PROVE  FALSE
  <2>1. RowEndAt(data', m, n)
    BY <1>1 DEF RowEndAt
  <2>2. Split(data', m, d, Texts)
    BY <1>1 DEF Split, FieldAt, Plain, Text, Hit, EndsRow, Width, Texts, Pairs, Alone
  <2>3. QED  BY <2>1, <2>2 DEF Refused
<1>2. QED  BY <1>1 DEF Refused

LEMMA OpenNext ==
  ASSUME conf' = conf, Open(data')
  PROVE  Open(data)'
PROOF
<1>1. CASE data'[Len(data')] = CR
  BY <1>1 DEF Open
<1>2. CASE \E c : \E k \in Fields, a \in Nat :
             /\ Begun(data', c, k, Fields) /\ c[k] + Width = a /\ a <= Len(data') + 1
             /\ \/ Good(data', a, Len(data'))
                \/ /\ ~conf.unqualified /\ a <= Len(data')
                   /\ data'[a] = Qual /\ Pairs(data', a + 1, Len(data'))
  <2>0. PICK c : \E k \in Fields, a \in Nat :
             /\ Begun(data', c, k, Fields) /\ c[k] + Width = a /\ a <= Len(data') + 1
             /\ \/ Good(data', a, Len(data'))
                \/ /\ ~conf.unqualified /\ a <= Len(data')
                   /\ data'[a] = Qual /\ Pairs(data', a + 1, Len(data'))
    BY <1>2
  <2>1. PICK k \in Fields, a \in Nat :
             /\ Begun(data', c, k, Fields) /\ c[k] + Width = a /\ a <= Len(data') + 1
             /\ \/ Good(data', a, Len(data'))
                \/ /\ ~conf.unqualified /\ a <= Len(data')
                   /\ data'[a] = Qual /\ Pairs(data', a + 1, Len(data'))
    BY <2>0
  <2>2. Begun(data, c, k, Fields)' /\ (c[k] + Width)' = a
    BY <2>1, BegunNext, AtNext
  <2>3. PICK n : n = Len(data')  OBVIOUS
  <2>4. Good(data, a, n)' = Good(data', a, n) /\ Pairs(data, a + 1, n)' = Pairs(data', a + 1, n)
    BY FieldNext, AtNext
  <2>5. QED  BY <2>1, <2>2, <2>3, <2>4 DEF Open
<1>3. QED  BY <1>1, <1>2 DEF Open

(***************************************************************************)
(* A turn: what it cleans, and what it looks back for.                     *)
(***************************************************************************)
LEMMA Turn ==
  ASSUME TypeOK, p.crtidx < Len(data), Clean
  PROVE  /\ Same(data, data', p.crtidx) /\ Len(data') = Len(data)
         /\ data'[p.crtidx + 1] = Seen /\ Seen # Nul
         /\ \A i \in 1 .. Len(data) : i # p.crtidx + 1 => data'[i] = data[i]
PROOF
<1>1. /\ data \in Seq(Chars) /\ Len(data) \in Nat
      /\ p.crtidx \in Nat /\ p.crtidx + 1 \in 1 .. Len(data)
  BY Types DEF Locals
<1>2. Seen # Nul
  BY CharsAssumption DEF Seen
<1>3. data' = [data EXCEPT ![p.crtidx + 1] = Seen] /\ Seen \in Chars
  BY Cleaning DEF Clean
<1>4. /\ Len(data') = Len(data) /\ data'[p.crtidx + 1] = Seen
      /\ \A i \in 1 .. Len(data) : i # p.crtidx + 1 => data'[i] = data[i]
  BY <1>1, <1>3
<1>5. \A i \in 1 .. p.crtidx : i \in 1 .. Len(data) /\ i # p.crtidx + 1
  BY <1>1
<1>6. QED  BY <1>2, <1>4, <1>5 DEF Same

LEMMA EndsDelimIs ==
  ASSUME ConfOK, data \in Seq(Chars), NEW i \in Nat, i < Len(data), NEW t,
         Same(data, t, i), t[i + 1] \in Chars
  PROVE  EndsDelim(i, t[i + 1]) <=> i + 1 >= Width /\ Hit(t, i + 2 - Width)
PROOF
<1> DEFINE C == Chars \ {LF, CR, Qual, Nul}
           d == conf.delim
<1>1. /\ d \in Seq(C) /\ Width \in Nat \ {0} /\ Len(d) = Width
      /\ Len(data) \in Nat
  BY LenProperties DEF Width, ConfOK
<1>2. CASE ~(i + 1 >= Width)
  BY <1>2 DEF EndsDelim
<1>3. CASE i + 1 >= Width
  <2>1. PICK m \in Nat : m = i - Width + 2 /\ 1 <= m /\ m = i + 2 - Width
    <3>1. i - Width + 2 \in Nat /\ 1 <= i - Width + 2 /\ i - Width + 2 = i + 2 - Width
      BY <1>1, <1>3
    <3>2. QED  BY <3>1
  <2>2. PICK u : u = SubSeq(data, m, i)  OBVIOUS
  <2>3. /\ u \in Seq(Chars) /\ Len(u) = Width - 1
        /\ \A k \in 1 .. Width - 1 : u[k] = data[m + k - 1]
    <3>1. i \in Int /\ i <= Len(data)  BY <1>1
    <3>2. /\ SubSeq(data, m, i) \in Seq(Chars)
          /\ Len(SubSeq(data, m, i)) = (IF m <= i THEN i - m + 1 ELSE 0)
          /\ \A k \in 1 .. i - m + 1 : SubSeq(data, m, i)[k] = data[m + k - 1]
      BY <2>1, <3>1, PartOf
    <3>3. i - m + 1 = Width - 1 /\ (IF m <= i THEN i - m + 1 ELSE 0) = Width - 1
      BY <1>1, <2>1
    <3>4. QED  BY <2>2, <3>2, <3>3
  <2>4. \A k \in 1 .. Width - 1 : u[k] = t[m + k - 1]
    <3>1. ASSUME NEW k \in 1 .. Width - 1 PROVE u[k] = t[m + k - 1]
      <4>1. m + k - 1 \in 1 .. i  BY <1>1, <2>1
      <4>2. QED  BY <2>3, <4>1 DEF Same
    <3>2. QED  BY <3>1
  <2>5. PICK w : w = u \o <<t[i + 1]>>  OBVIOUS
  <2>6. /\ w \in Seq(Chars) /\ Len(w) = Width /\ w[Width] = t[i + 1]
        /\ \A k \in 1 .. Width - 1 : w[k] = u[k]
    <3>1. PICK v : v = <<t[i + 1]>>  OBVIOUS
    <3>2. v \in Seq(Chars) /\ Len(v) = 1 /\ v[1] = t[i + 1]  BY <3>1
    <3>3. /\ w \in Seq(Chars) /\ Len(w) = Len(u) + Len(v)
          /\ \A k \in 1 .. Len(u) + Len(v) :
               w[k] = IF k <= Len(u) THEN u[k] ELSE v[k - Len(u)]
      BY <2>3, <2>5, <3>1, <3>2, ConcatProperties
    <3>4. Width \in 1 .. Width /\ Width - (Width - 1) = 1 /\ ~(Width <= Width - 1)
          /\ \A k \in 1 .. Width - 1 : k \in 1 .. Width /\ k <= Width - 1
      BY <1>1
    <3>5. Len(u) + Len(v) = Width  BY <1>1, <2>3, <3>2
    <3>6. QED  BY <2>3, <3>2, <3>3, <3>4, <3>5
  <2>7. \A k \in 1 .. Width : w[k] = t[m + k - 1]
    <3>1. ASSUME NEW k \in 1 .. Width PROVE w[k] = t[m + k - 1]
      <4>1. CASE k = Width
        <5>1. m + Width - 1 = i + 1  BY <1>1, <2>1
        <5>2. QED  BY <2>6, <4>1, <5>1
      <4>2. CASE k # Width
        <5>1. k \in 1 .. Width - 1  BY <1>1, <4>2
        <5>2. QED  BY <2>4, <2>6, <5>1
      <4>3. QED  BY <4>1, <4>2
    <3>2. QED  BY <3>1
  <2>8. w = d <=> \A k \in 1 .. Width : w[k] = d[k]
    <3>1. d \in Seq(Chars)
      <4>1. C \subseteq Chars  OBVIOUS
      <4> HIDE DEF C, d
      <4>2. QED  BY <1>1, <4>1
    <3> HIDE DEF d
    <3>2. ASSUME \A k \in 1 .. Width : w[k] = d[k] PROVE w = d
      BY <1>1, <2>6, <3>1, <3>2, SeqEqual
    <3>3. QED  BY <3>2
  <2>9. EndsDelim(i, t[i + 1]) <=> w = d
    BY <1>3, <2>1, <2>2, <2>5 DEF EndsDelim
  <2>10. QED  BY <1>3, <2>1, <2>7, <2>8, <2>9 DEF Hit
<1>4. QED  BY <1>1, <1>2, <1>3

(* A delimiter that is found lies behind the one before.                   *)
LEMMA AfterDelim ==
  ASSUME ConfOK, Separable, NEW s, NEW k \in Fields, NEW c, NEW T, Begun(s, c, k, T),
         NEW a \in Nat, c[k] + Width = a, NEW b \in Nat \ {0}, a < b + Width, Hit(s, b)
  PROVE  a <= b
PROOF
<1>0. /\ FieldsNum \in Nat \ {0} /\ Width \in Nat \ {0} /\ k \in Nat /\ k < FieldsNum
      /\ k \in 0 .. k /\ k \in 0 .. FieldsNum
  BY ConfigAssumption DEF ConfOK, Fields
<1>1. CASE k = 0
  BY <1>0, <1>1 DEF Begun
<1>2. CASE k > 0
  <2>1. k - 1 \in 0 .. k - 1 /\ (k - 1) + 1 = k  BY <1>0, <1>2
  <2>2. Hit(s, c[k]) /\ c[k] \in Int  BY <1>0, <2>1 DEF Begun
  <2>3. PICK v \in Int : v = c[k]  BY <2>2
  <2>4. v < b /\ v + Width = a /\ b \in Int  BY <1>0, <2>3
  <2>5. v + Width <= b  BY <2>2, <2>3, <2>4, NoOverlap
  <2>6. QED  BY <2>4, <2>5
<1>3. QED  BY <1>0, <1>1, <1>2

LEMMA PlainPart ==
  ASSUME ConfOK, NEW s, NEW a \in Nat, NEW b \in Int, NEW n \in Int, n <= b, Plain(s, a, b)
  PROVE  Plain(s, a, n)
PROOF
<1>0. Width \in Nat  BY DEF ConfOK
<1>1. \A i \in a .. n : i \in a .. b /\ (i + Width - 1 <= n => i + Width - 1 <= b)
  BY <1>0
<1>2. a > b => a > n
  OBVIOUS
<1>3. QED  BY <1>1, <1>2 DEF Plain

LEMMA PlainMore ==
  ASSUME ConfOK, NEW s, NEW a \in Nat \ {0}, NEW x \in Nat, a <= x + 1,
         Plain(s, a, x), ~EndsRow(s[x + 1]), ~(x + 1 >= Width /\ Hit(s, x + 2 - Width)),
         a <= x \/ s[a] # Qual \/ conf.unqualified
  PROVE  Plain(s, a, x + 1)
PROOF
<1>0. Width \in Nat \ {0}  BY DEF ConfOK
<1>1. ASSUME NEW i \in a .. x + 1
      PROVE  ~EndsRow(s[i]) /\ ~(i + Width - 1 <= x + 1 /\ Hit(s, i))
  <2>1. ~EndsRow(s[i])
    <3>1. i \in a .. x \/ i = x + 1  OBVIOUS
    <3>2. QED  BY <3>1 DEF Plain
  <2>2. ASSUME i + Width - 1 <= x + 1, Hit(s, i) PROVE FALSE
    <3>1. CASE i + Width - 1 = x + 1
      <4>1. i = x + 2 - Width /\ x + 1 >= Width  BY <1>0, <3>1
      <4>2. QED  BY <2>2, <4>1
    <3>2. CASE i + Width - 1 <= x
      <4>1. i \in a .. x  BY <1>0, <3>2
      <4>2. QED  BY <2>2, <3>2, <4>1 DEF Plain
    <3>3. QED  BY <1>0, <2>2, <3>1, <3>2
  <2>3. QED  BY <2>1, <2>2
<1>2. a > x + 1 \/ s[a] # Qual \/ conf.unqualified
  BY DEF Plain
<1>3. QED  BY <1>1, <1>2 DEF Plain

(* A text that goes on is longer than what there is of it.                 *)
LEMMA TextAhead ==
  ASSUME ConfOK, NEW s, NEW a \in Nat, NEW x \in Nat, a <= x, s[a] = Qual,
         ~conf.unqualified, Pairs(s, a + 1, x),
         NEW n \in Nat, a <= n, Good(s, a, n - 1), Closed(s, n)
  PROVE  n >= x + 2 /\ Text(s, a, n - 1)
PROOF
<1>1. s[n] # Qual
  BY ClosedOther
<1>2. a \in a .. n - 1 /\ ~Plain(s, a, n - 1)
  BY <1>1 DEF Plain
<1>3. Text(s, a, n - 1)
  BY <1>2 DEF Good
<1>4. a < n - 1 /\ s[n - 1] = Qual /\ Pairs(s, a + 1, (n - 1) - 1)
  BY <1>3 DEF Text
<1>5. PICK m \in Nat : m = n - 2 /\ (n - 1) - 1 = m /\ m + 1 = n - 1 /\ m + 2 = n /\ a <= m
  BY <1>4
<1>6. ASSUME n < x + 2 PROVE FALSE
  <2>1. a + 1 \in Nat /\ a + 1 <= m + 1 /\ m + 1 <= x  BY <1>5, <1>6
  <2>2. Pairs(s, a + 1, m) /\ s[m + 1] = Qual /\ s[m + 2] # Qual
    BY <1>1, <1>4, <1>5
  <2>3. ~Pairs(s, a + 1, x)
    BY <2>1, <2>2, PairsOdd
  <2>4. QED  BY <2>3
<1>7. QED  BY <1>3, <1>6

LEMMA Going ==
  ASSUME conf' = conf, p'.crt_status \in Parsing,
         Separable => \E c : Mark(data', p', c)
  PROVE  MarkInv' /\ ToldInv'
PROOF
<1>1. ASSUME Separable' PROVE \E c : Mark(data, p, c)'
  BY <1>1, SeparableNext, MarkNext
<1>2. p'.crt_status # "done"
  BY DEF Parsing
<1>3. QED  BY <1>1, <1>2 DEF MarkInv, ToldInv, Complete, Told, Idle

LEMMA Returned ==
  ASSUME conf' = conf, p'.crt_status = "done",
         Separable => /\ Complete' => Taken(data', record_len')
                      /\ Told(-1)' \/ Told(-2)' => Refused(data')
                      /\ Told(-1)' => Open(data')
  PROVE  MarkInv' /\ ToldInv'
PROOF
<1>1. MarkInv'
  BY DEF MarkInv, Parsing
<1>2. ASSUME Separable', Complete' PROVE Taken(data, record_len)'
  <2>1. Separable  BY <1>2, SeparableNext
  <2>2. Taken(data', record_len')  BY <1>2, <2>1
  <2>3. PICK n : n = record_len'  OBVIOUS
  <2>4. QED  BY <2>2, <2>3, TakenNext
<1>3. ASSUME Separable', Told(-1)' \/ Told(-2)' PROVE Refused(data)'
  BY <1>3, SeparableNext, RefusedNext
<1>4. ASSUME Separable', Told(-1)' PROVE Open(data)'
  BY <1>4, SeparableNext, OpenNext
<1>5. QED  BY <1>1, <1>2, <1>3, <1>4 DEF ToldInv

(* What is found in the text before the character to come.                 *)
LEMMA MarkFacts ==
  ASSUME Inv, p.crt_status \in Parsing, NEW c, Mark(data, p, c), NEW t,
         Same(data, t, p.crtidx)
  PROVE  /\ ConfOK /\ p.field_idx \in Fields /\ data \in Seq(Chars) /\ Len(data) \in Nat
         /\ p.crtidx \in Nat /\ p.pre_field_pos \in Nat /\ p.pre_field_pos <= p.crtidx
         /\ p.pre_field_pos + 1 \in Nat \ {0} /\ Width \in Nat \ {0}
         /\ Begun(t, c, p.field_idx, Texts) /\ c[p.field_idx] + Width = p.pre_field_pos + 1
         /\ NoNul(t, p.crtidx)
PROOF
<1>1. /\ ConfOK /\ p.field_idx \in Fields /\ data \in Seq(Chars) /\ Len(data) \in Nat
      /\ p.crtidx \in Nat /\ p.pre_field_pos \in Nat /\ p.pre_field_pos <= p.crtidx
      /\ Width \in Nat \ {0}
  BY Types, ConfTypes DEF Inv, PosInv, Locals
<1>2. c[p.field_idx] + Width = p.pre_field_pos + 1 /\ Begun(data, c, p.field_idx, Texts)
      /\ NoNul(data, p.crtidx)
  BY DEF Mark
<1>3. c[p.field_idx] + Width - 1 <= p.crtidx
  <2>1. p.field_idx \in 0 .. FieldsNum  BY <1>1, ConfigAssumption DEF Fields
  <2>2. c[p.field_idx] \in Int  BY <1>2, <2>1 DEF Begun
  <2>3. QED  BY <1>1, <1>2, <2>2
<1>4. Begun(t, c, p.field_idx, Texts)
  BY <1>1, <1>2, <1>3, SameBegun
<1>5. NoNul(t, p.crtidx)
  BY <1>2 DEF NoNul, Same
<1>6. QED  BY <1>1, <1>2, <1>4, <1>5

LEMMA FieldBeginFinds ==
  ASSUME Inv, MarkInv, FieldBegin
  PROVE  MarkInv' /\ ToldInv'
PROOF
<1> DEFINE x == p.crtidx
           a == p.pre_field_pos + 1
           t == data'
           delim == EndsDelim(p.crtidx, Seen)
<1>1. /\ p.crt_status = "eFieldBegin" /\ x < Len(data) /\ Clean
      /\ conf' = conf /\ p.crt_status \in Parsing
  BY DEF FieldBegin, InField, objVars, Parsing
<1>2. PICK s \in Parsing, j \in {x, x + 1} :
        /\ Goto(s, j)
        /\ \/ s = "eFieldEnd" /\ j = x /\ delim
           \/ s = "eRecordEnd" /\ j = x /\ EndsRow(Seen)
           \/ s = "eStrField" /\ j = x + 1 /\ Opens(Seen)
           \/ s = "eField" /\ j = x + 1 /\ ~delim /\ ~EndsRow(Seen) /\ ~Opens(Seen)
  BY DEF FieldBegin, Parsing
<1>3. /\ p'.crt_status = s /\ p'.crtidx = j
      /\ p'.pre_field_pos = p.pre_field_pos /\ p'.field_idx = p.field_idx
  <2>1. j \in 0 .. Len(data) /\ p \in Locals(Len(data)) /\ Len(data) \in Nat
    BY <1>1, Types DEF Inv, Locals
  <2>2. QED  BY <1>2, <2>1, GotoTypes
<1>4. ASSUME Separable PROVE \E c : Mark(t, p', c)
  <2>1. PICK c : Mark(data, p, c)  BY <1>1, <1>4 DEF MarkInv
  <2>2. /\ Same(data, t, x) /\ t[x + 1] = Seen /\ Seen # Nul /\ Seen \in Chars
    BY <1>1, Turn, Cleaning DEF Inv
  <2>3. /\ ConfOK /\ p.field_idx \in Fields /\ data \in Seq(Chars) /\ Len(data) \in Nat
        /\ x \in Nat /\ p.pre_field_pos \in Nat /\ a \in Nat \ {0} /\ Width \in Nat \ {0}
        /\ Begun(t, c, p.field_idx, Texts) /\ c[p.field_idx] + Width = a /\ NoNul(t, x)
    BY <1>1, <2>1, <2>2, MarkFacts
  <2>4. x + 1 = a
    BY <1>1, <2>1 DEF Mark
  <2>5. delim <=> x + 1 >= Width /\ Hit(t, x + 2 - Width)
    BY <1>1, <2>2, <2>3, EndsDelimIs
  <2>6. NoNul(t, j)
    <3>1. \A i \in 1 .. j : i \in 1 .. x \/ i = x + 1  BY <2>3
    <3>2. QED  BY <2>2, <2>3, <3>1 DEF NoNul
  <2>7. CASE s = "eFieldEnd" /\ j = x /\ delim
    <3>1. PICK b \in Nat \ {0} : b = x + 2 - Width
      <4>1. x + 2 - Width \in Nat \ {0}  BY <2>3, <2>5, <2>7
      <4>2. QED  BY <4>1
    <3>2. a < b + Width /\ Hit(t, b)  BY <2>3, <2>4, <2>5, <2>7, <3>1
    <3>3. a <= b
      <4> HIDE DEF a
      <4>1. QED  BY <1>4, <2>3, <3>2, AfterDelim
    <3>4. Plain(t, a, b - 1)
      <4>1. b = a  BY <2>3, <2>4, <3>1, <3>3
      <4>2. QED  BY <4>1 DEF Plain
    <3>5. QED  BY <1>3, <2>3, <2>6, <2>7, <3>1, <3>2, <3>3, <3>4 DEF Mark
  <2>8. CASE s = "eRecordEnd" /\ j = x /\ EndsRow(Seen)
    <3>1. Good(t, a, x)  BY <2>3, <2>4 DEF Good, Plain
    <3>2. QED  BY <1>3, <2>2, <2>3, <2>4, <2>6, <2>8, <3>1 DEF Mark
  <2>9. CASE s = "eStrField" /\ j = x + 1 /\ Opens(Seen)
    <3>1. ~conf.unqualified /\ t[a] = Qual  BY <2>2, <2>4, <2>9 DEF Opens
    <3>2. Pairs(t, a + 1, x + 1)
      <4>1. a + 1 \in Nat /\ x + 1 \in Int /\ x + 1 < a + 1  BY <2>3, <2>4
      <4>2. QED  BY <4>1, PairsEmpty
    <3>3. QED  BY <1>3, <2>3, <2>6, <2>9, <3>1, <3>2 DEF Mark
  <2>10. CASE s = "eField" /\ j = x + 1 /\ ~delim /\ ~EndsRow(Seen) /\ ~Opens(Seen)
    <3>1. Plain(t, a, x)  BY <2>3, <2>4 DEF Plain
    <3>2. t[a] # Qual \/ conf.unqualified  BY <2>2, <2>4, <2>10 DEF Opens
    <3>3. Plain(t, a, x + 1)
      <4> HIDE DEF a, delim, x, t
      <4>1. QED  BY <2>2, <2>3, <2>4, <2>5, <2>10, <3>1, <3>2, PlainMore
    <3>4. QED  BY <1>3, <2>3, <2>6, <2>10, <3>3 DEF Mark
  <2>11. QED  BY <1>2, <2>7, <2>8, <2>9, <2>10
<1>5. QED  BY <1>1, <1>3, <1>4, Going

LEMMA FieldFinds ==
  ASSUME Inv, MarkInv, Field
  PROVE  MarkInv' /\ ToldInv'
PROOF
<1> DEFINE x == p.crtidx
           a == p.pre_field_pos + 1
           t == data'
           delim == EndsDelim(p.crtidx, Seen)
<1>1. /\ p.crt_status = "eField" /\ x < Len(data) /\ Clean
      /\ conf' = conf /\ p.crt_status \in Parsing
  BY DEF Field, InField, objVars, Parsing
<1>2. PICK s \in Parsing, j \in {x, x + 1} :
        /\ Goto(s, j)
        /\ \/ s = "eFieldEnd" /\ j = x /\ delim
           \/ s = "eRecordEnd" /\ j = x /\ EndsRow(Seen)
           \/ s = "eField" /\ j = x + 1 /\ ~delim /\ ~EndsRow(Seen)
  BY DEF Field, Parsing
<1>3. /\ p'.crt_status = s /\ p'.crtidx = j
      /\ p'.pre_field_pos = p.pre_field_pos /\ p'.field_idx = p.field_idx
  <2>1. j \in 0 .. Len(data) /\ p \in Locals(Len(data)) /\ Len(data) \in Nat
    BY <1>1, Types DEF Inv, Locals
  <2>2. QED  BY <1>2, <2>1, GotoTypes
<1>4. ASSUME Separable PROVE \E c : Mark(t, p', c)
  <2>1. PICK c : Mark(data, p, c)  BY <1>1, <1>4 DEF MarkInv
  <2>2. /\ Same(data, t, x) /\ t[x + 1] = Seen /\ Seen # Nul /\ Seen \in Chars
    BY <1>1, Turn, Cleaning DEF Inv
  <2>3. /\ ConfOK /\ p.field_idx \in Fields /\ data \in Seq(Chars) /\ Len(data) \in Nat
        /\ x \in Nat /\ p.pre_field_pos \in Nat /\ a \in Nat \ {0} /\ Width \in Nat \ {0}
        /\ Begun(t, c, p.field_idx, Texts) /\ c[p.field_idx] + Width = a /\ NoNul(t, x)
    BY <1>1, <2>1, <2>2, MarkFacts
  <2>4. a <= x
    BY <1>1, <2>3 DEF Inv, PosInv
  <2>5. delim <=> x + 1 >= Width /\ Hit(t, x + 2 - Width)
    BY <1>1, <2>2, <2>3, EndsDelimIs
  <2>6. NoNul(t, j)
    <3>1. \A i \in 1 .. j : i \in 1 .. x \/ i = x + 1  BY <2>3
    <3>2. QED  BY <2>2, <2>3, <3>1 DEF NoNul
  <2>7. Plain(t, a, x)
    <3>1. Plain(data, a, x)  BY <1>1, <2>1 DEF Mark
    <3>2. x \in Int /\ x <= x  BY <2>3
    <3> HIDE DEF a, x, t
    <3>3. QED  BY <2>2, <2>3, <3>1, <3>2, SamePlain
  <2>8. CASE s = "eFieldEnd" /\ j = x /\ delim
    <3>1. PICK b \in Nat \ {0} : b = x + 2 - Width
      <4>1. x + 2 - Width \in Nat \ {0}  BY <2>3, <2>5, <2>8
      <4>2. QED  BY <4>1
    <3>2. a < b + Width /\ Hit(t, b)  BY <2>3, <2>4, <2>5, <2>8, <3>1
    <3>3. a <= b
      <4> HIDE DEF a
      <4>1. QED  BY <1>4, <2>3, <3>2, AfterDelim
    <3>4. Plain(t, a, b - 1)
      <4>1. a \in Nat /\ x \in Int /\ b - 1 \in Int /\ b - 1 <= x  BY <2>3, <3>1
      <4> HIDE DEF a, x, t
      <4>2. QED  BY <2>3, <2>7, <4>1, PlainPart
    <3>5. QED  BY <1>3, <2>3, <2>6, <2>8, <3>1, <3>2, <3>3, <3>4 DEF Mark
  <2>9. CASE s = "eRecordEnd" /\ j = x /\ EndsRow(Seen)
    <3>1. Good(t, a, x) /\ a <= x + 1  BY <2>3, <2>4, <2>7 DEF Good
    <3>2. QED  BY <1>3, <2>2, <2>3, <2>6, <2>9, <3>1 DEF Mark
  <2>10. CASE s = "eField" /\ j = x + 1 /\ ~delim /\ ~EndsRow(Seen)
    <3>1. Plain(t, a, x + 1)
      <4>1. a <= x + 1  BY <2>3, <2>4
      <4> HIDE DEF a, delim, x, t
      <4>2. QED  BY <2>2, <2>3, <2>4, <2>5, <2>7, <2>10, <4>1, PlainMore
    <3>2. QED  BY <1>3, <2>3, <2>6, <2>10, <3>1 DEF Mark
  <2>11. QED  BY <1>2, <2>8, <2>9, <2>10
<1>5. QED  BY <1>1, <1>3, <1>4, Going

LEMMA StrFieldFinds ==
  ASSUME Inv, MarkInv, StrField
  PROVE  MarkInv' /\ ToldInv'
PROOF
<1> DEFINE x == p.crtidx
           a == p.pre_field_pos + 1
           t == data'
<1>1. /\ p.crt_status = "eStrField" /\ x < Len(data) /\ Clean /\ Seen # Qual
      /\ Goto("eStrField", x + 1) /\ conf' = conf /\ p.crt_status \in Parsing
  BY DEF StrField, InField, objVars, Parsing
<1>2. /\ p'.crt_status = "eStrField" /\ p'.crtidx = x + 1
      /\ p'.pre_field_pos = p.pre_field_pos /\ p'.field_idx = p.field_idx
  <2>1. x + 1 \in 0 .. Len(data) /\ p \in Locals(Len(data)) /\ Len(data) \in Nat
    BY <1>1, Types DEF Inv, Locals
  <2>2. QED  BY <1>1, <2>1, GotoTypes DEF Parsing
<1>3. ASSUME Separable PROVE \E c : Mark(t, p', c)
  <2>1. PICK c : Mark(data, p, c)  BY <1>1, <1>3 DEF MarkInv
  <2>2. /\ Same(data, t, x) /\ t[x + 1] = Seen /\ Seen # Nul /\ Seen \in Chars
    BY <1>1, Turn, Cleaning DEF Inv
  <2>3. /\ ConfOK /\ p.field_idx \in Fields /\ data \in Seq(Chars) /\ Len(data) \in Nat
        /\ x \in Nat /\ p.pre_field_pos \in Nat /\ a \in Nat \ {0} /\ Width \in Nat \ {0}
        /\ Begun(t, c, p.field_idx, Texts) /\ c[p.field_idx] + Width = a /\ NoNul(t, x)
    BY <1>1, <2>1, <2>2, MarkFacts
  <2>4. a <= x
    BY <1>1, <2>3 DEF Inv, PosInv
  <2>5. NoNul(t, x + 1)
    <3>1. \A i \in 1 .. x + 1 : i \in 1 .. x \/ i = x + 1  BY <2>3
    <3>2. QED  BY <2>2, <2>3, <3>1 DEF NoNul
  <2>6. ~conf.unqualified /\ t[a] = Qual
    <3>1. ~conf.unqualified /\ data[a] = Qual  BY <1>1, <2>1 DEF Mark
    <3>2. a \in 1 .. x  BY <2>3, <2>4
    <3>3. QED  BY <2>2, <3>1, <3>2 DEF Same
  <2>7. Pairs(t, a + 1, x + 1)
    <3>1. Pairs(data, a + 1, x)  BY <1>1, <2>1 DEF Mark
    <3>2. a + 1 \in Nat \ {0} /\ a + 1 \in Nat /\ x \in Int /\ x <= x /\ a + 1 <= x + 1
      BY <2>3, <2>4
    <3>3. Pairs(t, a + 1, x)
      <4> HIDE DEF a, x, t
      <4>1. QED  BY <2>2, <2>3, <3>1, <3>2, SamePairs
    <3>4. t[x + 1] # Qual  BY <1>1, <2>2
    <3> HIDE DEF a, x, t
    <3>5. QED  BY <2>3, <3>2, <3>3, <3>4, PairsOther
  <2>8. QED  BY <1>2, <2>3, <2>5, <2>6, <2>7 DEF Mark
<1>4. QED  BY <1>1, <1>2, <1>3, Going

LEMMA StrEscapeFinds ==
  ASSUME Inv, MarkInv, StrEscape
  PROVE  MarkInv' /\ ToldInv'
PROOF
<1> DEFINE x == p.crtidx
           a == p.pre_field_pos + 1
           e == p.needEscapeQualifier \/ ~conf.backslash
<1>1. /\ p.crt_status = "eStrField" /\ x < Len(data) /\ x + 1 < Len(data)
      /\ Seen = Qual /\ data[x + 2] = Qual /\ data' = data
      /\ conf' = conf /\ p.crt_status \in Parsing
  <2>1. /\ p.crt_status = "eStrField" /\ x < Len(data) /\ x + 1 < Len(data)
        /\ Seen = Qual /\ data[(x + 1) + 1] = Qual /\ data' = data
        /\ conf' = conf
    BY DEF StrEscape, InField, IsEscape, At, objVars
  <2>2. (x + 1) + 1 = x + 2  BY Types DEF Inv, Locals
  <2>3. QED  BY <2>1, <2>2 DEF Parsing
<1>2. /\ p'.crt_status = "eStrField" /\ p'.crtidx = x + 2
      /\ p'.pre_field_pos = p.pre_field_pos /\ p'.field_idx = p.field_idx
  <2>1. p' = [p EXCEPT !.crtidx = x + 2, !.needEscapeQualifier = e]
    BY Zenon DEF StrEscape
  <2>2. p \in Locals(Len(data))  BY Types DEF Inv
  <2> HIDE DEF e, x
  <2>3. QED  BY <1>1, <2>1, <2>2 DEF Locals
<1>3. ASSUME Separable PROVE \E c : Mark(data', p', c)
  <2>1. PICK c : Mark(data, p, c)  BY <1>1, <1>3 DEF MarkInv
  <2>2. Same(data, data, x)  BY DEF Same
  <2>3. /\ ConfOK /\ p.field_idx \in Fields /\ data \in Seq(Chars) /\ Len(data) \in Nat
        /\ x \in Nat /\ p.pre_field_pos \in Nat /\ a \in Nat \ {0} /\ Width \in Nat \ {0}
        /\ Begun(data, c, p.field_idx, Texts) /\ c[p.field_idx] + Width = a /\ NoNul(data, x)
    BY <1>1, <2>1, <2>2, MarkFacts
  <2>4. a <= x
    BY <1>1, <2>3 DEF Inv, PosInv
  <2>5. data[x + 1] = Qual
    BY <1>1, Cleaning DEF Inv
  <2>6. NoNul(data, x + 2)
    <3>1. \A i \in 1 .. x + 2 : i \in 1 .. x \/ i = x + 1 \/ i = x + 2  BY <2>3
    <3>2. Qual # Nul  BY CharsAssumption
    <3>3. QED  BY <1>1, <2>3, <2>5, <3>1, <3>2 DEF NoNul
  <2>7. ~conf.unqualified /\ data[a] = Qual /\ Pairs(data, a + 1, x)
    BY <1>1, <2>1 DEF Mark
  <2>8. Pairs(data, a + 1, x + 2)
    <3>1. a + 1 \in Nat /\ a + 1 <= x + 1  BY <2>3, <2>4
    <3> HIDE DEF a, x
    <3>2. QED  BY <1>1, <2>3, <2>5, <2>7, <3>1, PairsPair
  <2>9. QED  BY <1>1, <1>2, <2>3, <2>6, <2>7, <2>8 DEF Mark
<1>4. QED  BY <1>1, <1>2, <1>3, Going

LEMMA StrEndFinds ==
  ASSUME Inv, MarkInv, StrEnd
  PROVE  MarkInv' /\ ToldInv'
PROOF
<1> DEFINE x == p.crtidx
           a == p.pre_field_pos + 1
           s == data
           c1 == s[x + 2]
<1>1. /\ p.crt_status = "eStrField" /\ x < Len(s) /\ Seen = Qual /\ data' = data
      /\ conf' = conf /\ p.crt_status \in Parsing
      /\ mIsLastRecordMissRowDelimiter' = mIsLastRecordMissRowDelimiter
  BY DEF StrEnd, InField, objVars, Parsing
<1>2. /\ p \in Locals(Len(s)) /\ x \in Nat /\ Len(s) \in Nat /\ (x + 1) + 1 = x + 2
      /\ s \in Seq(Chars) /\ s[x + 1] = Qual
  BY <1>1, Types, Cleaning DEF Inv, Locals
<1>3. /\ x + 1 < Len(s) => s[x + 2] # Qual
      /\ \/ x + 1 >= Len(s) /\ Return(-1, -1)
         \/ /\ x + 1 < Len(s) /\ EndsDelim(x + 1, c1) /\ Goto("eFieldEnd", x + 1)
         \/ /\ x + 1 < Len(s) /\ ~EndsDelim(x + 1, c1) /\ EndsRow(c1)
            /\ Goto("eRecordEnd", x + 1)
         \/ /\ x + 1 < Len(s) /\ ~EndsDelim(x + 1, c1) /\ ~EndsRow(c1)
            /\ Return(-2, x + 2)
  BY <1>2 DEF StrEnd, At, IsEscape
<1>4. ASSUME Separable
      PROVE  \E c : /\ Mark(s, p, c) /\ ConfOK /\ p.field_idx \in Fields
                    /\ a \in Nat \ {0} /\ a <= x /\ Width \in Nat \ {0}
                    /\ Begun(s, c, p.field_idx, Texts) /\ c[p.field_idx] + Width = a
                    /\ NoNul(s, x + 1)
                    /\ ~conf.unqualified /\ s[a] = Qual /\ Pairs(s, a + 1, x)
                    /\ Text(s, a, x + 1)
  <2>1. PICK c : Mark(s, p, c)  BY <1>1, <1>4 DEF MarkInv
  <2>2. Same(s, s, x)  BY DEF Same
  <2>3. /\ ConfOK /\ p.field_idx \in Fields /\ p.pre_field_pos \in Nat /\ a \in Nat \ {0}
        /\ Width \in Nat \ {0}
        /\ Begun(s, c, p.field_idx, Texts) /\ c[p.field_idx] + Width = a /\ NoNul(s, x)
    BY <1>1, <2>1, <2>2, MarkFacts
  <2>4. a <= x
    BY <1>1, <1>2, <2>3 DEF Inv, PosInv
  <2>5. NoNul(s, x + 1)
    <3>1. \A i \in 1 .. x + 1 : i \in 1 .. x \/ i = x + 1  BY <1>2
    <3>2. Qual # Nul  BY CharsAssumption
    <3>3. QED  BY <1>2, <2>3, <3>1, <3>2 DEF NoNul
  <2>6. ~conf.unqualified /\ s[a] = Qual /\ Pairs(s, a + 1, x)
    BY <1>1, <2>1 DEF Mark
  <2>7. Text(s, a, x + 1)
    <3>1. (x + 1) - 1 = x /\ a < x + 1  BY <1>2, <2>3, <2>4
    <3>2. QED  BY <1>2, <2>6, <3>1 DEF Text
  <2>8. QED  BY <2>1, <2>3, <2>4, <2>5, <2>6, <2>7
<1>5. CASE x + 1 < Len(s) /\ EndsDelim(x + 1, c1) /\ Goto("eFieldEnd", x + 1)
  <2>1. /\ p'.crt_status = "eFieldEnd" /\ p'.crtidx = x + 1
        /\ p'.pre_field_pos = p.pre_field_pos /\ p'.field_idx = p.field_idx
    <3>1. x + 1 \in 0 .. Len(s)  BY <1>1, <1>2
    <3>2. QED  BY <1>2, <1>5, <3>1, GotoTypes DEF Parsing
  <2>2. ASSUME Separable PROVE \E c : Mark(data', p', c)
    <3>1. PICK c :  /\ Mark(s, p, c) /\ ConfOK /\ p.field_idx \in Fields
                    /\ a \in Nat \ {0} /\ a <= x /\ Width \in Nat \ {0}
                    /\ Begun(s, c, p.field_idx, Texts) /\ c[p.field_idx] + Width = a
                    /\ NoNul(s, x + 1)
                    /\ ~conf.unqualified /\ s[a] = Qual /\ Pairs(s, a + 1, x)
                    /\ Text(s, a, x + 1)
      BY <1>4, <2>2
    <3>2. x + 1 \in Nat /\ c1 \in Chars /\ x + 1 > 0
      <4>1. x + 2 \in 1 .. Len(s)  BY <1>2, <1>5
      <4>2. QED  BY <1>2, <4>1, ElementOfSeq
    <3>3. Width = 1
      <4> HIDE DEF c1, x, s
      <4>1. QED  BY <1>2, <1>5, <3>2, DelimEnds DEF Inv, s
    <3>4. Hit(s, x + 2)
      <4>1. PICK i \in Nat : i = x + 1  BY <3>2
      <4>2. Same(data, s, i) /\ s[i + 1] = c1 /\ i < Len(data) /\ data \in Seq(Chars)
        BY <1>2, <1>5, <4>1 DEF Same
      <4>3. Hit(s, i + 2 - Width)
        <5> HIDE DEF c1, x
        <5>1. QED  BY <1>5, <3>1, <3>2, <4>1, <4>2, EndsDelimIs
      <4>4. i + 2 - Width = x + 2  BY <1>2, <3>3, <4>1
      <4>5. QED  BY <4>3, <4>4
    <3>5. (x + 1) + 2 - Width = x + 2 /\ (x + 2) - 1 = x + 1 /\ a <= x + 2
      BY <1>2, <3>1, <3>3
    <3>6. QED  BY <1>1, <2>1, <3>1, <3>3, <3>4, <3>5 DEF Mark
  <2>3. QED  BY <1>1, <2>1, <2>2, Going DEF Parsing
<1>6. CASE x + 1 < Len(s) /\ EndsRow(c1) /\ Goto("eRecordEnd", x + 1)
  <2>1. /\ p'.crt_status = "eRecordEnd" /\ p'.crtidx = x + 1
        /\ p'.pre_field_pos = p.pre_field_pos /\ p'.field_idx = p.field_idx
    <3>1. x + 1 \in 0 .. Len(s)  BY <1>1, <1>2
    <3>2. QED  BY <1>2, <1>6, <3>1, GotoTypes DEF Parsing
  <2>2. ASSUME Separable PROVE \E c : Mark(data', p', c)
    <3>1. PICK c :  /\ Mark(s, p, c) /\ ConfOK /\ p.field_idx \in Fields
                    /\ a \in Nat \ {0} /\ a <= x /\ Width \in Nat \ {0}
                    /\ Begun(s, c, p.field_idx, Texts) /\ c[p.field_idx] + Width = a
                    /\ NoNul(s, x + 1)
                    /\ ~conf.unqualified /\ s[a] = Qual /\ Pairs(s, a + 1, x)
                    /\ Text(s, a, x + 1)
      BY <1>4, <2>2
    <3>2. a <= (x + 1) + 1 /\ Good(s, a, x + 1) /\ EndsRow(s[(x + 1) + 1])
      BY <1>2, <1>6, <3>1 DEF Good
    <3>3. QED  BY <1>1, <2>1, <3>1, <3>2 DEF Mark
  <2>3. QED  BY <1>1, <2>1, <2>2, Going DEF Parsing
<1>7. CASE x + 1 >= Len(s) /\ Return(-1, -1)
  <2>1. p'.crt_status = "done" /\ status' = -1
    BY <1>2, <1>7 DEF Return, Locals
  <2>2. ASSUME Separable PROVE Refused(data') /\ Open(data')
    <3>1. PICK c :  /\ Mark(s, p, c) /\ ConfOK /\ p.field_idx \in Fields
                    /\ a \in Nat \ {0} /\ a <= x /\ Width \in Nat \ {0}
                    /\ Begun(s, c, p.field_idx, Texts) /\ c[p.field_idx] + Width = a
                    /\ NoNul(s, x + 1)
                    /\ ~conf.unqualified /\ s[a] = Qual /\ Pairs(s, a + 1, x)
                    /\ Text(s, a, x + 1)
      BY <1>4, <2>2
    <3>2. Len(s) = x + 1  BY <1>1, <1>2, <1>7
    <3>3. Open(s)
      <4>1. Begun(s, c, p.field_idx, Fields)
        <5>1. Texts \subseteq Fields
          BY ConfigAssumption DEF Texts, Fields
        <5>2. QED  BY <3>1, <5>1 DEF Begun, FieldAt
      <4>2. Good(s, a, Len(s)) /\ a <= Len(s) + 1 /\ a \in Nat
        BY <1>2, <3>1, <3>2 DEF Good
      <4>3. c[p.field_idx] + Width = a /\ p.field_idx \in Fields
        BY <3>1
      <4> HIDE DEF a, s, x
      <4>4. QED  BY <4>1, <4>2, <4>3 DEF Open
    <3>4. ASSUME NEW n \in 1 .. Len(s), NEW m \in Nat, NEW d, RowEndAt(s, m, n),
                 Split(s, m, d, Texts)
          PROVE  FALSE
      <4>1. EndsRow(s[m + 1]) /\ m + 1 <= n /\ n <= Len(s)
        BY <1>2, <3>4 DEF RowEndAt, EndsRow
      <4>2. PICK l \in Nat : a <= l /\ l <= m + 1 /\ Good(s, a, l - 1) /\ Closed(s, l)
        <5>1. a \in Nat /\ a = c[p.field_idx] + Width  BY <3>1
        <5> HIDE DEF a, s
        <5>2. QED  BY <2>2, <3>1, <3>4, <4>1, <5>1, NextField
      <4>3. l >= x + 2
        <5>1. a \in Nat  BY <3>1
        <5> HIDE DEF a, s, x
        <5>2. QED  BY <1>2, <3>1, <4>2, <5>1, TextAhead
      <4>4. QED  BY <1>2, <3>2, <4>1, <4>2, <4>3
    <3>5. QED  BY <1>1, <3>3, <3>4 DEF Refused
  <2>3. ~Complete'
    BY <2>1 DEF Complete, Told
  <2>4. QED  BY <1>1, <2>1, <2>2, <2>3, Returned
<1>8. CASE x + 1 < Len(s) /\ ~EndsDelim(x + 1, c1) /\ ~EndsRow(c1) /\ Return(-2, x + 2)
  <2>1. p'.crt_status = "done" /\ status' = -2
    BY <1>2, <1>8 DEF Return, Locals
  <2>2. ASSUME Separable PROVE Refused(data')
    <3>1. PICK c :  /\ Mark(s, p, c) /\ ConfOK /\ p.field_idx \in Fields
                    /\ a \in Nat \ {0} /\ a <= x /\ Width \in Nat \ {0}
                    /\ Begun(s, c, p.field_idx, Texts) /\ c[p.field_idx] + Width = a
                    /\ NoNul(s, x + 1)
                    /\ ~conf.unqualified /\ s[a] = Qual /\ Pairs(s, a + 1, x)
                    /\ Text(s, a, x + 1)
      BY <1>4, <2>2
    <3>2. c1 # Qual  BY <1>3, <1>8
    <3>3. ASSUME NEW n \in 1 .. Len(s), NEW m \in Nat, NEW d, RowEndAt(s, m, n),
                 Split(s, m, d, Texts)
          PROVE  FALSE
      <4>1. EndsRow(s[m + 1]) /\ m + 1 <= n /\ n <= Len(s)
        BY <1>2, <3>3 DEF RowEndAt, EndsRow
      <4>2. PICK l \in Nat :
              /\ a <= l /\ Good(s, a, l - 1) /\ Closed(s, l)
              /\ Plain(s, a, l - 1) \/ (p.field_idx \in Texts /\ Text(s, a, l - 1))
              /\ p.field_idx + 1 = FieldsNum => EndsRow(s[l])
        <5>1. a \in Nat /\ a = c[p.field_idx] + Width  BY <3>1
        <5> HIDE DEF a, s
        <5>2. QED  BY <2>2, <3>1, <3>3, <4>1, <5>1, NextField
      <4>3. l >= x + 2 /\ Text(s, a, l - 1)
        <5>1. a \in Nat  BY <3>1
        <5> HIDE DEF a, s, x
        <5>2. QED  BY <1>2, <3>1, <4>2, <5>1, TextAhead
      <4>4. CASE l = x + 2
        <5>1. Hit(s, x + 2) /\ ~EndsRow(s[l])
          BY <1>8, <4>2, <4>4 DEF Closed
        <5>2. p.field_idx + 1 # FieldsNum
          BY <4>2, <5>1
        <5>3. p.field_idx \in Texts
          <6>1. ~Plain(s, a, l - 1)
            <7>1. a \in a .. l - 1  BY <1>2, <3>1, <4>4
            <7>2. QED  BY <3>1, <7>1 DEF Plain
          <6>2. QED  BY <4>2, <6>1
        <5>4. Width = 1
          <6>1. p.field_idx \in Nat /\ FieldsNum \in Nat
            BY <3>1, ConfigAssumption DEF Fields
          <6>2. QED  BY <5>2, <5>3, <6>1 DEF Texts
        <5>5. EndsDelim(x + 1, c1)
          <6>1. PICK i \in Nat : i = x + 1  BY <1>2
          <6>2. Same(data, s, i) /\ s[i + 1] = c1 /\ i < Len(data) /\ data \in Seq(Chars)
            BY <1>2, <1>8, <6>1 DEF Same
          <6>3. c1 \in Chars
            <7>1. x + 2 \in 1 .. Len(s)  BY <1>2, <1>8
            <7>2. QED  BY <1>2, <7>1, ElementOfSeq
          <6>4. i + 2 - Width = x + 2 /\ i + 1 >= Width  BY <1>2, <5>4, <6>1
          <6>5. EndsDelim(i, s[i + 1]) <=> i + 1 >= Width /\ Hit(s, i + 2 - Width)
            <7> HIDE DEF c1, x
            <7>1. QED  BY <3>1, <6>2, <6>3, EndsDelimIs
          <6>6. QED  BY <5>1, <6>1, <6>2, <6>4, <6>5
        <5>6. QED  BY <1>8, <5>5
      <4>5. CASE l > x + 2
        <5>1. PICK i \in Nat : i = (l - 1) - 1 /\ x + 1 <= i  BY <1>2, <4>5
        <5>2. Pairs(s, a + 1, i)  BY <4>3, <5>1 DEF Text
        <5>3. a + 1 \in Nat /\ a + 1 <= x + 1  BY <1>2, <3>1
        <5>4. s[x + 1] = Qual /\ s[x + 2] # Qual  BY <1>2, <3>2
        <5>5. ~Pairs(s, a + 1, i)
          <6> HIDE DEF a, s, x
          <6>1. QED  BY <1>2, <3>1, <5>1, <5>3, <5>4, PairsOdd
        <5>6. QED  BY <5>2, <5>5
      <4>6. QED  BY <1>2, <4>3, <4>4, <4>5
    <3>4. QED  BY <1>1, <3>3 DEF Refused
  <2>3. ~Complete' /\ ~Told(-1)'
    BY <2>1 DEF Complete, Told
  <2>4. QED  BY <1>1, <2>1, <2>2, <2>3, Returned
<1>9. QED  BY <1>3, <1>5, <1>6, <1>7, <1>8

LEMMA FieldEndsEarlyFinds ==
  ASSUME Inv, MarkInv, FieldEndsEarly
  PROVE  MarkInv' /\ ToldInv'
PROOF
<1>1. /\ p.crt_status = "eFieldEnd" /\ p.crtidx < Len(data) /\ FoundEarly
      /\ Goto("eFieldBegin", p.crtidx + 1) /\ conf' = conf /\ p.crt_status \in Parsing
  BY DEF FieldEndsEarly, InField, objVars, Parsing
<1>2. p'.crt_status = "eFieldBegin"
  <2>1. p.crtidx + 1 \in 0 .. Len(data) /\ p \in Locals(Len(data)) /\ Len(data) \in Nat
    BY <1>1, Types DEF Inv, Locals
  <2>2. QED  BY <1>1, <2>1, GotoTypes DEF Parsing
<1>3. ASSUME Separable PROVE FALSE
  <2>1. PICK c : Mark(data, p, c)  BY <1>1, <1>3 DEF MarkInv
  <2>2. p.pre_field_pos + 1 <= p.crtidx + 2 - Width  BY <1>1, <2>1 DEF Mark
  <2>3. p.crtidx \in Nat /\ p.pre_field_pos \in Nat /\ Width \in Nat
    BY Types DEF Inv, Locals
  <2>4. QED  BY <1>1, <2>2, <2>3 DEF FoundEarly
<1>4. QED  BY <1>1, <1>2, <1>3, Going DEF Parsing

(* The field that a delimiter ends.                                        *)
LEMMA FieldEndFacts ==
  ASSUME Inv, MarkInv, Separable, FieldEnd
  PROVE  LET x == p.crtidx
             a == p.pre_field_pos + 1
             k == p.field_idx
             t == data'
         IN  \E c : \E b \in Nat \ {0} :
               /\ ConfOK /\ k \in Fields /\ a \in Nat \ {0} /\ Width \in Nat \ {0}
               /\ Begun(t, c, k, Texts) /\ c[k] + Width = a
               /\ NoNul(t, x + 1) /\ Same(data, t, x + 1) /\ Begun(data, c, k, Texts)
               /\ b = x + 2 - Width /\ a <= b /\ Hit(t, b)
               /\ Plain(t, a, b - 1) \/ (Width = 1 /\ Text(t, a, b - 1))
PROOF
<1> DEFINE x == p.crtidx
           a == p.pre_field_pos + 1
           k == p.field_idx
           t == data'
<1>1. p.crt_status = "eFieldEnd" /\ x < Len(data) /\ Clean /\ p.crt_status \in Parsing
  BY DEF FieldEnd, InField, Parsing
<1>2. p \in Locals(Len(data)) /\ Len(data) \in Nat /\ x \in Nat /\ Len(t) = Len(data)
  BY <1>1, Types, Turn DEF Inv, Locals
<1>3. PICK c : Mark(data, p, c)  BY <1>1 DEF MarkInv
<1>4. Same(data, t, x) /\ t[x + 1] = Seen /\ Seen # Nul
  BY <1>1, Turn DEF Inv
<1>5. /\ ConfOK /\ k \in Fields /\ p.pre_field_pos \in Nat /\ a \in Nat \ {0}
      /\ Width \in Nat \ {0}
      /\ Begun(t, c, k, Texts) /\ c[k] + Width = a /\ NoNul(t, x)
  BY <1>1, <1>3, <1>4, MarkFacts
<1>6. PICK b \in Nat \ {0} : b = x + 2 - Width /\ a <= b
  <2>1. a <= x + 2 - Width  BY <1>1, <1>3 DEF Mark
  <2>2. x + 2 - Width \in Nat \ {0}  BY <1>2, <1>5, <2>1
  <2>3. QED  BY <2>1, <2>2
<1>7. Hit(data, b) /\ (Plain(data, a, b - 1) \/ (Width = 1 /\ Text(data, a, b - 1)))
  BY <1>1, <1>3, <1>6 DEF Mark
<1>8. Same(data, t, x + 1)
  <2>1. x + 1 \in b .. b + Width - 1 /\ b \in Int  BY <1>2, <1>5, <1>6
  <2>2. data[x + 1] # Nul  BY <1>5, <1>7, <2>1, HitOther
  <2>3. t[x + 1] = data[x + 1]  BY <1>4, <2>2 DEF Seen, At
  <2>4. \A i \in 1 .. x + 1 : i \in 1 .. x \/ i = x + 1  BY <1>2
  <2>5. QED  BY <1>4, <2>3, <2>4 DEF Same
<1>9. NoNul(t, x + 1)
  <2>1. \A i \in 1 .. x + 1 : i \in 1 .. x \/ i = x + 1  BY <1>2
  <2>2. QED  BY <1>4, <1>5, <2>1 DEF NoNul
<1>10. Hit(t, b)
  <2>1. b + Width - 1 <= x + 1 /\ x + 1 \in Nat  BY <1>2, <1>5, <1>6
  <2> HIDE DEF t, x
  <2>2. QED  BY <1>5, <1>7, <1>8, <2>1, SameHit
<1>11. Plain(t, a, b - 1) \/ (Width = 1 /\ Text(t, a, b - 1))
  <2>1. b - 1 \in Int /\ b - 1 <= x + 1 /\ x + 1 \in Nat  BY <1>2, <1>5, <1>6
  <2> HIDE DEF t, x, a
  <2>2. QED  BY <1>5, <1>7, <1>8, <2>1, SamePlain, SameText
<1>12. Begun(data, c, k, Texts)
  BY <1>3 DEF Mark
<1>13. QED  BY <1>5, <1>6, <1>8, <1>9, <1>10, <1>11, <1>12

LEMMA FieldEndFinds ==
  ASSUME Inv, MarkInv, FieldEnd
  PROVE  MarkInv' /\ ToldInv'
PROOF
<1> DEFINE x == p.crtidx
           a == p.pre_field_pos + 1
           k == p.field_idx
           t == data'
           q == [crt_status |-> "eFieldBegin",
                 crtidx |-> x + 1,
                 pre_field_pos |-> x + 1,
                 field_idx |-> k + 1,
                 numFields |-> p.numFields + 1,
                 needEscapeQualifier |-> FALSE]
<1>1. /\ p.crt_status = "eFieldEnd" /\ x < Len(data) /\ Clean
      /\ conf' = conf /\ p.crt_status \in Parsing
      /\ \/ Full /\ Return(-2, x + 1)
         \/ ~Full /\ p' = q
  BY DEF FieldEnd, InField, objVars, Parsing
<1>2. p \in Locals(Len(data)) /\ Len(data) \in Nat /\ x \in Nat /\ Len(t) = Len(data)
  BY <1>1, Types, Turn DEF Inv, Locals
<1>3. ASSUME Separable
      PROVE  \E c : \E b \in Nat \ {0} :
               /\ ConfOK /\ k \in Fields /\ a \in Nat \ {0} /\ Width \in Nat \ {0}
               /\ Begun(t, c, k, Texts) /\ c[k] + Width = a
               /\ NoNul(t, x + 1)
               /\ b = x + 2 - Width /\ a <= b /\ Hit(t, b)
               /\ Plain(t, a, b - 1) \/ (Width = 1 /\ Text(t, a, b - 1))
  BY <1>3, FieldEndFacts
<1>4. CASE Full /\ Return(-2, x + 1)
  <2>1. p'.crt_status = "done" /\ status' = -2
    BY <1>2, <1>4 DEF Return, Locals
  <2>2. ASSUME Separable PROVE Refused(t)
    <3>0. PICK c : \E b \in Nat \ {0} :
               /\ ConfOK /\ k \in Fields /\ a \in Nat \ {0} /\ Width \in Nat \ {0}
               /\ Begun(t, c, k, Texts) /\ c[k] + Width = a
               /\ NoNul(t, x + 1)
               /\ b = x + 2 - Width /\ a <= b /\ Hit(t, b)
               /\ Plain(t, a, b - 1) \/ (Width = 1 /\ Text(t, a, b - 1))
      BY <1>3, <2>2
    <3>1. PICK b \in Nat \ {0} :
               /\ ConfOK /\ k \in Fields /\ a \in Nat \ {0} /\ Width \in Nat \ {0}
               /\ Begun(t, c, k, Texts) /\ c[k] + Width = a
               /\ NoNul(t, x + 1)
               /\ b = x + 2 - Width /\ a <= b /\ Hit(t, b)
               /\ Plain(t, a, b - 1) \/ (Width = 1 /\ Text(t, a, b - 1))
      BY <3>0
    <3>2. k + 1 = FieldsNum
      BY <1>4, <3>1, ConfigAssumption DEF Full, Fields
    <3>3. ASSUME NEW n \in 1 .. Len(t), NEW m \in Nat, NEW d, RowEndAt(t, m, n),
                 Split(t, m, d, Texts)
          PROVE  FALSE
      <4>1. EndsRow(t[m + 1])
        BY <3>3 DEF RowEndAt, EndsRow
      <4>2. PICK l \in Nat : a <= l /\ Good(t, a, l - 1) /\ Closed(t, l) /\ EndsRow(t[l])
        <5>1. a \in Nat /\ a = c[k] + Width  BY <3>1
        <5> HIDE DEF a, t, k
        <5>2. QED  BY <2>2, <3>1, <3>2, <3>3, <4>1, <5>1, NextField
      <4>3. Good(t, a, b - 1) /\ Closed(t, b) /\ b \in Nat
        BY <3>1 DEF Good, Closed
      <4>4. b = l
        <5> HIDE DEF a, t
        <5>1. QED  BY <2>2, <3>1, <4>2, <4>3, OneEnd
      <4>5. b \in b .. b + Width - 1 /\ b \in Int  BY <3>1
      <4>6. ~EndsRow(t[b])
        <5> HIDE DEF t
        <5>1. QED  BY <3>1, <4>5, HitOther
      <4>7. QED  BY <4>2, <4>4, <4>6
    <3>4. QED  BY <3>3 DEF Refused
  <2>3. ~Complete' /\ ~Told(-1)'
    BY <2>1 DEF Complete, Told
  <2>4. QED  BY <1>1, <2>1, <2>2, <2>3, Returned
<1>5. CASE ~Full /\ p' = q
  <2>1. /\ p'.crt_status = "eFieldBegin" /\ p'.crtidx = x + 1
        /\ p'.pre_field_pos = x + 1 /\ p'.field_idx = k + 1
    BY <1>5
  <2>2. ASSUME Separable PROVE \E c : Mark(t, p', c)
    <3>0. PICK c : \E b \in Nat \ {0} :
               /\ ConfOK /\ k \in Fields /\ a \in Nat \ {0} /\ Width \in Nat \ {0}
               /\ Begun(t, c, k, Texts) /\ c[k] + Width = a
               /\ NoNul(t, x + 1)
               /\ b = x + 2 - Width /\ a <= b /\ Hit(t, b)
               /\ Plain(t, a, b - 1) \/ (Width = 1 /\ Text(t, a, b - 1))
      BY <1>3, <2>2
    <3>1. PICK b \in Nat \ {0} :
               /\ ConfOK /\ k \in Fields /\ a \in Nat \ {0} /\ Width \in Nat \ {0}
               /\ Begun(t, c, k, Texts) /\ c[k] + Width = a
               /\ NoNul(t, x + 1)
               /\ b = x + 2 - Width /\ a <= b /\ Hit(t, b)
               /\ Plain(t, a, b - 1) \/ (Width = 1 /\ Text(t, a, b - 1))
      BY <3>0
    <3>2. Plain(t, a, b - 1) \/ (k \in Texts /\ Text(t, a, b - 1))
      BY <3>1 DEF Texts
    <3>3. PICK d : Begun(t, d, k + 1, Texts) /\ d[k + 1] = b
      <4>1. a \in Nat /\ c[k] + Width = a /\ Begun(t, c, k, Texts)  BY <3>1
      <4>2. b \in Nat \ {0} /\ a <= b /\ Hit(t, b) /\ ConfOK /\ k \in Fields  BY <3>1
      <4> HIDE DEF a, t, k
      <4>3. QED  BY <3>2, <4>1, <4>2, NextBegun
    <3>4. d[k + 1] + Width = (x + 1) + 1
      BY <1>2, <3>1, <3>3
    <3>5. QED  BY <2>1, <3>1, <3>3, <3>4 DEF Mark
  <2>3. QED  BY <1>1, <2>1, <2>2, Going DEF Parsing
<1>6. QED  BY <1>1, <1>4, <1>5

(* The field that the row ends with.                                       *)
LEMMA RecordEndFacts ==
  ASSUME Inv, MarkInv, Separable, RecordEnd
  PROVE  LET x == p.crtidx
             a == p.pre_field_pos + 1
             k == p.field_idx
             t == data'
         IN  \E c :
               /\ ConfOK /\ k \in Fields /\ a \in Nat \ {0} /\ Width \in Nat \ {0}
               /\ Begun(t, c, k, Texts) /\ c[k] + Width = a
               /\ NoNul(t, x + 1) /\ Same(data, t, x + 1) /\ Begun(data, c, k, Texts)
               /\ EndsRow(t[x + 1]) /\ a <= x + 1 /\ Good(t, a, x)
PROOF
<1> DEFINE x == p.crtidx
           a == p.pre_field_pos + 1
           k == p.field_idx
           t == data'
<1>1. p.crt_status = "eRecordEnd" /\ x < Len(data) /\ Clean /\ p.crt_status \in Parsing
  BY DEF RecordEnd, InField, Parsing
<1>2. p \in Locals(Len(data)) /\ Len(data) \in Nat /\ x \in Nat /\ Len(t) = Len(data)
  BY <1>1, Types, Turn DEF Inv, Locals
<1>3. PICK c : Mark(data, p, c)  BY <1>1 DEF MarkInv
<1>4. Same(data, t, x) /\ t[x + 1] = Seen /\ Seen # Nul
  BY <1>1, Turn DEF Inv
<1>5. /\ ConfOK /\ k \in Fields /\ p.pre_field_pos \in Nat /\ a \in Nat \ {0}
      /\ Width \in Nat \ {0}
      /\ Begun(t, c, k, Texts) /\ c[k] + Width = a /\ NoNul(t, x)
  BY <1>1, <1>3, <1>4, MarkFacts
<1>6. a <= x + 1 /\ EndsRow(data[x + 1]) /\ Good(data, a, x)
  BY <1>1, <1>3 DEF Mark
<1>7. EndsRow(t[x + 1])
  <2>1. data[x + 1] # Nul  BY <1>5, <1>6, CharsAssumption DEF EndsRow, ConfOK
  <2>2. QED  BY <1>4, <1>6, <2>1 DEF Seen, At
<1>8. NoNul(t, x + 1)
  <2>1. \A i \in 1 .. x + 1 : i \in 1 .. x \/ i = x + 1  BY <1>2
  <2>2. QED  BY <1>4, <1>5, <2>1 DEF NoNul
<1>9. Good(t, a, x)
  <2>1. x \in Int /\ x <= x  BY <1>2
  <2> HIDE DEF t, x, a
  <2>2. QED  BY <1>2, <1>4, <1>5, <1>6, <2>1, SameGood
<1>10. Begun(data, c, k, Texts)
  BY <1>3 DEF Mark
<1>11. Same(data, t, x + 1)
  <2>1. data[x + 1] # Nul  BY <1>5, <1>6, CharsAssumption DEF EndsRow, ConfOK
  <2>2. t[x + 1] = data[x + 1]  BY <1>4, <2>1 DEF Seen, At
  <2>3. \A i \in 1 .. x + 1 : i \in 1 .. x \/ i = x + 1  BY <1>2
  <2>4. QED  BY <1>4, <2>2, <2>3 DEF Same
<1>12. QED  BY <1>5, <1>6, <1>7, <1>8, <1>9, <1>10, <1>11

LEMMA RecordEndFinds ==
  ASSUME Inv, MarkInv, RecordEnd
  PROVE  MarkInv' /\ ToldInv'
PROOF
<1> DEFINE x == p.crtidx
           a == p.pre_field_pos + 1
           k == p.field_idx
           t == data'
           cr == Seen = CR
           last == IF cr THEN x + 1 ELSE x
<1>1. /\ p.crt_status = "eRecordEnd" /\ x < Len(data) /\ Clean
      /\ conf' = conf /\ p.crt_status \in Parsing
  BY DEF RecordEnd, InField, objVars, Parsing
<1>2. /\ p \in Locals(Len(data)) /\ Len(data) \in Nat /\ x \in Nat /\ Len(t) = Len(data)
      /\ k = p.numFields
      /\ t[x + 1] = Seen /\ \A i \in 1 .. Len(data) : i # x + 1 => t[i] = data[i]
  <2>1. p \in Locals(Len(data)) /\ Len(data) \in Nat /\ TypeOK
    BY Types DEF Inv
  <2>2. x \in Nat  BY <2>1 DEF Locals
  <2>3. k = p.numFields  BY <1>1 DEF Inv, PosInv
  <2>4. QED  BY <1>1, <2>1, <2>2, <2>3, Turn
<1>3. \/ last >= Len(data) /\ Return(-1, -1)
      \/ last < Len(data) /\ cr /\ At(last) # LF /\ Return(-2, last + 1)
      \/ ~Enough /\ Return(-2, last + 1)
      \/ /\ last < Len(data) /\ (cr => At(last) = LF) /\ Enough /\ Return(0, last + 1)
  <2>1. IF last >= Len(data) THEN Return(-1, -1) /\ UNCHANGED fieldVars
        ELSE IF cr /\ At(last) # LF THEN Return(-2, last + 1) /\ UNCHANGED fieldVars
        ELSE IF ~Enough THEN Return(-2, last + 1) /\ UNCHANGED fieldVars
        ELSE Return(0, last + 1) /\ StoreField(p.crtidx, TRUE)
    BY Zenon DEF RecordEnd
  <2>2. last < Len(data) <=> ~(last >= Len(data))
    BY <1>2
  <2> HIDE DEF last, cr
  <2>3. QED  BY <2>1, <2>2, Zenon
<1>4. ASSUME Separable
      PROVE  \E c :
               /\ ConfOK /\ k \in Fields /\ a \in Nat \ {0} /\ Width \in Nat \ {0}
               /\ Begun(t, c, k, Texts) /\ c[k] + Width = a
               /\ NoNul(t, x + 1) /\ EndsRow(t[x + 1])
               /\ a <= x + 1 /\ Good(t, a, x)
  BY <1>4, RecordEndFacts
<1>5. ASSUME Separable, NEW n \in 1 .. Len(t), NEW m \in Nat, NEW d, RowEndAt(t, m, n),
             Split(t, m, d, Texts)
      PROVE  k + 1 = FieldsNum /\ m = x
  <2>1. PICK c :
               /\ ConfOK /\ k \in Fields /\ a \in Nat \ {0} /\ Width \in Nat \ {0}
               /\ Begun(t, c, k, Texts) /\ c[k] + Width = a
               /\ NoNul(t, x + 1) /\ EndsRow(t[x + 1])
               /\ a <= x + 1 /\ Good(t, a, x)
    BY <1>4, <1>5
  <2>2. EndsRow(t[m + 1])
    BY <1>5 DEF RowEndAt, EndsRow
  <2>3. PICK l \in Nat :
          /\ a <= l /\ Good(t, a, l - 1) /\ Closed(t, l)
          /\ k + 1 < FieldsNum => Hit(t, l)
          /\ k + 1 = FieldsNum => l = m + 1
    <3>1. a \in Nat /\ a = c[k] + Width  BY <2>1
    <3> HIDE DEF a, t, k
    <3>2. QED  BY <1>5, <2>1, <2>2, <3>1, NextField
  <2>4. PICK b \in Nat : b = x + 1  BY <1>2
  <2>5. Good(t, a, b - 1) /\ Closed(t, b) /\ a <= b
    <3>1. b - 1 = x  BY <1>2, <2>4
    <3>2. QED  BY <2>1, <2>4, <3>1 DEF Closed
  <2>6. b = l
    <3> HIDE DEF a, t
    <3>1. QED  BY <1>5, <2>1, <2>3, <2>5, OneEnd
  <2>7. ~Hit(t, l)
    <3>1. l \in l .. l + Width - 1 /\ l \in Int  BY <2>1
    <3> HIDE DEF t
    <3>2. QED  BY <2>1, <2>4, <2>6, <3>1, HitOther
  <2>8. k + 1 = FieldsNum
    BY <2>1, <2>3, <2>7, ConfigAssumption DEF Fields
  <2>9. QED  BY <1>2, <2>3, <2>4, <2>6, <2>8
<1>6. CASE last >= Len(data) /\ Return(-1, -1)
  <2>1. p'.crt_status = "done" /\ status' = -1
    BY <1>2, <1>6 DEF Return, Locals
  <2>2. cr /\ Len(t) = x + 1 /\ t[Len(t)] = CR
    BY <1>1, <1>2, <1>6
  <2>3. ASSUME Separable PROVE Refused(t) /\ Open(t)
    <3>1. ASSUME NEW n \in 1 .. Len(t), NEW m \in Nat, NEW d, RowEndAt(t, m, n),
                 Split(t, m, d, Texts)
          PROVE  FALSE
      <4>1. m = x  BY <1>5, <2>3, <3>1
      <4>2. n <= x + 1  BY <1>2, <2>2
      <4>3. QED  BY <1>2, <2>2, <3>1, <4>1, <4>2, CharsAssumption DEF RowEndAt
    <3>2. QED  BY <2>2, <3>1 DEF Refused, Open
  <2>4. ~Complete'
    BY <2>1 DEF Complete, Told
  <2>5. QED  BY <1>1, <2>1, <2>3, <2>4, Returned
<1>7. CASE last < Len(data) /\ cr /\ At(last) # LF /\ Return(-2, last + 1)
  <2>1. p'.crt_status = "done" /\ status' = -2
    BY <1>2, <1>7 DEF Return, Locals
  <2>2. t[x + 1] = CR /\ t[x + 2] # LF
    <3>1. x + 2 \in 1 .. Len(data) /\ x + 2 # x + 1 /\ (x + 1) + 1 = x + 2  BY <1>2, <1>7
    <3>2. QED  BY <1>2, <1>7, <3>1 DEF At
  <2>3. ASSUME Separable PROVE Refused(t)
    <3>1. ASSUME NEW n \in 1 .. Len(t), NEW m \in Nat, NEW d, RowEndAt(t, m, n),
                 Split(t, m, d, Texts)
          PROVE  FALSE
      <4>1. m = x  BY <1>5, <2>3, <3>1
      <4>2. QED  BY <2>2, <3>1, <4>1, CharsAssumption DEF RowEndAt
    <3>2. QED  BY <3>1 DEF Refused
  <2>4. ~Complete' /\ ~Told(-1)'
    BY <2>1 DEF Complete, Told
  <2>5. QED  BY <1>1, <2>1, <2>3, <2>4, Returned
<1>8. CASE ~Enough /\ Return(-2, last + 1)
  <2>1. p'.crt_status = "done" /\ status' = -2
    BY <1>2, <1>8 DEF Return, Locals
  <2>2. k + 1 # FieldsNum
    BY <1>2, <1>8 DEF Enough
  <2>3. ASSUME Separable PROVE Refused(t)
    BY <1>5, <2>2, <2>3 DEF Refused
  <2>4. ~Complete' /\ ~Told(-1)'
    BY <2>1 DEF Complete, Told
  <2>5. QED  BY <1>1, <2>1, <2>3, <2>4, Returned
<1>9. CASE last < Len(data) /\ (cr => At(last) = LF) /\ Enough /\ Return(0, last + 1)
  <2>1. p'.crt_status = "done" /\ status' = 0 /\ record_len' = last + 1
    BY <1>2, <1>9 DEF Return, Locals
  <2>2. ASSUME Separable PROVE Taken(t, last + 1)
    <3>1. PICK c :
               /\ ConfOK /\ k \in Fields /\ a \in Nat \ {0} /\ Width \in Nat \ {0}
               /\ Begun(t, c, k, Texts) /\ c[k] + Width = a
               /\ NoNul(t, x + 1) /\ EndsRow(t[x + 1])
               /\ a <= x + 1 /\ Good(t, a, x)
      BY <1>4, <2>2
    <3>2. k + 1 = FieldsNum
      BY <1>2, <1>9 DEF Enough
    <3>3. k \in Texts
      <4>1. k = FieldsNum - 1  BY <3>1, <3>2, ConfigAssumption DEF Fields
      <4>2. QED  BY <3>1, <4>1 DEF Texts
    <3>4. \E d : Split(t, x, d, Texts)
      <4> HIDE DEF a, k, t, x
      <4>1. QED  BY <1>2, <3>1, <3>2, <3>3, LastField
    <3>5. RowEndAt(t, x, last + 1) /\ NoNul(t, last + 1)
      <4>1. CASE cr
        <5>1. x + 2 \in 1 .. Len(data) /\ x + 2 # x + 1 /\ (x + 1) + 1 = x + 2
              /\ last + 1 = x + 2
          BY <1>2, <1>9, <4>1
        <5>2. t[x + 1] = CR /\ t[x + 2] = LF
          BY <1>2, <1>9, <4>1, <5>1 DEF At
        <5>3. NoNul(t, x + 2)
          <6>1. \A i \in 1 .. x + 2 : i \in 1 .. x + 1 \/ i = x + 2  BY <1>2
          <6>2. QED  BY <3>1, <5>2, <6>1, CharsAssumption DEF NoNul
        <5>4. QED  BY <5>1, <5>2, <5>3 DEF RowEndAt
      <4>2. CASE ~cr
        <5>1. conf.row = LF /\ t[x + 1] = LF
          BY <1>2, <3>1, <4>2 DEF EndsRow, ConfOK
        <5>2. last + 1 = x + 1  BY <4>2
        <5>3. QED  BY <3>1, <5>1, <5>2 DEF RowEndAt
      <4>3. QED  BY <4>1, <4>2
    <3> HIDE DEF last, t
    <3>6. QED  BY <1>2, <3>4, <3>5 DEF Taken
  <2>3. ~Told(-1)' /\ ~Told(-2)'
    BY <2>1 DEF Told
  <2>4. Separable => Taken(t, record_len')
    BY <2>1, <2>2
  <2> HIDE DEF t, last
  <2>5. QED  BY <1>1, <2>1, <2>3, <2>4, Returned DEF t
<1>10. QED  BY <1>3, <1>6, <1>7, <1>8, <1>9

LEMMA UsedUpFinds ==
  ASSUME Inv, MarkInv, UsedUp
  PROVE  MarkInv' /\ ToldInv'
PROOF
<1> DEFINE x == p.crtidx
           a == p.pre_field_pos + 1
           k == p.field_idx
           s == data
<1>1. /\ p.crt_status # "done" /\ x >= Len(s) /\ s' = s /\ conf' = conf
      /\ mIsLastRecordMissRowDelimiter' = (mIsLastRecordMissRowDelimiter \/ LastLine)
  BY DEF UsedUp, Idle, objVars
<1>2. /\ p \in Locals(Len(s)) /\ Len(s) \in Nat /\ p.crt_status \in Parsing
      /\ x = Len(s)
  BY <1>1, Types DEF Inv, Locals
<1>3. p.crt_status \in {"eFieldBegin", "eField", "eStrField"}
  <2>1. ~(p.crt_status \in {"eFieldEnd", "eRecordEnd"})  BY <1>2 DEF Inv, PosInv
  <2>2. QED  BY <1>2, <2>1 DEF Parsing
<1>4. CASE LastLine
  <2>1. p'.crt_status = "done" /\ status' = 0
    BY <1>2, <1>4 DEF UsedUp, Return, Locals
  <2>2. mIsLastRecordMissRowDelimiter'
    BY <1>1, <1>4
  <2>3. ~Complete' /\ ~Told(-1)' /\ ~Told(-2)'
    BY <2>1, <2>2 DEF Complete, Told
  <2>4. QED  BY <1>1, <2>1, <2>3, Returned
<1>5. CASE ~LastLine
  <2>1. p'.crt_status = "done" /\ status' = -1
    BY <1>2, <1>5 DEF UsedUp, Return, Locals
  <2>2. ASSUME Separable PROVE Refused(s) /\ Open(s)
    <3>1. PICK c : Mark(s, p, c)  BY <1>2, <2>2 DEF MarkInv
    <3>2. Same(s, s, x)  BY DEF Same
    <3>3. /\ ConfOK /\ k \in Fields /\ p.pre_field_pos \in Nat /\ a \in Nat \ {0}
          /\ p.pre_field_pos <= x
          /\ Width \in Nat \ {0} /\ Begun(s, c, k, Texts) /\ c[k] + Width = a
      BY <1>2, <3>1, <3>2, MarkFacts
    <3>4. \/ a = Len(s) + 1 /\ Plain(s, a, Len(s))
          \/ Plain(s, a, Len(s))
          \/ /\ ~conf.unqualified /\ a <= Len(s) /\ s[a] = Qual
             /\ Pairs(s, a + 1, Len(s))
      <4>1. CASE p.crt_status = "eFieldBegin"
        <5>1. x + 1 = a  BY <3>1, <4>1 DEF Mark
        <5>2. QED  BY <1>2, <5>1 DEF Plain
      <4>2. CASE p.crt_status = "eField"
        <5>1. Plain(s, a, x)  BY <3>1, <4>2 DEF Mark
        <5>2. QED  BY <1>2, <5>1
      <4>3. CASE p.crt_status = "eStrField"
        <5>1. ~conf.unqualified /\ s[a] = Qual /\ Pairs(s, a + 1, x)
          BY <3>1, <4>3 DEF Mark
        <5>2. x > p.pre_field_pos  BY <4>3 DEF Inv, PosInv
        <5>3. a <= Len(s)  BY <1>2, <3>3, <5>2
        <5>4. QED  BY <1>2, <5>1, <5>3
      <4>4. QED  BY <1>3, <4>1, <4>2, <4>3
    <3>5. Open(s)
      <4>1. Begun(s, c, k, Fields)
        <5>1. Texts \subseteq Fields  BY ConfigAssumption DEF Texts, Fields
        <5>2. QED  BY <3>3, <5>1 DEF Begun, FieldAt
      <4>2. a \in Nat /\ a <= Len(s) + 1
        BY <1>2, <3>3
      <4>3. Good(s, a, Len(s)) \/ (/\ ~conf.unqualified /\ a <= Len(s)
                                   /\ s[a] = Qual /\ Pairs(s, a + 1, Len(s)))
        BY <3>4 DEF Good
      <4> HIDE DEF a, s, k
      <4>4. QED  BY <3>3, <4>1, <4>2, <4>3 DEF Open
    <3>6. ASSUME NEW n \in 1 .. Len(s), NEW m \in Nat, NEW d, RowEndAt(s, m, n),
                 Split(s, m, d, Texts)
          PROVE  FALSE
      <4>1. EndsRow(s[m + 1]) /\ m + 1 <= n /\ n <= Len(s)
        BY <1>2, <3>6 DEF RowEndAt, EndsRow
      <4>2. PICK l \in Nat :
              /\ a <= l /\ l <= m + 1 /\ Good(s, a, l - 1) /\ Closed(s, l)
              /\ k + 1 < FieldsNum => Hit(s, l) /\ l + Width - 1 <= m
              /\ k + 1 = FieldsNum => EndsRow(s[l])
        <5>1. a \in Nat /\ a = c[k] + Width  BY <3>3
        <5> HIDE DEF a, s, k
        <5>2. QED  BY <2>2, <3>3, <3>6, <4>1, <5>1, NextField
      <4>3. l <= Len(s)  BY <1>2, <4>1, <4>2
      <4>4. CASE Plain(s, a, Len(s))
        <5>1. l \in a .. Len(s)  BY <1>2, <3>3, <4>2, <4>3
        <5>2. ~EndsRow(s[l]) /\ ~(l + Width - 1 <= Len(s) /\ Hit(s, l))
          BY <4>4, <5>1 DEF Plain
        <5>3. k + 1 < FieldsNum
          BY <3>3, <4>2, <5>2, ConfigAssumption DEF Fields
        <5>4. l + Width - 1 <= Len(s)
          BY <1>2, <3>3, <4>1, <4>2, <5>3
        <5>5. QED  BY <4>2, <5>2, <5>3, <5>4
      <4>5. CASE /\ ~conf.unqualified /\ a <= Len(s) /\ s[a] = Qual
                 /\ Pairs(s, a + 1, Len(s))
        <5>1. a \in Nat  BY <3>3
        <5>2. l >= Len(s) + 2
          <6> HIDE DEF a, s, k
          <6>1. QED  BY <1>2, <3>3, <4>2, <4>5, <5>1, TextAhead
        <5>3. QED  BY <1>2, <4>3, <5>2
      <4>6. QED  BY <3>4, <4>4, <4>5
    <3>7. QED  BY <3>5, <3>6 DEF Refused
  <2>3. ~Complete'
    BY <2>1 DEF Complete, Told
  <2>4. QED  BY <1>1, <2>1, <2>2, <2>3, Returned
<1>6. QED  BY <1>4, <1>5

(***************************************************************************)
(* What the caller does.                                                   *)
(***************************************************************************)
LEMMA SetDataFinds ==
  ASSUME Inv, SetData
  PROVE  MarkInv' /\ ToldInv'
PROOF
<1>1. p' = Start /\ conf' = conf
  BY DEF SetData, objVars
<1>2. /\ p'.crt_status = "eFieldBegin" /\ p'.crtidx = 0 /\ p'.pre_field_pos = 0
      /\ p'.field_idx = 0
  BY <1>1 DEF Start
<1>3. PICK c : c = [i \in 0 .. FieldsNum |-> 1 - Width]
  OBVIOUS
<1>4. Width \in Nat \ {0}
  BY Types DEF Inv
<1>5. /\ c \in [0 .. FieldsNum -> Int] /\ \A i \in 0 .. FieldsNum : c[i] = 1 - Width
  BY <1>3, <1>4
<1>6. 0 \in 0 .. FieldsNum
  BY ConfigAssumption
<1>7. Begun(data', c, 0, Texts)
  BY <1>4, <1>5, <1>6 DEF Begun
<1>8. c[0] + Width = 0 + 1
  BY <1>4, <1>5, <1>6
<1>9. Mark(data', p', c)
  BY <1>2, <1>7, <1>8 DEF Mark, NoNul
<1>10. QED  BY <1>1, <1>2, <1>9, Going DEF Parsing

(* The parser is not at work, and has told nothing new.                    *)
LEMMA Stays ==
  ASSUME MarkInv, ToldInv, UNCHANGED <<conf, data, p, outVars, cleared>>
  PROVE  MarkInv' /\ ToldInv'
PROOF
<1>1. conf' = conf /\ data' = data /\ p' = p /\ status' = status
      /\ record_len' = record_len /\ cleared' = cleared
      /\ mIsLastRecordMissRowDelimiter' = mIsLastRecordMissRowDelimiter
  BY DEF outVars
<1>2. CASE p.crt_status \in Parsing
  <2>1. ASSUME Separable PROVE \E c : Mark(data', p', c)
    BY <1>1, <1>2, <2>1 DEF MarkInv
  <2>2. QED  BY <1>1, <1>2, <2>1, Going
<1>3. CASE p.crt_status = "done"
  <2>1. (Complete' <=> Complete) /\ (Told(-1)' <=> Told(-1)) /\ (Told(-2)' <=> Told(-2))
    BY <1>1 DEF Complete, Told, Idle
  <2>2. ASSUME Separable
        PROVE  /\ Complete' => Taken(data', record_len')
               /\ Told(-1)' \/ Told(-2)' => Refused(data')
               /\ Told(-1)' => Open(data')
    BY <1>1, <2>1, <2>2 DEF ToldInv
  <2>3. QED  BY <1>1, <1>3, <2>2, Returned
<1>4. CASE p.crt_status \notin Parsing /\ p.crt_status # "done"
  <2>1. p'.crt_status \notin Parsing /\ p'.crt_status # "done"  BY <1>1, <1>4
  <2>2. QED  BY <2>1 DEF MarkInv, ToldInv, Complete, Told, Idle
<1>5. QED  BY <1>2, <1>3, <1>4

LEMMA ClearFinds ==
  ASSUME Clear
  PROVE  MarkInv' /\ ToldInv'
PROOF
<1>1. p' = p /\ p.crt_status = "done" /\ cleared'
  BY DEF Clear, Idle
<1>2. QED  BY <1>1 DEF MarkInv, Parsing, ToldInv, Complete, Told

LEMMA FindsStarts ==
  ASSUME NEW S, InitWith(S)
  PROVE  MarkInv /\ ToldInv
PROOF
<1>1. p.crt_status = "done" /\ cleared
  BY DEF InitWith, Start
<1>2. QED  BY <1>1 DEF MarkInv, Parsing, ToldInv, Complete, Told

LEMMA FindsInductive == Inv /\ MarkInv /\ ToldInv /\ [Next]_vars => MarkInv' /\ ToldInv'
PROOF
<1> SUFFICES ASSUME Inv, MarkInv, ToldInv, [Next]_vars PROVE MarkInv' /\ ToldInv'
  OBVIOUS
<1>1. CASE Clear
  BY <1>1, ClearFinds
<1>2. CASE SetEOF
  BY <1>2, Stays DEF SetEOF, valVars
<1>3. CASE SetData
  BY <1>3, SetDataFinds
<1>4. CASE Parse
  BY <1>4, FieldBeginFinds, FieldFinds, StrFieldFinds, StrEscapeFinds, StrEndFinds,
     FieldEndsEarlyFinds, FieldEndFinds, RecordEndFinds, UsedUpFinds DEF Parse
<1>5. ASSUME NEW i \in Fields, GetFieldValue(i) PROVE MarkInv' /\ ToldInv'
  BY <1>5, Stays DEF GetFieldValue, objVars
<1>6. CASE UNCHANGED vars
  BY <1>6, Stays DEF vars, objVars, valVars
<1>7. QED  BY <1>1, <1>2, <1>3, <1>4, <1>5, <1>6 DEF Next

(***************************************************************************)
(* What is open can be completed: the text, the delimiters, the row.       *)
(***************************************************************************)
(* The text v ends within its field k.                                     *)
Within(v, k) ==
  /\ v \in Seq(Chars)
  /\ \E c : /\ Begun(v, c, k, Fields) /\ c[k] + Width <= Len(v) + 1
            /\ c[k] + Width \in Nat /\ Good(v, c[k] + Width, Len(v))

LEMMA Longer ==
  ASSUME ConfOK, NEW v \in Seq(Chars), NEW u \in Seq(Chars), NEW k \in Fields, NEW c,
         NEW T, Begun(v, c, k, T), NEW a \in Nat \ {0}, c[k] + Width = a, a <= Len(v) + 1
  PROVE  /\ v \o u \in Seq(Chars) /\ Len(v \o u) = Len(v) + Len(u) /\ Len(v) \in Nat
         /\ Len(u) \in Nat
         /\ Same(v, v \o u, Len(v))
         /\ \A i \in 1 .. Len(u) : (v \o u)[Len(v) + i] = u[i]
         /\ Begun(v \o u, c, k, T)
PROOF
<1>1. PICK w : w = v \o u  OBVIOUS
<1>2. PICK n : n = Len(v)  OBVIOUS
<1>3. /\ w \in Seq(Chars) /\ Len(w) = n + Len(u) /\ n \in Nat /\ Len(u) \in Nat
      /\ \A i \in 1 .. n + Len(u) : w[i] = IF i <= n THEN v[i] ELSE u[i - n]
  BY <1>1, <1>2, ConcatProperties, LenProperties
<1>4. Same(v, w, n)
  <2>1. ASSUME NEW i \in 1 .. n PROVE v[i] = w[i]
    <3>1. i \in 1 .. n + Len(u) /\ i <= n  BY <1>3
    <3>2. QED  BY <1>3, <3>1
  <2>2. QED  BY <2>1 DEF Same
<1>5. ASSUME NEW i \in 1 .. Len(u) PROVE w[n + i] = u[i]
  <2>1. n + i \in 1 .. n + Len(u) /\ ~(n + i <= n) /\ n + i - n = i  BY <1>3
  <2>2. QED  BY <1>3, <2>1
<1>6. Begun(w, c, k, T)
  <2>1. c[k] + Width - 1 <= n
    <3>1. k \in 0 .. FieldsNum  BY ConfigAssumption DEF Fields
    <3>2. c[k] \in Int  BY <3>1 DEF Begun
    <3>3. QED  BY <1>2, <1>3, <3>2 DEF ConfOK
  <2>2. QED  BY <1>2, <1>3, <1>4, <2>1, SameBegun
<1>7. QED  BY <1>1, <1>2, <1>3, <1>4, <1>5, <1>6

LEMMA WithinIs ==
  ASSUME ConfOK, NEW v, NEW k \in Fields, Within(v, k)
  PROVE  \E c : \E a \in Nat \ {0} :
           /\ Begun(v, c, k, Fields) /\ c[k] + Width = a /\ a <= Len(v) + 1
           /\ Good(v, a, Len(v))
PROOF
<1>1. PICK c : /\ Begun(v, c, k, Fields) /\ c[k] + Width <= Len(v) + 1
               /\ c[k] + Width \in Nat /\ Good(v, c[k] + Width, Len(v))
  BY DEF Within
<1>2. c[k] + Width # 0
  <2>1. k \in 0 .. FieldsNum /\ k \in 0 .. k  BY ConfigAssumption DEF Fields
  <2>2. c[k] \in Int /\ 1 - Width <= c[k]  BY <1>1, <2>1 DEF Begun
  <2>3. QED  BY <2>2 DEF ConfOK
<1>3. QED  BY <1>1, <1>2

LEMMA OneMore ==
  ASSUME ConfOK, NEW v, NEW k \in Fields, k + 1 \in Fields, Within(v, k)
  PROVE  Within(v \o conf.delim, k + 1)
PROOF
<1>1. PICK c : \E a \in Nat \ {0} :
           /\ Begun(v, c, k, Fields) /\ c[k] + Width = a /\ a <= Len(v) + 1
           /\ Good(v, a, Len(v))
  BY WithinIs
<1>2. PICK a \in Nat \ {0} :
           /\ Begun(v, c, k, Fields) /\ c[k] + Width = a /\ a <= Len(v) + 1
           /\ Good(v, a, Len(v))
  BY <1>1
<1>3. PICK w : w = v \o conf.delim  OBVIOUS
<1>4. PICK n : n = Len(v)  OBVIOUS
<1>5. v \in Seq(Chars) /\ conf.delim \in Seq(Chars)
  BY DEF Within, ConfOK
<1>6. /\ w \in Seq(Chars) /\ Len(w) = n + Width /\ n \in Nat /\ Width \in Nat \ {0}
      /\ Same(v, w, n) /\ Begun(w, c, k, Fields)
      /\ \A i \in 1 .. Width : w[n + i] = conf.delim[i]
  BY <1>2, <1>3, <1>4, <1>5, Longer DEF Width, ConfOK
<1>7. PICK b \in Nat \ {0} : b = n + 1
  BY <1>6
<1>8. Hit(w, b)
  <2>1. ASSUME NEW i \in 1 .. Width PROVE w[b + i - 1] = conf.delim[i]
    <3>1. b + i - 1 = n + i  BY <1>6, <1>7
    <3>2. QED  BY <1>6, <3>1
  <2>2. QED  BY <2>1 DEF Hit
<1>9. Good(w, a, b - 1)
  <2>1. b - 1 = n /\ n \in Int /\ n <= n  BY <1>6, <1>7
  <2>2. Good(v, a, n)  BY <1>2, <1>4
  <2>3. Good(w, a, n)  BY <1>6, <2>1, <2>2, SameGood
  <2>4. QED  BY <2>1, <2>3
<1>10. PICK d : /\ Begun(w, d, k + 1, Fields) /\ d[k + 1] = b
  <2>1. a <= b  BY <1>2, <1>4, <1>7
  <2>2. Plain(w, a, b - 1) \/ (k \in Fields /\ Text(w, a, b - 1))  BY <1>9 DEF Good
  <2>3. a \in Nat /\ c[k] + Width = a /\ Begun(w, c, k, Fields)  BY <1>2, <1>6
  <2>4. QED  BY <1>8, <2>1, <2>2, <2>3, NextBegun
<1>11. d[k + 1] + Width = Len(w) + 1
  BY <1>6, <1>7, <1>10
<1>12. Good(w, Len(w) + 1, Len(w))
  BY <1>6 DEF Good, Plain
<1>13. QED  BY <1>3, <1>6, <1>10, <1>11, <1>12 DEF Within

LEMMA DelimitersAre ==
  ASSUME ConfOK
  PROVE  /\ Delimiters[0] = <<>>
         /\ \A n \in Nat : n + 1 <= FieldsNum =>
              Delimiters[n + 1] = Delimiters[n] \o conf.delim
PROOF
<1>1. PICK v : v = conf.delim
  OBVIOUS
<1> DEFINE Is(f, n) == f = [i \in 0 .. n |-> IF i = 0 THEN <<>> ELSE f[i - 1] \o v]
           S == {n \in Nat : \E f : Is(f, n)}
<1>2. 0 \in S
  <2>1. PICK f : f = [i \in 0 .. 0 |-> <<>>]  OBVIOUS
  <2>2. Is(f, 0)  BY <2>1
  <2>3. QED  BY <2>2
<1>3. ASSUME NEW n \in Nat, n \in S PROVE n + 1 \in S
  <2>1. PICK f : Is(f, n)  BY <1>3
  <2>2. PICK g : g = [i \in 0 .. n + 1 |-> IF i <= n THEN f[i] ELSE f[i - 1] \o v]
    OBVIOUS
  <2>3. ASSUME NEW i \in 0 .. n + 1
        PROVE  g[i] = IF i = 0 THEN <<>> ELSE g[i - 1] \o v
    <3>1. CASE i = 0
      <4>1. i <= n /\ i \in 0 .. n  BY <3>1
      <4>2. g[i] = f[i] /\ f[i] = <<>>  BY <2>1, <2>2, <3>1, <4>1
      <4>3. QED  BY <3>1, <4>2
    <3>2. CASE i # 0 /\ i <= n
      <4>1. i \in 0 .. n /\ i - 1 \in 0 .. n + 1 /\ i - 1 <= n  BY <3>2
      <4>2. g[i] = f[i] /\ g[i - 1] = f[i - 1]  BY <2>2, <3>2, <4>1
      <4>3. f[i] = f[i - 1] \o v  BY <2>1, <3>2, <4>1
      <4>4. QED  BY <3>2, <4>2, <4>3
    <3>3. CASE i = n + 1
      <4>1. i # 0 /\ ~ i <= n /\ i - 1 \in 0 .. n + 1 /\ i - 1 <= n  BY <3>3
      <4>2. g[i] = f[i - 1] \o v /\ g[i - 1] = f[i - 1]
        BY <2>2, <4>1
      <4>3. QED  BY <4>1, <4>2
    <3>4. QED  BY <3>1, <3>2, <3>3
  <2>4. Is(g, n + 1)
    <3>1. g = [i \in 0 .. n + 1 |-> g[i]]  BY <2>2
    <3>2. QED  BY <2>3, <3>1
  <2>5. n + 1 \in Nat  OBVIOUS
  <2>6. QED  BY <2>4, <2>5
<1>4. \E f : Is(f, FieldsNum)
  <2>1. Nat \subseteq S
    <3> HIDE DEF S
    <3>1. QED  BY <1>2, <1>3, Induction
  <2>2. QED  BY <2>1, ConfigAssumption
<1>5. PICK f : f = Delimiters
  OBVIOUS
<1>6. f = CHOOSE g : Is(g, FieldsNum)
  BY <1>1, <1>5 DEF Delimiters
<1>7. Is(f, FieldsNum)
  <2> HIDE DEF Is
  <2>1. QED  BY <1>4, <1>6
<1>8. f[0] = <<>>
  BY <1>7, ConfigAssumption
<1>9. ASSUME NEW n \in Nat, n + 1 <= FieldsNum PROVE f[n + 1] = f[n] \o v
  <2>1. n + 1 \in 0 .. FieldsNum /\ n + 1 # 0 /\ (n + 1) - 1 = n  BY <1>9, ConfigAssumption
  <2>2. QED  BY <1>7, <2>1
<1>10. QED  BY <1>1, <1>5, <1>8, <1>9

LEMMA MoreOfThem ==
  ASSUME ConfOK, NEW v, NEW k \in Fields, Within(v, k), NEW n \in Nat, k + n \in Fields
  PROVE  Within(v \o Delimiters[n], k + n) /\ Delimiters[n] \in Seq(Chars)
PROOF
<1>1. k \in Nat /\ FieldsNum \in Nat \ {0}
  BY ConfigAssumption DEF Fields
<1>2. PICK D : D = Delimiters
  OBVIOUS
<1>3. /\ D[0] = <<>>
      /\ \A m \in Nat : m + 1 <= FieldsNum => D[m + 1] = D[m] \o conf.delim
  BY <1>2, DelimitersAre
<1>4. v \in Seq(Chars) /\ conf.delim \in Seq(Chars)
  BY DEF Within, ConfOK
<1> DEFINE S == {m \in Nat : k + m \in Fields =>
                               Within(v \o D[m], k + m) /\ D[m] \in Seq(Chars)}
<1>5. 0 \in S
  <2>1. v \o D[0] = v  BY <1>3, <1>4, ConcatEmptySeq
  <2>2. k + 0 = k  BY <1>1
  <2>3. D[0] \in Seq(Chars)  BY <1>3, EmptySeq
  <2>4. QED  BY <2>1, <2>2, <2>3
<1>6. ASSUME NEW m \in Nat, m \in S PROVE m + 1 \in S
  <2>1. SUFFICES ASSUME k + (m + 1) \in Fields
                 PROVE  Within(v \o D[m + 1], k + (m + 1)) /\ D[m + 1] \in Seq(Chars)
    OBVIOUS
  <2>2. k + m \in Fields /\ (k + m) + 1 = k + (m + 1) /\ m + 1 <= FieldsNum
    BY <1>1, <2>1 DEF Fields
  <2>3. Within(v \o D[m], k + m) /\ D[m] \in Seq(Chars)  BY <1>6, <2>2
  <2>4. PICK j \in Fields : j = k + m  BY <2>2
  <2>5. Within((v \o D[m]) \o conf.delim, j + 1)
    <3>1. PICK u : u = v \o D[m]  OBVIOUS
    <3>2. QED  BY <2>1, <2>2, <2>3, <2>4, <3>1, OneMore
  <2>6. D[m + 1] = D[m] \o conf.delim  BY <1>3, <2>2
  <2>7. (v \o D[m]) \o conf.delim = v \o (D[m] \o conf.delim)
    <3>1. D[m] \in Seq(Chars)  BY <2>3
    <3>2. PICK u : u = D[m]  OBVIOUS
    <3>3. PICK w : w = conf.delim  OBVIOUS
    <3>4. v \in Seq(Chars) /\ u \in Seq(Chars) /\ w \in Seq(Chars)
      BY <1>4, <3>1, <3>2, <3>3
    <3> HIDE DEF S
    <3>5. (v \o u) \o w = v \o (u \o w)  BY <3>4, ConcatAssociative
    <3>6. QED  BY <3>2, <3>3, <3>5
  <2>8. D[m] \o conf.delim \in Seq(Chars)
    BY <1>4, <2>3, ConcatProperties
  <2>9. QED  BY <2>2, <2>4, <2>5, <2>6, <2>7, <2>8
<1>7. Nat \subseteq S
  <2> HIDE DEF S
  <2>1. QED  BY <1>5, <1>6, Induction
<1>8. QED  BY <1>2, <1>7

LEMMA RowMakesRecord ==
  ASSUME ConfOK, NEW v, Within(v, FieldsNum - 1)
  PROVE  IsRecord(v \o <<CR, LF>>)
PROOF
<1>1. PICK k \in Fields : k = FieldsNum - 1
  BY ConfigAssumption DEF Fields
<1>2. k + 1 = FieldsNum
  BY <1>1, ConfigAssumption
<1>3. PICK c : \E a \in Nat \ {0} :
           /\ Begun(v, c, k, Fields) /\ c[k] + Width = a /\ a <= Len(v) + 1
           /\ Good(v, a, Len(v))
  BY <1>1, WithinIs
<1>4. PICK a \in Nat \ {0} :
           /\ Begun(v, c, k, Fields) /\ c[k] + Width = a /\ a <= Len(v) + 1
           /\ Good(v, a, Len(v))
  BY <1>3
<1>5. PICK u : u = <<CR, LF>>
  OBVIOUS
<1>6. u \in Seq(Chars) /\ Len(u) = 2 /\ u[1] = CR /\ u[2] = LF
  BY <1>5, CharsAssumption
<1>7. PICK w : w = v \o u  OBVIOUS
<1>8. PICK n : n = Len(v)  OBVIOUS
<1>9. /\ w \in Seq(Chars) /\ Len(w) = n + 2 /\ n \in Nat
      /\ Same(v, w, n) /\ Begun(w, c, k, Fields)
      /\ w[n + 1] = CR /\ w[n + 2] = LF
  <2>1. v \in Seq(Chars)  BY DEF Within
  <2>2. /\ w \in Seq(Chars) /\ Len(w) = n + Len(u) /\ n \in Nat
        /\ Same(v, w, n) /\ Begun(w, c, k, Fields)
        /\ \A i \in 1 .. Len(u) : w[n + i] = u[i]
    BY <1>4, <1>6, <1>7, <1>8, <2>1, Longer
  <2>3. 1 \in 1 .. Len(u) /\ 2 \in 1 .. Len(u)  BY <1>6
  <2>4. QED  BY <1>6, <2>2, <2>3
<1>10. Good(w, a, n)
  <2>1. n \in Int /\ n <= n  BY <1>9
  <2>2. Good(v, a, n)  BY <1>4, <1>8
  <2>3. QED  BY <1>9, <2>1, <2>2, SameGood
<1>11. \E d : Split(w, n, d, Fields)
  <2>1. a <= n + 1  BY <1>4, <1>8
  <2>2. QED  BY <1>2, <1>4, <1>9, <1>10, <2>1, LastField
<1>12. RowEnd(w, n)
  BY <1>9 DEF RowEnd
<1>13. IsRecordWith(w, Fields)
  BY <1>9, <1>11, <1>12, RecordIs
<1>14. QED  BY <1>5, <1>7, <1>13 DEF IsRecord

LEMMA OpenCompletes ==
  ASSUME ConfOK, data \in Seq(Chars), Open(data)
  PROVE  \/ Last(data) = CR
         \/ \E a \in {<<>>, <<Qual>>}, n \in 0 .. FieldsNum - 1, e \in RowEnds :
              IsRecord(data \o a \o Delimiters[n] \o e)
PROOF
<1>1. CASE data[Len(data)] = CR
  BY <1>1 DEF Last
<1>2. CASE \E c : \E k \in Fields, a \in Nat :
             /\ Begun(data, c, k, Fields) /\ c[k] + Width = a /\ a <= Len(data) + 1
             /\ \/ Good(data, a, Len(data))
                \/ /\ ~conf.unqualified /\ a <= Len(data)
                   /\ data[a] = Qual /\ Pairs(data, a + 1, Len(data))
  <2>1. PICK c : \E k \in Fields, a \in Nat :
             /\ Begun(data, c, k, Fields) /\ c[k] + Width = a /\ a <= Len(data) + 1
             /\ \/ Good(data, a, Len(data))
                \/ /\ ~conf.unqualified /\ a <= Len(data)
                   /\ data[a] = Qual /\ Pairs(data, a + 1, Len(data))
    BY <1>2
  <2>2. PICK k \in Fields, a \in Nat :
             /\ Begun(data, c, k, Fields) /\ c[k] + Width = a /\ a <= Len(data) + 1
             /\ \/ Good(data, a, Len(data))
                \/ /\ ~conf.unqualified /\ a <= Len(data)
                   /\ data[a] = Qual /\ Pairs(data, a + 1, Len(data))
    BY <2>1
  <2>3. a # 0
    <3>1. k \in 0 .. FieldsNum /\ k \in 0 .. k  BY ConfigAssumption DEF Fields
    <3>2. c[k] \in Int /\ 1 - Width <= c[k]  BY <2>2, <3>1 DEF Begun
    <3>3. QED  BY <2>2, <3>2 DEF ConfOK
  <2>4. PICK q \in {<<>>, <<Qual>>} : Within(data \o q, k)
    <3>1. CASE Good(data, a, Len(data))
      <4>1. data \o <<>> = data  BY ConcatEmptySeq
      <4>2. Within(data, k)  BY <2>2, <3>1 DEF Within
      <4>3. Within(data \o <<>>, k)  BY <4>1, <4>2
      <4>4. QED  BY <4>3
    <3>2. CASE /\ ~conf.unqualified /\ a <= Len(data)
               /\ data[a] = Qual /\ Pairs(data, a + 1, Len(data))
      <4>1. PICK u : u = <<Qual>>  OBVIOUS
      <4>2. u \in Seq(Chars) /\ Len(u) = 1 /\ u[1] = Qual  BY <4>1, CharsAssumption
      <4>3. PICK w : w = data \o u  OBVIOUS
      <4>4. PICK n : n = Len(data)  OBVIOUS
      <4>5. /\ w \in Seq(Chars) /\ Len(w) = n + Len(u) /\ n \in Nat
            /\ Same(data, w, n) /\ Begun(w, c, k, Fields)
            /\ \A i \in 1 .. Len(u) : w[n + i] = u[i]
        <5>1. a \in Nat \ {0} /\ Begun(data, c, k, Fields) /\ c[k] + Width = a
              /\ a <= Len(data) + 1
          BY <2>2, <2>3
        <5>2. QED  BY <4>2, <4>3, <4>4, <5>1, Longer
      <4>6. w[n + 1] = Qual /\ (n + 1) - 1 = n /\ Len(w) = n + 1
        <5>1. 1 \in 1 .. Len(u)  BY <4>2
        <5>2. QED  BY <4>2, <4>5, <5>1
      <4>7. w[a] = Qual
        <5>1. a \in 1 .. n  BY <2>3, <3>2, <4>4, <4>5
        <5>2. QED  BY <3>2, <4>5, <5>1 DEF Same
      <4>8. Pairs(w, a + 1, n)
        <5>1. a + 1 \in Nat \ {0} /\ n \in Int /\ n <= n  BY <4>5
        <5>2. Pairs(data, a + 1, n)  BY <3>2, <4>4
        <5>3. QED  BY <4>5, <5>1, <5>2, SamePairs
      <4>9. Text(w, a, n + 1)
        <5>1. a < n + 1  BY <3>2, <4>4, <4>5
        <5>2. QED  BY <3>2, <4>6, <4>7, <4>8, <5>1 DEF Text
      <4>10. Within(w, k)
        <5>1. a <= Len(w) + 1  BY <2>2, <4>4, <4>5, <4>6
        <5>2. Good(w, a, Len(w))  BY <4>6, <4>9 DEF Good
        <5>3. QED  BY <2>2, <4>5, <5>1, <5>2 DEF Within
      <4>11. QED  BY <4>1, <4>3, <4>10
    <3>3. QED  BY <2>2, <3>1, <3>2
  <2>5. PICK n \in 0 .. FieldsNum - 1 : n \in Nat /\ k + n = FieldsNum - 1
    <3>1. PICK n \in Nat : n = FieldsNum - 1 - k  BY ConfigAssumption DEF Fields
    <3>2. QED  BY <3>1, ConfigAssumption DEF Fields
  <2>6. Within((data \o q) \o Delimiters[n], FieldsNum - 1)
    <3>1. k + n \in Fields  BY <2>5, ConfigAssumption DEF Fields
    <3>2. PICK v : v = data \o q  OBVIOUS
    <3>3. QED  BY <2>4, <2>5, <3>1, <3>2, MoreOfThem
  <2>7. IsRecord(((data \o q) \o Delimiters[n]) \o <<CR, LF>>)
    <3>1. PICK v : v = (data \o q) \o Delimiters[n]  OBVIOUS
    <3>2. QED  BY <2>6, <3>1, RowMakesRecord
  <2>8. <<CR, LF>> \in RowEnds  BY DEF RowEnds
  <2>9. QED  BY <2>7, <2>8
<1>3. QED  BY <1>1, <1>2 DEF Open

LEMMA ToldIs ==
  ASSUME Inv, ToldInv
  PROVE  AcceptsRecords
PROOF
<1>1. SUFFICES ASSUME Separable
               PROVE  /\ Complete => LET r == SubSeq(data, 1, record_len) IN
                           IsRecordWith(r, Texts) /\ Nul \notin Range(r)
                      /\ Told(-1) \/ Told(-2) =>
                           \A n \in DOMAIN data : ~IsRecordWith(SubSeq(data, 1, n), Texts)
                      /\ Told(-1) =>
                           \/ Last(data) = CR
                           \/ \E a \in {<<>>, <<Qual>>}, n \in 0 .. FieldsNum - 1,
                                 e \in RowEnds : IsRecord(data \o a \o Delimiters[n] \o e)
  BY DEF AcceptsRecords
<1>2. ConfOK /\ data \in Seq(Chars) /\ Len(data) \in Nat /\ DOMAIN data = 1 .. Len(data)
  BY Types, ConfTypes, LenProperties DEF Inv
<1>3. ASSUME NEW n \in 1 .. Len(data)
      PROVE  LET r == SubSeq(data, 1, n)
             IN  /\ r \in Seq(Chars) /\ Len(r) = n /\ DOMAIN r = 1 .. n /\ n \in Nat
                 /\ Same(data, r, n) /\ Same(r, data, n)
  <2>1. PICK r : r = SubSeq(data, 1, n)  OBVIOUS
  <2>2. /\ r \in Seq(Chars) /\ Len(r) = n
        /\ \A i \in 1 .. n : r[i] = data[i]
    <3>1. 1 \in Nat /\ n \in Int /\ n \in Nat /\ 1 <= 1 /\ n <= Len(data)  BY <1>2
    <3>2. /\ r \in Seq(Chars) /\ Len(r) = (IF 1 <= n THEN n - 1 + 1 ELSE 0)
          /\ \A i \in 1 .. n - 1 + 1 : r[i] = data[1 + i - 1]
      BY <1>2, <2>1, <3>1, PartOf
    <3>3. n - 1 + 1 = n /\ \A i \in 1 .. n : 1 + i - 1 = i  BY <3>1
    <3>4. QED  BY <3>2, <3>3
  <2>3. DOMAIN r = 1 .. n  BY <2>2, LenProperties
  <2>4. n \in Nat  BY <1>2
  <2>5. QED  BY <2>1, <2>2, <2>3, <2>4 DEF Same
<1>4. ASSUME Complete PROVE LET r == SubSeq(data, 1, record_len) IN
                              IsRecordWith(r, Texts) /\ Nul \notin Range(r)
  <2>1. PICK n : n = record_len  OBVIOUS
  <2>2. n \in 1 .. Len(data)  BY <1>4, <2>1 DEF Inv, StaysInside, Complete
  <2>3. NoNul(data, n)
        /\ \E c : \E m \in Nat : RowEndAt(data, m, n) /\ Split(data, m, c, Texts)
    BY <1>1, <1>4, <2>1 DEF ToldInv, Taken
  <2>4. PICK r : r = SubSeq(data, 1, n)  OBVIOUS
  <2>5. /\ r \in Seq(Chars) /\ Len(r) = n /\ DOMAIN r = 1 .. n /\ n \in Nat
        /\ Same(data, r, n)
    BY <1>3, <2>2, <2>4
  <2>6. PICK c : \E m \in Nat : RowEndAt(data, m, n) /\ Split(data, m, c, Texts)
    BY <2>3
  <2>7. PICK m \in Nat : RowEndAt(data, m, n) /\ Split(data, m, c, Texts)
    BY <2>6
  <2>8. RowEnd(r, m) /\ m <= n
    <3>1. n = m + 2 \/ n = m + 1  BY <2>7 DEF RowEndAt
    <3>2. m + 1 \in 1 .. n /\ (n = m + 2 => m + 2 \in 1 .. n)  BY <3>1
    <3>3. r[m + 1] = data[m + 1] /\ (n = m + 2 => r[m + 2] = data[m + 2])
      BY <2>5, <3>2 DEF Same
    <3>4. QED  BY <2>5, <2>7, <3>1, <3>3 DEF RowEnd, RowEndAt
  <2>9. Split(r, m, c, Texts)  BY <1>2, <2>5, <2>7, <2>8, SameSplit
  <2>10. IsRecordWith(r, Texts)  BY <1>2, <2>5, <2>8, <2>9, RecordIs
  <2>11. Nul \notin Range(r)
    BY <2>3, <2>5 DEF Range, NoNul, Same
  <2>12. QED  BY <2>1, <2>4, <2>10, <2>11
<1>5. ASSUME Told(-1) \/ Told(-2), NEW n \in DOMAIN data,
             IsRecordWith(SubSeq(data, 1, n), Texts)
      PROVE  FALSE
  <2>1. n \in 1 .. Len(data)  BY <1>2, <1>5
  <2>2. PICK r : r = SubSeq(data, 1, n)  OBVIOUS
  <2>3. r \in Seq(Chars) /\ Len(r) = n /\ n \in Nat /\ Same(r, data, n)
    BY <1>3, <2>1, <2>2
  <2>4. PICK c : \E m \in Nat : RowEnd(r, m) /\ Split(r, m, c, Texts)
    BY <1>2, <1>5, <2>2, <2>3, RecordIs
  <2>5. PICK m \in Nat : RowEnd(r, m) /\ Split(r, m, c, Texts)
    BY <2>4
  <2>6. RowEndAt(data, m, n) /\ m <= n
    <3>1. n = m + 2 \/ n = m + 1  BY <2>3, <2>5 DEF RowEnd
    <3>2. m + 1 \in 1 .. n /\ (n = m + 2 => m + 2 \in 1 .. n)  BY <3>1
    <3>3. r[m + 1] = data[m + 1] /\ (n = m + 2 => r[m + 2] = data[m + 2])
      BY <2>3, <3>2 DEF Same
    <3>4. QED  BY <2>3, <2>5, <3>1, <3>3 DEF RowEnd, RowEndAt
  <2>7. Split(data, m, c, Texts)  BY <1>2, <2>3, <2>5, <2>6, SameSplit
  <2>8. Refused(data)  BY <1>1, <1>5 DEF ToldInv
  <2>9. QED  BY <2>1, <2>6, <2>7, <2>8 DEF Refused
<1>6. ASSUME Told(-1)
      PROVE  \/ Last(data) = CR
             \/ \E a \in {<<>>, <<Qual>>}, n \in 0 .. FieldsNum - 1,
                   e \in RowEnds : IsRecord(data \o a \o Delimiters[n] \o e)
  <2>1. Open(data)  BY <1>1, <1>6 DEF ToldInv
  <2>2. QED  BY <1>2, <2>1, OpenCompletes
<1>7. QED  BY <1>4, <1>5, <1>6

(* A buffer begins with a record exactly when setData() tells 0, and what  *)
(* it says of data that end too early can come true (CSVParser.cpp:        *)
(* 547-559, 561-799, 841-1066).                                            *)
THEOREM AcceptsExactly == Spec => []AcceptsRecords
PROOF
<1> DEFINE All == Inv /\ MarkInv /\ ToldInv
<1>1. Init => All
  BY InvStarts, FindsStarts, InputsAssumption DEF Init
<1>2. All /\ [Next]_vars => All'
  BY InvInductive, FindsInductive
<1>3. All => AcceptsRecords
  BY ToldIs
<1>4. QED  BY <1>1, <1>2, <1>3, PTL DEF Spec

(***************************************************************************)
(* Unescaping, by its equations.                                           *)
(***************************************************************************)
HalfNext(s, n, h1, h2) ==
  IF n > 1 /\ s[Len(s) - n + 1] = Qual /\ s[Len(s) - n + 1 + 1] = Qual
  THEN <<Qual>> \o h2 ELSE <<s[Len(s) - n + 1]>> \o h1

LEMMA HalvedIs ==
  ASSUME NEW s, Len(s) \in Nat
  PROVE  LET H == Halved(s)
         IN  /\ H[0] = <<>>
             /\ \A n \in 1 .. Len(s) : H[n] = HalfNext(s, n, H[n - 1], H[n - 2])
PROOF
<1>1. PICK N : N = Len(s)
  OBVIOUS
<1>2. N \in Nat
  BY <1>1
<1> DEFINE Is(f, n) == f = [i \in 0 .. n |-> IF i = 0 THEN <<>>
                                             ELSE HalfNext(s, i, f[i - 1], f[i - 2])]
           S == {n \in Nat : \E f : Is(f, n)}
<1>3. 0 \in S
  <2>1. PICK f : f = [i \in 0 .. 0 |-> <<>>]  OBVIOUS
  <2>2. Is(f, 0)  BY <2>1
  <2>3. QED  BY <2>2
<1>4. ASSUME NEW n \in Nat, n \in S PROVE n + 1 \in S
  <2>1. PICK f : Is(f, n)  BY <1>4
  <2>2. PICK g : g = [i \in 0 .. n + 1 |->
                        IF i <= n THEN f[i] ELSE HalfNext(s, i, f[i - 1], f[i - 2])]
    OBVIOUS
  <2>3. ASSUME NEW i \in 0 .. n + 1
        PROVE  g[i] = IF i = 0 THEN <<>> ELSE HalfNext(s, i, g[i - 1], g[i - 2])
    <3>1. CASE i = 0
      <4>1. i <= n /\ i \in 0 .. n  BY <3>1
      <4>2. g[i] = f[i] /\ f[i] = <<>>  BY <2>1, <2>2, <3>1, <4>1
      <4>3. QED  BY <3>1, <4>2
    <3>2. CASE i # 0
      <4>1. i - 1 \in 0 .. n + 1 /\ i - 1 <= n  BY <3>2
      <4>2. g[i - 1] = f[i - 1]  BY <2>2, <4>1
      <4>3. HalfNext(s, i, f[i - 1], f[i - 2]) = HalfNext(s, i, g[i - 1], g[i - 2])
        <5>1. CASE i > 1
          <6>1. i - 2 \in 0 .. n + 1 /\ i - 2 <= n  BY <5>1
          <6>2. g[i - 2] = f[i - 2]  BY <2>2, <6>1
          <6>3. QED  BY <4>2, <6>2
        <5>2. CASE i = 1
          BY <4>2, <5>2 DEF HalfNext
        <5>3. QED  BY <3>2, <5>1, <5>2
      <4>4. g[i] = HalfNext(s, i, f[i - 1], f[i - 2])
        <5>1. CASE i <= n
          <6>1. i \in 0 .. n  BY <5>1
          <6>2. g[i] = f[i]  BY <2>2, <5>1
          <6>3. f[i] = HalfNext(s, i, f[i - 1], f[i - 2])  BY <2>1, <3>2, <6>1
          <6>4. QED  BY <6>2, <6>3
        <5>2. CASE ~ i <= n
          BY <2>2, <5>2
        <5>3. QED  BY <5>1, <5>2
      <4>5. QED  BY <3>2, <4>3, <4>4
    <3>3. QED  BY <3>1, <3>2
  <2>4. Is(g, n + 1)
    <3>1. g = [i \in 0 .. n + 1 |-> g[i]]  BY <2>2
    <3>2. QED  BY <2>3, <3>1
  <2>5. n + 1 \in Nat  OBVIOUS
  <2>6. QED  BY <2>4, <2>5
<1>5. \E f : Is(f, N)
  <2>1. Nat \subseteq S
    <3> HIDE DEF S
    <3>1. QED  BY <1>3, <1>4, Induction
  <2>2. QED  BY <1>2, <2>1
<1>6. PICK f : f = Halved(s)
  OBVIOUS
<1>7. f = CHOOSE g : Is(g, N)
  BY <1>1, <1>6 DEF Halved, HalfNext
<1>8. Is(f, N)
  <2> HIDE DEF Is
  <2>1. QED  BY <1>5, <1>7
<1>9. f[0] = <<>>
  BY <1>2, <1>8
<1>10. \A n \in 1 .. N : f[n] = HalfNext(s, n, f[n - 1], f[n - 2])
  BY <1>2, <1>8
<1>11. QED  BY <1>1, <1>6, <1>9, <1>10

LEMMA HalvedTypes ==
  ASSUME NEW s \in Seq(Chars), NEW n \in 0 .. Len(s)
  PROVE  Halved(s)[n] \in Seq(Chars) /\ (n > 0 => Halved(s)[n] # <<>>)
PROOF
<1>1. PICK H : H = Halved(s)
  OBVIOUS
<1>2. PICK N : N = Len(s)
  OBVIOUS
<1>3. /\ N \in Nat /\ H[0] = <<>>
      /\ \A i \in 1 .. N : H[i] = HalfNext(s, i, H[i - 1], H[i - 2])
  BY <1>1, <1>2, HalvedIs, LenProperties
<1>4. ASSUME NEW i \in 1 .. N, H[i - 1] \in Seq(Chars), i > 1 => H[i - 2] \in Seq(Chars)
      PROVE  H[i] \in Seq(Chars) /\ H[i] # <<>>
  <2>1. PICK v \in Chars, u \in Seq(Chars) : H[i] = <<v>> \o u
    <3>1. Qual \in Chars  BY CharsAssumption
    <3>2. s[N - i + 1] \in Chars
      <4>1. N - i + 1 \in 1 .. N  BY <1>3
      <4>2. QED  BY <1>2, <4>1, ElementOfSeq
    <3>3. QED  BY <1>2, <1>3, <1>4, <3>1, <3>2 DEF HalfNext
  <2>2. <<v>> \in Seq(Chars) /\ Len(<<v>>) = 1  OBVIOUS
  <2>3. H[i] \in Seq(Chars) /\ Len(H[i]) = 1 + Len(u)
    BY <2>1, <2>2, ConcatProperties
  <2>4. Len(u) \in Nat  BY LenProperties
  <2>5. QED  BY <2>3, <2>4, EmptySeq
<1> DEFINE S == {i \in Nat : \A j \in 0 .. i : j <= N => H[j] \in Seq(Chars)}
<1>5. 0 \in S
  <2>1. H[0] \in Seq(Chars)  BY <1>3, EmptySeq
  <2>2. \A j \in 0 .. 0 : j = 0  OBVIOUS
  <2>3. QED  BY <2>1, <2>2
<1>6. ASSUME NEW i \in Nat, i \in S PROVE i + 1 \in S
  <2>1. SUFFICES ASSUME i + 1 <= N PROVE H[i + 1] \in Seq(Chars)
    BY <1>6
  <2>2. i + 1 \in 1 .. N /\ (i + 1) - 1 \in 0 .. i /\ (i + 1) - 1 <= N
        /\ (i + 1 > 1 => (i + 1) - 2 \in 0 .. i /\ (i + 1) - 2 <= N)
    BY <1>3, <2>1
  <2>3. H[(i + 1) - 1] \in Seq(Chars) /\ (i + 1 > 1 => H[(i + 1) - 2] \in Seq(Chars))
    BY <1>6, <2>2
  <2>4. QED  BY <1>4, <2>2, <2>3
<1>7. Nat \subseteq S
  <2> HIDE DEF S
  <2>1. QED  BY <1>5, <1>6, Induction
<1>8. \A i \in 0 .. N : H[i] \in Seq(Chars)
  <2>1. ASSUME NEW i \in 0 .. N PROVE H[i] \in Seq(Chars)
    <3>1. i \in Nat /\ i \in 0 .. i /\ i <= N  BY <1>3
    <3>2. QED  BY <1>7, <3>1
  <2>2. QED  BY <2>1
<1> HIDE DEF S
<1>9. ASSUME n > 0 PROVE H[n] # <<>>
  <2>1. n \in 1 .. N /\ n - 1 \in 0 .. N /\ (n > 1 => n - 2 \in 0 .. N)
    BY <1>2, <1>3, <1>9
  <2>2. QED  BY <1>4, <1>8, <2>1
<1>10. QED  BY <1>1, <1>2, <1>8, <1>9

LEMMA HalveTypes ==
  ASSUME NEW s \in Seq(Chars)
  PROVE  Halve(s) \in Seq(Chars) /\ (Halve(s) = <<>> <=> s = <<>>)
PROOF
<1>1. PICK n : n = Len(s)
  OBVIOUS
<1>2. n \in Nat /\ n \in 0 .. Len(s)
  BY <1>1, LenProperties
<1>3. Halved(s)[n] \in Seq(Chars) /\ (n > 0 => Halved(s)[n] # <<>>)
  BY <1>2, HalvedTypes
<1>4. n = 0 => Halved(s)[n] = <<>>
  BY <1>1, <1>2, HalvedIs
<1>5. s = <<>> <=> n = 0
  BY <1>1, EmptySeq
<1>6. QED  BY <1>1, <1>2, <1>3, <1>4, <1>5 DEF Halve

(* Without a qualifier there is nothing to undo.                           *)
LEMMA HalveSame ==
  ASSUME NEW s \in Seq(Chars), \A i \in 1 .. Len(s) : s[i] # Qual
  PROVE  Halve(s) = s
PROOF
<1>1. PICK H : H = Halved(s)
  OBVIOUS
<1>2. PICK N : N = Len(s)
  OBVIOUS
<1>3. /\ N \in Nat /\ H[0] = <<>>
      /\ \A i \in 1 .. N : H[i] = HalfNext(s, i, H[i - 1], H[i - 2])
  BY <1>1, <1>2, HalvedIs, LenProperties
<1>4. \A i \in 0 .. N : H[i] \in Seq(Chars)
  BY <1>1, <1>2, HalvedTypes
<1>5. ASSUME NEW i \in 1 .. N PROVE H[i] = <<s[N - i + 1]>> \o H[i - 1]
  <2>1. N - i + 1 \in 1 .. N  BY <1>3
  <2>2. s[N - i + 1] # Qual  BY <1>2, <2>1
  <2>3. QED  BY <1>2, <1>3, <2>2 DEF HalfNext
<1> DEFINE S == {i \in Nat : i <= N =>
                   Len(H[i]) = i /\ \A j \in 1 .. i : H[i][j] = s[N - i + j]}
<1>6. 0 \in S
  BY <1>3, EmptySeq
<1>7. ASSUME NEW i \in Nat, i \in S PROVE i + 1 \in S
  <2>1. SUFFICES ASSUME i + 1 <= N
                 PROVE  /\ Len(H[i + 1]) = i + 1
                        /\ \A j \in 1 .. i + 1 : H[i + 1][j] = s[N - (i + 1) + j]
    OBVIOUS
  <2>2. i + 1 \in 1 .. N /\ (i + 1) - 1 = i /\ i <= N /\ N - (i + 1) + 1 \in 1 .. N
        /\ i \in 0 .. N
    BY <1>3, <2>1
  <2>3. Len(H[i]) = i /\ \A j \in 1 .. i : H[i][j] = s[N - i + j]
    BY <1>7, <2>2
  <2>4. PICK v : v = s[N - (i + 1) + 1]  OBVIOUS
  <2>5. PICK w : w = H[i + 1]  OBVIOUS
  <2>6. PICK u : u = H[i]  OBVIOUS
  <2>7. w = <<v>> \o u
    BY <1>5, <2>2, <2>4, <2>5, <2>6
  <2>8. v \in Chars /\ u \in Seq(Chars)
    BY <1>2, <1>4, <2>2, <2>4, <2>6, ElementOfSeq
  <2>9. PICK q : q = <<v>>  OBVIOUS
  <2>10. q \in Seq(Chars) /\ Len(q) = 1 /\ q[1] = v  BY <2>8, <2>9
  <2>11. /\ Len(w) = 1 + i
         /\ \A j \in 1 .. 1 + i : w[j] = IF j <= 1 THEN q[j] ELSE u[j - 1]
    BY <2>3, <2>6, <2>7, <2>8, <2>9, <2>10, ConcatProperties
  <2>12. ASSUME NEW j \in 1 .. i + 1 PROVE w[j] = s[N - (i + 1) + j]
    <3>1. CASE j = 1
      BY <2>4, <2>10, <2>11, <3>1
    <3>2. CASE j # 1
      <4>1. j - 1 \in 1 .. i /\ N - i + (j - 1) = N - (i + 1) + j /\ ~ j <= 1
        BY <1>3, <3>2
      <4>2. w[j] = u[j - 1]  BY <2>11, <4>1
      <4>3. QED  BY <2>3, <2>6, <4>1, <4>2
    <3>3. QED  BY <3>1, <3>2
  <2>13. Len(w) = i + 1  BY <2>11
  <2>14. QED  BY <2>5, <2>12, <2>13
<1>8. Nat \subseteq S
  <2> HIDE DEF S
  <2>1. QED  BY <1>6, <1>7, Induction
<1>9. PICK t : t = H[N]
  OBVIOUS
<1>10. t \in Seq(Chars) /\ Len(t) = N /\ \A j \in 1 .. N : t[j] = s[j]
  <2>1. N \in S /\ N <= N /\ N \in 0 .. N  BY <1>3, <1>8
  <2>2. Len(t) = N /\ \A j \in 1 .. N : t[j] = s[N - N + j]  BY <1>9, <2>1
  <2>3. \A j \in 1 .. N : N - N + j = j  BY <1>3
  <2>4. QED  BY <1>4, <1>9, <2>1, <2>2, <2>3
<1> HIDE DEF S
<1>11. t = s
  BY <1>2, <1>10, SeqEqual
<1>12. QED  BY <1>1, <1>2, <1>9, <1>11 DEF Halve

(***************************************************************************)
(* What is stored of the field between a and b: its flags and its place;   *)
(* texts in front of or behind a longer delimiter are left out.            *)
(***************************************************************************)
HasQual(s, a, b) == ~conf.backslash /\ \E j \in a .. b : s[j] = Qual

Shape(s, a, b, null, esc) ==
  /\ Plain(s, a, b) => (null <=> a > b)
  /\ Width = 1 /\ Text(s, a, b) =>
       (null <=> b = a + 1) /\ (esc <=> HasQual(s, a + 1, b - 1))

IsStored(s, a, b, f, need) ==
  /\ Shape(s, a, b, f.null, need)
  /\ Plain(s, a, b) => ~need /\ f.offset = a - 1 /\ f.len = b - a + 1
  /\ Width = 1 /\ Text(s, a, b) =>
       /\ f.offset = a - (IF need THEN 1 ELSE 0)
       /\ f.len = b - a + 1 - (IF need THEN 0 ELSE 2)

LEMMA PlainOrText ==
  ASSUME NEW s, NEW a \in Nat, NEW b \in Int, Plain(s, a, b), Text(s, a, b)
  PROVE  FALSE
BY DEF Plain, Text

LEMMA SameHasQual ==
  ASSUME NEW s, NEW t, NEW n \in Nat, Same(s, t, n), NEW a \in Nat \ {0}, NEW b \in Int,
         b <= n
  PROVE  HasQual(s, a, b) <=> HasQual(t, a, b)
PROOF
<1>1. ASSUME NEW j \in a .. b PROVE s[j] = t[j]
  <2>1. j \in 1 .. n  OBVIOUS
  <2>2. QED  BY <2>1 DEF Same
<1>2. QED  BY <1>1 DEF HasQual

LEMMA SameStored ==
  ASSUME ConfOK, NEW s, NEW t, NEW n \in Nat, Same(s, t, n), NEW a \in Nat \ {0},
         NEW b \in Int, b <= n, NEW f, NEW need, IsStored(s, a, b, f, need)
  PROVE  IsStored(t, a, b, f, need)
PROOF
<1>1. Same(t, s, n)
  BY SameSwap
<1>2. Plain(t, a, b) => Plain(s, a, b)
  BY <1>1, SamePlain
<1>3. Text(t, a, b) => Text(s, a, b)
  BY <1>1, SameText
<1>4. HasQual(s, a + 1, b - 1) <=> HasQual(t, a + 1, b - 1)
  <2>1. a + 1 \in Nat \ {0} /\ b - 1 \in Int /\ b - 1 <= n  OBVIOUS
  <2>2. QED  BY <2>1, SameHasQual
<1>5. QED  BY <1>2, <1>3, <1>4 DEF IsStored, Shape

(* The inner part of a text.                                               *)
LEMMA InnerIs ==
  ASSUME NEW s \in Seq(Chars), NEW a \in Nat \ {0}, NEW b \in Nat, a < b, b <= Len(s)
  PROVE  /\ SubSeq(s, a, b) \in Seq(Chars) /\ Len(SubSeq(s, a, b)) = b - a + 1
         /\ Inner(SubSeq(s, a, b)) = SubSeq(s, a + 1, b - 1)
         /\ SubSeq(s, a + 1, b - 1) \in Seq(Chars)
         /\ Len(SubSeq(s, a + 1, b - 1)) = b - a - 1
         /\ \A k \in 1 .. b - a - 1 : SubSeq(s, a + 1, b - 1)[k] = s[a + k]
PROOF
<1>1. PICK u : u = SubSeq(s, a, b)  OBVIOUS
<1>2. PICK v : v = SubSeq(s, a + 1, b - 1)  OBVIOUS
<1>3. PICK n \in Nat : n = b - a + 1 /\ n >= 2  OBVIOUS
<1>4. PICK w : w = SubSeq(u, 2, n - 1)  OBVIOUS
<1>5. u \in Seq(Chars) /\ Len(u) = n /\ \A k \in 1 .. n : u[k] = s[a + k - 1]
  <2>1. 1 <= a /\ b \in Int  OBVIOUS
  <2>2. /\ u \in Seq(Chars) /\ Len(u) = (IF a <= b THEN b - a + 1 ELSE 0)
        /\ \A k \in 1 .. b - a + 1 : u[k] = s[a + k - 1]
    BY <1>1, <2>1, PartOf
  <2>3. QED  BY <1>3, <2>2
<1>6. /\ v \in Seq(Chars) /\ Len(v) = n - 2 /\ \A k \in 1 .. n - 2 : v[k] = s[a + k]
  <2>1. a + 1 \in Nat /\ b - 1 \in Int /\ 1 <= a + 1 /\ b - 1 <= Len(s)  OBVIOUS
  <2>2. /\ v \in Seq(Chars) /\ Len(v) = (IF a + 1 <= b - 1 THEN b - 1 - (a + 1) + 1 ELSE 0)
        /\ \A k \in 1 .. b - 1 - (a + 1) + 1 : v[k] = s[a + 1 + k - 1]
    BY <1>2, <2>1, PartOf
  <2>3. b - 1 - (a + 1) + 1 = n - 2 /\ (a + 1 <= b - 1 <=> n - 2 > 0)
        /\ \A k \in 1 .. n - 2 : a + 1 + k - 1 = a + k
    BY <1>3
  <2>4. QED  BY <1>3, <2>2, <2>3
<1>7. /\ w \in Seq(Chars) /\ Len(w) = n - 2 /\ \A k \in 1 .. n - 2 : w[k] = s[a + k]
  <2>1. 2 \in Nat /\ n - 1 \in Int /\ 1 <= 2 /\ n - 1 <= Len(u)  BY <1>3, <1>5
  <2>2. /\ w \in Seq(Chars) /\ Len(w) = (IF 2 <= n - 1 THEN n - 1 - 2 + 1 ELSE 0)
        /\ \A k \in 1 .. n - 1 - 2 + 1 : w[k] = u[2 + k - 1]
    BY <1>4, <1>5, <2>1, PartOf
  <2>3. n - 1 - 2 + 1 = n - 2 /\ (2 <= n - 1 <=> n - 2 > 0)
    BY <1>3
  <2>4. \A k \in 1 .. n - 2 : 2 + k - 1 \in 1 .. n /\ a + (2 + k - 1) - 1 = a + k
    BY <1>3
  <2>5. QED  BY <1>3, <1>5, <2>2, <2>3, <2>4
<1>8. w = v
  BY <1>6, <1>7, SeqEqual
<1>9. Inner(u) = w
  BY <1>4, <1>5 DEF Inner
<1>10. n - 2 = b - a - 1  BY <1>3
<1>11. QED  BY <1>1, <1>2, <1>3, <1>5, <1>6, <1>8, <1>9, <1>10

(* What is read of a field that is stored is its value.                    *)
LEMMA ReadIs ==
  ASSUME ConfOK, data \in Seq(Chars), NEW i, NEW a \in Nat \ {0}, NEW b \in Nat,
         a <= b + 1, b <= Len(data),
         IsStored(data, a, b, field[i], mNeedEscapeQualifier[i]),
         Plain(data, a, b) \/ (Width = 1 /\ Text(data, a, b))
  PROVE  /\ ReadValue(i) = ValueOf(SubSeq(data, a, b))
         /\ ReadValue(i) \in Seq(Chars) \cup {Null}
PROOF
<1> DEFINE f == SubSeq(data, a, b)
           v == SubSeq(data, a + 1, b - 1)
<1>1. Len(data) \in Nat
  BY LenProperties
<1>2. QualifiedField(f) <=> Text(data, a, b)
  BY PartText
<1>3. f \in Seq(Chars) /\ Len(f) = b - a + 1
  <2>1. 1 <= a /\ b \in Int  OBVIOUS
  <2>2. f \in Seq(Chars) /\ Len(f) = (IF a <= b THEN b - a + 1 ELSE 0)
    BY <2>1, PartOf
  <2>3. QED  BY <2>2
<1>4. f = <<>> <=> a > b
  <2>1. f = <<>> <=> Len(f) = 0  BY <1>3, EmptySeq
  <2> HIDE DEF f
  <2>2. QED  BY <1>3, <2>1
<1>5. CASE Plain(data, a, b)
  <2>1. ~Text(data, a, b)
    BY <1>5, PlainOrText
  <2>2. /\ field[i].null <=> a > b
        /\ ~mNeedEscapeQualifier[i]
        /\ field[i].offset = a - 1 /\ field[i].len = b - a + 1
    BY <1>5 DEF IsStored, Shape
  <2>3. Inside(i) /\ ~Unescapes(i) /\ Raw(i) = f
    <3>1. field[i].offset + field[i].len = b /\ field[i].offset + 1 = a
      BY <2>2
    <3>2. QED  BY <2>2, <3>1 DEF Inside, Unescapes, Raw
  <2>4. ValueOf(f) = IF f = <<>> THEN Null ELSE f
    BY <1>2, <2>1 DEF ValueOf
  <2>5. ReadValue(i) = IF f = <<>> THEN Null ELSE f
    <3> HIDE DEF f
    <3>1. QED  BY <1>4, <2>2, <2>3 DEF ReadValue
  <2> HIDE DEF f
  <2>6. QED  BY <1>3, <2>4, <2>5 DEF f
<1>6. CASE Width = 1 /\ Text(data, a, b)
  <2>1. a < b /\ Text(data, a, b)
    BY <1>6 DEF Text
  <2>2. PICK need \in BOOLEAN : need <=> mNeedEscapeQualifier[i]
    OBVIOUS
  <2>3. /\ field[i].null <=> b = a + 1
        /\ need <=> HasQual(data, a + 1, b - 1)
        /\ field[i].offset = a - (IF need THEN 1 ELSE 0)
        /\ field[i].len = b - a + 1 - (IF need THEN 0 ELSE 2)
    BY <1>6, <2>2 DEF IsStored, Shape
  <2>4. /\ Inner(f) = v /\ v \in Seq(Chars) /\ Len(v) = b - a - 1
        /\ \A k \in 1 .. b - a - 1 : v[k] = data[a + k]
    BY <2>1, InnerIs
  <2>5. v = <<>> <=> b = a + 1
    <3>1. v = <<>> <=> Len(v) = 0  BY <2>4, EmptySeq
    <3> HIDE DEF v
    <3>2. QED  BY <2>1, <2>4, <3>1
  <2>6. Halve(v) \in Seq(Chars) /\ (Halve(v) = <<>> <=> v = <<>>)
    BY <2>4, HalveTypes
  <2>7. ValueOf(f) = LET t == IF conf.backslash THEN v ELSE Halve(v)
                     IN  IF t = <<>> THEN Null ELSE t
    BY <1>2, <2>1, <2>4 DEF ValueOf
  <2>8. ~HasQual(data, a + 1, b - 1) /\ ~conf.backslash => Halve(v) = v
    <3>1. ASSUME ~HasQual(data, a + 1, b - 1), ~conf.backslash,
                 NEW k \in 1 .. Len(v)
          PROVE  v[k] # Qual
      <4>1. k \in 1 .. b - a - 1  BY <2>4
      <4>2. a + k \in a + 1 .. b - 1 /\ v[k] = data[a + k]
        BY <2>4, <4>1
      <4>3. QED  BY <3>1, <4>2 DEF HasQual
    <3> HIDE DEF v
    <3>2. QED  BY <2>4, <3>1, HalveSame
  <2>9. CASE b = a + 1
    <3>1. field[i].null  BY <2>3, <2>9
    <3>2. ValueOf(f) = Null
      <4> HIDE DEF v, f
      <4>1. QED  BY <2>5, <2>6, <2>7, <2>9
    <3>3. QED  BY <3>1, <3>2 DEF ReadValue
  <2>10. CASE b # a + 1
    <3>1. ~field[i].null  BY <2>3, <2>10
    <3>2. v # <<>> /\ Halve(v) # <<>>  BY <2>5, <2>6, <2>10
    <3>3. CASE need
      <4>1. field[i].offset + field[i].len = b /\ field[i].offset + 1 = a
            /\ field[i].len > 2
        BY <2>1, <2>3, <2>10, <3>3
      <4>2. Inside(i) /\ Unescapes(i) /\ Raw(i) = f
        BY <2>2, <3>1, <3>3, <4>1 DEF Inside, Unescapes, Raw
      <4>3. ~conf.backslash  BY <2>3, <3>3 DEF HasQual
      <4> HIDE DEF v
      <4>4. ReadValue(i) = Halve(v)
        BY <2>4, <3>1, <4>2 DEF ReadValue
      <4>5. ValueOf(f) = Halve(v)
        BY <2>7, <3>2, <4>3
      <4>6. QED  BY <2>6, <4>4, <4>5
    <3>4. CASE ~need
      <4>1. field[i].offset + field[i].len = b - 1 /\ field[i].offset + 1 = a + 1
        BY <2>1, <2>3, <3>4
      <4>2. Inside(i) /\ ~Unescapes(i) /\ Raw(i) = v
        BY <2>2, <1>1, <3>4, <4>1 DEF Inside, Unescapes, Raw
      <4> HIDE DEF v
      <4>3. ReadValue(i) = v
        BY <3>1, <4>2 DEF ReadValue
      <4>4. conf.backslash \/ Halve(v) = v
        BY <2>3, <2>8, <3>4
      <4>5. ValueOf(f) = v
        BY <2>7, <3>2, <4>4
      <4>6. QED  BY <2>4, <4>3, <4>5
    <3>5. QED  BY <3>3, <3>4
  <2>11. QED  BY <2>9, <2>10
<1>7. QED  BY <1>5, <1>6

(* What is stored of a field that ends at end.                             *)
LEMMA StoredIs ==
  ASSUME Inv, NEW last \in BOOLEAN, NEW end \in Nat, StoreField(end, last)
  PROVE  LET k   == p.field_idx
             pre == p.pre_field_pos
             f   == field'[k]
             esc == Quoted /\ p.needEscapeQualifier
         IN  /\ f.offset = pre + (IF Quoted /\ ~esc THEN 1 ELSE 0)
             /\ f.len = end - pre - (IF Quoted THEN Around(last) ELSE 0)
             /\ f.null = field[k].null
             /\ mNeedEscapeQualifier'[k] = (mNeedEscapeQualifier[k] \/ esc)
             /\ \A i \in Fields \ {k} :
                  /\ field'[i] = field[i]
                  /\ mNeedEscapeQualifier'[i] = mNeedEscapeQualifier[i]
PROOF
<1> DEFINE k   == p.field_idx
           pre == p.pre_field_pos
           esc == IsQualified /\ p.needEscapeQualifier
           more == mNeedEscapeQualifier[k] \/ esc
           offset == pre + (IF IsQualified /\ ~esc THEN 1 ELSE 0)
           len == end - pre - (IF IsQualified THEN Around(last) ELSE 0)
           r   == [offset |-> offset, len |-> len, null |-> field[k].null]
<1>1. /\ k \in Fields /\ field \in [Fields -> FieldRec]
      /\ mNeedEscapeQualifier \in [Fields -> BOOLEAN]
  BY Types DEF Inv, Locals, TypeOK
<1>2. IsQualified <=> Quoted
  BY DEF IsQualified, Quoted, At
<1>3. /\ field' = [field EXCEPT ![k] = r]
      /\ mNeedEscapeQualifier' = [mNeedEscapeQualifier EXCEPT ![k] = more]
  <2>1. field' = [field EXCEPT ![k] = r]
    BY Zenon DEF StoreField
  <2>2. mNeedEscapeQualifier' = [mNeedEscapeQualifier EXCEPT ![k] = more]
    BY Zenon DEF StoreField
  <2>3. QED  BY <2>1, <2>2
<1>4. field'[k] = r /\ \A j \in Fields \ {k} : field'[j] = field[j]
  <2> HIDE DEF r, k
  <2>1. QED  BY <1>1, <1>3
<1>5. mNeedEscapeQualifier'[k] = more
      /\ \A j \in Fields \ {k} : mNeedEscapeQualifier'[j] = mNeedEscapeQualifier[j]
  <2> HIDE DEF more, k
  <2>1. QED  BY <1>1, <1>3
<1>6. field'[k].offset = offset /\ field'[k].len = len /\ field'[k].null = field[k].null
  <2> HIDE DEF offset, len, k
  <2>1. QED  BY <1>4
<1>7. offset = pre + (IF Quoted /\ ~(Quoted /\ p.needEscapeQualifier) THEN 1 ELSE 0)
      /\ len = end - pre - (IF Quoted THEN Around(last) ELSE 0)
  BY <1>2
<1>8. more = (mNeedEscapeQualifier[k] \/ (Quoted /\ p.needEscapeQualifier))
  BY <1>2, Zenon
<1> HIDE DEF offset, len, more, r, k
<1>9. QED  BY <1>4, <1>5, <1>6, <1>7, <1>8, Zenon DEF k

(***************************************************************************)
(* What is stored, of a buffer that clear() was called before: the fields  *)
(* the parser has passed, the one it is in, and nothing of those to come;  *)
(* and when the record is complete, of every field that is still to read.  *)
(***************************************************************************)
FieldNow(s, q, null) ==
  LET a   == q.pre_field_pos + 1
      x   == q.crtidx
      esc == q.needEscapeQualifier IN
  /\ q.crt_status \in {"eFieldBegin", "eField", "eStrField"} => ~null
  /\ q.crt_status = "eFieldBegin" => ~esc
  /\ q.crt_status = "eStrField"   => (esc <=> HasQual(s, a + 1, x))
  /\ q.crt_status = "eFieldEnd"   => Shape(s, a, x + 1 - Width, null, esc)
  /\ q.crt_status = "eRecordEnd"  => Shape(s, a, x, null, esc)

KeptOf(s, q, fs, needs) ==
  LET k == q.field_idx IN
  /\ \A i \in Fields : (i >= k => ~needs[i]) /\ (i > k => ~fs[i].null)
  /\ FieldNow(s, q, fs[k].null)
  /\ \A c : Begun(s, c, k, Texts) /\ c[k] + Width = q.pre_field_pos + 1 =>
       \A i \in 0 .. k - 1 : IsStored(s, c[i] + Width, c[i + 1] - 1, fs[i], needs[i])

ValueAt(s, a, b, v, f, need) ==
  /\ v = NoValue => IsStored(s, a, b, f, need)
  /\ v # NoValue => v = ValueOf(SubSeq(s, a, b)) \/ (Width > 1 /\ Text(s, a, b))

ReadOf(s, n, vs, fs, needs) ==
  \A c : \A m \in Nat : RowEndAt(s, m, n) /\ Split(s, m, c, Fields) =>
    \A i \in Fields :
      ValueAt(s, c[i] + Width, c[i + 1] - 1, vs[i], fs[i], needs[i])

NoneRead(vs) == \A i \in Fields : vs[i] = NoValue

ClearedInv ==
  /\ p.crt_status \in Parsing => ~cleared
  /\ cleared => /\ NoneRead(mFieldValues)
                /\ \A i \in Fields : ~field[i].null /\ ~mNeedEscapeQualifier[i]
KeptInv ==
  Separable /\ fresh /\ p.crt_status \in Parsing =>
    NoneRead(mFieldValues) /\ KeptOf(data, p, field, mNeedEscapeQualifier)
ReadInv ==
  Separable /\ fresh /\ Complete =>
    ReadOf(data, record_len, mFieldValues, field, mNeedEscapeQualifier)
StoreInv == ClearedInv /\ KeptInv /\ ReadInv

LEMMA ShapeNext ==
  ASSUME conf' = conf, NEW a, NEW b, NEW f, NEW need
  PROVE  /\ HasQual(data, a, b)' <=> HasQual(data', a, b)
         /\ Shape(data, a, b, f, need)' <=> Shape(data', a, b, f, need)
         /\ IsStored(data, a, b, f, need)' <=> IsStored(data', a, b, f, need)
PROOF
<1>1. \A i, j : HasQual(data, i, j)' <=> HasQual(data', i, j)
  BY DEF HasQual
<1>2. \A null, esc : Shape(data, a, b, null, esc)' <=> Shape(data', a, b, null, esc)
  BY <1>1, AtNext, FieldNext DEF Shape
<1>3. IsStored(data, a, b, f, need)' <=> IsStored(data', a, b, f, need)
  BY <1>2, AtNext, FieldNext DEF IsStored
<1>4. QED  BY <1>1, <1>2, <1>3

LEMMA KeptNext ==
  ASSUME conf' = conf, KeptOf(data', p', field', mNeedEscapeQualifier')
  PROVE  KeptOf(data, p, field, mNeedEscapeQualifier)'
PROOF
<1>1. PICK a, x, b, k, esc, null :
        /\ a = p'.pre_field_pos + 1 /\ x = p'.crtidx /\ b = x + 1 - Width
        /\ k = p'.field_idx /\ esc = p'.needEscapeQualifier /\ null = field'[k].null
  OBVIOUS
<1>2. FieldNow(data, p, field[p.field_idx].null)'
  <2>1. FieldNow(data', p', null)
    BY <1>1 DEF KeptOf
  <2>2. /\ p'.crt_status \in {"eFieldBegin", "eField", "eStrField"} => ~null
        /\ p'.crt_status = "eFieldBegin" => ~esc
        /\ p'.crt_status = "eStrField"   => (esc <=> HasQual(data', a + 1, x))
        /\ p'.crt_status = "eFieldEnd"   => Shape(data', a, b, null, esc)
        /\ p'.crt_status = "eRecordEnd"  => Shape(data', a, x, null, esc)
    BY <1>1, <2>1 DEF FieldNow
  <2>3. /\ (HasQual(data, a + 1, x)' <=> HasQual(data', a + 1, x))
        /\ (Shape(data, a, b, null, esc)' <=> Shape(data', a, b, null, esc))
        /\ (Shape(data, a, x, null, esc)' <=> Shape(data', a, x, null, esc))
    BY ShapeNext
  <2>4. Width' = Width  BY AtNext
  <2>5. QED  BY <1>1, <2>2, <2>3, <2>4 DEF FieldNow, HasQual, Shape
<1>3. ASSUME NEW c, Begun(data, c, k, Texts)', c[k] + Width' = a, NEW i \in 0 .. k - 1
      PROVE  IsStored(data, c[i] + Width, c[i + 1] - 1, field[i], mNeedEscapeQualifier[i])'
  <2>1. Begun(data', c, k, Texts)
    BY <1>3 DEF Begun, FieldAt, Plain, Text, Hit, EndsRow, Width, Pairs, Alone, Texts
  <2>2. Width' = Width  BY AtNext
  <2>3. PICK l, h, f, need : l = c[i] + Width /\ h = c[i + 1] - 1 /\ f = field'[i]
                             /\ need = mNeedEscapeQualifier'[i]
    OBVIOUS
  <2>4. IsStored(data', l, h, f, need)
    BY <1>1, <1>3, <2>1, <2>2, <2>3 DEF KeptOf
  <2>5. IsStored(data, l, h, f, need)'
    BY <2>4, ShapeNext
  <2>6. QED  BY <2>2, <2>3, <2>5 DEF IsStored
<1>4. \A i \in Fields : (i >= k => ~mNeedEscapeQualifier'[i]) /\ (i > k => ~field'[i].null)
  BY <1>1 DEF KeptOf
<1>5. QED  BY <1>1, <1>2, <1>3, <1>4 DEF KeptOf

LEMMA ReadNext ==
  ASSUME conf' = conf,
         ReadOf(data', record_len', mFieldValues', field', mNeedEscapeQualifier')
  PROVE  ReadOf(data, record_len, mFieldValues, field, mNeedEscapeQualifier)'
PROOF
<1>1. ASSUME NEW c, NEW m \in Nat, RowEndAt(data, m, record_len)', Split(data, m, c, Fields)',
             NEW i \in Fields
      PROVE  ValueAt(data, c[i] + Width, c[i + 1] - 1, mFieldValues[i], field[i],
                     mNeedEscapeQualifier[i])'
  <2>1. RowEndAt(data', m, record_len')
    BY <1>1 DEF RowEndAt
  <2>2. Split(data', m, c, Fields)
    BY <1>1 DEF Split, FieldAt, Plain, Text, Hit, EndsRow, Width, Pairs, Alone
  <2>3. Width' = Width  BY AtNext
  <2>4. PICK l, h, v, f, need :
          /\ l = c[i] + Width /\ h = c[i + 1] - 1 /\ f = field'[i]
          /\ need = mNeedEscapeQualifier'[i] /\ v = mFieldValues'[i]
    OBVIOUS
  <2>5. ValueAt(data', l, h, v, f, need)
    BY <2>1, <2>2, <2>4 DEF ReadOf
  <2>6. (IsStored(data, l, h, f, need)' <=> IsStored(data', l, h, f, need))
        /\ Text(data, l, h)' = Text(data', l, h)
    BY ShapeNext, FieldNext
  <2>7. ValueOf(SubSeq(data, l, h))' = ValueOf(SubSeq(data', l, h))
    BY DEF ValueOf, QualifiedField
  <2>8. ValueAt(data, l, h, v, f, need)'
    BY <2>3, <2>5, <2>6, <2>7 DEF ValueAt
  <2>9. QED  BY <2>3, <2>4, <2>8 DEF ValueAt
<1>2. QED  BY <1>1 DEF ReadOf

LEMMA GoesOn ==
  ASSUME conf' = conf, ~cleared', p'.crt_status \in Parsing,
         Separable /\ fresh' =>
           /\ NoneRead(mFieldValues')
           /\ KeptOf(data', p', field', mNeedEscapeQualifier')
  PROVE  StoreInv'
PROOF
<1>1. ASSUME Separable', fresh'
      PROVE  NoneRead(mFieldValues') /\ KeptOf(data, p, field, mNeedEscapeQualifier)'
  BY <1>1, SeparableNext, KeptNext
<1>2. KeptInv'
  BY <1>1 DEF KeptInv, NoneRead
<1>3. ReadInv'
  BY DEF ReadInv, Complete, Told, Idle, Parsing
<1>4. ClearedInv'
  BY DEF ClearedInv
<1>5. QED  BY <1>2, <1>3, <1>4 DEF StoreInv

LEMMA Ends ==
  ASSUME conf' = conf, ~cleared', p'.crt_status = "done",
         Separable /\ fresh' /\ Complete' =>
           ReadOf(data', record_len', mFieldValues', field', mNeedEscapeQualifier')
  PROVE  StoreInv'
PROOF
<1>1. ReadInv'
  BY SeparableNext, ReadNext DEF ReadInv
<1>2. KeptInv' /\ ClearedInv'
  BY DEF KeptInv, ClearedInv, Parsing
<1>3. QED  BY <1>1, <1>2 DEF StoreInv

(* A turn within a field: what is stored of those before it stays.         *)
LEMMA WithinField ==
  ASSUME Inv, StoreInv, p.crt_status \in Parsing, p'.crt_status \in Parsing,
         UNCHANGED <<conf, fresh, cleared, mFieldValues, mNeedEscapeQualifier>>,
         Same(data, data', p.crtidx),
         p'.field_idx = p.field_idx, p'.pre_field_pos = p.pre_field_pos,
         \A i \in Fields \ {p.field_idx} : field'[i] = field[i],
         Separable /\ fresh => FieldNow(data', p', field'[p.field_idx].null)
  PROVE  StoreInv'
PROOF
<1> DEFINE k == p.field_idx
           x == p.crtidx
           t == data'
<1>1. /\ ConfOK /\ k \in Fields /\ k \in Nat /\ x \in Nat /\ p.pre_field_pos \in Nat
      /\ p.pre_field_pos <= x /\ Width \in Nat \ {0}
  BY Types, ConfTypes, ConfigAssumption DEF Inv, PosInv, Locals, Fields
<1>2. ~cleared'
  BY DEF StoreInv, ClearedInv
<1>3. ASSUME Separable, fresh'
      PROVE  NoneRead(mFieldValues') /\ KeptOf(t, p', field', mNeedEscapeQualifier')
  <2>1. NoneRead(mFieldValues) /\ KeptOf(data, p, field, mNeedEscapeQualifier)
    BY <1>3 DEF StoreInv, KeptInv
  <2>2. ASSUME NEW i \in Fields
        PROVE  /\ i >= k => ~mNeedEscapeQualifier'[i]
               /\ i > k => ~field'[i].null
    BY <1>1, <2>1 DEF KeptOf, Fields
  <2>3. ASSUME NEW c, Begun(t, c, k, Texts), c[k] + Width = p.pre_field_pos + 1,
               NEW i \in 0 .. k - 1
        PROVE  IsStored(t, c[i] + Width, c[i + 1] - 1, field'[i], mNeedEscapeQualifier'[i])
    <3>1. /\ k \in 0 .. FieldsNum /\ i \in 0 .. FieldsNum /\ i + 1 \in 0 .. FieldsNum
          /\ i + 1 \in 0 .. k /\ i \in 0 .. k /\ i \in Fields \ {k}
      BY <1>1, ConfigAssumption DEF Fields
    <3>2. /\ c[i] \in Int /\ c[i + 1] \in Int /\ c[k] \in Int
          /\ 1 - Width <= c[i] /\ c[i + 1] <= c[k]
      BY <2>3, <3>1 DEF Begun
    <3>3. PICK a \in Nat \ {0}, b \in Int : a = c[i] + Width /\ b = c[i + 1] - 1 /\ b <= x
      <4>1. c[i] + Width \in Nat \ {0} /\ c[i + 1] - 1 \in Int /\ c[i + 1] - 1 <= x
        <5> HIDE DEF x, k
        <5>1. QED  BY <1>1, <2>3, <3>2
      <4>2. QED  BY <4>1
    <3>4. Begun(data, c, k, Texts)
      <4>1. Same(t, data, x)  BY SameSwap
      <4>2. c[k] + Width - 1 <= x  BY <1>1, <2>3, <3>2
      <4> HIDE DEF t, x, k
      <4>3. QED  BY <1>1, <2>3, <4>1, <4>2, SameBegun
    <3>5. IsStored(data, a, b, field[i], mNeedEscapeQualifier[i])
      BY <2>1, <2>3, <3>3, <3>4 DEF KeptOf
    <3>6. IsStored(t, a, b, field[i], mNeedEscapeQualifier[i])
      <4> HIDE DEF t, x
      <4>1. QED  BY <1>1, <3>3, <3>5, SameStored DEF t, x
    <3>7. field'[i] = field[i] /\ mNeedEscapeQualifier'[i] = mNeedEscapeQualifier[i]
      BY <3>1
    <3>8. QED  BY <3>3, <3>6, <3>7
  <2>4. FieldNow(t, p', field'[k].null)
    BY <1>3
  <2> HIDE DEF t
  <2>5. KeptOf(t, p', field', mNeedEscapeQualifier')
    BY <2>2, <2>3, <2>4 DEF KeptOf
  <2>6. QED  BY <2>1, <2>5
<1>4. QED  BY <1>2, <1>3, GoesOn

LEMMA NullIs ==
  ASSUME TypeOK, NEW b \in BOOLEAN, SetNull(b)
  PROVE  /\ field'[p.field_idx].null <=> field[p.field_idx].null \/ b
         /\ \A i \in Fields \ {p.field_idx} : field'[i] = field[i]
PROOF
<1> DEFINE k == p.field_idx
           b1 == field[k].null \/ b
<1>1. field \in [Fields -> FieldRec] /\ k \in Fields
  BY Types DEF TypeOK, Locals, FieldRec
<1>2. field' = [field EXCEPT ![k].null = b1]
  BY Zenon DEF SetNull
<1>3. b1 \in BOOLEAN
  BY <1>1 DEF FieldRec
<1>4. field'[k].null = b1 /\ \A i \in Fields \ {k} : field'[i] = field[i]
  <2> HIDE DEF b1, k
  <2>1. QED  BY <1>1, <1>2, <1>3 DEF FieldRec
<1> HIDE DEF k
<1>5. field'[k].null <=> field[k].null \/ b
  BY <1>4
<1>6. QED  BY <1>4, <1>5 DEF k

LEMMA GotoEscape ==
  ASSUME NEW n \in Nat, p \in Locals(n), NEW s, NEW i, Goto(s, i)
  PROVE  p'.needEscapeQualifier = p.needEscapeQualifier
BY Zenon DEF Goto, Locals

(* What is stored of the field the parser is in.                           *)
LEMMA NowFacts ==
  ASSUME StoreInv, p.crt_status \in Parsing, Separable, fresh
  PROVE  /\ NoneRead(mFieldValues) /\ KeptOf(data, p, field, mNeedEscapeQualifier)
         /\ FieldNow(data, p, field[p.field_idx].null)
BY DEF StoreInv, KeptInv, KeptOf

LEMMA FieldBeginStores ==
  ASSUME Inv, MarkInv, StoreInv, FieldBegin
  PROVE  StoreInv'
PROOF
<1> DEFINE x == p.crtidx
           a == p.pre_field_pos + 1
           t == data'
           k == p.field_idx
           delim == EndsDelim(p.crtidx, Seen)
<1>1. /\ p.crt_status = "eFieldBegin" /\ x < Len(data) /\ Clean
      /\ SetNull(delim \/ EndsRow(Seen)) /\ p.crt_status \in Parsing
      /\ UNCHANGED <<conf, fresh, cleared, mFieldValues, mNeedEscapeQualifier>>
  BY DEF FieldBegin, InField, objVars, valVars, Parsing
<1>2. PICK s \in Parsing, j \in {x, x + 1} :
        /\ Goto(s, j)
        /\ \/ s = "eFieldEnd" /\ j = x /\ delim
           \/ s = "eRecordEnd" /\ j = x /\ EndsRow(Seen)
           \/ s = "eStrField" /\ j = x + 1 /\ Opens(Seen)
           \/ s = "eField" /\ j = x + 1 /\ ~delim /\ ~EndsRow(Seen) /\ ~Opens(Seen)
  BY DEF FieldBegin, Parsing
<1>3. p \in Locals(Len(data)) /\ Len(data) \in Nat /\ TypeOK /\ x \in Nat
      /\ p.pre_field_pos \in Nat /\ Width \in Nat \ {0} /\ ConfOK
  BY Types, ConfTypes DEF Inv, Locals
<1>4. /\ p'.crt_status = s /\ p'.crtidx = j
      /\ p'.pre_field_pos = p.pre_field_pos /\ p'.field_idx = p.field_idx
      /\ p'.needEscapeQualifier = p.needEscapeQualifier
  <2>1. j \in 0 .. Len(data)
    BY <1>1, <1>3
  <2>2. QED  BY <1>2, <1>3, <2>1, GotoTypes, GotoEscape
<1>5. /\ field'[k].null <=> field[k].null \/ (delim \/ EndsRow(Seen))
      /\ \A i \in Fields \ {k} : field'[i] = field[i]
  <2>1. PICK b \in BOOLEAN : b <=> (delim \/ EndsRow(Seen))  OBVIOUS
  <2>2. SetNull(b)  BY <1>1, <2>1 DEF SetNull
  <2>3. QED  BY <1>3, <2>1, <2>2, NullIs
<1>6. Same(data, t, x)
  BY <1>1, <1>3, Turn
<1>7. Opens(Seen) => ~delim /\ ~EndsRow(Seen)
  <2>1. Seen \in Chars  BY <1>1, Cleaning DEF Inv
  <2>2. delim => Seen # Qual  BY <1>1, <1>3, <2>1, DelimEnds
  <2>3. QED  BY <1>3, <2>2, CharsAssumption DEF Opens, EndsRow, ConfOK
<1>8. ASSUME Separable, fresh PROVE FieldNow(t, p', field'[k].null)
  <2>1. ~field[k].null /\ ~p.needEscapeQualifier
    BY <1>1, <1>8, NowFacts DEF FieldNow
  <2>2. x + 1 = a
    <3>1. PICK c : Mark(data, p, c)  BY <1>1, <1>8 DEF MarkInv
    <3>2. QED  BY <1>1, <3>1 DEF Mark
  <2>3. PICK null : null = field'[k].null  OBVIOUS
  <2>4. null <=> delim \/ EndsRow(Seen)
    BY <1>5, <2>1, <2>3
  <2>5. CASE s = "eFieldEnd" /\ j = x /\ delim
    <3>1. a > x + 1 - Width  BY <1>3, <2>2
    <3>2. Shape(t, a, x + 1 - Width, null, p.needEscapeQualifier)
      BY <1>3, <2>4, <2>5, <3>1 DEF Shape, Text
    <3>3. QED  BY <1>4, <2>3, <2>5, <3>2 DEF FieldNow
  <2>6. CASE s = "eRecordEnd" /\ j = x /\ EndsRow(Seen)
    <3>1. a > x  BY <1>3, <2>2
    <3>2. Shape(t, a, x, null, p.needEscapeQualifier)
      BY <1>3, <2>4, <2>6, <3>1 DEF Shape, Text
    <3>3. QED  BY <1>4, <2>3, <2>6, <3>2 DEF FieldNow
  <2>7. CASE s = "eStrField" /\ j = x + 1 /\ Opens(Seen)
    <3>1. a + 1 > x + 1  BY <1>3, <2>2
    <3>2. ~HasQual(t, a + 1, x + 1)
      BY <1>3, <3>1 DEF HasQual
    <3>3. QED  BY <1>4, <1>7, <2>1, <2>3, <2>4, <2>7, <3>2 DEF FieldNow
  <2>8. CASE s = "eField" /\ j = x + 1 /\ ~delim /\ ~EndsRow(Seen) /\ ~Opens(Seen)
    BY <1>4, <2>3, <2>4, <2>8 DEF FieldNow
  <2>9. QED  BY <1>2, <2>5, <2>6, <2>7, <2>8
<1>9. QED  BY <1>1, <1>4, <1>5, <1>6, <1>8, WithinField

LEMMA FieldStores ==
  ASSUME Inv, MarkInv, StoreInv, Field
  PROVE  StoreInv'
PROOF
<1> DEFINE x == p.crtidx
           a == p.pre_field_pos + 1
           t == data'
           k == p.field_idx
           delim == EndsDelim(p.crtidx, Seen)
<1>1. /\ p.crt_status = "eField" /\ x < Len(data) /\ Clean
      /\ SetNull(delim /\ p.pre_field_pos + Width = x + 1) /\ p.crt_status \in Parsing
      /\ UNCHANGED <<conf, fresh, cleared, mFieldValues, mNeedEscapeQualifier>>
  BY DEF Field, InField, objVars, valVars, Parsing
<1>2. PICK s \in Parsing, j \in {x, x + 1} :
        /\ Goto(s, j)
        /\ \/ s = "eFieldEnd" /\ j = x /\ delim
           \/ s = "eRecordEnd" /\ j = x /\ EndsRow(Seen)
           \/ s = "eField" /\ j = x + 1 /\ ~delim /\ ~EndsRow(Seen)
  BY DEF Field, Parsing
<1>3. p \in Locals(Len(data)) /\ Len(data) \in Nat /\ TypeOK /\ x \in Nat
      /\ p.pre_field_pos \in Nat /\ Width \in Nat \ {0} /\ ConfOK /\ a <= x /\ ~Quoted
  BY <1>1, Types, ConfTypes DEF Inv, PosInv, Locals
<1>4. /\ p'.crt_status = s /\ p'.crtidx = j
      /\ p'.pre_field_pos = p.pre_field_pos /\ p'.field_idx = p.field_idx
      /\ p'.needEscapeQualifier = p.needEscapeQualifier
  <2>1. j \in 0 .. Len(data)
    BY <1>1, <1>3
  <2>2. QED  BY <1>2, <1>3, <2>1, GotoTypes, GotoEscape
<1>5. /\ field'[k].null <=> field[k].null \/ (delim /\ p.pre_field_pos + Width = x + 1)
      /\ \A i \in Fields \ {k} : field'[i] = field[i]
  <2>1. PICK b \in BOOLEAN : b <=> (delim /\ p.pre_field_pos + Width = x + 1)  OBVIOUS
  <2>2. SetNull(b)  BY <1>1, <2>1 DEF SetNull
  <2>3. QED  BY <1>3, <2>1, <2>2, NullIs
<1>6. Same(data, t, x)
  BY <1>1, <1>3, Turn
<1>7. EndsRow(Seen) => ~delim
  <2>1. Seen \in Chars  BY <1>1, Cleaning DEF Inv
  <2>2. delim => Seen \notin {LF, CR}  BY <1>1, <1>3, <2>1, DelimEnds
  <2>3. QED  BY <1>3, <2>2 DEF EndsRow, ConfOK
<1>8. \A b : ~Text(t, a, b)
  <2>1. t[a] = data[a]
    <3>1. a \in 1 .. x  BY <1>3
    <3>2. QED  BY <1>6, <3>1 DEF Same
  <2>2. QED  BY <1>3, <2>1 DEF Text, Quoted
<1>9. ASSUME Separable, fresh PROVE FieldNow(t, p', field'[k].null)
  <2>1. ~field[k].null
    BY <1>1, <1>9, NowFacts DEF FieldNow
  <2>2. PICK null : null = field'[k].null  OBVIOUS
  <2>3. null <=> delim /\ p.pre_field_pos + Width = x + 1
    BY <1>5, <2>1, <2>2
  <2>4. CASE s = "eFieldEnd" /\ j = x /\ delim
    <3>1. a <= x + 2 - Width
      <4>1. Separable' /\ p'.crt_status \in Parsing
        BY <1>1, <1>4, <1>9 DEF Separable, Width
      <4>2. PICK c : Mark(data, p, c)'
        BY <4>1, FieldFinds DEF MarkInv
      <4>3. p'.pre_field_pos + 1 <= p'.crtidx + 2 - Width'
        BY <1>4, <2>4, <4>2 DEF Mark
      <4>4. QED  BY <1>1, <1>4, <2>4, <4>3, AtNext
    <3>2. a > x + 1 - Width <=> p.pre_field_pos + Width = x + 1
      BY <1>3, <3>1
    <3>3. Shape(t, a, x + 1 - Width, null, p.needEscapeQualifier)
      BY <1>8, <2>3, <2>4, <3>2 DEF Shape
    <3>4. QED  BY <1>4, <2>2, <2>4, <3>3 DEF FieldNow
  <2>5. CASE s = "eRecordEnd" /\ j = x /\ EndsRow(Seen)
    <3>1. ~(a > x) /\ ~null  BY <1>3, <1>7, <2>3, <2>5
    <3>2. Shape(t, a, x, null, p.needEscapeQualifier)
      BY <1>8, <3>1 DEF Shape
    <3>3. QED  BY <1>4, <2>2, <2>5, <3>2 DEF FieldNow
  <2>6. CASE s = "eField" /\ j = x + 1 /\ ~delim /\ ~EndsRow(Seen)
    BY <1>4, <2>2, <2>3, <2>6 DEF FieldNow
  <2>7. QED  BY <1>2, <2>4, <2>5, <2>6
<1>10. QED  BY <1>1, <1>4, <1>5, <1>6, <1>9, WithinField

LEMMA StrFieldStores ==
  ASSUME Inv, StoreInv, StrField
  PROVE  StoreInv'
PROOF
<1> DEFINE x == p.crtidx
           a == p.pre_field_pos + 1
           t == data'
           k == p.field_idx
<1>1. /\ p.crt_status = "eStrField" /\ x < Len(data) /\ Clean /\ Seen # Qual
      /\ Goto("eStrField", x + 1) /\ p.crt_status \in Parsing /\ field' = field
      /\ UNCHANGED <<conf, fresh, cleared, mFieldValues, mNeedEscapeQualifier>>
  BY DEF StrField, InField, objVars, valVars, fieldVars, Parsing
<1>2. p \in Locals(Len(data)) /\ Len(data) \in Nat /\ TypeOK /\ x \in Nat
      /\ p.pre_field_pos \in Nat
  BY Types DEF Inv, Locals
<1>3. /\ p'.crt_status = "eStrField" /\ p'.crtidx = x + 1
      /\ p'.pre_field_pos = p.pre_field_pos /\ p'.field_idx = p.field_idx
      /\ p'.needEscapeQualifier = p.needEscapeQualifier
  <2>1. x + 1 \in 0 .. Len(data)
    BY <1>1, <1>2
  <2>2. QED  BY <1>1, <1>2, <2>1, GotoTypes, GotoEscape DEF Parsing
<1>4. Same(data, t, x) /\ t[x + 1] # Qual
  BY <1>1, <1>2, Turn
<1>5. ASSUME Separable, fresh PROVE FieldNow(t, p', field'[k].null)
  <2>1. ~field[k].null /\ (p.needEscapeQualifier <=> HasQual(data, a + 1, x))
    BY <1>1, <1>5, NowFacts DEF FieldNow
  <2>2. \A i \in a + 1 .. x + 1 : i = x + 1 \/ (i \in a + 1 .. x /\ i \in 1 .. x)
    BY <1>2
  <2>3. \A i \in a + 1 .. x : i \in a + 1 .. x + 1 /\ i \in 1 .. x
    BY <1>2
  <2>4. HasQual(t, a + 1, x + 1) <=> HasQual(data, a + 1, x)
    BY <1>4, <2>2, <2>3 DEF HasQual, Same
  <2>5. QED  BY <1>1, <1>3, <2>1, <2>4 DEF FieldNow
<1>6. QED  BY <1>1, <1>3, <1>4, <1>5, WithinField

LEMMA StrEscapeStores ==
  ASSUME Inv, StoreInv, StrEscape
  PROVE  StoreInv'
PROOF
<1> DEFINE x == p.crtidx
           a == p.pre_field_pos + 1
           k == p.field_idx
           e == p.needEscapeQualifier \/ ~conf.backslash
<1>1. /\ p.crt_status = "eStrField" /\ x < Len(data) /\ Seen = Qual /\ data' = data
      /\ p.crt_status \in Parsing /\ field' = field
      /\ UNCHANGED <<conf, fresh, cleared, mFieldValues, mNeedEscapeQualifier>>
  BY DEF StrEscape, InField, objVars, valVars, fieldVars, Parsing
<1>2. p \in Locals(Len(data)) /\ x \in Nat /\ p.pre_field_pos \in Nat
      /\ p.pre_field_pos < x /\ data[x + 1] = Qual
  BY <1>1, Types, Cleaning DEF Inv, PosInv, Locals
<1>3. /\ p'.crt_status = "eStrField" /\ p'.crtidx = x + 2
      /\ p'.pre_field_pos = p.pre_field_pos /\ p'.field_idx = p.field_idx
      /\ p'.needEscapeQualifier <=> e
  <2>1. p' = [p EXCEPT !.crtidx = x + 2, !.needEscapeQualifier = e]
    BY Zenon DEF StrEscape
  <2> HIDE DEF e, x
  <2>2. QED  BY <1>1, <1>2, <2>1 DEF Locals
<1>4. Same(data, data', x)
  BY <1>1 DEF Same
<1>5. ASSUME Separable, fresh PROVE FieldNow(data', p', field'[k].null)
  <2>1. ~field[k].null /\ (p.needEscapeQualifier <=> HasQual(data, a + 1, x))
    BY <1>1, <1>5, NowFacts DEF FieldNow
  <2>2. x + 1 \in a + 1 .. x + 2
    BY <1>2
  <2>3. HasQual(data, a + 1, x + 2) <=> ~conf.backslash
    BY <1>2, <2>2 DEF HasQual
  <2>4. e <=> ~conf.backslash
    BY <2>1 DEF HasQual
  <2>5. QED  BY <1>1, <1>3, <2>1, <2>3, <2>4 DEF FieldNow
<1>6. QED  BY <1>1, <1>3, <1>4, <1>5, WithinField DEF Parsing

LEMMA StrEndStores ==
  ASSUME Inv, MarkInv, StoreInv, StrEnd
  PROVE  StoreInv'
PROOF
<1> DEFINE x == p.crtidx
           a == p.pre_field_pos + 1
           k == p.field_idx
           s == data
           c1 == s[x + 2]
           two == (x + 1) - p.pre_field_pos = 2 * Width
<1>1. /\ p.crt_status = "eStrField" /\ x < Len(s) /\ Seen = Qual /\ data' = data
      /\ p.crt_status \in Parsing
      /\ UNCHANGED <<conf, fresh, cleared, mFieldValues, mNeedEscapeQualifier>>
  BY DEF StrEnd, InField, objVars, valVars, Parsing
<1>2. /\ p \in Locals(Len(s)) /\ x \in Nat /\ Len(s) \in Nat /\ (x + 1) + 1 = x + 2
      /\ s \in Seq(Chars) /\ s[x + 1] = Qual /\ TypeOK /\ p.pre_field_pos \in Nat
      /\ p.pre_field_pos < x /\ Width \in Nat \ {0}
  BY <1>1, Types, ConfTypes, Cleaning DEF Inv, PosInv, Locals, ConfOK
<1>3. \/ \E n : \E st \in {-1, -2} : Return(st, n)
      \/ /\ x + 1 < Len(s) /\ SetNull(two)
         /\ \/ EndsDelim(x + 1, c1) /\ Goto("eFieldEnd", x + 1)
            \/ Goto("eRecordEnd", x + 1)
  BY <1>2 DEF StrEnd, At
<1>4. CASE \E n : \E st \in {-1, -2} : Return(st, n)
  <2>1. p'.crt_status = "done" /\ status' # 0
    BY <1>2, <1>4 DEF Return, Locals
  <2>2. ~Complete' /\ ~cleared'
    BY <1>1, <2>1 DEF Complete, Told, StoreInv, ClearedInv
  <2>3. QED  BY <1>1, <2>1, <2>2, Ends
<1>5. ASSUME x + 1 < Len(s), SetNull(two), NEW e \in {"eFieldEnd", "eRecordEnd"},
             Goto(e, x + 1), e = "eFieldEnd" => EndsDelim(x + 1, c1)
      PROVE  StoreInv'
  <2>1. /\ p'.crt_status = e /\ p'.crtidx = x + 1 /\ e \in Parsing
        /\ p'.pre_field_pos = p.pre_field_pos /\ p'.field_idx = p.field_idx
        /\ p'.needEscapeQualifier = p.needEscapeQualifier
    <3>1. x + 1 \in 0 .. Len(s) /\ e \in Parsing  BY <1>1, <1>2 DEF Parsing
    <3>2. QED  BY <1>2, <1>5, <3>1, GotoTypes, GotoEscape
  <2>2. /\ field'[k].null <=> field[k].null \/ two
        /\ \A i \in Fields \ {k} : field'[i] = field[i]
    <3>1. two \in BOOLEAN  OBVIOUS
    <3> HIDE DEF two
    <3>2. QED  BY <1>2, <1>5, <3>1, NullIs
  <2>3. e = "eFieldEnd" => Width = 1
    <3>1. ASSUME EndsDelim(x + 1, c1) PROVE Width = 1
      <4>1. x + 2 \in 1 .. Len(s)  BY <1>2, <1>5
      <4>2. c1 \in Chars  BY <1>2, <4>1, ElementOfSeq
      <4>3. x + 1 \in Nat /\ x + 1 > 0  BY <1>2
      <4> HIDE DEF c1, x, s
      <4>4. QED  BY <1>2, <1>5, <3>1, <4>2, <4>3, DelimEnds DEF Inv, s
    <3>2. QED  BY <1>5, <3>1
  <2>4. ASSUME Separable, fresh PROVE FieldNow(data', p', field'[k].null)
    <3>1. ~field[k].null /\ (p.needEscapeQualifier <=> HasQual(s, a + 1, x))
      BY <1>1, <2>4, NowFacts DEF FieldNow
    <3>2. ~conf.unqualified /\ s[a] = Qual
      <4>1. PICK c : Mark(data, p, c)  BY <1>1, <2>4 DEF MarkInv
      <4>2. QED  BY <1>1, <4>1 DEF Mark
    <3>3. PICK null : null = field'[k].null  OBVIOUS
    <3>4. null <=> two
      BY <2>2, <3>1, <3>3
    <3>5. ~Plain(s, a, x + 1)
      <4>1. ~(a > x + 1)  BY <1>2
      <4>2. QED  BY <3>2, <4>1 DEF Plain
    <3>6. Width = 1 => (two <=> x + 1 = a + 1)
      BY <1>2
    <3>7. (x + 1) - 1 = x  BY <1>2
    <3>8. Shape(s, a, x + 1, null, p.needEscapeQualifier)
      BY <3>1, <3>4, <3>5, <3>6, <3>7 DEF Shape
    <3>9. Width = 1 => (x + 1) + 1 - Width = x + 1
      BY <1>2
    <3>10. QED  BY <1>1, <1>5, <2>1, <2>3, <3>3, <3>8, <3>9 DEF FieldNow
  <2>5. Same(data, data', x)
    BY <1>1 DEF Same
  <2>6. QED  BY <1>1, <2>1, <2>2, <2>4, <2>5, WithinField
<1>6. QED  BY <1>3, <1>4, <1>5

LEMMA FieldEndsEarlyStores ==
  ASSUME Inv, MarkInv, StoreInv, FieldEndsEarly
  PROVE  StoreInv'
PROOF
<1>1. /\ p.crt_status = "eFieldEnd" /\ p.crtidx < Len(data) /\ FoundEarly
      /\ Goto("eFieldBegin", p.crtidx + 1) /\ p.crt_status \in Parsing
      /\ UNCHANGED <<conf, cleared, fresh>>
  BY DEF FieldEndsEarly, InField, objVars, valVars, Parsing
<1>2. p'.crt_status = "eFieldBegin"
  <2>1. p.crtidx + 1 \in 0 .. Len(data) /\ p \in Locals(Len(data)) /\ Len(data) \in Nat
    BY <1>1, Types DEF Inv, Locals
  <2>2. QED  BY <1>1, <2>1, GotoTypes DEF Parsing
<1>3. ASSUME Separable PROVE FALSE
  <2>1. PICK c : Mark(data, p, c)  BY <1>1, <1>3 DEF MarkInv
  <2>2. p.pre_field_pos + 1 <= p.crtidx + 2 - Width  BY <1>1, <2>1 DEF Mark
  <2>3. p.crtidx \in Nat /\ p.pre_field_pos \in Nat /\ Width \in Nat
    BY Types DEF Inv, Locals
  <2>4. QED  BY <1>1, <2>2, <2>3 DEF FoundEarly
<1>4. ~cleared'
  BY <1>1 DEF StoreInv, ClearedInv
<1>5. QED  BY <1>1, <1>2, <1>3, <1>4, GoesOn DEF Parsing

(* The field that ends is stored.                                          *)
LEMMA EndStored ==
  ASSUME Inv, NEW last \in BOOLEAN, NEW end \in Nat, StoreField(end, last),
         ~mNeedEscapeQualifier[p.field_idx], p.pre_field_pos <= end,
         p.pre_field_pos = end => data[end + 1] # Qual,
         Shape(data, p.pre_field_pos + 1, end, field[p.field_idx].null, p.needEscapeQualifier)
  PROVE  /\ IsStored(data, p.pre_field_pos + 1, end, field'[p.field_idx],
                     mNeedEscapeQualifier'[p.field_idx])
         /\ \A i \in Fields \ {p.field_idx} :
              /\ field'[i] = field[i]
              /\ mNeedEscapeQualifier'[i] = mNeedEscapeQualifier[i]
PROOF
<1> DEFINE k   == p.field_idx
           pre == p.pre_field_pos
           a   == p.pre_field_pos + 1
           esc == Quoted /\ p.needEscapeQualifier
<1>1. pre \in Nat /\ p.needEscapeQualifier \in BOOLEAN
  BY Types DEF Inv, Locals
<1>2. PICK f, need : f = field'[k] /\ need = mNeedEscapeQualifier'[k]
  OBVIOUS
<1>3. /\ f.offset = pre + (IF Quoted /\ ~esc THEN 1 ELSE 0)
      /\ f.len = end - pre - (IF Quoted THEN Around(last) ELSE 0)
      /\ f.null = field[k].null
      /\ need = (mNeedEscapeQualifier[k] \/ esc)
      /\ \A i \in Fields \ {k} :
           /\ field'[i] = field[i]
           /\ mNeedEscapeQualifier'[i] = mNeedEscapeQualifier[i]
  BY <1>2, StoredIs
<1>4. need <=> esc
  BY <1>3
<1>5. Plain(data, a, end) => ~Quoted
  <2>1. CASE pre = end
    BY <2>1 DEF Quoted
  <2>2. CASE pre # end
    <3>1. ~(a > end)  BY <1>1, <2>2
    <3>2. QED  BY <3>1 DEF Plain, Quoted
  <2>3. QED  BY <2>1, <2>2
<1>6. Text(data, a, end) => Quoted
  BY DEF Text, Quoted
<1>7. Plain(data, a, end) =>
        ~need /\ f.offset = a - 1 /\ f.len = end - a + 1
  <2> HIDE DEF esc
  <2>1. ASSUME ~Quoted PROVE ~esc  BY <2>1 DEF esc
  <2>2. QED  BY <1>1, <1>3, <1>4, <1>5, <2>1
<1>8. Width = 1 /\ Text(data, a, end) =>
        /\ f.offset = a - (IF need THEN 1 ELSE 0)
        /\ f.len = end - a + 1 - (IF need THEN 0 ELSE 2)
  <2>1. ASSUME Width = 1, Quoted
        PROVE  /\ f.offset = a - (IF need THEN 1 ELSE 0)
               /\ f.len = end - a + 1 - (IF need THEN 0 ELSE 2)
    <3>1. ~(Width > 1)  BY <2>1
    <3>2. Around(last) = IF need THEN 0 ELSE 2
      BY <1>4, <2>1, <3>1 DEF Around
    <3>3. f.len = end - pre - (IF need THEN 0 ELSE 2)
      BY <1>3, <2>1, <3>2
    <3>4. f.offset = pre + (IF need THEN 0 ELSE 1)
      BY <1>3, <1>4, <2>1
    <3> HIDE DEF esc
    <3>5. CASE need
      BY <1>1, <3>3, <3>4, <3>5
    <3>6. CASE ~need
      BY <1>1, <3>3, <3>4, <3>6
    <3>7. QED  BY <3>5, <3>6
  <2>2. QED  BY <1>6, <2>1
<1>9. Shape(data, a, end, f.null, need)
  <2>1. Plain(data, a, end) => (f.null <=> a > end)
    BY <1>3 DEF Shape
  <2>2. Width = 1 /\ Text(data, a, end) =>
          (f.null <=> end = a + 1) /\ (need <=> HasQual(data, a + 1, end - 1))
    BY <1>3, <1>4, <1>6 DEF Shape
  <2>3. QED  BY <2>1, <2>2 DEF Shape
<1>10. IsStored(data, a, end, f, need)
  BY <1>7, <1>8, <1>9 DEF IsStored
<1>11. QED  BY <1>2, <1>3, <1>10

(* What is stored of the fields before.                                    *)
LEMMA StaysStored ==
  ASSUME Inv, KeptOf(data, p, field, mNeedEscapeQualifier), NEW t, NEW n \in Nat,
         p.pre_field_pos <= n, Same(data, t, n),
         NEW c, Begun(data, c, p.field_idx, Texts),
         c[p.field_idx] + Width = p.pre_field_pos + 1,
         NEW i \in 0 .. p.field_idx - 1
  PROVE  /\ i \in Fields \ {p.field_idx}
         /\ IsStored(t, c[i] + Width, c[i + 1] - 1, field[i], mNeedEscapeQualifier[i])
PROOF
<1> DEFINE k == p.field_idx
<1>1. /\ ConfOK /\ k \in Fields /\ k \in Nat /\ p.pre_field_pos \in Nat /\ Width \in Nat \ {0}
  BY Types, ConfTypes DEF Inv, Locals, Fields
<1>2. /\ k \in 0 .. FieldsNum /\ i \in 0 .. FieldsNum /\ i + 1 \in 0 .. FieldsNum
      /\ i + 1 \in 0 .. k /\ i \in 0 .. k /\ i \in Fields \ {k}
  BY <1>1, ConfigAssumption DEF Fields
<1>3. /\ c[i] \in Int /\ c[i + 1] \in Int /\ c[k] \in Int
      /\ 1 - Width <= c[i] /\ c[i + 1] <= c[k]
  BY <1>2 DEF Begun
<1>4. PICK a \in Nat \ {0}, b \in Int : a = c[i] + Width /\ b = c[i + 1] - 1 /\ b <= n
  <2>1. c[i] + Width \in Nat \ {0} /\ c[i + 1] - 1 \in Int /\ c[i + 1] - 1 <= n
    <3> HIDE DEF k
    <3>1. QED  BY <1>1, <1>3 DEF k
  <2>2. QED  BY <2>1
<1>5. IsStored(data, a, b, field[i], mNeedEscapeQualifier[i])
  BY <1>4 DEF KeptOf
<1>6. IsStored(t, a, b, field[i], mNeedEscapeQualifier[i])
  BY <1>1, <1>4, <1>5, SameStored
<1>7. QED  BY <1>2, <1>4, <1>6

LEMMA FieldEndStores ==
  ASSUME Inv, MarkInv, StoreInv, FieldEnd
  PROVE  StoreInv'
PROOF
<1> DEFINE x == p.crtidx
           a == p.pre_field_pos + 1
           k == p.field_idx
           t == data'
           end == x + 1 - Width
           q == [crt_status |-> "eFieldBegin",
                 crtidx |-> x + 1,
                 pre_field_pos |-> x + 1,
                 field_idx |-> k + 1,
                 numFields |-> p.numFields + 1,
                 needEscapeQualifier |-> FALSE]
<1>1. /\ p.crt_status = "eFieldEnd" /\ x < Len(data) /\ p.crt_status \in Parsing
      /\ StoreField(end, FALSE)
      /\ \/ Full /\ Return(-2, x + 1)
         \/ ~Full /\ p' = q
      /\ UNCHANGED <<conf, fresh, cleared, mFieldValues>>
  BY DEF FieldEnd, InField, objVars, valVars, Parsing
<1>2. p \in Locals(Len(data)) /\ x \in Nat /\ p.pre_field_pos \in Nat /\ Len(data) \in Nat
      /\ k \in Fields /\ k \in Nat /\ ConfOK /\ Width \in Nat \ {0}
  BY Types, ConfTypes DEF Inv, Locals, Fields
<1>3. ~cleared'
  BY <1>1 DEF StoreInv, ClearedInv
<1>4. CASE Full /\ Return(-2, x + 1)
  <2>1. p'.crt_status = "done" /\ status' = -2
    BY <1>2, <1>4 DEF Return, Locals
  <2>2. ~Complete'
    BY <2>1 DEF Complete, Told
  <2>3. QED  BY <1>1, <1>3, <2>1, <2>2, Ends
<1>5. CASE ~Full /\ p' = q
  <2>1. /\ p'.crt_status = "eFieldBegin" /\ p'.crtidx = x + 1 /\ p'.pre_field_pos = x + 1
        /\ p'.field_idx = k + 1 /\ ~p'.needEscapeQualifier /\ k + 1 \in Fields
    BY <1>2, <1>5, ConfigAssumption DEF Full, Fields
  <2>2. ASSUME Separable, fresh'
        PROVE  NoneRead(mFieldValues') /\ KeptOf(t, p', field', mNeedEscapeQualifier')
    <3>1. /\ NoneRead(mFieldValues) /\ KeptOf(data, p, field, mNeedEscapeQualifier)
          /\ FieldNow(data, p, field[k].null)
      BY <1>1, <2>2, NowFacts
    <3>2. PICK c : \E b \in Nat \ {0} :
             /\ ConfOK /\ k \in Fields /\ a \in Nat \ {0} /\ Width \in Nat \ {0}
             /\ Begun(t, c, k, Texts) /\ c[k] + Width = a
             /\ NoNul(t, x + 1) /\ Same(data, t, x + 1) /\ Begun(data, c, k, Texts)
             /\ b = x + 2 - Width /\ a <= b /\ Hit(t, b)
             /\ Plain(t, a, b - 1) \/ (Width = 1 /\ Text(t, a, b - 1))
      BY <2>2, FieldEndFacts
    <3>3. PICK b \in Nat \ {0} :
             /\ a \in Nat \ {0} /\ Begun(t, c, k, Texts) /\ c[k] + Width = a
             /\ Same(data, t, x + 1) /\ Begun(data, c, k, Texts)
             /\ b = x + 2 - Width /\ a <= b /\ Hit(t, b)
      BY <3>2
    <3>4. PICK e \in Nat : e = end /\ e = b - 1 /\ e + 1 = b /\ p.pre_field_pos <= e
                           /\ a <= e + 1 /\ e <= x + 1
      <4>1. end \in Nat /\ end = b - 1 /\ end + 1 = b /\ p.pre_field_pos <= end /\ end <= x + 1
        BY <1>2, <3>3
      <4>2. QED  BY <3>3, <4>1
    <3>5. data[e + 1] # Qual
      <4>1. t[b] # Qual  BY <1>2, <3>3, ClosedOther DEF Closed
      <4>2. b \in 1 .. x + 1  BY <1>2, <3>3
      <4>3. data[b] = t[b]  BY <3>3, <4>2 DEF Same
      <4>4. QED  BY <3>4, <4>1, <4>3
    <3>6. Shape(data, a, e, field[k].null, p.needEscapeQualifier)
      BY <1>1, <3>1, <3>4 DEF FieldNow
    <3>7. ~mNeedEscapeQualifier[k]
      BY <1>2, <3>1 DEF KeptOf
    <3>8. /\ IsStored(data, a, e, field'[k], mNeedEscapeQualifier'[k])
          /\ \A i \in Fields \ {k} :
               /\ field'[i] = field[i]
               /\ mNeedEscapeQualifier'[i] = mNeedEscapeQualifier[i]
      BY <1>1, <3>4, <3>5, <3>6, <3>7, EndStored
    <3>9. IsStored(t, a, e, field'[k], mNeedEscapeQualifier'[k])
      <4>1. x + 1 \in Nat /\ e \in Int /\ a \in Nat \ {0}  BY <1>2, <3>3
      <4> HIDE DEF t, x, a
      <4>2. QED  BY <1>2, <3>3, <3>4, <3>8, <4>1, SameStored
    <3>10. ASSUME NEW i \in Fields
           PROVE  /\ i >= k + 1 => ~mNeedEscapeQualifier'[i]
                  /\ i > k + 1 => ~field'[i].null
      <4>1. CASE i > k
        <5>1. i \in Fields \ {k} /\ i >= k  BY <1>2, <4>1 DEF Fields
        <5>2. ~mNeedEscapeQualifier[i] /\ ~field[i].null  BY <3>1, <4>1, <5>1 DEF KeptOf
        <5>3. QED  BY <3>8, <5>1, <5>2
      <4>2. CASE ~(i > k)
        <5>1. ~(i >= k + 1) /\ ~(i > k + 1)  BY <1>2, <4>2 DEF Fields
        <5>2. QED  BY <5>1
      <4>3. QED  BY <4>1, <4>2
    <3>11. FieldNow(t, p', field'[k + 1].null)
      <4>1. k + 1 > k /\ k + 1 \in Fields \ {k}  BY <1>2, <2>1
      <4>2. ~field[k + 1].null /\ field'[k + 1] = field[k + 1]
        BY <3>1, <3>8, <4>1 DEF KeptOf
      <4>3. QED  BY <2>1, <4>2 DEF FieldNow
    <3>12. ASSUME NEW d, Begun(t, d, k + 1, Texts), d[k + 1] + Width = (x + 1) + 1,
                  NEW i \in 0 .. (k + 1) - 1
           PROVE  IsStored(t, d[i] + Width, d[i + 1] - 1, field'[i], mNeedEscapeQualifier'[i])
      <4>1. Begun(t, d, k, Texts)
        BY <1>2, <3>12, BegunLess
      <4>2. \A j \in 0 .. k : d[j] = c[j]
        <5>1. Begun(t, c, k, Texts) /\ ConfOK /\ Separable /\ k \in Fields
          BY <1>2, <2>2, <3>3
        <5> HIDE DEF t, k
        <5>2. QED  BY <4>1, <5>1, BegunOnce
      <4>3. CASE i = k
        <5>1. k \in 0 .. k /\ k + 1 \in 0 .. FieldsNum /\ k \in 0 .. FieldsNum
          BY <1>2, <2>1, ConfigAssumption DEF Fields
        <5>2. d[k] = c[k] /\ d[k + 1] \in Int /\ c[k] \in Int
          BY <3>3, <3>12, <4>2, <5>1 DEF Begun
        <5>3. PICK v \in Int : v = d[k + 1]  BY <5>2
        <5>4. v + Width = x + 2  BY <1>2, <3>12, <5>3
        <5>5. v - 1 = e
          <6>1. Width \in Nat /\ x \in Nat /\ b = x + 2 - Width  BY <1>2, <3>3
          <6>2. e = b - 1  BY <3>4
          <6> HIDE DEF x
          <6>3. QED  BY <5>4, <6>1, <6>2
        <5>6. d[k] + Width = a /\ d[k + 1] - 1 = e
          BY <3>3, <5>2, <5>3, <5>5
        <5>7. QED  BY <3>9, <4>3, <5>6
      <4>4. CASE i # k
        <5>1. i \in 0 .. k - 1 /\ i \in 0 .. k /\ i + 1 \in 0 .. k
          BY <1>2, <4>4
        <5>2. d[i] = c[i] /\ d[i + 1] = c[i + 1]
          BY <4>2, <5>1
        <5>3. x + 1 \in Nat /\ p.pre_field_pos <= x + 1
          BY <1>2, <3>4
        <5>4. /\ i \in Fields \ {k}
              /\ IsStored(t, c[i] + Width, c[i + 1] - 1, field[i], mNeedEscapeQualifier[i])
          <6> HIDE DEF t, x
          <6>1. QED  BY <3>1, <3>3, <5>1, <5>3, StaysStored
        <5>5. field'[i] = field[i] /\ mNeedEscapeQualifier'[i] = mNeedEscapeQualifier[i]
          BY <3>8, <5>4
        <5>6. QED  BY <5>2, <5>4, <5>5
      <4>5. QED  BY <4>3, <4>4
    <3>13. KeptOf(t, p', field', mNeedEscapeQualifier')
      <4> HIDE DEF t
      <4>1. QED  BY <2>1, <3>10, <3>11, <3>12 DEF KeptOf
    <3>14. QED  BY <1>1, <3>1, <3>13
  <2>3. QED  BY <1>1, <1>3, <2>1, <2>2, GoesOn DEF Parsing
<1>6. QED  BY <1>1, <1>4, <1>5

LEMMA RecordEndStores ==
  ASSUME Inv, MarkInv, StoreInv, RecordEnd
  PROVE  StoreInv'
PROOF
<1> DEFINE x == p.crtidx
           a == p.pre_field_pos + 1
           k == p.field_idx
           t == data'
           cr == Seen = CR
           last == IF cr THEN x + 1 ELSE x
<1>1. /\ p.crt_status = "eRecordEnd" /\ x < Len(data) /\ p.crt_status \in Parsing
      /\ UNCHANGED <<conf, fresh, cleared, mFieldValues>>
  BY DEF RecordEnd, InField, objVars, valVars, Parsing
<1>2. p \in Locals(Len(data)) /\ x \in Nat /\ p.pre_field_pos \in Nat /\ Len(data) \in Nat
      /\ k \in Fields /\ k \in Nat /\ ConfOK /\ Width \in Nat \ {0} /\ k = p.numFields
  BY <1>1, Types, ConfTypes DEF Inv, PosInv, Locals, Fields
<1>3. ~cleared'
  BY <1>1 DEF StoreInv, ClearedInv
<1>4. \/ \E n : \E st \in {-1, -2} : Return(st, n)
      \/ Enough /\ Return(0, last + 1) /\ StoreField(x, TRUE)
  <2>1. IF last >= Len(data) THEN Return(-1, -1) /\ UNCHANGED fieldVars
        ELSE IF cr /\ At(last) # LF THEN Return(-2, last + 1) /\ UNCHANGED fieldVars
        ELSE IF ~Enough THEN Return(-2, last + 1) /\ UNCHANGED fieldVars
        ELSE Return(0, last + 1) /\ StoreField(x, TRUE)
    BY Zenon DEF RecordEnd
  <2> HIDE DEF last, cr
  <2>2. QED  BY <2>1, Zenon
<1>5. CASE \E n : \E st \in {-1, -2} : Return(st, n)
  <2>1. p'.crt_status = "done" /\ status' # 0
    BY <1>2, <1>5 DEF Return, Locals
  <2>2. ~Complete'
    BY <2>1 DEF Complete, Told
  <2>3. QED  BY <1>1, <1>3, <2>1, <2>2, Ends
<1>6. CASE Enough /\ Return(0, last + 1) /\ StoreField(x, TRUE)
  <2>1. p'.crt_status = "done" /\ record_len' = last + 1
    BY <1>2, <1>6 DEF Return, Locals
  <2>2. k + 1 = FieldsNum
    BY <1>2, <1>6 DEF Enough
  <2>3. ASSUME Separable, fresh'
        PROVE  ReadOf(t, record_len', mFieldValues', field', mNeedEscapeQualifier')
    <3>1. /\ NoneRead(mFieldValues) /\ KeptOf(data, p, field, mNeedEscapeQualifier)
          /\ FieldNow(data, p, field[k].null)
      BY <1>1, <2>3, NowFacts
    <3>2. PICK c :
             /\ ConfOK /\ k \in Fields /\ a \in Nat \ {0} /\ Width \in Nat \ {0}
             /\ Begun(t, c, k, Texts) /\ c[k] + Width = a
             /\ NoNul(t, x + 1) /\ Same(data, t, x + 1) /\ Begun(data, c, k, Texts)
             /\ EndsRow(t[x + 1]) /\ a <= x + 1 /\ Good(t, a, x)
      BY <2>3, RecordEndFacts
    <3>3. data[x + 1] # Qual
      <4>1. x + 1 \in 1 .. x + 1  BY <1>2
      <4>2. data[x + 1] = t[x + 1]  BY <3>2, <4>1 DEF Same
      <4>3. QED  BY <1>2, <3>2, <4>2, CharsAssumption DEF EndsRow, ConfOK
    <3>4. Shape(data, a, x, field[k].null, p.needEscapeQualifier)
      BY <1>1, <3>1 DEF FieldNow
    <3>5. ~mNeedEscapeQualifier[k]
      BY <1>2, <3>1 DEF KeptOf
    <3>6. /\ IsStored(data, a, x, field'[k], mNeedEscapeQualifier'[k])
          /\ \A i \in Fields \ {k} :
               /\ field'[i] = field[i]
               /\ mNeedEscapeQualifier'[i] = mNeedEscapeQualifier[i]
      <4>1. p.pre_field_pos <= x  BY <1>2, <3>2
      <4>2. QED  BY <1>2, <1>6, <3>3, <3>4, <3>5, <4>1, EndStored
    <3>7. IsStored(t, a, x, field'[k], mNeedEscapeQualifier'[k])
      <4>1. x + 1 \in Nat /\ x \in Int /\ a \in Nat \ {0} /\ x <= x + 1  BY <1>2
      <4> HIDE DEF t, x, a
      <4>2. QED  BY <1>2, <3>2, <3>6, <4>1, SameStored
    <3>8. ASSUME NEW d, NEW m \in Nat, RowEndAt(t, m, record_len'), Split(t, m, d, Fields),
                 NEW i \in Fields
          PROVE  ValueAt(t, d[i] + Width, d[i + 1] - 1, mFieldValues'[i], field'[i],
                         mNeedEscapeQualifier'[i])
      <4>1. \A j \in 0 .. k : d[j] = c[j]
        <5> HIDE DEF t, k
        <5>1. QED  BY <1>2, <2>3, <3>2, <3>8, SplitBegins
      <4>2. d[k + 1] - 1 = x
        <5>1. EndsRow(t[m + 1])
          BY <3>8 DEF RowEndAt, EndsRow
        <5>2. PICK l \in Nat :
                /\ l = d[k + 1] /\ a <= l /\ Good(t, a, l - 1) /\ Closed(t, l)
          <6>1. a \in Nat /\ a = c[k] + Width  BY <3>2
          <6>2. /\ Begun(t, c, k, Texts) /\ ConfOK /\ Separable /\ k \in Fields
                /\ Split(t, m, d, Fields)
            BY <1>2, <2>3, <3>2, <3>8
          <6> HIDE DEF a, t, k
          <6>3. \E n \in Nat :
                  /\ n = d[k + 1] /\ a <= n /\ n <= m + 1
                  /\ Good(t, a, n - 1) /\ Closed(t, n)
                  /\ Plain(t, a, n - 1) \/ (k \in Fields /\ Text(t, a, n - 1))
                  /\ k + 1 < FieldsNum => Hit(t, n) /\ n + Width - 1 <= m
                  /\ k + 1 = FieldsNum => n = m + 1 /\ EndsRow(t[n])
            BY <5>1, <6>1, <6>2, NextField
          <6>4. QED  BY <6>3
        <5>3. PICK b \in Nat : b = x + 1  BY <1>2
        <5>4. Good(t, a, b - 1) /\ Closed(t, b) /\ a <= b
          <6>1. b - 1 = x  BY <1>2, <5>3
          <6>2. QED  BY <3>2, <5>3, <6>1 DEF Closed
        <5>5. b = l
          <6> HIDE DEF a, t
          <6>1. QED  BY <1>2, <2>3, <3>2, <5>2, <5>4, OneEnd
        <5>6. QED  BY <1>2, <5>2, <5>3, <5>5
      <4>3. mFieldValues'[i] = NoValue
        BY <1>1, <3>1 DEF NoneRead
      <4>4. IsStored(t, d[i] + Width, d[i + 1] - 1, field'[i], mNeedEscapeQualifier'[i])
        <5>1. CASE i = k
          <6>1. k \in 0 .. k  BY <1>2
          <6>2. d[i] + Width = a  BY <3>2, <4>1, <5>1, <6>1
          <6>3. QED  BY <3>7, <4>2, <5>1, <6>2
        <5>2. CASE i # k
          <6>1. i \in 0 .. k - 1 /\ i \in 0 .. k /\ i + 1 \in 0 .. k
            BY <1>2, <2>2, <5>2 DEF Fields
          <6>2. d[i] = c[i] /\ d[i + 1] = c[i + 1]
            BY <4>1, <6>1
          <6>3. x + 1 \in Nat /\ p.pre_field_pos <= x + 1
            BY <1>2, <3>2
          <6>4. /\ i \in Fields \ {k}
                /\ IsStored(t, c[i] + Width, c[i + 1] - 1, field[i], mNeedEscapeQualifier[i])
            <7> HIDE DEF t, x
            <7>1. QED  BY <3>1, <3>2, <6>1, <6>3, StaysStored
          <6>5. field'[i] = field[i] /\ mNeedEscapeQualifier'[i] = mNeedEscapeQualifier[i]
            BY <3>6, <6>4
          <6>6. QED  BY <6>2, <6>4, <6>5
        <5>3. QED  BY <5>1, <5>2
      <4>5. QED  BY <4>3, <4>4 DEF ValueAt
    <3> HIDE DEF t
    <3>9. QED  BY <3>8 DEF ReadOf
  <2>4. QED  BY <1>1, <1>3, <2>1, <2>3, Ends
<1>7. QED  BY <1>4, <1>5, <1>6

LEMMA UsedUpStores ==
  ASSUME Inv, StoreInv, UsedUp
  PROVE  StoreInv'
PROOF
<1>1. p \in Locals(Len(data)) /\ p.crt_status # "done"
      /\ UNCHANGED <<conf, cleared, fresh>>
  BY Types DEF Inv, UsedUp, Idle, objVars, valVars
<1>2. p.crt_status \in Parsing
  BY <1>1 DEF Locals
<1>3. p'.crt_status = "done" /\ (status' = -1 \/ mIsLastRecordMissRowDelimiter')
  BY <1>1 DEF UsedUp, Return, Locals
<1>4. ~Complete' /\ ~cleared'
  BY <1>1, <1>2, <1>3 DEF Complete, Told, StoreInv, ClearedInv
<1>5. QED  BY <1>1, <1>3, <1>4, Ends

LEMMA SetDataStores ==
  ASSUME Inv, StoreInv, SetData
  PROVE  StoreInv'
PROOF
<1>1. /\ p' = Start /\ fresh' = cleared /\ ~cleared'
      /\ field' = [field EXCEPT ![0].null = FALSE]
      /\ UNCHANGED <<conf, mFieldValues, mNeedEscapeQualifier>>
  BY DEF SetData, objVars
<1>2. /\ p'.crt_status = "eFieldBegin" /\ p'.crtidx = 0 /\ p'.pre_field_pos = 0
      /\ p'.field_idx = 0 /\ ~p'.needEscapeQualifier
  BY <1>1 DEF Start
<1>3. 0 \in Fields /\ field \in [Fields -> FieldRec]
  BY ConfigAssumption DEF Fields, Inv, TypeOK, FieldRec
<1>4. \A i \in Fields : ~field[i].null => ~field'[i].null
  BY <1>1, <1>3 DEF FieldRec
<1>5. ASSUME fresh'
      PROVE  NoneRead(mFieldValues') /\ KeptOf(data', p', field', mNeedEscapeQualifier')
  <2>1. /\ NoneRead(mFieldValues)
        /\ \A i \in Fields : ~field'[i].null /\ ~mNeedEscapeQualifier'[i]
    BY <1>1, <1>4, <1>5 DEF StoreInv, ClearedInv
  <2>2. FieldNow(data', p', field'[0].null)
    BY <1>2, <1>3, <2>1 DEF FieldNow
  <2>3. \A i \in 0 .. 0 - 1 : FALSE
    OBVIOUS
  <2>4. QED  BY <1>1, <1>2, <2>1, <2>2, <2>3 DEF KeptOf
<1>6. QED  BY <1>1, <1>2, <1>5, GoesOn DEF Parsing

LEMMA ClearStores ==
  ASSUME Inv, Clear
  PROVE  StoreInv'
PROOF
<1>1. /\ p' = p /\ p.crt_status = "done" /\ cleared'
      /\ field' = Cleared
      /\ mNeedEscapeQualifier' = [i \in Fields |-> FALSE]
      /\ mFieldValues' = [i \in Fields |-> NoValue]
  BY DEF Clear, Idle
<1>2. KeptInv' /\ ReadInv'
  BY <1>1 DEF KeptInv, ReadInv, Parsing, Complete, Told
<1>3. \A i \in Fields : ~field'[i].null
  <2>1. field \in [Fields -> FieldRec]  BY DEF Inv, TypeOK, FieldRec
  <2>2. QED  BY <1>1, <2>1 DEF Cleared, FieldRec
<1>4. ClearedInv'
  BY <1>1, <1>3 DEF ClearedInv, Parsing, NoneRead
<1>5. QED  BY <1>2, <1>4 DEF StoreInv

LEMMA StaysStoring ==
  ASSUME StoreInv,
         UNCHANGED <<conf, data, p, outVars, fieldVars, mFieldValues, cleared, fresh>>
  PROVE  StoreInv'
PROOF
<1>1. /\ conf' = conf /\ data' = data /\ p' = p /\ status' = status /\ field' = field
      /\ record_len' = record_len /\ cleared' = cleared /\ fresh' = fresh
      /\ mFieldValues' = mFieldValues /\ mNeedEscapeQualifier' = mNeedEscapeQualifier
      /\ mIsLastRecordMissRowDelimiter' = mIsLastRecordMissRowDelimiter
  BY DEF outVars, fieldVars
<1>2. ClearedInv'
  BY <1>1 DEF StoreInv, ClearedInv, NoneRead
<1>3. KeptInv'
  <2>1. ASSUME Separable', fresh', p'.crt_status \in Parsing
        PROVE  NoneRead(mFieldValues)' /\ KeptOf(data, p, field, mNeedEscapeQualifier)'
    <3>1. NoneRead(mFieldValues) /\ KeptOf(data, p, field, mNeedEscapeQualifier)
      BY <1>1, <2>1, SeparableNext DEF StoreInv, KeptInv
    <3>2. KeptOf(data', p', field', mNeedEscapeQualifier')
      BY <1>1, <3>1
    <3>3. QED  BY <1>1, <3>1, <3>2, KeptNext DEF NoneRead
  <2>2. QED  BY <2>1 DEF KeptInv
<1>4. ReadInv'
  <2>1. ASSUME Separable', fresh', Complete'
        PROVE  ReadOf(data, record_len, mFieldValues, field, mNeedEscapeQualifier)'
    <3>1. Complete  BY <1>1, <2>1 DEF Complete, Told, Idle
    <3>2. ReadOf(data, record_len, mFieldValues, field, mNeedEscapeQualifier)
      BY <1>1, <2>1, <3>1, SeparableNext DEF StoreInv, ReadInv
    <3>3. ReadOf(data', record_len', mFieldValues', field', mNeedEscapeQualifier')
      BY <1>1, <3>2
    <3>4. QED  BY <1>1, <3>3, ReadNext
  <2>2. QED  BY <2>1 DEF ReadInv
<1>5. QED  BY <1>2, <1>3, <1>4 DEF StoreInv

(* There is a value, read or not, for every field.                         *)
ValuesInv == \E S : mFieldValues \in [Fields -> S]

(* Where field i is, in a record that is complete.                         *)
LEMMA FieldPlace ==
  ASSUME ConfOK, NEW s, NEW n \in Int, NEW m \in Nat, NEW c, NEW T, RowEndAt(s, m, n),
         Split(s, m, c, T), NEW i \in Fields
  PROVE  \E a \in Nat \ {0} : \E b \in Nat :
           /\ a = c[i] + Width /\ b = c[i + 1] - 1 /\ a <= b + 1 /\ b <= m /\ b <= n /\ m <= n
           /\ Plain(s, a, b) \/ Text(s, a, b)
PROOF
<1>1. i \in 0 .. FieldsNum /\ i + 1 \in 0 .. FieldsNum /\ Width \in Nat \ {0}
  BY ConfigAssumption DEF Fields, ConfOK
<1>2. PICK u \in Int, v \in Int : u = c[i] /\ v = c[i + 1]
  BY <1>1 DEF Split
<1>3. 1 - Width <= u /\ u + Width <= v /\ v <= m + 1 /\ FieldAt(s, c, i, T)
  BY <1>1, <1>2 DEF Split
<1>4. n = m + 2 \/ n = m + 1
  BY DEF RowEndAt
<1>5. u + Width \in Nat \ {0} /\ v - 1 \in Nat /\ u + Width <= (v - 1) + 1 /\ v - 1 <= m
      /\ v - 1 <= n /\ m <= n
  BY <1>1, <1>3, <1>4
<1>6. Plain(s, u + Width, v - 1) \/ Text(s, u + Width, v - 1)
  BY <1>2, <1>3 DEF FieldAt
<1>7. QED  BY <1>2, <1>5, <1>6

LEMMA GetFieldValueStores ==
  ASSUME Inv, StoreInv, ValuesInv, NEW i \in Fields, GetFieldValue(i)
  PROVE  StoreInv' /\ ValuesInv'
PROOF
<1> DEFINE b1 == mNeedEscapeQualifier[i] /\ ~Unescapes(i)
           v1 == ReadValue(i)
<1>1. /\ mFieldValues' = [mFieldValues EXCEPT ![i] = v1]
      /\ mNeedEscapeQualifier' = [mNeedEscapeQualifier EXCEPT ![i] = b1]
      /\ UNCHANGED <<conf, mIsLastRecordMissRowDelimiter, status, record_len,
                     field, data, p, cleared, fresh>>
      /\ p.crt_status = "done" /\ ~cleared /\ mFieldValues[i] = NoValue
  BY Zenon DEF GetFieldValue, objVars, outVars, Idle
<1>2. PICK S : mFieldValues \in [Fields -> S]
  BY DEF ValuesInv
<1>3. /\ mFieldValues' \in [Fields -> S \cup {v1}]
      /\ mFieldValues'[i] = v1
      /\ \A j \in Fields \ {i} : mFieldValues'[j] = mFieldValues[j]
  <2> HIDE DEF v1
  <2>1. QED  BY <1>1, <1>2
<1>4. \A j \in Fields \ {i} : mNeedEscapeQualifier'[j] = mNeedEscapeQualifier[j]
  <2>1. mNeedEscapeQualifier \in [Fields -> BOOLEAN]  BY DEF Inv, TypeOK
  <2> HIDE DEF b1
  <2>2. QED  BY <1>1, <2>1
<1>5. ASSUME Separable, fresh', Complete'
      PROVE  ReadOf(data', record_len', mFieldValues', field', mNeedEscapeQualifier')
  <2>1. Complete  BY <1>1, <1>5 DEF Complete, Told, Idle
  <2>2. ReadOf(data, record_len, mFieldValues, field, mNeedEscapeQualifier)
    BY <1>1, <1>5, <2>1 DEF StoreInv, ReadInv
  <2>3. /\ ConfOK /\ data \in Seq(Chars) /\ Len(data) \in Nat
        /\ record_len \in 1 .. Len(data)
    BY <2>1, Types, ConfTypes DEF Inv, StaysInside, Complete
  <2>4. ASSUME NEW c, NEW m \in Nat, RowEndAt(data, m, record_len),
               Split(data, m, c, Fields), NEW j \in Fields
        PROVE  ValueAt(data, c[j] + Width, c[j + 1] - 1, mFieldValues'[j], field[j],
                       mNeedEscapeQualifier'[j])
    <3>1. ValueAt(data, c[j] + Width, c[j + 1] - 1, mFieldValues[j], field[j],
                  mNeedEscapeQualifier[j])
      BY <2>2, <2>4 DEF ReadOf
    <3>2. CASE j # i
      BY <1>3, <1>4, <3>1, <3>2
    <3>3. CASE j = i
      <4>1. PICK a \in Nat \ {0} : \E b \in Nat :
              /\ a = c[i] + Width /\ b = c[i + 1] - 1 /\ a <= b + 1 /\ b <= m
              /\ b <= record_len /\ m <= record_len
              /\ Plain(data, a, b) \/ Text(data, a, b)
        BY <2>3, <2>4, FieldPlace
      <4>2. PICK b \in Nat :
              /\ a = c[i] + Width /\ b = c[i + 1] - 1 /\ a <= b + 1
              /\ b <= record_len
              /\ Plain(data, a, b) \/ Text(data, a, b)
        BY <4>1
      <4>3. IsStored(data, a, b, field[i], mNeedEscapeQualifier[i])
        BY <1>1, <3>1, <3>3, <4>2 DEF ValueAt
      <4>4. PICK need : need = mNeedEscapeQualifier'[i]  OBVIOUS
      <4>5. ValueAt(data, a, b, v1, field[i], need)
        <5>1. CASE Plain(data, a, b) \/ (Width = 1 /\ Text(data, a, b))
          <6>1. b <= Len(data)  BY <2>3, <4>2
          <6>2. v1 = ValueOf(SubSeq(data, a, b)) /\ v1 \in Seq(Chars) \cup {Null}
            BY <2>3, <4>2, <4>3, <5>1, <6>1, ReadIs
          <6>3. v1 # NoValue
            BY <6>2, NoValueAssumption
          <6> HIDE DEF v1
          <6>4. QED  BY <6>2, <6>3 DEF ValueAt
        <5>2. CASE ~Plain(data, a, b) /\ Text(data, a, b) /\ Width # 1
          <6>1. Width > 1  BY <2>3, <5>2 DEF ConfOK
          <6>2. IsStored(data, a, b, field[i], need)
            BY <5>2 DEF IsStored, Shape
          <6> HIDE DEF v1
          <6>3. QED  BY <5>2, <6>1, <6>2 DEF ValueAt
        <5>3. QED  BY <4>2, <5>1, <5>2
      <4>6. QED  BY <1>3, <3>3, <4>2, <4>4, <4>5
    <3>4. QED  BY <3>2, <3>3
  <2>5. ReadOf(data, record_len, mFieldValues', field, mNeedEscapeQualifier')
    BY <2>4 DEF ReadOf
  <2>6. QED  BY <1>1, <2>5
<1>6. StoreInv'
  BY <1>1, <1>5, Ends
<1>7. ValuesInv'
  BY <1>3 DEF ValuesInv
<1>8. QED  BY <1>6, <1>7

LEMMA StoreStarts ==
  ASSUME NEW S, InitWith(S)
  PROVE  StoreInv /\ ValuesInv
PROOF
<1>1. /\ p.crt_status = "done" /\ cleared
      /\ field = [i \in Fields |-> [offset |-> 0, len |-> 0, null |-> FALSE]]
      /\ mNeedEscapeQualifier = [i \in Fields |-> FALSE]
      /\ mFieldValues = [i \in Fields |-> NoValue]
  BY DEF InitWith, Start
<1>2. KeptInv /\ ReadInv
  BY <1>1 DEF KeptInv, ReadInv, Parsing, Complete, Told
<1>3. ClearedInv
  BY <1>1 DEF ClearedInv, Parsing, NoneRead
<1>4. mFieldValues \in [Fields -> {NoValue}]
  BY <1>1
<1>5. QED  BY <1>2, <1>3, <1>4 DEF StoreInv, ValuesInv

LEMMA StoreInductive ==
  Inv /\ MarkInv /\ StoreInv /\ ValuesInv /\ [Next]_vars => StoreInv' /\ ValuesInv'
PROOF
<1> SUFFICES ASSUME Inv, MarkInv, StoreInv, ValuesInv, [Next]_vars
             PROVE  StoreInv' /\ ValuesInv'
  OBVIOUS
<1>1. mFieldValues' = mFieldValues => ValuesInv'
  BY DEF ValuesInv
<1>2. CASE Clear
  <2>1. mFieldValues' = [i \in Fields |-> NoValue]  BY <1>2 DEF Clear
  <2>2. mFieldValues' \in [Fields -> {NoValue}]  BY <2>1
  <2>3. QED  BY <1>2, <2>2, ClearStores DEF ValuesInv
<1>3. CASE SetEOF
  BY <1>1, <1>3, StaysStoring DEF SetEOF, valVars
<1>4. CASE SetData
  <2>1. mFieldValues' = mFieldValues  BY <1>4 DEF SetData
  <2>2. QED  BY <1>1, <1>4, <2>1, SetDataStores
<1>5. CASE Parse
  <2>1. mFieldValues' = mFieldValues
    BY <1>5 DEF Parse, FieldBegin, Field, StrField, StrEscape, StrEnd, FieldEndsEarly,
                FieldEnd, RecordEnd, UsedUp, valVars
  <2>2. StoreInv'
    BY <1>5, FieldBeginStores, FieldStores, StrFieldStores, StrEscapeStores, StrEndStores,
       FieldEndsEarlyStores, FieldEndStores, RecordEndStores, UsedUpStores DEF Parse
  <2>3. QED  BY <1>1, <2>1, <2>2
<1>6. ASSUME NEW i \in Fields, GetFieldValue(i) PROVE StoreInv' /\ ValuesInv'
  BY <1>6, GetFieldValueStores
<1>7. CASE UNCHANGED vars
  BY <1>1, <1>7, StaysStoring DEF vars, objVars, valVars
<1>8. QED  BY <1>2, <1>3, <1>4, <1>5, <1>6, <1>7 DEF Next

LEMMA ReadIsValue ==
  ASSUME Inv, StoreInv
  PROVE  ValuesAreFields
PROOF
<1> SUFFICES ASSUME Complete, fresh, Separable,
                    NEW e \in RowEnds, EndsWith(SubSeq(data, 1, record_len), e),
                    NEW c \in Cuts(Body(SubSeq(data, 1, record_len), e), Fields),
                    NEW i \in Fields
             PROVE  LET f == Piece(Body(SubSeq(data, 1, record_len), e), c, i) IN
                    \/ mFieldValues[i] \in {NoValue, ValueOf(f)}
                    \/ Width > 1 /\ QualifiedField(f)
  BY DEF ValuesAreFields
<1>1. /\ ConfOK /\ data \in Seq(Chars) /\ Len(data) \in Nat /\ record_len \in 1 .. Len(data)
  BY Types, ConfTypes DEF Inv, StaysInside, Complete
<1>2. PICK n \in Nat : n = record_len /\ n <= Len(data)
  BY <1>1
<1>3. PICK r : r = SubSeq(data, 1, n)
  OBVIOUS
<1>4. r \in Seq(Chars) /\ Len(r) = n /\ Same(r, data, n)
  <2>1. 1 \in Nat /\ n \in Int /\ 1 <= 1 /\ 1 <= n  BY <1>1, <1>2, <1>3
  <2>2. /\ r \in Seq(Chars) /\ Len(r) = (IF 1 <= n THEN n - 1 + 1 ELSE 0)
        /\ \A j \in 1 .. n - 1 + 1 : r[j] = data[1 + j - 1]
    BY <1>1, <1>2, <1>3, <2>1, PartOf
  <2>3. n - 1 + 1 = n /\ \A j \in 1 .. n : 1 + j - 1 = j  OBVIOUS
  <2>4. QED  BY <2>1, <2>2, <2>3 DEF Same
<1>5. PICK m \in Nat : m = Len(r) - Len(e) /\ Len(e) \in Nat /\ RowEnd(r, m)
  BY <1>1, <1>2, <1>3, <1>4, RowEndsAre
<1>6. RowEndAt(data, m, n) /\ m <= n
  <2>1. n = m + 2 \/ n = m + 1  BY <1>4, <1>5 DEF RowEnd
  <2>2. m + 1 \in 1 .. n /\ (n = m + 2 => m + 2 \in 1 .. n)  BY <2>1
  <2>3. r[m + 1] = data[m + 1] /\ (n = m + 2 => r[m + 2] = data[m + 2])
    BY <1>4, <2>2 DEF Same
  <2>4. QED  BY <1>4, <1>5, <2>1, <2>3 DEF RowEnd, RowEndAt
<1>7. PICK d : d = Body(r, e)  OBVIOUS
<1>8. d \in Seq(Chars) /\ Len(d) = m /\ Same(r, d, m)
  BY <1>4, <1>5, <1>7, BodyIs
<1>9. Same(d, data, m)
  <2>1. \A j \in 1 .. m : j \in 1 .. n  BY <1>6
  <2>2. QED  BY <1>4, <1>8, <2>1 DEF Same
<1>10. Split(data, m, c, Fields)
  <2>1. Split(d, m, c, Fields)  BY <1>1, <1>2, <1>3, <1>7, <1>8, CutsAre
  <2>2. m <= m  OBVIOUS
  <2>3. QED  BY <1>1, <1>9, <2>1, <2>2, SameSplit
<1>11. ValueAt(data, c[i] + Width, c[i + 1] - 1, mFieldValues[i], field[i],
               mNeedEscapeQualifier[i])
  BY <1>2, <1>3, <1>6, <1>10 DEF StoreInv, ReadInv, ReadOf
<1>12. PICK a \in Nat \ {0} : \E b \in Nat :
         /\ a = c[i] + Width /\ b = c[i + 1] - 1 /\ a <= b + 1 /\ b <= m /\ b <= n /\ m <= n
         /\ Plain(data, a, b) \/ Text(data, a, b)
  BY <1>1, <1>6, <1>10, FieldPlace
<1>13. PICK b \in Nat :
         a = c[i] + Width /\ b = c[i + 1] - 1 /\ a <= b + 1 /\ b <= m /\ b <= n
  BY <1>12
<1>14. SubSeq(d, a, b) = SubSeq(data, a, b)
  <2>1. 1 <= a /\ b \in Int /\ b <= Len(d) /\ b <= Len(data) /\ a \in Nat
    BY <1>1, <1>2, <1>3, <1>8, <1>13
  <2>2. PICK u : u = SubSeq(d, a, b)  OBVIOUS
  <2>3. PICK w : w = SubSeq(data, a, b)  OBVIOUS
  <2>4. /\ u \in Seq(Chars) /\ Len(u) = (IF a <= b THEN b - a + 1 ELSE 0)
        /\ \A k \in 1 .. b - a + 1 : u[k] = d[a + k - 1]
    BY <1>8, <2>1, <2>2, PartOf
  <2>5. /\ w \in Seq(Chars) /\ Len(w) = (IF a <= b THEN b - a + 1 ELSE 0)
        /\ \A k \in 1 .. b - a + 1 : w[k] = data[a + k - 1]
    BY <1>1, <2>1, <2>3, PartOf
  <2>6. ASSUME NEW k \in 1 .. Len(u) PROVE u[k] = w[k]
    <3>1. a <= b /\ k \in 1 .. b - a + 1
      <4>1. CASE a <= b
        <5>1. Len(u) = b - a + 1  BY <2>4, <4>1
        <5>2. QED  BY <4>1, <5>1
      <4>2. CASE ~(a <= b)
        <5>1. Len(u) = 0  BY <2>4, <4>2
        <5>2. QED  BY <5>1
      <4>3. QED  BY <4>1, <4>2
    <3>2. a + k - 1 \in 1 .. m
      BY <1>13, <3>1
    <3>3. QED  BY <1>9, <2>4, <2>5, <3>1, <3>2 DEF Same
  <2>7. u = w
    BY <2>4, <2>5, <2>6, SeqEqual
  <2>8. QED  BY <2>2, <2>3, <2>7
<1>15. PICK f : f = SubSeq(data, a, b)  OBVIOUS
<1>16. Piece(Body(SubSeq(data, 1, record_len), e), c, i) = f
  BY <1>2, <1>3, <1>7, <1>13, <1>14, <1>15 DEF Piece
<1>17. QualifiedField(f) <=> Text(data, a, b)
  <2>1. b \in Int /\ b <= Len(data)  BY <1>1, <1>2, <1>3, <1>13
  <2>2. QED  BY <1>1, <1>15, <2>1, PartText
<1>18. mFieldValues[i] \in {NoValue, ValueOf(f)} \/ (Width > 1 /\ QualifiedField(f))
  BY <1>11, <1>13, <1>15, <1>17 DEF ValueAt
<1>19. QED  BY <1>16, <1>18

(* What getFieldValue() reads of a record is what the comment says of its  *)
(* fields, whatever the fields of earlier records were, when clear() comes *)
(* before setData() (CSVParser.cpp:269-328, 547-559, 561-799, 841-1066).   *)
THEOREM ValuesAreRead == Spec => []ValuesAreFields
PROOF
<1> DEFINE All == Inv /\ MarkInv /\ ToldInv /\ StoreInv /\ ValuesInv
<1>1. Init => All
  BY InvStarts, FindsStarts, StoreStarts, InputsAssumption DEF Init
<1>2. All /\ [Next]_vars => All'
  BY InvInductive, FindsInductive, StoreInductive
<1>3. All => ValuesAreFields
  BY ReadIsValue
<1>4. QED  BY <1>1, <1>2, <1>3, PTL DEF Spec

(***************************************************************************)
(* Flattening, by its equations: G[i] is what the first i texts make.      *)
(***************************************************************************)
Grown(ss, G) == G[0] = <<>> /\ \A i \in 1 .. Len(ss) : G[i] = G[i - 1] \o ss[i]

LEMMA FlattenGrows ==
  ASSUME NEW C, NEW ss \in Seq(Seq(C))
  PROVE  \E G : /\ Grown(ss, G) /\ FlattenSeq(ss) = G[Len(ss)]
                /\ \A i \in 0 .. Len(ss) : G[i] \in Seq(C)
PROOF
<1>1. PICK N : N = Len(ss)
  OBVIOUS
<1>2. N \in Nat /\ \A i \in 1 .. N : ss[i] \in Seq(C)
  BY <1>1, LenProperties, ElementOfSeq
<1> DEFINE Is(f, n) == f = [i \in 1 .. n |-> IF i = 1 THEN ss[i] ELSE f[i - 1] \o ss[i]]
           S == {n \in Nat : \E f : Is(f, n)}
<1>3. 0 \in S
  <2>1. PICK f : f = [i \in 1 .. 0 |-> <<>>]  OBVIOUS
  <2>2. Is(f, 0)  BY <2>1
  <2>3. QED  BY <2>2
<1>4. ASSUME NEW n \in Nat, n \in S PROVE n + 1 \in S
  <2>1. PICK f : Is(f, n)  BY <1>4
  <2>2. PICK g : g = [i \in 1 .. n + 1 |-> IF i <= n THEN f[i]
                        ELSE IF i = 1 THEN ss[i] ELSE f[i - 1] \o ss[i]]
    OBVIOUS
  <2>3. ASSUME NEW i \in 1 .. n + 1
        PROVE  g[i] = IF i = 1 THEN ss[i] ELSE g[i - 1] \o ss[i]
    <3>1. CASE i = 1
      <4>1. CASE 1 <= n
        <5>1. i \in 1 .. n  BY <3>1, <4>1
        <5>2. f[i] = ss[i]  BY <2>1, <3>1, <5>1
        <5>3. QED  BY <2>2, <3>1, <5>1, <5>2
      <4>2. CASE ~(1 <= n)
        BY <2>2, <3>1, <4>2
      <4>3. QED  BY <4>1, <4>2
    <3>2. CASE i # 1
      <4>1. i - 1 \in 1 .. n + 1 /\ i - 1 <= n  BY <3>2
      <4>2. g[i - 1] = f[i - 1]  BY <2>2, <4>1
      <4>3. CASE i <= n
        <5>1. i \in 1 .. n  BY <4>3
        <5>2. f[i] = f[i - 1] \o ss[i]  BY <2>1, <3>2, <5>1
        <5>3. g[i] = f[i]  BY <2>2, <4>3
        <5>4. QED  BY <3>2, <4>2, <5>2, <5>3
      <4>4. CASE ~(i <= n)
        BY <2>2, <3>2, <4>2, <4>4
      <4>5. QED  BY <4>3, <4>4
    <3>3. QED  BY <3>1, <3>2
  <2>4. Is(g, n + 1)
    <3>1. g = [i \in 1 .. n + 1 |-> g[i]]  BY <2>2
    <3>2. QED  BY <2>3, <3>1
  <2>5. n + 1 \in Nat  OBVIOUS
  <2>6. QED  BY <2>4, <2>5
<1>5. \E f : Is(f, N)
  <2>1. Nat \subseteq S
    <3> HIDE DEF S
    <3>1. QED  BY <1>3, <1>4, Induction
  <2>2. QED  BY <1>2, <2>1
<1>6. PICK f : f = CHOOSE g : Is(g, N)
  OBVIOUS
<1>7. Is(f, N)
  <2> HIDE DEF Is
  <2>1. QED  BY <1>5, <1>6
<1>8. N # 0 => FlattenSeq(ss) = f[N]
  BY <1>1, <1>6 DEF FlattenSeq
<1>9. N = 0 => FlattenSeq(ss) = <<>>
  BY <1>1, EmptySeq DEF FlattenSeq
<1>10. PICK G : G = [i \in 0 .. N |-> IF i = 0 THEN <<>> ELSE f[i]]
  OBVIOUS
<1>11. G[0] = <<>> /\ (\A i \in 1 .. N : G[i] = f[i])
  BY <1>2, <1>10
<1>12. ASSUME NEW i \in 1 .. N PROVE G[i] = G[i - 1] \o ss[i]
  <2>1. CASE i = 1
    <3>1. f[i] = ss[i]  BY <1>7, <2>1
    <3>2. <<>> \o ss[i] = ss[i]  BY <1>2, ConcatEmptySeq
    <3>3. G[i] = f[i] /\ i - 1 = 0 /\ G[i - 1] = G[0]  BY <1>11, <2>1
    <3>4. G[i - 1] = <<>>  BY <1>11, <3>3
    <3>5. QED  BY <3>1, <3>2, <3>3, <3>4
  <2>2. CASE i # 1
    <3>1. i - 1 \in 1 .. N  BY <1>2, <2>2
    <3>2. f[i] = f[i - 1] \o ss[i]  BY <1>7, <2>2
    <3>3. QED  BY <1>11, <3>1, <3>2
  <2>3. QED  BY <2>1, <2>2
<1> HIDE DEF S, Is
<1> DEFINE R == {i \in Nat : i <= N => G[i] \in Seq(C)}
<1>13. 0 \in R
  BY <1>11, EmptySeq
<1>14. ASSUME NEW i \in Nat, i \in R PROVE i + 1 \in R
  <2>1. SUFFICES ASSUME i + 1 <= N PROVE G[i + 1] \in Seq(C)
    OBVIOUS
  <2>2. i + 1 \in 1 .. N /\ i <= N /\ (i + 1) - 1 = i  BY <1>2, <2>1
  <2>3. G[i] \in Seq(C) /\ ss[i + 1] \in Seq(C)  BY <1>2, <1>14, <2>2
  <2>4. G[i + 1] = G[i] \o ss[i + 1]  BY <1>12, <2>2
  <2>5. QED  BY <2>3, <2>4, ConcatProperties
<1>15. Nat \subseteq R
  <2> HIDE DEF R
  <2>1. QED  BY <1>13, <1>14, Induction
<1>16. \A i \in 0 .. N : G[i] \in Seq(C)
  <2>1. ASSUME NEW i \in 0 .. N PROVE G[i] \in Seq(C)
    <3>1. i \in Nat /\ i <= N  BY <1>2
    <3>2. QED  BY <1>15, <3>1
  <2>2. QED  BY <2>1
<1>17. Grown(ss, G)
  BY <1>1, <1>11, <1>12 DEF Grown
<1>18. FlattenSeq(ss) = G[N]
  <2>1. N = 0 \/ N \in 1 .. N  BY <1>2
  <2>2. QED  BY <1>8, <1>9, <1>11, <2>1
<1> HIDE DEF R
<1>19. QED  BY <1>1, <1>16, <1>17, <1>18

LEMMA GrownOnly ==
  ASSUME NEW ss, Len(ss) \in Nat, NEW G, NEW K, Grown(ss, G), Grown(ss, K),
         NEW i \in 0 .. Len(ss)
  PROVE  G[i] = K[i]
PROOF
<1> DEFINE S == {j \in Nat : j <= Len(ss) => G[j] = K[j]}
<1>1. 0 \in S
  BY DEF Grown
<1>2. ASSUME NEW j \in Nat, j \in S PROVE j + 1 \in S
  <2>1. SUFFICES ASSUME j + 1 <= Len(ss) PROVE G[j + 1] = K[j + 1]
    OBVIOUS
  <2>2. j + 1 \in 1 .. Len(ss) /\ j <= Len(ss) /\ (j + 1) - 1 = j  BY <2>1
  <2>3. G[j] = K[j]  BY <1>2, <2>2
  <2>4. G[j + 1] = G[j] \o ss[j + 1] /\ K[j + 1] = K[j] \o ss[j + 1]  BY <2>2 DEF Grown
  <2>5. QED  BY <2>3, <2>4
<1>3. Nat \subseteq S
  <2> HIDE DEF S
  <2>1. QED  BY <1>1, <1>2, Induction
<1>4. i \in Nat /\ i <= Len(ss)
  OBVIOUS
<1>5. QED  BY <1>3, <1>4

LEMMA FlattenTypes ==
  ASSUME NEW C, NEW ss \in Seq(Seq(C))
  PROVE  FlattenSeq(ss) \in Seq(C)
PROOF
<1>1. PICK G : FlattenSeq(ss) = G[Len(ss)] /\ \A i \in 0 .. Len(ss) : G[i] \in Seq(C)
  BY FlattenGrows
<1>2. Len(ss) \in 0 .. Len(ss)
  <2>1. Len(ss) \in Nat  BY LenProperties
  <2>2. QED  BY <2>1
<1>3. QED  BY <1>1, <1>2

LEMMA FlattenOne ==
  ASSUME NEW C, NEW s \in Seq(C)
  PROVE  FlattenSeq(<<s>>) = s
PROOF
<1>1. PICK ss : ss = <<s>>  OBVIOUS
<1>2. ss \in Seq(Seq(C)) /\ Len(ss) = 1 /\ ss[1] = s  BY <1>1
<1>3. PICK G : Grown(ss, G) /\ FlattenSeq(ss) = G[Len(ss)]  BY <1>2, FlattenGrows
<1>4. G[0] = <<>> /\ G[1] = G[0] \o ss[1]
  <2>1. 1 \in 1 .. Len(ss) /\ 1 - 1 = 0  BY <1>2
  <2>2. QED  BY <1>3, <2>1 DEF Grown
<1>5. <<>> \o s = s  BY ConcatEmptySeq
<1>6. QED  BY <1>1, <1>2, <1>3, <1>4, <1>5

LEMMA FlattenConcat ==
  ASSUME NEW C, NEW x1 \in Seq(Seq(C)), NEW y1 \in Seq(Seq(C))
  PROVE  FlattenSeq(x1 \o y1) = FlattenSeq(x1) \o FlattenSeq(y1)
PROOF
<1>1. PICK z : z = x1 \o y1  OBVIOUS
<1>2. PICK m \in Nat : m = Len(x1)  BY LenProperties
<1>3. PICK n \in Nat : n = Len(y1)  BY LenProperties
<1>4. /\ z \in Seq(Seq(C)) /\ Len(z) = m + n
      /\ \A i \in 1 .. m + n : z[i] = IF i <= m THEN x1[i] ELSE y1[i - m]
  BY <1>1, <1>2, <1>3, ConcatProperties
<1>5. PICK G : Grown(z, G) /\ FlattenSeq(z) = G[Len(z)]
  BY <1>4, FlattenGrows
<1>6. PICK K : /\ Grown(x1, K) /\ FlattenSeq(x1) = K[Len(x1)]
               /\ \A i \in 0 .. Len(x1) : K[i] \in Seq(C)
  BY FlattenGrows
<1>7. PICK L : /\ Grown(y1, L) /\ FlattenSeq(y1) = L[Len(y1)]
               /\ \A i \in 0 .. Len(y1) : L[i] \in Seq(C)
  BY FlattenGrows
<1>8. G[m] = K[m] /\ K[m] \in Seq(C)
  <2>1. ASSUME NEW i \in 1 .. m PROVE G[i] = G[i - 1] \o x1[i]
    <3>1. i \in 1 .. m + n /\ i <= m  OBVIOUS
    <3>2. z[i] = x1[i]  BY <1>4, <3>1
    <3>3. QED  BY <1>4, <1>5, <3>1, <3>2 DEF Grown
  <2>2. G[0] = <<>>  BY <1>5 DEF Grown
  <2>3. Grown(x1, G)  BY <1>2, <2>1, <2>2 DEF Grown
  <2>4. m \in 0 .. Len(x1)  BY <1>2
  <2>5. QED  BY <1>2, <1>6, <2>3, <2>4, GrownOnly
<1>9. \A i \in 1 .. n : y1[i] \in Seq(C)
  BY <1>3, ElementOfSeq
<1> DEFINE Joined(j) == G[m + j] = K[m] \o L[j]
           S == {j \in Nat : j <= n => Joined(j)}
<1>10. Joined(0)
  <2>1. L[0] = <<>> /\ m + 0 = m  BY <1>7 DEF Grown
  <2>2. K[m] \o <<>> = K[m]  BY <1>8, ConcatEmptySeq
  <2>3. QED  BY <1>8, <2>1, <2>2
<1>11. ASSUME NEW j \in Nat, j + 1 <= n, Joined(j) PROVE Joined(j + 1)
  <2>1. /\ j + 1 \in 1 .. n /\ j \in 0 .. n /\ (j + 1) - 1 = j /\ j <= n
        /\ m + (j + 1) \in 1 .. m + n /\ ~(m + (j + 1) <= m) /\ m + (j + 1) - m = j + 1
        /\ m + (j + 1) - 1 = m + j
    BY <1>11
  <2>2. PICK i \in 1 .. m + n : i = m + (j + 1)  BY <2>1
  <2>3. G[i] = G[i - 1] \o z[i]
    BY <1>4, <1>5 DEF Grown
  <2>4. z[i] = y1[j + 1]
    <3>1. ~(i <= m) /\ i - m = j + 1  BY <2>1, <2>2
    <3>2. z[i] = y1[i - m]  BY <1>4, <3>1
    <3>3. QED  BY <3>1, <3>2
  <2>5. L[j + 1] = L[j] \o y1[j + 1]
    BY <1>3, <1>7, <2>1 DEF Grown
  <2>6. PICK u, v, w : u = K[m] /\ v = L[j] /\ w = y1[j + 1]
    OBVIOUS
  <2>7. u \in Seq(C) /\ v \in Seq(C) /\ w \in Seq(C)
    BY <1>3, <1>7, <1>8, <1>9, <2>1, <2>6
  <2>8. (u \o v) \o w = u \o (v \o w)
    BY <2>7, ConcatAssociative
  <2>9. i - 1 = m + j  BY <2>1, <2>2
  <2>10. G[m + j] = u \o v  BY <1>11, <2>6
  <2>11. G[i] = (u \o v) \o w  BY <2>3, <2>4, <2>6, <2>9, <2>10, Zenon
  <2>12. L[j + 1] = v \o w  BY <2>5, <2>6, Zenon
  <2>13. QED  BY <2>2, <2>6, <2>8, <2>11, <2>12, Zenon
<1>12. Nat \subseteq S
  <2> HIDE DEF Joined
  <2>1. 0 \in S  BY <1>10
  <2>2. ASSUME NEW j \in Nat, j \in S PROVE j + 1 \in S
    <3>1. SUFFICES ASSUME j + 1 <= n PROVE Joined(j + 1)  OBVIOUS
    <3>2. j <= n /\ Joined(j)  BY <2>2, <3>1
    <3>3. QED  BY <1>11, <3>1, <3>2
  <2> HIDE DEF S
  <2>3. QED  BY <2>1, <2>2, Induction
<1>13. Joined(n)
  <2> HIDE DEF Joined
  <2>1. n \in S /\ n <= n  BY <1>12
  <2>2. QED  BY <2>1
<1> HIDE DEF S
<1>14. QED  BY <1>1, <1>2, <1>3, <1>4, <1>5, <1>6, <1>7, <1>13

(***************************************************************************)
(* The bytes of chunks.                                                    *)
(***************************************************************************)
ChunkSeq == Seq([text : Seq(Chars), room : Nat])

LEMMA TextsAre ==
  ASSUME NEW cs \in ChunkSeq
  PROVE  LET ts == [k \in DOMAIN cs |-> cs[k].text]
         IN  ts \in Seq(Seq(Chars)) /\ Len(ts) = Len(cs) /\ \A k \in 1 .. Len(cs) : ts[k] = cs[k].text
PROOF
<1>1. PICK n \in Nat : n = Len(cs)
  BY LenProperties DEF ChunkSeq
<1>2. DOMAIN cs = 1 .. n /\ \A k \in 1 .. n : cs[k] \in [text : Seq(Chars), room : Nat]
  BY <1>1, LenProperties, ElementOfSeq DEF ChunkSeq
<1>3. PICK ts : ts = [k \in DOMAIN cs |-> cs[k].text]
  OBVIOUS
<1>4. ts \in [1 .. n -> Seq(Chars)]
  BY <1>2, <1>3
<1>5. ts \in Seq(Seq(Chars))
  BY <1>4, SeqDef
<1>6. Len(ts) = n
  BY <1>4
<1>7. QED  BY <1>1, <1>2, <1>3, <1>5, <1>6

LEMMA BytesTypes ==
  ASSUME NEW cs \in ChunkSeq
  PROVE  Bytes(cs) \in Seq(Chars)
BY TextsAre, FlattenTypes DEF Bytes

LEMMA BytesEmpty == Bytes(<<>>) = <<>>
PROOF
<1>1. PICK ts : ts = [k \in DOMAIN <<>> |-> <<>>[k].text]  OBVIOUS
<1>2. ts = <<>>  BY <1>1
<1>3. QED  BY <1>1, <1>2 DEF Bytes, FlattenSeq

LEMMA BytesOne ==
  ASSUME NEW s \in Seq(Chars), NEW n \in Nat
  PROVE  Bytes(<<Chunk(s, n)>>) = s /\ <<Chunk(s, n)>> \in ChunkSeq
PROOF
<1>1. PICK cs : cs = <<Chunk(s, n)>>  OBVIOUS
<1>2. PICK ts : ts = [k \in DOMAIN cs |-> cs[k].text]  OBVIOUS
<1>3. cs \in ChunkSeq /\ Len(cs) = 1 /\ cs[1].text = s  BY <1>1 DEF Chunk, ChunkSeq
<1>4. ts \in Seq(Seq(Chars)) /\ Len(ts) = 1 /\ ts[1] = s
  BY <1>2, <1>3, TextsAre
<1>5. ts = <<s>>
  BY <1>4
<1>6. QED  BY <1>1, <1>2, <1>3, <1>5, FlattenOne DEF Bytes

LEMMA BytesConcat ==
  ASSUME NEW cs \in ChunkSeq, NEW ds \in ChunkSeq
  PROVE  Bytes(cs \o ds) = Bytes(cs) \o Bytes(ds) /\ cs \o ds \in ChunkSeq
PROOF
<1>1. PICK es : es = cs \o ds  OBVIOUS
<1>2. PICK m \in Nat, n \in Nat : m = Len(cs) /\ n = Len(ds)
  <2>1. Len(cs) \in Nat /\ Len(ds) \in Nat  BY LenProperties DEF ChunkSeq
  <2>2. QED  BY <2>1
<1>3. /\ es \in ChunkSeq /\ Len(es) = m + n
      /\ \A i \in 1 .. m + n : es[i] = IF i <= m THEN cs[i] ELSE ds[i - m]
  BY <1>1, <1>2, ConcatProperties DEF ChunkSeq
<1>4. PICK tc : tc = [k \in DOMAIN cs |-> cs[k].text]  OBVIOUS
<1>5. PICK td : td = [k \in DOMAIN ds |-> ds[k].text]  OBVIOUS
<1>6. PICK te : te = [k \in DOMAIN es |-> es[k].text]  OBVIOUS
<1>7. tc \in Seq(Seq(Chars)) /\ Len(tc) = m /\ \A k \in 1 .. m : tc[k] = cs[k].text
  BY <1>2, <1>4, TextsAre
<1>8. td \in Seq(Seq(Chars)) /\ Len(td) = n /\ \A k \in 1 .. n : td[k] = ds[k].text
  BY <1>2, <1>5, TextsAre
<1>9. te \in Seq(Seq(Chars)) /\ Len(te) = m + n /\ \A k \in 1 .. m + n : te[k] = es[k].text
  BY <1>3, <1>6, TextsAre
<1>10. /\ tc \o td \in Seq(Seq(Chars)) /\ Len(tc \o td) = m + n
       /\ \A i \in 1 .. m + n : (tc \o td)[i] = IF i <= m THEN tc[i] ELSE td[i - m]
  BY <1>7, <1>8, ConcatProperties
<1>11. PICK u : u = tc \o td  OBVIOUS
<1>12. ASSUME NEW i \in 1 .. m + n PROVE te[i] = u[i]
  <2>1. CASE i <= m
    <3>1. i \in 1 .. m  BY <2>1
    <3>2. QED  BY <1>3, <1>7, <1>9, <1>10, <1>11, <2>1, <3>1
  <2>2. CASE ~(i <= m)
    <3>1. i - m \in 1 .. n  BY <2>2
    <3>2. QED  BY <1>3, <1>8, <1>9, <1>10, <1>11, <2>2, <3>1
  <2>3. QED  BY <2>1, <2>2
<1>13. te = u
  BY <1>9, <1>10, <1>11, <1>12, SeqEqual
<1>14. FlattenSeq(te) = FlattenSeq(tc) \o FlattenSeq(td)
  BY <1>7, <1>8, <1>11, <1>13, FlattenConcat
<1>15. QED  BY <1>1, <1>3, <1>4, <1>5, <1>6, <1>14 DEF Bytes

(***************************************************************************)
(* Escaping: unit by unit.                                                 *)
(***************************************************************************)
Escape == IF conf.backslash THEN Backslash ELSE Qual

Unit(c) == IF c = Qual /\ ~conf.unqualified THEN <<Escape, Qual>> ELSE <<c>>

LEMMA UnitIs ==
  ASSUME NEW v \in Chars
  PROVE  /\ Unit(v) \in Seq(Chars)
         /\ v # Qual \/ conf.unqualified => Unit(v) = <<v>>
         /\ v = Qual /\ ~conf.unqualified /\ ~conf.backslash => Unit(v) = <<Qual, Qual>>
PROOF
<1>1. Escape \in Chars /\ Qual \in Chars
  BY CharsAssumption, WriterAssumption DEF Escape
<1>2. <<Escape, Qual>> \in Seq(Chars) /\ <<v>> \in Seq(Chars)
  BY <1>1
<1>3. QED  BY <1>2 DEF Unit, Escape

LEMMA EscapedGrows ==
  ASSUME NEW s \in Seq(Chars)
  PROVE  \E G : /\ G[0] = <<>> /\ Escaped(s) = G[Len(s)]
                /\ \A i \in 0 .. Len(s) : G[i] \in Seq(Chars)
                /\ \A i \in 1 .. Len(s) : G[i] = G[i - 1] \o Unit(s[i])
PROOF
<1>1. PICK n \in Nat : n = Len(s)
  BY LenProperties
<1>2. DOMAIN s = 1 .. n /\ \A i \in 1 .. n : s[i] \in Chars
  BY <1>1, LenProperties, ElementOfSeq
<1>3. PICK ss : ss = [i \in 1 .. n |-> Unit(s[i])]
  OBVIOUS
<1>4. ss \in [1 .. n -> Seq(Chars)]
  BY <1>2, <1>3, UnitIs
<1>5. ss \in Seq(Seq(Chars)) /\ Len(ss) = n
  BY <1>4, SeqDef
<1>6. Escaped(s) = FlattenSeq(ss)
  BY <1>2, <1>3, Zenon DEF Escaped, Unit, Escape
<1>7. PICK G : /\ Grown(ss, G) /\ FlattenSeq(ss) = G[Len(ss)]
               /\ \A i \in 0 .. Len(ss) : G[i] \in Seq(Chars)
  BY <1>5, FlattenGrows
<1>8. G[0] = <<>> /\ \A i \in 1 .. n : G[i] = G[i - 1] \o Unit(s[i])
  BY <1>3, <1>5, <1>7 DEF Grown
<1>9. QED  BY <1>1, <1>5, <1>6, <1>7, <1>8

LEMMA EscapedTypes ==
  ASSUME NEW C, Qual \in C, Backslash \in C, NEW s \in Seq(C)
  PROVE  Escaped(s) \in Seq(C)
PROOF
<1>1. PICK n \in Nat : n = Len(s)
  BY LenProperties
<1>2. DOMAIN s = 1 .. n /\ \A i \in 1 .. n : s[i] \in C
  BY <1>1, LenProperties, ElementOfSeq
<1>3. PICK ss : ss = [i \in 1 .. n |-> Unit(s[i])]
  OBVIOUS
<1>4. ASSUME NEW i \in 1 .. n PROVE Unit(s[i]) \in Seq(C)
  <2>1. PICK v \in C : v = s[i]  BY <1>2
  <2>2. Escape \in C  BY DEF Escape
  <2>3. <<Escape, Qual>> \in Seq(C) /\ <<v>> \in Seq(C)  BY <2>2
  <2>4. QED  BY <2>1, <2>3 DEF Unit
<1>5. ss \in [1 .. n -> Seq(C)]
  BY <1>3, <1>4
<1>6. ss \in Seq(Seq(C))
  BY <1>5, SeqDef
<1>7. Escaped(s) = FlattenSeq(ss)
  BY <1>2, <1>3, Zenon DEF Escaped, Unit, Escape
<1>8. QED  BY <1>6, <1>7, FlattenTypes

LEMMA EscapedSame ==
  ASSUME NEW s \in Seq(Chars),
         conf.unqualified \/ \A i \in 1 .. Len(s) : s[i] # Qual
  PROVE  Escaped(s) = s
PROOF
<1>1. PICK n \in Nat : n = Len(s)
  BY LenProperties
<1>2. PICK G : /\ G[0] = <<>> /\ Escaped(s) = G[n]
               /\ \A i \in 1 .. n : G[i] = G[i - 1] \o Unit(s[i])
  BY <1>1, EscapedGrows
<1>3. ASSUME NEW i \in 1 .. n PROVE G[i] = G[i - 1] \o <<s[i]>>
  <2>1. s[i] \in Chars /\ (s[i] # Qual \/ conf.unqualified)  BY <1>1, ElementOfSeq
  <2>2. Unit(s[i]) = <<s[i]>>  BY <2>1, UnitIs
  <2>3. QED  BY <1>2, <2>2
<1> DEFINE Alike(i) == G[i] = SubSeq(s, 1, i)
           S == {i \in Nat : i <= n => Alike(i)}
<1>4. Alike(0)
  <2>1. SubSeq(s, 1, 0) = <<>>  BY SubSeqEmpty
  <2>2. QED  BY <1>2, <2>1
<1>5. ASSUME NEW i \in Nat, i + 1 <= n, Alike(i) PROVE Alike(i + 1)
  <2>1. PICK j \in 1 .. n : j = i + 1 /\ j - 1 = i
    <3>1. i + 1 \in 1 .. n /\ (i + 1) - 1 = i  BY <1>5
    <3>2. QED  BY <3>1
  <2>2. SubSeq(s, 1, j) = SubSeq(s, 1, j - 1) \o <<s[j]>>
    <3>1. 1 \in 1 .. Len(s) /\ j \in 1 .. Len(s)  BY <1>1
    <3>2. QED  BY <3>1, SubSeqRecursiveSecond
  <2>3. QED  BY <1>3, <1>5, <2>1, <2>2
<1>6. Nat \subseteq S
  <2> HIDE DEF Alike
  <2>1. 0 \in S  BY <1>4
  <2>2. ASSUME NEW i \in Nat, i \in S PROVE i + 1 \in S
    <3>1. SUFFICES ASSUME i + 1 <= n PROVE Alike(i + 1)  OBVIOUS
    <3>2. i <= n /\ Alike(i)  BY <2>2, <3>1
    <3>3. QED  BY <1>5, <3>1, <3>2
  <2> HIDE DEF S
  <2>3. QED  BY <2>1, <2>2, Induction
<1>7. Alike(n)
  <2> HIDE DEF Alike
  <2>1. n \in S /\ n <= n  BY <1>6
  <2>2. QED  BY <2>1
<1>8. QED  BY <1>1, <1>2, <1>7, SubSeqFull

(* With the qualifier as the escape: they come in pairs, and reading       *)
(* undoes them.                                                            *)
LEMMA EscapedPairs ==
  ASSUME NEW s \in Seq(Chars), ~conf.unqualified, ~conf.backslash
  PROVE  Pairs(Escaped(s), 1, Len(Escaped(s)))
PROOF
<1>1. PICK n \in Nat : n = Len(s)
  BY LenProperties
<1>2. PICK G : /\ G[0] = <<>> /\ Escaped(s) = G[n]
               /\ \A i \in 0 .. n : G[i] \in Seq(Chars)
               /\ \A i \in 1 .. n : G[i] = G[i - 1] \o Unit(s[i])
  BY <1>1, EscapedGrows
<1> DEFINE Paired(i) == Pairs(G[i], 1, Len(G[i]))
           S == {i \in Nat : i <= n => Paired(i)}
<1>3. Paired(0)
  <2>1. Len(G[0]) = 0  BY <1>2, EmptySeq
  <2>2. QED  BY <2>1, PairsEmpty
<1>4. ASSUME NEW i \in Nat, i + 1 <= n, Paired(i) PROVE Paired(i + 1)
  <2>1. i + 1 \in 1 .. n /\ (i + 1) - 1 = i /\ i \in 0 .. n  BY <1>4
  <2>2. PICK g : g = G[i]  OBVIOUS
  <2>3. PICK h : h = G[i + 1]  OBVIOUS
  <2>4. PICK v \in Chars : v = s[i + 1]  BY <1>1, <2>1, ElementOfSeq
  <2>5. PICK u : u = Unit(v)  OBVIOUS
  <2>6. g \in Seq(Chars) /\ u \in Seq(Chars) /\ h = g \o u
    BY <1>2, <2>1, <2>2, <2>3, <2>4, <2>5, UnitIs
  <2>7. PICK m \in Nat : m = Len(g)  BY <2>6, LenProperties
  <2>8. /\ Len(h) = m + Len(u)
        /\ \A k \in 1 .. m + Len(u) : h[k] = IF k <= m THEN g[k] ELSE u[k - m]
    BY <2>6, <2>7, ConcatProperties
  <2>9. Len(u) \in Nat  BY <2>6, LenProperties
  <2>10. Pairs(h, 1, m)
    <3>1. Same(g, h, m)  BY <2>8, <2>9 DEF Same
    <3>2. Pairs(g, 1, m)  BY <1>4, <2>2, <2>7
    <3>3. 1 \in Nat \ {0} /\ m \in Int /\ m <= m  OBVIOUS
    <3>4. QED  BY <3>1, <3>2, <3>3, SamePairs
  <2>11. CASE v = Qual
    <3>1. u = <<Qual, Qual>>  BY <2>5, <2>11, UnitIs
    <3>2. Len(u) = 2 /\ u[1] = Qual /\ u[2] = Qual  BY <3>1
    <3>3. m + 1 \in 1 .. m + 2 /\ m + 2 \in 1 .. m + 2 /\ ~(m + 1 <= m) /\ ~(m + 2 <= m)
          /\ (m + 1) - m = 1 /\ (m + 2) - m = 2
      OBVIOUS
    <3>4. h[m + 1] = Qual /\ h[m + 2] = Qual  BY <2>8, <3>2, <3>3
    <3>5. 1 \in Nat /\ 1 <= m + 1  OBVIOUS
    <3>6. Pairs(h, 1, m + 2)  BY <2>10, <3>4, <3>5, PairsPair
    <3>7. QED  BY <2>3, <2>8, <3>2, <3>6
  <2>12. CASE v # Qual
    <3>1. u = <<v>>  BY <2>5, <2>12, UnitIs
    <3>2. Len(u) = 1 /\ u[1] = v  BY <3>1
    <3>3. m + 1 \in 1 .. m + 1 /\ ~(m + 1 <= m) /\ (m + 1) - m = 1  OBVIOUS
    <3>4. h[m + 1] = v  BY <2>8, <3>2, <3>3
    <3>5. 1 \in Nat /\ 1 <= m + 1  OBVIOUS
    <3>6. Pairs(h, 1, m + 1)  BY <2>10, <2>12, <3>4, <3>5, PairsOther
    <3>7. QED  BY <2>3, <2>8, <3>2, <3>6
  <2>13. QED  BY <2>11, <2>12
<1>5. Nat \subseteq S
  <2> HIDE DEF Paired
  <2>1. 0 \in S  BY <1>3
  <2>2. ASSUME NEW i \in Nat, i \in S PROVE i + 1 \in S
    <3>1. SUFFICES ASSUME i + 1 <= n PROVE Paired(i + 1)  OBVIOUS
    <3>2. i <= n /\ Paired(i)  BY <2>2, <3>1
    <3>3. QED  BY <1>4, <3>1, <3>2
  <2> HIDE DEF S
  <2>3. QED  BY <2>1, <2>2, Induction
<1>6. Paired(n)
  <2> HIDE DEF Paired
  <2>1. n \in S /\ n <= n  BY <1>5
  <2>2. QED  BY <2>1
<1>7. QED  BY <1>2, <1>6

LEMMA HalveEscaped ==
  ASSUME NEW s \in Seq(Chars), ~conf.unqualified, ~conf.backslash
  PROVE  Halve(Escaped(s)) = s
PROOF
<1>1. PICK n \in Nat : n = Len(s)
  BY LenProperties
<1>2. PICK G : /\ G[0] = <<>> /\ Escaped(s) = G[n]
               /\ \A i \in 0 .. n : G[i] \in Seq(Chars)
               /\ \A i \in 1 .. n : G[i] = G[i - 1] \o Unit(s[i])
  BY <1>1, EscapedGrows
<1>3. \A i \in 0 .. n : Len(G[i]) \in Nat
  BY <1>2, LenProperties
(* One character more.                                                     *)
<1>4. ASSUME NEW i \in 1 .. n
      PROVE  LET k == Len(G[i - 1])
                 w == IF s[i] = Qual THEN 2 ELSE 1
             IN  /\ Len(G[i]) = k + w /\ Same(G[i - 1], G[i], k)
                 /\ G[i][k + 1] = s[i] /\ (s[i] = Qual => G[i][k + 2] = Qual)
  <2>1. i - 1 \in 0 .. n /\ i \in 0 .. n  OBVIOUS
  <2>2. PICK g : g = G[i - 1]  OBVIOUS
  <2>3. PICK h : h = G[i]  OBVIOUS
  <2>4. PICK v \in Chars : v = s[i]  BY <1>1, ElementOfSeq
  <2>5. PICK u : u = Unit(v)  OBVIOUS
  <2>6. g \in Seq(Chars) /\ u \in Seq(Chars) /\ h = g \o u
    BY <1>2, <2>1, <2>2, <2>3, <2>4, <2>5, UnitIs
  <2>7. PICK m \in Nat : m = Len(g)  BY <2>6, LenProperties
  <2>8. /\ Len(h) = m + Len(u)
        /\ \A k \in 1 .. m + Len(u) : h[k] = IF k <= m THEN g[k] ELSE u[k - m]
    BY <2>6, <2>7, ConcatProperties
  <2>9. Len(u) \in Nat  BY <2>6, LenProperties
  <2>10. Same(g, h, m)
    BY <2>8, <2>9 DEF Same
  <2>11. CASE v = Qual
    <3>1. u = <<Qual, Qual>>  BY <2>5, <2>11, UnitIs
    <3>2. Len(u) = 2 /\ u[1] = Qual /\ u[2] = Qual  BY <3>1
    <3>3. m + 1 \in 1 .. m + 2 /\ m + 2 \in 1 .. m + 2 /\ ~(m + 1 <= m) /\ ~(m + 2 <= m)
          /\ (m + 1) - m = 1 /\ (m + 2) - m = 2
      OBVIOUS
    <3>4. h[m + 1] = Qual /\ h[m + 2] = Qual  BY <2>8, <3>2, <3>3
    <3>5. QED  BY <2>2, <2>3, <2>4, <2>7, <2>8, <2>10, <2>11, <3>2, <3>4
  <2>12. CASE v # Qual
    <3>1. u = <<v>>  BY <2>5, <2>12, UnitIs
    <3>2. Len(u) = 1 /\ u[1] = v  BY <3>1
    <3>3. m + 1 \in 1 .. m + 1 /\ ~(m + 1 <= m) /\ (m + 1) - m = 1  OBVIOUS
    <3>4. h[m + 1] = v  BY <2>8, <3>2, <3>3
    <3>5. QED  BY <2>2, <2>3, <2>4, <2>7, <2>8, <2>10, <2>12, <3>2, <3>4
  <2>13. QED  BY <2>11, <2>12
(* All that is made is the beginning of the whole.                         *)
<1>5. PICK E : E = G[n]  OBVIOUS
<1>6. PICK N \in Nat : N = Len(E)  BY <1>3, <1>5
<1> DEFINE Begins(i) == Len(G[i]) <= N /\ Same(G[i], E, Len(G[i]))
           B == {j \in Nat : j <= n => Begins(n - j)}
<1>7. Begins(n)
  BY <1>5, <1>6 DEF Same
<1>8. ASSUME NEW i \in 1 .. n, Begins(i) PROVE Begins(i - 1)
  <2>1. PICK k \in Nat : k = Len(G[i - 1])
    <3>1. i - 1 \in 0 .. n  OBVIOUS
    <3>2. QED  BY <1>3, <3>1
  <2>2. PICK l \in Nat : l = Len(G[i])
    <3>1. i \in 0 .. n  OBVIOUS
    <3>2. QED  BY <1>3, <3>1
  <2>3. k <= l /\ Same(G[i - 1], G[i], k)
    <3>1. PICK w \in {1, 2} : Len(G[i]) = k + w  BY <1>4, <2>1
    <3>2. Same(G[i - 1], G[i], k)  BY <1>4, <2>1
    <3>3. QED  BY <2>2, <3>1, <3>2
  <2>4. l <= N /\ Same(G[i], E, l)
    BY <1>8, <2>2
  <2>5. Same(G[i - 1], E, k)
    <3>1. \A j \in 1 .. k : j \in 1 .. l  BY <2>3
    <3>2. QED  BY <2>3, <2>4, <3>1 DEF Same
  <2>6. QED  BY <2>1, <2>3, <2>4, <2>5
<1>9. \A i \in 0 .. n : Begins(i)
  <2> HIDE DEF Begins
  <2>1. 0 \in B
    <3>1. n - 0 = n  OBVIOUS
    <3>2. QED  BY <1>7, <3>1
  <2>2. ASSUME NEW j \in Nat, j \in B PROVE j + 1 \in B
    <3>1. SUFFICES ASSUME j + 1 <= n PROVE Begins(n - (j + 1))  OBVIOUS
    <3>2. j <= n /\ n - j \in 1 .. n /\ (n - j) - 1 = n - (j + 1)  BY <3>1
    <3>3. Begins(n - j)  BY <2>2, <3>2
    <3>4. QED  BY <1>8, <3>2, <3>3
  <2>3. Nat \subseteq B
    <3> HIDE DEF B
    <3>1. QED  BY <2>1, <2>2, Induction
  <2>4. ASSUME NEW i \in 0 .. n PROVE Begins(i)
    <3>1. n - i \in Nat /\ n - i <= n /\ n - (n - i) = i  OBVIOUS
    <3>2. QED  BY <2>3, <3>1
  <2>5. QED  BY <2>4
<1> HIDE DEF B
(* Reading undoes it, from the end.                                        *)
<1>10. PICK H : H = Halved(E)  OBVIOUS
<1>11. H[0] = <<>> /\ \A k \in 1 .. N : H[k] = HalfNext(E, k, H[k - 1], H[k - 2])
  BY <1>6, <1>10, HalvedIs
<1> DEFINE Undone(i) == H[N - Len(G[i])] = SubSeq(s, i + 1, n)
           U == {j \in Nat : j <= n => Undone(n - j)}
<1>12. Undone(n)
  <2>1. N - Len(G[n]) = 0  BY <1>5, <1>6
  <2>2. SubSeq(s, n + 1, n) = <<>>  BY SubSeqEmpty
  <2>3. QED  BY <1>11, <2>1, <2>2
<1>13. ASSUME NEW i \in 1 .. n, Undone(i) PROVE Undone(i - 1)
  <2>0. i - 1 \in 0 .. n /\ i \in 0 .. n  OBVIOUS
  <2>1. PICK k \in Nat : k = Len(G[i - 1])  BY <1>3, <2>0
  <2>2. PICK l \in Nat : l = Len(G[i])  BY <1>3, <2>0
  <2>3. PICK v : v = s[i]  OBVIOUS
  <2>4. /\ l = k + (IF v = Qual THEN 2 ELSE 1)
        /\ G[i][k + 1] = v /\ (v = Qual => G[i][k + 2] = Qual)
    BY <1>4, <2>1, <2>2, <2>3
  <2>5. l <= N /\ Same(G[i], E, l)
    BY <1>9, <2>0, <2>2
  <2>6. E[k + 1] = v /\ (v = Qual => E[k + 2] = Qual)
    <3>1. k + 1 \in 1 .. l /\ (v = Qual => k + 2 \in 1 .. l)  BY <2>4
    <3>2. QED  BY <2>4, <2>5, <3>1 DEF Same
  <2>7. PICK m \in Nat : m = N - k
    <3>1. N - k \in Nat  BY <2>4, <2>5
    <3>2. QED  BY <3>1
  <2>8. /\ m \in 1 .. N /\ N - m + 1 = k + 1 /\ N - m + 1 + 1 = k + 2
        /\ N - l = m - (IF v = Qual THEN 2 ELSE 1) /\ (v = Qual => m > 1)
    BY <2>4, <2>5, <2>7
  <2>9. H[m] = <<v>> \o H[N - l]
    <3>1. H[m] = HalfNext(E, m, H[m - 1], H[m - 2])  BY <1>11, <2>8
    <3>2. CASE v = Qual
      <4>1. HalfNext(E, m, H[m - 1], H[m - 2]) = <<Qual>> \o H[m - 2]
        BY <1>6, <2>6, <2>8, <3>2 DEF HalfNext
      <4>2. N - l = m - 2  BY <2>8, <3>2
      <4>3. QED  BY <3>1, <3>2, <4>1, <4>2
    <3>3. CASE v # Qual
      <4>1. HalfNext(E, m, H[m - 1], H[m - 2]) = <<v>> \o H[m - 1]
        BY <1>6, <2>6, <2>8, <3>3 DEF HalfNext
      <4>2. N - l = m - 1  BY <2>8, <3>3
      <4>3. QED  BY <3>1, <4>1, <4>2
    <3>4. QED  BY <3>2, <3>3
  <2>10. H[N - l] = SubSeq(s, i + 1, n)
    BY <1>13, <2>2
  <2>11. SubSeq(s, i, n) = <<s[i]>> \o SubSeq(s, i + 1, n)
    <3>1. i \in 1 .. Len(s) /\ n \in i .. Len(s)  BY <1>1
    <3>2. QED  BY <3>1, SubSeqRecursiveFirst
  <2>12. (i - 1) + 1 = i  OBVIOUS
  <2>13. QED  BY <2>1, <2>3, <2>7, <2>9, <2>10, <2>11, <2>12
<1>14. Undone(0)
  <2> HIDE DEF Undone
  <2>1. 0 \in U
    <3>1. n - 0 = n  OBVIOUS
    <3>2. QED  BY <1>12, <3>1
  <2>2. ASSUME NEW j \in Nat, j \in U PROVE j + 1 \in U
    <3>1. SUFFICES ASSUME j + 1 <= n PROVE Undone(n - (j + 1))  OBVIOUS
    <3>2. j <= n /\ n - j \in 1 .. n /\ (n - j) - 1 = n - (j + 1)  BY <3>1
    <3>3. Undone(n - j)  BY <2>2, <3>2
    <3>4. QED  BY <1>13, <3>2, <3>3
  <2>3. Nat \subseteq U
    <3> HIDE DEF U
    <3>1. QED  BY <2>1, <2>2, Induction
  <2>4. n \in Nat /\ n <= n /\ n - n = 0  OBVIOUS
  <2>5. QED  BY <2>3, <2>4
<1>15. H[N] = s
  <2>1. Len(G[0]) = 0 /\ N - 0 = N /\ 0 + 1 = 1  BY <1>2, EmptySeq
  <2>2. SubSeq(s, 1, n) = s  BY <1>1, SubSeqFull
  <2>3. QED  BY <1>14, <2>1, <2>2
<1>16. QED  BY <1>2, <1>5, <1>6, <1>10, <1>15 DEF Halve

(* Min and Max are what they say, of numbers.                              *)
LEMMA MinIn ==
  ASSUME NEW S, S \subseteq Nat, S # {}
  PROVE  Min(S) \in S
PROOF
<1>1. \E x \in S : \A y \in S : x <= y  BY LeastNumber
<1>2. QED  BY <1>1 DEF Min

LEMMA MaxIn ==
  ASSUME NEW n \in Nat, NEW S, S \subseteq 0 .. n, S # {}
  PROVE  Max(S) \in S
PROOF
<1>0. \A y \in S : y \in Nat /\ n - y \in Nat
  <2>1. \A y \in 0 .. n : y \in Nat /\ n - y \in Nat  OBVIOUS
  <2>2. QED  BY <2>1
<1> DEFINE T == {n - y : y \in S}
<1>1. T \subseteq Nat /\ T # {}
  BY <1>0
<1>2. PICK z \in T : \A y \in T : z <= y
  <2> HIDE DEF T
  <2>1. QED  BY <1>1, LeastNumber
<1>3. PICK x \in S : z = n - x  BY <1>2
<1>4. ASSUME NEW y \in S PROVE x >= y
  <2>1. n - y \in T  OBVIOUS
  <2>2. n - x <= n - y  BY <1>2, <1>3, <2>1
  <2>3. x \in Nat /\ y \in Nat  BY <1>0
  <2>4. QED  BY <2>2, <2>3
<1>5. \E w \in S : \A y \in S : w >= y
  BY <1>4
<1>6. QED  BY <1>5 DEF Max

(***************************************************************************)
(* What is written of a value.                                             *)
(***************************************************************************)
Trimming == {"eInvalid", "eAll", "eHead", "eTail", "eNull"}

LEMMA StrippedTypes ==
  ASSUME NEW s \in Seq(Chars), NEW head, NEW tail
  PROVE  Stripped(s, head, tail) \in Seq(Chars)
PROOF
<1>1. PICK n \in Nat : n = Len(s)
  BY LenProperties
<1>2. DOMAIN s = 1 .. n
  BY <1>1, LenProperties
<1>3. PICK text : text = {i \in DOMAIN s : ~IsSpace(s[i])}
  OBVIOUS
<1>4. CASE text = {}
  <2>1. Stripped(s, head, tail) = <<>>  BY <1>3, <1>4 DEF Stripped
  <2>2. QED  BY <2>1, EmptySeq
<1>5. CASE text # {}
  <2>1. text \subseteq Nat /\ text \subseteq 0 .. n /\ text \subseteq 1 .. n
    BY <1>2, <1>3
  <2>2. Min(text) \in 1 .. n /\ Max(text) \in 1 .. n
    BY <1>5, <2>1, MinIn, MaxIn
  <2>3. PICK a \in Nat, b \in Int :
          /\ a = IF head THEN Min(text) ELSE 1
          /\ b = IF tail THEN Max(text) ELSE Len(s)
          /\ 1 <= a /\ b <= n
    <3>1. (IF head THEN Min(text) ELSE 1) \in Nat /\ 1 <= (IF head THEN Min(text) ELSE 1)
      BY <2>2
    <3>2. (IF tail THEN Max(text) ELSE Len(s)) \in Int
          /\ (IF tail THEN Max(text) ELSE Len(s)) <= n
      BY <1>1, <2>2
    <3>3. QED  BY <3>1, <3>2
  <2>4. Stripped(s, head, tail) = SubSeq(s, a, b)
    BY <1>3, <1>5, <2>3, Zenon DEF Stripped
  <2>5. QED  BY <1>1, <2>3, <2>4, PartOf
<1>6. QED  BY <1>4, <1>5

LEMMA TrimmedTypes ==
  ASSUME mTrimCondition \in Trimming, NEW v \in Seq(Chars) \cup {Null}
  PROVE  Trimmed(v) \in Seq(Chars) \cup {Null}
PROOF
<1>1. CASE v = Null
  BY <1>1 DEF Trimmed
<1>2. CASE v # Null
  <2>0. v \in Seq(Chars)  BY <1>2
  <2>1. CASE mTrimCondition = "eInvalid"
    <3>1. Trimmed(v) = v  BY <1>2, <2>1 DEF Trimmed
    <3>2. QED  BY <3>1
  <2>2. CASE mTrimCondition = "eAll"
    <3>1. PICK n \in Nat : n = Len(v)  BY <2>0, LenProperties
    <3>2. DOMAIN v = 1 .. n /\ \A i \in 1 .. n : v[i] \in Chars
      BY <2>0, <3>1, LenProperties, ElementOfSeq
    <3>3. PICK ss : ss = [i \in DOMAIN v |-> IF IsSpace(v[i]) THEN <<>> ELSE <<v[i]>>]
      OBVIOUS
    <3>4. ASSUME NEW i \in 1 .. n
          PROVE  (IF IsSpace(v[i]) THEN <<>> ELSE <<v[i]>>) \in Seq(Chars)
      BY <3>2
    <3>5. ss \in [1 .. n -> Seq(Chars)]
      BY <3>2, <3>3, <3>4
    <3>6. ss \in Seq(Seq(Chars))
      BY <3>5, SeqDef
    <3>7. Trimmed(v) = FlattenSeq(ss)
      BY <1>2, <2>2, <3>3 DEF Trimmed
    <3>8. QED  BY <3>6, <3>7, FlattenTypes
  <2>3. CASE mTrimCondition = "eHead"
    <3>1. Trimmed(v) = Stripped(v, TRUE, FALSE)  BY <1>2, <2>3 DEF Trimmed
    <3>2. QED  BY <2>0, <3>1, StrippedTypes
  <2>4. CASE mTrimCondition = "eTail"
    <3>1. Trimmed(v) = Stripped(v, FALSE, TRUE)  BY <1>2, <2>4 DEF Trimmed
    <3>2. QED  BY <2>0, <3>1, StrippedTypes
  <2>5. CASE mTrimCondition = "eNull"
    <3>1. PICK s : s = Stripped(v, FALSE, TRUE)  OBVIOUS
    <3>2. Trimmed(v) = IF s = <<>> THEN Null ELSE s  BY <1>2, <2>5, <3>1 DEF Trimmed
    <3>3. s \in Seq(Chars)  BY <2>0, <3>1, StrippedTypes
    <3>4. QED  BY <3>2, <3>3
  <2>6. QED  BY <2>1, <2>2, <2>3, <2>4, <2>5 DEF Trimming
<1>3. QED  BY <1>1, <1>2

(* Written(v): the text of a field, between delimiters.                    *)
Written(v) ==
  IF v = Null THEN <<>>
  ELSE IF conf.unqualified THEN Escaped(v)
  ELSE (<<Qual>> \o Escaped(v)) \o <<Qual>>

LEMMA WrittenTypes ==
  ASSUME NEW C, Qual \in C, Backslash \in C, NEW v \in Seq(C) \cup {Null}
  PROVE  Written(v) \in Seq(C)
PROOF
<1>1. CASE v = Null
  BY <1>1, EmptySeq DEF Written
<1>2. CASE v # Null
  <2>1. PICK e \in Seq(C) : e = Escaped(v)
    BY <1>2, EscapedTypes
  <2>2. PICK q \in Seq(C) : q = <<Qual>>
    <3>1. <<Qual>> \in Seq(C)  OBVIOUS
    <3>2. QED  BY <3>1
  <2>3. (q \o e) \o q \in Seq(C)
    BY ConcatProperties
  <2>4. QED  BY <1>2, <2>1, <2>2, <2>3 DEF Written
<1>3. QED  BY <1>1, <1>2

LEMMA NotInRange ==
  ASSUME NEW v \in Seq(Chars), NEW x, x \notin Range(v)
  PROVE  /\ \A i \in 1 .. Len(v) : v[i] # x
         /\ v \in Seq(Chars \ {x})
PROOF
<1>1. PICK n \in Nat : n = Len(v)
  BY LenProperties
<1>2. DOMAIN v = 1 .. n /\ \A i \in 1 .. n : v[i] \in Chars
  BY <1>1, LenProperties, ElementOfSeq
<1>3. \A i \in 1 .. n : v[i] # x
  BY <1>2 DEF Range
<1>4. v \in [1 .. n -> Chars]
  BY <1>1, LenProperties
<1>5. v \in [1 .. n -> Chars \ {x}]
  BY <1>2, <1>3, <1>4
<1>6. v \in Seq(Chars \ {x})
  BY <1>5, SeqDef
<1>7. QED  BY <1>1, <1>3, <1>6

(* With qualifiers around it: what is between them is the escaped value.   *)
LEMMA AroundIs ==
  ASSUME NEW e \in Seq(Chars), NEW w, w = (<<Qual>> \o e) \o <<Qual>>
  PROVE  /\ w \in Seq(Chars) /\ Len(w) = Len(e) + 2
         /\ w[1] = Qual /\ w[Len(w)] = Qual /\ Inner(w) = e
PROOF
<1>1. PICK n \in Nat : n = Len(e)
  BY LenProperties
<1>2. PICK q : q = <<Qual>>
  OBVIOUS
<1>3. q \in Seq(Chars) /\ Len(q) = 1 /\ q[1] = Qual
  BY <1>2, CharsAssumption
<1>4. PICK u : u = q \o e
  OBVIOUS
<1>5. /\ u \in Seq(Chars) /\ Len(u) = 1 + n
      /\ \A i \in 1 .. 1 + n : u[i] = IF i <= 1 THEN q[i] ELSE e[i - 1]
  <2>1. /\ u \in Seq(Chars) /\ Len(u) = Len(q) + Len(e)
        /\ \A i \in 1 .. Len(q) + Len(e) : u[i] = IF i <= Len(q) THEN q[i] ELSE e[i - Len(q)]
    BY <1>3, <1>4, ConcatProperties
  <2>2. QED  BY <1>1, <1>3, <2>1
<1>6. w = u \o q
  BY <1>2, <1>4
<1>7. /\ w \in Seq(Chars) /\ Len(w) = 1 + n + 1
      /\ \A i \in 1 .. 1 + n + 1 : w[i] = IF i <= 1 + n THEN u[i] ELSE q[i - (1 + n)]
  <2>1. PICK x : x = u \o q  OBVIOUS
  <2>2. u \in Seq(Chars) /\ q \in Seq(Chars)  BY <1>3, <1>5
  <2>3. /\ x \in Seq(Chars) /\ Len(x) = Len(u) + Len(q)
        /\ \A i \in 1 .. Len(u) + Len(q) : x[i] = IF i <= Len(u) THEN u[i] ELSE q[i - Len(u)]
    BY <2>1, <2>2, ConcatProperties
  <2>4. x = w  BY <1>6, <2>1
  <2>5. QED  BY <1>3, <1>5, <2>3, <2>4
<1>8. w[1] = Qual
  <2>1. 1 \in 1 .. 1 + n + 1 /\ 1 \in 1 .. 1 + n /\ 1 <= 1 + n  OBVIOUS
  <2>2. QED  BY <1>3, <1>5, <1>7, <2>1
<1>9. w[Len(w)] = Qual
  <2>1. 1 + n + 1 \in 1 .. 1 + n + 1 /\ ~(1 + n + 1 <= 1 + n) /\ 1 + n + 1 - (1 + n) = 1  OBVIOUS
  <2>2. QED  BY <1>3, <1>7, <2>1
<1>10. PICK t : t = SubSeq(w, 2, n + 1)
  OBVIOUS
<1>11. /\ t \in Seq(Chars) /\ Len(t) = (IF 2 <= n + 1 THEN n + 1 - 2 + 1 ELSE 0)
       /\ \A i \in 1 .. n + 1 - 2 + 1 : t[i] = w[2 + i - 1]
  <2>1. 2 \in Nat /\ n + 1 \in Int /\ 1 <= 2 /\ n + 1 <= Len(w)  BY <1>7
  <2>2. QED  BY <1>7, <1>10, <2>1, PartOf
<1>12. Len(t) = n
  BY <1>11
<1>13. ASSUME NEW i \in 1 .. n PROVE t[i] = e[i]
  <2>1. /\ i \in 1 .. n + 1 - 2 + 1 /\ 2 + i - 1 = i + 1 /\ i + 1 \in 1 .. 1 + n
        /\ i + 1 \in 1 .. 1 + n + 1 /\ i + 1 <= 1 + n /\ ~(i + 1 <= 1) /\ (i + 1) - 1 = i
    OBVIOUS
  <2>2. QED  BY <1>5, <1>7, <1>11, <2>1
<1>14. t = e
  BY <1>1, <1>11, <1>12, <1>13, SeqEqual
<1>15. Len(w) - 1 = n + 1 /\ Len(w) = Len(e) + 2
  BY <1>1, <1>7
<1>16. QED  BY <1>7, <1>8, <1>9, <1>10, <1>14, <1>15 DEF Inner

(* What is written of a readable value is a field, and reads as the value. *)
LEMMA ReadsBack ==
  ASSUME ConfOK, conf.unqualified \in BOOLEAN, NEW v \in Seq(Chars) \cup {Null}, Readable(v)
  PROVE  /\ PlainField(Written(v)) \/ (Width = 1 /\ QualifiedField(Written(v)))
         /\ ValueOf(Written(v)) = IF v = <<>> THEN Null ELSE v
         /\ Written(v) \in Seq(Chars \ {Nul})
PROOF
<1>1. CASE v = Null
  <2>1. Written(v) = <<>>  BY <1>1 DEF Written
  <2>2. PlainField(<<>>)  BY DEF PlainField
  <2>3. ~QualifiedField(<<>>)  BY DEF QualifiedField
  <2>4. ValueOf(<<>>) = Null  BY <2>3 DEF ValueOf
  <2>5. QED  BY <1>1, <2>1, <2>2, <2>4, EmptySeq
<1>2. CASE v # Null /\ conf.unqualified
  <2>1. v \in Seq(Chars) /\ Nul \notin Range(v) /\ PlainField(v)
    BY <1>2 DEF Readable
  <2>2. Written(v) = v
    <3>1. Escaped(v) = v  BY <1>2, <2>1, EscapedSame
    <3>2. QED  BY <1>2, <3>1 DEF Written
  <2>3. ValueOf(v) = IF v = <<>> THEN Null ELSE v
    BY <1>2 DEF ValueOf, QualifiedField
  <2>4. QED  BY <2>1, <2>2, <2>3, NotInRange
<1>3. CASE v # Null /\ ~conf.unqualified
  <2>1. v \in Seq(Chars) /\ Nul \notin Range(v) /\ Width = 1
        /\ (conf.backslash => Qual \notin Range(v))
    BY <1>3 DEF Readable
  <2>2. PICK e : e = Escaped(v)  OBVIOUS
  <2>3. PICK w : w = Written(v)  OBVIOUS
  <2>4. w = (<<Qual>> \o e) \o <<Qual>>
    BY <1>3, <2>2, <2>3 DEF Written
  <2>5. /\ Pairs(e, 1, Len(e)) /\ e \in Seq(Chars)
        /\ (IF conf.backslash THEN e ELSE Halve(e)) = v
    <3>1. CASE conf.backslash
      <4>1. \A i \in 1 .. Len(v) : v[i] # Qual  BY <2>1, <3>1, NotInRange
      <4>2. e = v  BY <2>1, <2>2, <4>1, EscapedSame
      <4>3. Pairs(e, 1, Len(e))
        <5>1. \A i, j \in 1 .. Len(e) : ~Alone(e, 1, Len(e), i, j)
          BY <4>1, <4>2 DEF Alone
        <5>2. QED  BY <5>1 DEF Pairs
      <4>4. QED  BY <2>1, <3>1, <4>2, <4>3
    <3>2. CASE ~conf.backslash
      <4>1. Halve(e) = v  BY <1>3, <2>1, <2>2, <3>2, HalveEscaped
      <4>2. Pairs(e, 1, Len(e))  BY <1>3, <2>1, <2>2, <3>2, EscapedPairs
      <4>3. Qual \in Chars /\ Backslash \in Chars  BY CharsAssumption, WriterAssumption
      <4>4. e \in Seq(Chars)  BY <2>1, <2>2, <4>3, EscapedTypes
      <4>5. QED  BY <3>2, <4>1, <4>2, <4>4
    <3>3. QED  BY <3>1, <3>2
  <2>6. /\ w \in Seq(Chars) /\ Len(w) = Len(e) + 2
        /\ w[1] = Qual /\ w[Len(w)] = Qual /\ Inner(w) = e
    BY <2>4, <2>5, AroundIs
  <2>7. QualifiedField(w)
    <3>1. Len(w) >= 2
      <4>1. Len(e) \in Nat  BY <2>5, LenProperties
      <4>2. QED  BY <2>6, <4>1
    <3>2. InPairs(e)  BY <2>5, InPairsIs
    <3>3. QED  BY <1>3, <2>6, <3>1, <3>2 DEF QualifiedField
  <2>8. ValueOf(w) = IF v = <<>> THEN Null ELSE v
    BY <2>5, <2>6, <2>7 DEF ValueOf
  <2>9. w \in Seq(Chars \ {Nul})
    <3>1. v \in Seq(Chars \ {Nul})  BY <2>1, NotInRange
    <3>2. Qual \in Chars \ {Nul} /\ Backslash \in Chars \ {Nul}
      BY CharsAssumption, WriterAssumption
    <3>3. QED  BY <2>3, <3>1, <3>2, WrittenTypes
  <2>10. QED  BY <2>1, <2>3, <2>7, <2>8, <2>9
<1>4. QED  BY <1>1, <1>2, <1>3

(***************************************************************************)
(* What setFieldValue() adds to the record.                                *)
(***************************************************************************)
Before(i) == IF i # 0 THEN conf.delim ELSE <<>>
After(i)  == IF i = FieldsNum - 1 THEN RowDelimiter ELSE <<>>

LEMMA AroundTypes ==
  ASSUME ConfOK, NEW i
  PROVE  /\ Before(i) \in Seq(Chars \ {Nul}) /\ After(i) \in Seq(Chars \ {Nul})
         /\ RowDelimiter \in Seq(Chars \ {Nul}) /\ conf.delim \in Seq(Chars \ {Nul})
PROOF
<1>1. conf.delim \in Seq(Chars \ {Nul})
  BY SeqMonotonic DEF ConfOK
<1>2. RowDelimiter \in Seq(Chars \ {Nul})
  <2>1. CR \in Chars \ {Nul} /\ LF \in Chars \ {Nul}  BY CharsAssumption
  <2>2. <<CR, LF>> \in Seq(Chars \ {Nul}) /\ <<LF>> \in Seq(Chars \ {Nul})  BY <2>1
  <2>3. QED  BY <2>2 DEF RowDelimiter
<1>3. QED  BY <1>1, <1>2, EmptySeq DEF Before, After

LEMMA WithNul ==
  ASSUME NEW s \in Seq(Chars \ {Nul})
  PROVE  s \in Seq(Chars)
BY SeqMonotonic

LEMMA ChunksAre ==
  ASSUME ConfOK, NEW i \in Fields, NEW v \in Seq(Chars) \cup {Null}
  PROVE  /\ Chunks(i, v) \in ChunkSeq
         /\ Bytes(Chunks(i, v)) = (Before(i) \o Written(v)) \o After(i)
PROOF
<1>0. <<>> \in ChunkSeq /\ Bytes(<<>>) = <<>>
  BY EmptySeq, BytesEmpty DEF ChunkSeq
<1>1. PICK A : A = IF i # 0 THEN <<Chunk(conf.delim, 1)>> ELSE <<>>
  OBVIOUS
<1>2. PICK B : B = IF v = Null THEN <<>>
                   ELSE (Qualifier \o <<Whole(Escaped(v))>>) \o Qualifier
  OBVIOUS
<1>3. PICK D : D = IF i = FieldsNum - 1 THEN <<Whole(RowDelimiter)>> ELSE <<>>
  OBVIOUS
<1>4. A \in ChunkSeq /\ Bytes(A) = Before(i)
  <2>1. conf.delim \in Seq(Chars) /\ 1 \in Nat  BY AroundTypes, WithNul
  <2>2. Bytes(<<Chunk(conf.delim, 1)>>) = conf.delim /\ <<Chunk(conf.delim, 1)>> \in ChunkSeq
    BY <2>1, BytesOne
  <2>3. QED  BY <1>0, <1>1, <2>2 DEF Before
<1>5. D \in ChunkSeq /\ Bytes(D) = After(i)
  <2>1. RowDelimiter \in Seq(Chars)  BY AroundTypes, WithNul
  <2>2. Len(RowDelimiter) \in Nat  BY <2>1, LenProperties
  <2>3. Bytes(<<Whole(RowDelimiter)>>) = RowDelimiter /\ <<Whole(RowDelimiter)>> \in ChunkSeq
    BY <2>1, <2>2, BytesOne DEF Whole
  <2>4. QED  BY <1>0, <1>3, <2>3 DEF After
<1>6. B \in ChunkSeq /\ Bytes(B) = Written(v)
  <2>1. CASE v = Null
    BY <1>0, <1>2, <2>1 DEF Written
  <2>2. CASE v # Null
    <3>1. PICK e \in Seq(Chars) : e = Escaped(v)
      BY <2>2, EscapedTypes, CharsAssumption, WriterAssumption
    <3>2. PICK X : X = <<Whole(e)>>  OBVIOUS
    <3>3. X \in ChunkSeq /\ Bytes(X) = e
      <4>1. Len(e) \in Nat  BY LenProperties
      <4>2. QED  BY <3>2, <4>1, BytesOne DEF Whole
    <3>4. PICK Q : Q = Qualifier  OBVIOUS
    <3>5. Q \in ChunkSeq /\ Bytes(Q) = IF conf.unqualified THEN <<>> ELSE <<Qual>>
      <4>1. <<Qual>> \in Seq(Chars) /\ Len(<<Qual>>) \in Nat  BY CharsAssumption
      <4>2. Bytes(<<Whole(<<Qual>>)>>) = <<Qual>> /\ <<Whole(<<Qual>>)>> \in ChunkSeq
        BY <4>1, BytesOne DEF Whole
      <4>3. QED  BY <1>0, <3>4, <4>2 DEF Qualifier
    <3>6. Q \o X \in ChunkSeq /\ Bytes(Q \o X) = Bytes(Q) \o e
      BY <3>3, <3>5, BytesConcat
    <3>7. (Q \o X) \o Q \in ChunkSeq /\ Bytes((Q \o X) \o Q) = (Bytes(Q) \o e) \o Bytes(Q)
      <4>1. PICK Y : Y = Q \o X  OBVIOUS
      <4>2. Y \o Q \in ChunkSeq /\ Bytes(Y \o Q) = Bytes(Y) \o Bytes(Q)
        BY <3>5, <3>6, <4>1, BytesConcat
      <4>3. QED  BY <3>6, <4>1, <4>2
    <3>8. B = (Q \o X) \o Q  BY <1>2, <2>2, <3>1, <3>2, <3>4
    <3>9. CASE conf.unqualified
      <4>1. (<<>> \o e) \o <<>> = e  BY ConcatEmptySeq
      <4>2. QED  BY <2>2, <3>1, <3>5, <3>7, <3>8, <3>9, <4>1 DEF Written
    <3>10. CASE ~conf.unqualified
      BY <2>2, <3>1, <3>5, <3>7, <3>8, <3>10 DEF Written
    <3>11. QED  BY <3>9, <3>10
  <2>3. QED  BY <2>1, <2>2
<1>7. Chunks(i, v) = (A \o B) \o D
  BY <1>1, <1>2, <1>3, Zenon DEF Chunks
<1>8. A \o B \in ChunkSeq /\ Bytes(A \o B) = Before(i) \o Written(v)
  BY <1>4, <1>6, BytesConcat
<1>9. PICK Y : Y = A \o B  OBVIOUS
<1>10. Y \o D \in ChunkSeq /\ Bytes(Y \o D) = Bytes(Y) \o Bytes(D)
  BY <1>5, <1>8, <1>9, BytesConcat
<1>11. QED  BY <1>5, <1>7, <1>8, <1>9, <1>10

LEMMA FittingTypes ==
  ASSUME NEW cs \in ChunkSeq, NEW n
  PROVE  Fitting(cs, n) \in ChunkSeq
PROOF
<1>1. PICK m \in Nat : m = Len(cs)
  BY LenProperties DEF ChunkSeq
<1>2. PICK S : S = {k \in 0 .. Len(cs) : \A j \in 1 .. k : Fits(cs, n, j)}
  OBVIOUS
<1>3. S \subseteq 0 .. m /\ 0 \in S
  BY <1>1, <1>2
<1>4. PICK k \in 0 .. m : k = Max(S)
  BY <1>3, MaxIn
<1>5. SubSeq(cs, 1, k) \in ChunkSeq
  <2>1. 1 \in Nat /\ k \in Int /\ 1 <= 1 /\ k <= Len(cs)  BY <1>1
  <2>2. QED  BY <2>1, PartOf DEF ChunkSeq
<1>6. QED  BY <1>2, <1>4, <1>5 DEF Fitting

(***************************************************************************)
(* What fits stays in the memory, if no chunk is longer than what is asked *)
(* for it.                                                                 *)
(***************************************************************************)
Bounded(cs) == \A j \in 1 .. Len(cs) : Len(cs[j].text) <= cs[j].room + 1

LEMMA WithLast ==
  ASSUME NEW C, NEW s \in Seq(C), NEW k \in 1 .. Len(s)
  PROVE  SubSeq(s, 1, k) = SubSeq(s, 1, k - 1) \o <<s[k]>>
PROOF
<1>0. Len(s) \in Nat  BY LenProperties
<1>1. PICK t : t = SubSeq(s, 1, k)  OBVIOUS
<1>2. t \in Seq(C) /\ Len(t) = k /\ \A j \in 1 .. k : t[j] = s[j]
  <2>1. 1 \in Nat /\ k \in Int /\ 1 <= 1 /\ k <= Len(s)  BY <1>0
  <2>2. /\ t \in Seq(C) /\ Len(t) = (IF 1 <= k THEN k - 1 + 1 ELSE 0)
        /\ \A j \in 1 .. k - 1 + 1 : t[j] = s[1 + j - 1]
    BY <1>1, <2>1, PartOf
  <2>3. QED  BY <1>0, <2>2
<1>3. PICK u : u = SubSeq(s, 1, k - 1)  OBVIOUS
<1>4. u \in Seq(C) /\ Len(u) = k - 1 /\ \A j \in 1 .. k - 1 : u[j] = s[j]
  <2>1. 1 \in Nat /\ k - 1 \in Int /\ 1 <= 1 /\ k - 1 <= Len(s)  BY <1>0
  <2>2. /\ u \in Seq(C) /\ Len(u) = (IF 1 <= k - 1 THEN k - 1 - 1 + 1 ELSE 0)
        /\ \A j \in 1 .. k - 1 - 1 + 1 : u[j] = s[1 + j - 1]
    BY <1>3, <2>1, PartOf
  <2>3. QED  BY <1>0, <2>2
<1>5. s[k] \in C  BY ElementOfSeq
<1>6. PICK e : e = s[k]  OBVIOUS
<1>7. PICK w : w = u \o <<e>>  OBVIOUS
<1>8. w \in Seq(C) /\ Len(w) = k /\ \A j \in 1 .. k : w[j] = IF j <= k - 1 THEN u[j] ELSE e
  BY <1>0, <1>4, <1>5, <1>6, <1>7
<1>9. \A j \in 1 .. k : t[j] = w[j]
  BY <1>0, <1>2, <1>4, <1>6, <1>8
<1>10. t = w
  BY <1>2, <1>8, <1>9, SeqEqual
<1>11. QED  BY <1>1, <1>3, <1>6, <1>7, <1>10

LEMMA FittingStays ==
  ASSUME NEW cs \in ChunkSeq, Bounded(cs), NEW n \in Nat, mMemLen \in Nat, n <= mMemLen
  PROVE  n + Len(Bytes(Fitting(cs, n))) <= mMemLen
PROOF
<1>1. PICK m \in Nat : m = Len(cs)
  BY LenProperties DEF ChunkSeq
<1>2. PICK S : S = {k \in 0 .. Len(cs) : \A j \in 1 .. k : Fits(cs, n, j)}
  OBVIOUS
<1>3. S \subseteq 0 .. m /\ 0 \in S
  BY <1>1, <1>2
<1>4. PICK k \in 0 .. m : k = Max(S) /\ k \in S
  BY <1>3, MaxIn
<1>5. Fitting(cs, n) = SubSeq(cs, 1, k)
  BY <1>2, <1>4 DEF Fitting
<1>6. CASE k = 0
  <2>1. SubSeq(cs, 1, 0) = <<>>
    <3>1. 1 \in Nat /\ 0 \in Int /\ 1 <= 1 /\ 0 <= Len(cs)  BY <1>1
    <3>2. PICK t : t = SubSeq(cs, 1, 0)  OBVIOUS
    <3>3. t \in ChunkSeq /\ Len(t) = 0  BY <3>1, <3>2, PartOf DEF ChunkSeq
    <3>4. QED  BY <3>2, <3>3, EmptySeq DEF ChunkSeq
  <2>2. Bytes(Fitting(cs, n)) = <<>>  BY <1>5, <1>6, <2>1, BytesEmpty, Zenon
  <2>3. PICK b : b = Bytes(Fitting(cs, n))  OBVIOUS
  <2>4. Len(b) = 0  BY <2>2, <2>3
  <2>5. QED  BY <2>3, <2>4
<1>7. CASE k # 0
  <2>1. k \in 1 .. Len(cs)  BY <1>1, <1>4, <1>7
  <2>2. Fits(cs, n, k)
    <3>1. k \in 1 .. k  BY <2>1
    <3>2. QED  BY <1>2, <1>4, <3>1
  <2>3. PICK q : q = SubSeq(cs, 1, k - 1)  OBVIOUS
  <2>4. q \in ChunkSeq
    <3>1. 1 \in Nat /\ k - 1 \in Int /\ 1 <= 1 /\ k - 1 <= Len(cs)  BY <1>1, <2>1
    <3>2. QED  BY <2>3, <3>1, PartOf DEF ChunkSeq
  <2>5. PICK t \in Seq(Chars), r \in Nat : cs[k] = Chunk(t, r)
    <3>1. cs[k] \in [text : Seq(Chars), room : Nat]  BY <2>1, ElementOfSeq DEF ChunkSeq
    <3>2. QED  BY <3>1 DEF Chunk
  <2>6. Len(t) <= r + 1 /\ cs[k].room = r
    BY <2>1, <2>5 DEF Bounded, Chunk
  <2>7. PICK last : last = <<Chunk(t, r)>>  OBVIOUS
  <2>8. last \in ChunkSeq /\ Bytes(last) = t  BY <2>7, BytesOne
  <2>9. Bytes(SubSeq(cs, 1, k)) = Bytes(q) \o t
    <3>1. SubSeq(cs, 1, k) = q \o last  BY <2>1, <2>3, <2>5, <2>7, WithLast DEF ChunkSeq
    <3>2. Bytes(q \o last) = Bytes(q) \o Bytes(last)  BY <2>4, <2>8, BytesConcat
    <3>3. QED  BY <2>8, <3>1, <3>2
  <2>10. PICK b \in Seq(Chars) : b = Bytes(q)  BY <2>4, BytesTypes
  <2>11. Len(b) \in Nat /\ Len(t) \in Nat /\ Len(b \o t) = Len(b) + Len(t)
    OBVIOUS
  <2>12. n + Len(b) + r < mMemLen
    BY <2>2, <2>3, <2>6, <2>10 DEF Fits
  <2>13. n + (Len(b) + Len(t)) <= mMemLen
    BY <2>6, <2>11, <2>12
  <2>14. QED  BY <1>5, <2>9, <2>10, <2>11, <2>13
<1>8. QED  BY <1>6, <1>7

(* The chunks of a field are not, if the delimiter has at most two          *)
(* characters.                                                             *)
Sized(cs) == cs \in ChunkSeq /\ Bounded(cs)

LEMMA SizedEmpty == Sized(<<>>)
BY EmptySeq DEF Sized, Bounded, ChunkSeq

LEMMA SizedOne ==
  ASSUME NEW s \in Seq(Chars), NEW n \in Nat, Len(s) <= n + 1
  PROVE  Sized(<<Chunk(s, n)>>)
PROOF
<1>1. PICK cs : cs = <<Chunk(s, n)>>  OBVIOUS
<1>2. cs \in ChunkSeq  BY <1>1, BytesOne
<1>3. Len(cs) = 1 /\ cs[1].text = s /\ cs[1].room = n  BY <1>1 DEF Chunk
<1>4. QED  BY <1>1, <1>2, <1>3 DEF Sized, Bounded

LEMMA SizedConcat ==
  ASSUME NEW cs, NEW ds, Sized(cs), Sized(ds)
  PROVE  Sized(cs \o ds)
PROOF
<1>1. PICK m \in Nat, n \in Nat : m = Len(cs) /\ n = Len(ds)
  <2>1. Len(cs) \in Nat /\ Len(ds) \in Nat  BY LenProperties DEF ChunkSeq, Sized
  <2>2. QED  BY <2>1
<1>2. PICK es : es = cs \o ds  OBVIOUS
<1>3. /\ es \in ChunkSeq /\ Len(es) = m + n
      /\ \A i \in 1 .. m + n : es[i] = IF i <= m THEN cs[i] ELSE ds[i - m]
  BY <1>1, <1>2, ConcatProperties DEF ChunkSeq, Sized
<1>4. ASSUME NEW j \in 1 .. m + n
      PROVE  Len(es[j].text) <= es[j].room + 1
  <2>1. CASE j <= m
    <3>1. j \in 1 .. m /\ es[j] = cs[j]  BY <1>3, <2>1
    <3>2. QED  BY <1>1, <3>1 DEF Sized, Bounded
  <2>2. CASE ~(j <= m)
    <3>1. j - m \in 1 .. n /\ es[j] = ds[j - m]  BY <1>3, <2>2
    <3>2. QED  BY <1>1, <3>1 DEF Sized, Bounded
  <2>3. QED  BY <2>1, <2>2
<1>5. Sized(es)
  BY <1>3, <1>4 DEF Sized, Bounded
<1>6. QED  BY <1>2, <1>5

LEMMA SizedWhole ==
  ASSUME NEW s \in Seq(Chars)
  PROVE  Sized(<<Whole(s)>>)
PROOF
<1>1. PICK n \in Nat : n = Len(s)  BY LenProperties
<1>2. Sized(<<Chunk(s, n)>>)  BY <1>1, SizedOne
<1>3. QED  BY <1>1, <1>2 DEF Whole

LEMMA ChunksSized ==
  ASSUME ConfOK, Width <= 2, NEW i \in Fields, NEW v \in Seq(Chars) \cup {Null}
  PROVE  Sized(Chunks(i, v))
PROOF
<1>1. PICK A : A = IF i # 0 THEN <<Chunk(conf.delim, 1)>> ELSE <<>>
  OBVIOUS
<1>2. PICK B : B = IF v = Null THEN <<>>
                   ELSE (Qualifier \o <<Whole(Escaped(v))>>) \o Qualifier
  OBVIOUS
<1>3. PICK D : D = IF i = FieldsNum - 1 THEN <<Whole(RowDelimiter)>> ELSE <<>>
  OBVIOUS
<1>4. Sized(A)
  <2>1. conf.delim \in Seq(Chars) /\ 1 \in Nat /\ Len(conf.delim) <= 1 + 1
    BY AroundTypes, WithNul DEF Width
  <2>2. Sized(<<Chunk(conf.delim, 1)>>)  BY <2>1, SizedOne
  <2>3. QED  BY <1>1, <2>2, SizedEmpty
<1>5. Sized(D)
  <2>1. RowDelimiter \in Seq(Chars)  BY AroundTypes, WithNul
  <2>2. QED  BY <1>3, <2>1, SizedWhole, SizedEmpty
<1>6. Sized(B)
  <2>1. CASE v = Null
    BY <1>2, <2>1, SizedEmpty
  <2>2. CASE v # Null
    <3>1. Escaped(v) \in Seq(Chars)
      BY <2>2, EscapedTypes, CharsAssumption, WriterAssumption
    <3>2. PICK X : X = <<Whole(Escaped(v))>>  OBVIOUS
    <3>3. Sized(X)  BY <3>1, <3>2, SizedWhole
    <3>4. PICK Q : Q = Qualifier  OBVIOUS
    <3>5. Sized(Q)
      <4>1. <<Qual>> \in Seq(Chars)  BY CharsAssumption
      <4>2. Sized(<<Whole(<<Qual>>)>>)  BY <4>1, SizedWhole
      <4>3. QED  BY <3>4, <4>2, SizedEmpty DEF Qualifier
    <3>6. PICK Y : Y = Q \o X  OBVIOUS
    <3>7. Sized(Y)  BY <3>3, <3>5, <3>6, SizedConcat
    <3>8. Sized(Y \o Q)  BY <3>5, <3>7, SizedConcat
    <3>9. B = Y \o Q  BY <1>2, <2>2, <3>2, <3>4, <3>6
    <3>10. QED  BY <3>8, <3>9
  <2>3. QED  BY <2>1, <2>2
<1>7. Chunks(i, v) = (A \o B) \o D
  BY <1>1, <1>2, <1>3, Zenon DEF Chunks
<1>8. PICK Y : Y = A \o B  OBVIOUS
<1>9. Sized(Y)  BY <1>4, <1>6, <1>8, SizedConcat
<1>10. Sized(Y \o D)  BY <1>5, <1>9, SizedConcat
<1>11. QED  BY <1>7, <1>8, <1>10

(***************************************************************************)
(* Where the parts of a concatenation are in it.                           *)
(***************************************************************************)
LEMMA ConcatAt ==
  ASSUME NEW C, NEW x \in Seq(C), NEW y \in Seq(C)
  PROVE  /\ x \o y \in Seq(C) /\ Len(x \o y) = Len(x) + Len(y)
         /\ Len(x) \in Nat /\ Len(y) \in Nat
         /\ Same(x, x \o y, Len(x)) /\ Copied(y, x \o y, Len(x) + 1, Len(y))
PROOF
<1>0. PICK r : r = x \o y  OBVIOUS
<1>1. PICK n \in Nat, m \in Nat : n = Len(x) /\ m = Len(y)
  BY LenProperties
<1>2. /\ r \in Seq(C) /\ Len(r) = n + m
      /\ \A i \in 1 .. n + m : r[i] = IF i <= n THEN x[i] ELSE y[i - n]
  <2>1. /\ r \in Seq(C) /\ Len(r) = Len(x) + Len(y)
        /\ \A i \in 1 .. Len(x) + Len(y) : r[i] = IF i <= Len(x) THEN x[i] ELSE y[i - Len(x)]
    BY <1>0, ConcatProperties
  <2>2. QED  BY <1>1, <2>1
<1>3. ASSUME NEW i \in 1 .. n PROVE x[i] = r[i]
  <2>1. i \in 1 .. n + m /\ i <= n  OBVIOUS
  <2>2. QED  BY <1>2, <2>1
<1>4. ASSUME NEW i \in 1 .. m PROVE y[i] = r[n + 1 + i - 1]
  <2>1. PICK k \in 1 .. n + m : k = n + 1 + i - 1 /\ ~(k <= n) /\ k - n = i
    OBVIOUS
  <2>2. r[k] = y[i]  BY <1>2, <2>1
  <2>3. QED  BY <2>1, <2>2
<1>5. Same(x, r, n)  BY <1>3 DEF Same
<1>6. Copied(y, r, n + 1, m)  BY <1>4 DEF Copied
<1>7. QED  BY <1>0, <1>1, <1>2, <1>5, <1>6

LEMMA CopiedIn ==
  ASSUME NEW u, NEW s, NEW t, NEW a \in Nat \ {0}, NEW n \in Nat, NEW b \in Nat,
         Copied(u, s, a, n), a + n - 1 <= b, Same(s, t, b)
  PROVE  Copied(u, t, a, n)
PROOF
<1>1. ASSUME NEW k \in 1 .. n PROVE u[k] = t[a + k - 1]
  <2>1. a + k - 1 \in 1 .. b  OBVIOUS
  <2>2. QED  BY <2>1 DEF Copied, Same
<1>2. QED  BY <1>1 DEF Copied

LEMMA CopiedOn ==
  ASSUME NEW u, NEW s, NEW t, NEW a \in Nat, NEW n \in Nat, NEW b \in Nat, NEW m \in Nat,
         NEW d \in Nat, Copied(u, s, a, n), Copied(s, t, b, m), 1 <= a, a + n <= m + 1,
         d + 1 = a + b
  PROVE  Copied(u, t, d, n)
PROOF
<1>1. ASSUME NEW k \in 1 .. n PROVE u[k] = t[d + k - 1]
  <2>1. a + k - 1 \in 1 .. m /\ b + (a + k - 1) - 1 = d + k - 1  OBVIOUS
  <2>2. u[k] = s[a + k - 1]  BY DEF Copied
  <2>3. s[a + k - 1] = t[b + (a + k - 1) - 1]  BY <2>1 DEF Copied
  <2>4. QED  BY <2>1, <2>2, <2>3
<1>2. QED  BY <1>1 DEF Copied

LEMMA SameIsCopied ==
  ASSUME NEW u, NEW s, NEW n \in Nat, Same(u, s, n)
  PROVE  Copied(u, s, 1, n)
PROOF
<1>1. \A k \in 1 .. n : 1 + k - 1 = k  OBVIOUS
<1>2. QED  BY <1>1 DEF Same, Copied

(* s is r, x, y and z, one behind the other.                               *)
InOrder(r, x, y, z, s) ==
  \E n \in Nat, i \in Nat, j \in Nat, k \in Nat :
     /\ n = Len(r) /\ i = Len(x) /\ j = Len(y) /\ k = Len(z)
     /\ Len(s) = n + i + j + k
     /\ Same(r, s, n) /\ Copied(x, s, n + 1, i)
     /\ Copied(y, s, n + i + 1, j) /\ Copied(z, s, n + i + j + 1, k)

LEMMA ThreeAt ==
  ASSUME NEW C, NEW r \in Seq(C), NEW x \in Seq(C), NEW y \in Seq(C), NEW z \in Seq(C)
  PROVE  /\ r \o ((x \o y) \o z) \in Seq(C)
         /\ InOrder(r, x, y, z, r \o ((x \o y) \o z))
PROOF
<1>0. PICK s : s = r \o ((x \o y) \o z)  OBVIOUS
<1>1. PICK n \in Nat, i \in Nat, j \in Nat, k \in Nat :
        n = Len(r) /\ i = Len(x) /\ j = Len(y) /\ k = Len(z)
  BY LenProperties
<1>2. PICK u : u = x \o y  OBVIOUS
<1>3. u \in Seq(C) /\ Len(u) = i + j /\ Same(x, u, i) /\ Copied(y, u, i + 1, j)
  BY <1>1, <1>2, ConcatAt
<1>4. PICK v : v = u \o z  OBVIOUS
<1>5. v \in Seq(C) /\ Len(v) = i + j + k /\ Same(u, v, i + j) /\ Copied(z, v, i + j + 1, k)
  <2>1. v \in Seq(C) /\ Len(v) = Len(u) + Len(z) /\ Same(u, v, Len(u))
        /\ Copied(z, v, Len(u) + 1, Len(z))
    BY <1>3, <1>4, ConcatAt
  <2>2. QED  BY <1>1, <1>3, <2>1
<1>6. s = r \o v  BY <1>0, <1>2, <1>4
<1>7. s \in Seq(C) /\ Len(s) = n + (i + j + k) /\ Same(r, s, n)
      /\ Copied(v, s, n + 1, i + j + k)
  <2>1. s \in Seq(C) /\ Len(s) = Len(r) + Len(v) /\ Same(r, s, Len(r))
        /\ Copied(v, s, Len(r) + 1, Len(v))
    BY <1>5, <1>6, ConcatAt
  <2>2. QED  BY <1>1, <1>5, <2>1
<1>8. Copied(x, s, n + 1, i) /\ Copied(y, s, n + i + 1, j) /\ Copied(z, s, n + i + j + 1, k)
  <2>1. PICK m \in Nat, f \in Nat, g \in Nat, q \in Nat, l \in Nat, d \in Nat, e \in Nat :
          /\ m = n + 1 /\ f = i + 1 /\ g = i + j + 1 /\ q = i + j /\ l = i + j + k
          /\ d = n + i + 1 /\ e = n + i + j + 1
    <3>1. /\ n + 1 \in Nat /\ i + 1 \in Nat /\ i + j + 1 \in Nat /\ i + j \in Nat
          /\ i + j + k \in Nat /\ n + i + 1 \in Nat /\ n + i + j + 1 \in Nat
      OBVIOUS
    <3>2. QED  BY <3>1
  <2>2. /\ Same(x, u, i) /\ Copied(y, u, f, j) /\ Same(u, v, q) /\ Copied(z, v, g, k)
        /\ Copied(v, s, m, l)
    BY <1>3, <1>5, <1>7, <2>1
  <2>3. 1 \in Nat \ {0} /\ f \in Nat \ {0}  BY <2>1
  <2>4. Copied(x, s, m, i)
    <3>1. PICK o \in Nat \ {0} : o = 1  BY <2>3
    <3>2. Copied(x, u, o, i)  BY <2>2, <3>1, SameIsCopied
    <3>3. o + i - 1 <= q  BY <2>1, <3>1
    <3>4. Copied(x, v, o, i)  BY <2>2, <3>2, <3>3, CopiedIn
    <3>5. 1 <= o /\ o + i <= l + 1 /\ m + 1 = o + m /\ o \in Nat  BY <2>1, <3>1
    <3>6. QED  BY <2>2, <3>4, <3>5, CopiedOn
  <2>5. Copied(y, s, d, j)
    <3>1. f + j - 1 <= q  BY <2>1
    <3>2. Copied(y, v, f, j)  BY <2>2, <2>3, <3>1, CopiedIn
    <3>3. 1 <= f /\ f + j <= l + 1 /\ d + 1 = f + m  BY <2>1
    <3>4. QED  BY <2>2, <3>2, <3>3, CopiedOn
  <2>6. Copied(z, s, e, k)
    <3>1. 1 <= g /\ g + k <= l + 1 /\ e + 1 = g + m  BY <2>1
    <3>2. QED  BY <2>2, <3>1, CopiedOn
  <2>7. QED  BY <2>1, <2>4, <2>5, <2>6
<1>9. Len(s) = n + i + j + k  BY <1>7
<1>10. InOrder(r, x, y, z, s)
  <2>1. Same(r, s, n)  BY <1>7
  <2>2. QED  BY <1>1, <1>8, <1>9, <2>1 DEF InOrder
<1>11. QED  BY <1>0, <1>7, <1>10

(***************************************************************************)
(* The record as it is written: W[i] is what is written of field i, and    *)
(* c[i + 1] where it ends.                                                 *)
(***************************************************************************)
Put(r, c, i, W) ==
  /\ c[i + 1] = c[i] + Width + Len(W[i])
  /\ Copied(W[i], r, c[i] + Width, Len(W[i]))
  /\ i > 0 => Hit(r, c[i])

Laid(r, c, k, W) ==
  /\ c \in [0 .. FieldsNum -> Int] /\ c[0] = 1 - Width
  /\ \A i \in 1 .. k : 1 <= c[i] /\ c[i] <= c[k]
  /\ \A i \in 0 .. k - 1 : Put(r, c, i, W)
  /\ k = FieldsNum => RowEnd(r, c[k] - 1)
  /\ k < FieldsNum => Len(r) = IF k = 0 THEN 0 ELSE c[k] - 1

LEMMA RowDelimiterIs ==
  ASSUME ConfOK
  PROVE  \/ RowDelimiter = <<CR, LF>>
         \/ RowDelimiter = <<LF>> /\ conf.row = LF
BY DEF ConfOK, RowDelimiter

LEMMA LaidStarts ==
  ASSUME ConfOK, NEW W
  PROVE  \E c : Laid(<<>>, c, 0, W)
PROOF
<1>1. PICK c : c = [i \in 0 .. FieldsNum |-> 1 - Width]
  OBVIOUS
<1>2. 0 \in 0 .. FieldsNum /\ Width \in Nat /\ 0 # FieldsNum /\ Len(<<>>) = 0
  BY ConfigAssumption DEF ConfOK
<1>3. c \in [0 .. FieldsNum -> Int] /\ c[0] = 1 - Width
  BY <1>1, <1>2
<1>4. (\A i \in 1 .. 0 : FALSE) /\ (\A i \in 0 .. 0 - 1 : FALSE)
  OBVIOUS
<1>5. Laid(<<>>, c, 0, W)
  BY <1>2, <1>3, <1>4 DEF Laid
<1>6. QED  BY <1>5

(* One more field.                                                         *)
LEMMA LaidStep ==
  ASSUME ConfOK, NEW W \in [Fields -> Seq(Chars)], NEW k \in Fields, NEW r \in Seq(Chars),
         NEW c, Laid(r, c, k, W)
  PROVE  \E d : Laid(r \o ((Before(k) \o W[k]) \o After(k)), d, k + 1, W)
PROOF
<1>1. k \in Nat /\ k + 1 \in Nat /\ k < FieldsNum /\ FieldsNum \in Nat
      /\ Width \in Nat \ {0} /\ k \in 0 .. FieldsNum /\ k + 1 \in 0 .. FieldsNum
  BY ConfigAssumption DEF ConfOK, Fields
<1>2. PICK x : x = Before(k)  OBVIOUS
<1>3. PICK z : z = After(k)  OBVIOUS
<1>4. PICK y : y = W[k]  OBVIOUS
<1>5. x \in Seq(Chars) /\ y \in Seq(Chars) /\ z \in Seq(Chars)
  BY <1>2, <1>3, <1>4, AroundTypes, WithNul
<1>6. PICK s : s = r \o ((x \o y) \o z)
  OBVIOUS
<1>7. PICK n \in Nat, i \in Nat, j \in Nat, l \in Nat :
        /\ n = Len(r) /\ i = Len(x) /\ j = Len(y) /\ l = Len(z)
        /\ Len(s) = n + i + j + l
        /\ Same(r, s, n) /\ Copied(x, s, n + 1, i)
        /\ Copied(y, s, n + i + 1, j) /\ Copied(z, s, n + i + j + 1, l)
  <2>1. InOrder(r, x, y, z, s)  BY <1>5, <1>6, ThreeAt
  <2>2. QED  BY <2>1 DEF InOrder
<1>8. PICK b \in Int : b = c[k]
  BY <1>1 DEF Laid
<1>9. n + i + 1 = b + Width
  <2>1. CASE k = 0
    <3>1. n = 0 /\ b = 1 - Width  BY <1>1, <1>7, <1>8, <2>1 DEF Laid
    <3>2. x = <<>>  BY <1>2, <2>1 DEF Before
    <3>3. i = 0  BY <1>7, <3>2
    <3>4. QED  BY <1>1, <3>1, <3>3
  <2>2. CASE k # 0
    <3>1. n = b - 1  BY <1>1, <1>7, <1>8, <2>2 DEF Laid
    <3>2. x = conf.delim  BY <1>2, <2>2 DEF Before
    <3>3. i = Width  BY <1>7, <3>2 DEF Width
    <3>4. QED  BY <1>1, <3>1, <3>3
  <2>3. QED  BY <2>1, <2>2
<1>10. PICK e \in Nat \ {0} : e = b + Width + j
  BY <1>1, <1>9
<1>11. PICK d : d = [c EXCEPT ![k + 1] = e]
  OBVIOUS
<1>12. /\ d \in [0 .. FieldsNum -> Int] /\ d[k + 1] = e
       /\ \A h \in 0 .. k : d[h] = c[h]
  <2>1. c \in [0 .. FieldsNum -> Int] /\ e \in Int  BY DEF Laid
  <2>2. \A h \in 0 .. k : h \in 0 .. FieldsNum /\ h # k + 1  BY <1>1
  <2>3. QED  BY <1>1, <1>11, <2>1, <2>2
<1>13. d[0] = 1 - Width
  <2>1. 0 \in 0 .. k  BY <1>1
  <2>2. QED  BY <1>12, <2>1 DEF Laid
<1>14. ASSUME NEW h \in 1 .. k + 1 PROVE 1 <= d[h] /\ d[h] <= d[k + 1]
  <2>1. CASE h = k + 1
    BY <1>12, <2>1
  <2>2. CASE h # k + 1
    <3>1. h \in 1 .. k /\ h \in 0 .. k /\ h \in 0 .. FieldsNum  BY <1>1, <2>2
    <3>2. c[h] \in Int /\ 1 <= c[h] /\ c[h] <= b /\ d[h] = c[h]  BY <1>8, <1>12, <3>1 DEF Laid
    <3>3. b <= e  BY <1>1, <1>10
    <3>4. QED  BY <1>12, <3>2, <3>3
  <2>3. QED  BY <2>1, <2>2
<1>15. Put(s, d, k, W)
  <2>1. d[k] = b  BY <1>1, <1>8, <1>12
  <2>2. Copied(y, s, b + Width, j)  BY <1>7, <1>9
  <2>3. ASSUME k > 0 PROVE Hit(s, b)
    <3>1. x = conf.delim /\ i = Width  BY <1>1, <1>2, <1>7, <2>3 DEF Before, Width
    <3>2. n + 1 = b  BY <1>1, <1>9, <3>1
    <3>3. Copied(x, s, b, Width)  BY <1>7, <3>1, <3>2
    <3>4. QED  BY <3>1, <3>3 DEF Hit, Copied
  <2>4. QED  BY <1>4, <1>7, <1>10, <1>12, <2>1, <2>2, <2>3 DEF Put
<1>16. ASSUME NEW h \in 0 .. k - 1 PROVE Put(s, d, h, W)
  <2>1. /\ h \in Nat /\ h \in 0 .. k /\ h + 1 \in 0 .. k /\ h + 1 \in 1 .. k /\ k # 0
        /\ h \in Fields /\ h \in 0 .. FieldsNum /\ h + 1 \in 0 .. FieldsNum
    BY <1>1 DEF Fields
  <2>2. PICK u \in Int, v \in Int : u = c[h] /\ v = c[h + 1]
    BY <2>1 DEF Laid
  <2>3. PICK w : w = W[h]  OBVIOUS
  <2>4. PICK q \in Nat : q = Len(w)
    BY <2>1, <2>3, LenProperties
  <2>5. /\ v = u + Width + q /\ Copied(w, r, u + Width, q) /\ (h > 0 => Hit(r, u))
    BY <2>2, <2>3, <2>4 DEF Laid, Put
  <2>6. v <= b /\ n = b - 1
    <3>1. c[h + 1] <= c[k]  BY <2>1 DEF Laid
    <3>2. n = c[k] - 1  BY <1>1, <1>7, <2>1 DEF Laid
    <3>3. QED  BY <1>8, <2>2, <3>1, <3>2
  <2>7. u + Width \in Nat \ {0} /\ (h > 0 => u \in Nat \ {0})
    <3>1. CASE h = 0
      <4>1. u = 1 - Width  BY <2>2, <3>1 DEF Laid
      <4>2. QED  BY <1>1, <3>1, <4>1
    <3>2. CASE h # 0
      <4>1. h \in 1 .. k  BY <2>1, <3>2
      <4>2. 1 <= u  BY <2>2, <4>1 DEF Laid
      <4>3. QED  BY <1>1, <4>2
    <3>3. QED  BY <3>1, <3>2
  <2>8. Copied(w, s, u + Width, q)
    <3>1. PICK g \in Nat \ {0} : g = u + Width  BY <2>7
    <3>2. g + q - 1 <= n  BY <1>1, <2>5, <2>6, <3>1
    <3>3. Copied(w, r, g, q)  BY <2>5, <3>1
    <3>4. QED  BY <1>7, <3>1, <3>2, <3>3, CopiedIn
  <2>9. ASSUME h > 0 PROVE Hit(s, u)
    <3>1. u + Width - 1 <= n  BY <1>1, <2>5, <2>6
    <3>2. QED  BY <1>7, <2>5, <2>7, <2>9, <3>1, SameHit
  <2>10. d[h] = u /\ d[h + 1] = v  BY <1>12, <2>1, <2>2
  <2>11. QED  BY <2>3, <2>4, <2>5, <2>8, <2>9, <2>10 DEF Put
<1>17. ASSUME k + 1 = FieldsNum PROVE RowEnd(s, e - 1)
  <2>1. z = RowDelimiter  BY <1>1, <1>3, <1>17 DEF After
  <2>2. e - 1 = n + i + j  BY <1>9, <1>10
  <2>3. PICK m \in Nat : m = n + i + j  OBVIOUS
  <2>4. Copied(z, s, m + 1, l) /\ Len(s) = m + l  BY <1>7, <2>3
  <2>5. CASE z = <<CR, LF>>
    <3>1. l = 2 /\ z[1] = CR /\ z[2] = LF  BY <1>7, <2>5
    <3>2. 1 \in 1 .. 2 /\ 2 \in 1 .. 2 /\ m + 1 + 1 - 1 = m + 1 /\ m + 1 + 2 - 1 = m + 2
      OBVIOUS
    <3>3. s[m + 1] = CR /\ s[m + 2] = LF  BY <2>4, <3>1, <3>2 DEF Copied
    <3>4. QED  BY <2>2, <2>3, <2>4, <3>1, <3>3 DEF RowEnd
  <2>6. CASE z = <<LF>> /\ conf.row = LF
    <3>1. l = 1 /\ z[1] = LF  BY <1>7, <2>6
    <3>2. 1 \in 1 .. 1 /\ m + 1 + 1 - 1 = m + 1  OBVIOUS
    <3>3. s[m + 1] = LF  BY <2>4, <3>1, <3>2 DEF Copied
    <3>4. QED  BY <2>2, <2>3, <2>4, <2>6, <3>1, <3>3 DEF RowEnd
  <2>7. QED  BY <2>1, <2>5, <2>6, RowDelimiterIs
<1>18. ASSUME k + 1 < FieldsNum PROVE Len(s) = e - 1
  <2>1. z = <<>>  BY <1>1, <1>3, <1>18 DEF After
  <2>2. l = 0  BY <1>7, <2>1
  <2>3. QED  BY <1>7, <1>9, <1>10, <2>2
<1>19. ASSUME NEW h \in 0 .. k + 1 - 1 PROVE Put(s, d, h, W)
  <2>1. h = k \/ h \in 0 .. k - 1  BY <1>1
  <2>2. QED  BY <1>15, <1>16, <2>1
<1>20. k + 1 # 0  BY <1>1
<1>21. PICK f \in Nat : f = k + 1  BY <1>1
<1>22. Laid(s, d, f, W)
  <2>1. /\ \A h \in 1 .. f : 1 <= d[h] /\ d[h] <= d[f]
        /\ \A h \in 0 .. f - 1 : Put(s, d, h, W)
    <3>1. \A h \in 1 .. k + 1 : 1 <= d[h] /\ d[h] <= d[k + 1]  BY <1>14
    <3>2. (\A h \in 1 .. f : 1 <= d[h] /\ d[h] <= d[f])
            <=> \A h \in 1 .. k + 1 : 1 <= d[h] /\ d[h] <= d[k + 1]
      BY <1>21, Zenon
    <3>3. ASSUME NEW h \in 0 .. f - 1 PROVE Put(s, d, h, W)
      <4>1. h \in 0 .. k + 1 - 1  BY <1>1, <1>21
      <4>2. QED  BY <1>19, <4>1
    <3>4. QED  BY <3>1, <3>2, <3>3, Zenon
  <2>2. d[f] = e /\ f # 0  BY <1>12, <1>20, <1>21
  <2>3. f = FieldsNum => RowEnd(s, d[f] - 1)  BY <1>17, <1>21, <2>2
  <2>4. f < FieldsNum => Len(s) = IF f = 0 THEN 0 ELSE d[f] - 1  BY <1>18, <1>21, <2>2
  <2>5. QED  BY <1>12, <1>13, <2>1, <2>3, <2>4, Zenon DEF Laid
<1>23. s = r \o ((Before(k) \o W[k]) \o After(k))
  BY <1>2, <1>3, <1>4, <1>6
<1>24. QED  BY <1>21, <1>22, <1>23

(***************************************************************************)
(* A record of readable fields is one as the comment defines it, cut where *)
(* it was laid, and no text begins with two.                               *)
(***************************************************************************)
FieldsReadable(W) ==
  \A i \in Fields : PlainField(W[i]) \/ (Width = 1 /\ QualifiedField(W[i]))

PartIs(r, c, i, W) == SubSeq(r, c[i] + Width, c[i + 1] - 1) = W[i]

LEMMA LaidSplit ==
  ASSUME ConfOK, NEW W \in [Fields -> Seq(Chars)], NEW r \in Seq(Chars), NEW c,
         Laid(r, c, FieldsNum, W), FieldsReadable(W)
  PROVE  \E m \in Nat : /\ RowEnd(r, m) /\ Split(r, m, c, Texts)
                        /\ \A i \in Fields : PartIs(r, c, i, W)
PROOF
<1>1. FieldsNum \in Nat \ {0} /\ FieldsNum \in 0 .. FieldsNum /\ FieldsNum \in 1 .. FieldsNum
      /\ Width \in Nat \ {0}
  BY ConfigAssumption DEF ConfOK
<1>2. PICK e \in Int : e = c[FieldsNum]
  BY <1>1 DEF Laid
<1>3. 1 <= e
  BY <1>1, <1>2 DEF Laid
<1>4. PICK m \in Nat : m = e - 1
  BY <1>3
<1>5. RowEnd(r, m)
  BY <1>2, <1>4 DEF Laid
<1>6. m <= Len(r) /\ Len(r) \in Nat
  BY <1>5, LenProperties DEF RowEnd
<1>7. ASSUME NEW i \in Fields
      PROVE  \E a \in Nat \ {0} : \E b \in Int :
               /\ a = c[i] + Width /\ b = c[i + 1] - 1 /\ b <= m /\ a <= b + 1
               /\ (i > 0 => Hit(r, c[i])) /\ SubSeq(r, a, b) = W[i]
  <2>1. /\ i \in 0 .. FieldsNum - 1 /\ i \in 0 .. FieldsNum /\ i + 1 \in 0 .. FieldsNum
        /\ i + 1 \in 1 .. FieldsNum /\ i \in Nat
    BY <1>1 DEF Fields
  <2>2. PICK u \in Int, v \in Int : u = c[i] /\ v = c[i + 1]
    BY <2>1 DEF Laid
  <2>3. u + Width \in Nat \ {0}
    <3>1. CASE i = 0
      <4>1. u = 1 - Width  BY <2>2, <3>1 DEF Laid
      <4>2. QED  BY <1>1, <4>1
    <3>2. CASE i # 0
      <4>1. i \in 1 .. FieldsNum  BY <2>1, <3>2
      <4>2. 1 <= u  BY <2>2, <4>1 DEF Laid
      <4>3. QED  BY <1>1, <4>2
    <3>3. QED  BY <3>1, <3>2
  <2>4. v <= e
    BY <1>2, <2>1, <2>2 DEF Laid
  <2>5. PICK a \in Nat \ {0}, b \in Int : a = u + Width /\ b = v - 1
    BY <2>3
  <2>6. PICK w \in Seq(Chars) : w = W[i]
    OBVIOUS
  <2>7. PICK n \in Nat : n = Len(w)
    BY LenProperties
  <2>8. v = u + Width + n /\ Copied(w, r, a, n) /\ (i > 0 => Hit(r, c[i]))
    BY <2>1, <2>2, <2>5, <2>6, <2>7 DEF Laid, Put
  <2>9. b <= m /\ a <= b + 1 /\ n = b - a + 1
    BY <1>1, <1>4, <2>4, <2>5, <2>8
  <2>10. PICK t : t = SubSeq(r, a, b)  OBVIOUS
  <2>11. t = w
    <3>1. a \in Nat /\ 1 <= a /\ b <= Len(r)  BY <1>6, <2>9
    <3>2. /\ t \in Seq(Chars) /\ Len(t) = (IF a <= b THEN b - a + 1 ELSE 0)
          /\ \A k \in 1 .. b - a + 1 : t[k] = r[a + k - 1]
      BY <2>10, <3>1, PartOf
    <3>3. Len(t) = n  BY <2>9, <3>2
    <3>4. ASSUME NEW k \in 1 .. n PROVE t[k] = w[k]
      <4>1. k \in 1 .. b - a + 1  BY <2>9
      <4>2. QED  BY <2>8, <3>2, <4>1 DEF Copied
    <3>5. QED  BY <2>7, <3>2, <3>3, <3>4, SeqEqual
  <2>12. QED  BY <2>2, <2>5, <2>6, <2>8, <2>9, <2>10, <2>11
<1>8. ASSUME NEW i \in Fields
      PROVE  /\ c[i] + Width <= c[i + 1] /\ FieldAt(r, c, i, Texts)
             /\ (i > 0 => Hit(r, c[i])) /\ PartIs(r, c, i, W)
  <2>1. PICK a \in Nat \ {0} : \E b \in Int :
           /\ a = c[i] + Width /\ b = c[i + 1] - 1 /\ b <= m /\ a <= b + 1
           /\ (i > 0 => Hit(r, c[i])) /\ SubSeq(r, a, b) = W[i]
    BY <1>7
  <2>2. PICK b \in Int :
           /\ a = c[i] + Width /\ b = c[i + 1] - 1 /\ b <= m /\ a <= b + 1
           /\ (i > 0 => Hit(r, c[i])) /\ SubSeq(r, a, b) = W[i]
    BY <2>1
  <2>3. b <= Len(r)  BY <1>6, <2>2
  <2>4. PlainField(SubSeq(r, a, b)) \/ (Width = 1 /\ QualifiedField(SubSeq(r, a, b)))
    BY <2>2 DEF FieldsReadable
  <2>5. Plain(r, a, b) \/ (Width = 1 /\ Text(r, a, b))
    BY <2>3, <2>4, PartPlain, PartText
  <2>6. FieldAt(r, c, i, Texts)
    BY <2>2, <2>5 DEF FieldAt, Texts
  <2>7. i + 1 \in 0 .. FieldsNum  BY <1>1 DEF Fields
  <2>8. c[i + 1] \in Int  BY <2>7 DEF Laid
  <2>9. c[i] + Width <= c[i + 1]  BY <2>2, <2>8
  <2>10. QED  BY <2>2, <2>6, <2>9 DEF PartIs
<1>9. ASSUME NEW i \in 0 .. FieldsNum PROVE 1 - Width <= c[i] /\ c[i] <= m + 1
  <2>1. CASE i = 0
    <3>1. c[i] = 1 - Width  BY <2>1 DEF Laid
    <3>2. QED  BY <1>1, <3>1
  <2>2. CASE i # 0
    <3>1. i \in 1 .. FieldsNum  BY <2>2
    <3>2. c[i] \in Int /\ 1 <= c[i] /\ c[i] <= e  BY <1>2, <3>1 DEF Laid
    <3>3. QED  BY <1>1, <1>4, <3>2
  <2>3. QED  BY <2>1, <2>2
<1>10. ASSUME NEW i \in 1 .. FieldsNum - 1 PROVE Hit(r, c[i])
  <2>1. i \in Fields /\ i > 0  BY <1>1 DEF Fields
  <2>2. QED  BY <1>8, <2>1
<1>11. c \in [0 .. FieldsNum -> Int] /\ c[0] = 1 - Width /\ c[FieldsNum] = m + 1
  <2>1. e = m + 1  BY <1>4
  <2>2. QED  BY <1>2, <2>1 DEF Laid
<1>12. Split(r, m, c, Texts)
  BY <1>8, <1>9, <1>10, <1>11 DEF Split
<1>13. QED  BY <1>5, <1>8, <1>12

(* A text begins with at most one record.                                  *)
LEMMA OneRecord ==
  ASSUME ConfOK, Separable, NEW s, NEW m \in Nat, NEW n \in Nat, NEW c, NEW d, NEW T, NEW U,
         Split(s, m, c, T), Split(s, n, d, U), EndsRow(s[m + 1]), EndsRow(s[n + 1])
  PROVE  m = n
PROOF
<1>1. PICK k \in Fields : k = FieldsNum - 1
  BY ConfigAssumption DEF Fields
<1>2. k + 1 = FieldsNum /\ k \in 0 .. FieldsNum /\ k \in 0 .. k /\ Width \in Nat \ {0}
  BY <1>1, ConfigAssumption DEF Fields, ConfOK
<1>3. Begun(s, c, k, T) /\ Begun(s, d, k, U)
  BY SplitBegun
<1>4. d[k] = c[k]
  BY <1>2, <1>3, SplitBegins
<1>5. c[k] \in Int /\ 1 - Width <= c[k]
  BY <1>2 DEF Split
<1>6. PICK a \in Nat \ {0} : a = c[k] + Width
  BY <1>2, <1>5
<1>7. a \in Nat /\ a = d[k] + Width
  BY <1>4, <1>6
<1>8. PICK x \in Nat :
        x = c[k + 1] /\ a <= x /\ Good(s, a, x - 1) /\ Closed(s, x)
  BY <1>3, <1>6, <1>7, NextField
<1>9. PICK y \in Nat :
        y = d[k + 1] /\ a <= y /\ Good(s, a, y - 1) /\ Closed(s, y)
  BY <1>3, <1>7, NextField
<1>10. x = y
  BY <1>8, <1>9, OneEnd
<1>11. x = m + 1 /\ y = n + 1
  BY <1>2, <1>8, <1>9 DEF Split
<1>12. m + 1 = n + 1
  BY <1>10, <1>11
<1>13. m + 1 - 1 = n + 1 - 1
  BY <1>12
<1>14. QED  BY <1>13

(***************************************************************************)
(* The writer: what it has written, and what the reader has of it.         *)
(***************************************************************************)
Record == SubSeq(mMemory, 1, mCrtRcdLen)
Parts  == [i \in Fields |-> Written(Trimmed(value[i]))]

AllReadable == \A i \in Fields : Readable(Trimmed(value[i]))
NulFree(s)  == s \in Seq(Chars \ {Nul})

WriterTypes ==
  /\ mTrimCondition \in Trimming
  /\ value \in [Fields -> Seq(Chars) \cup {Null}]
  /\ mMemory \in Seq(Chars) /\ mCrtRcdLen \in Nat /\ mCrtRcdLen <= Len(mMemory)
  /\ mCrtFieldIdx \in 0 .. FieldsNum

RecordInv ==
  /\ \E c : Laid(Record, c, mCrtFieldIdx, Parts)
  /\ AllReadable => NulFree(Record)

SentInv ==
  /\ phase = "writing" => cleared /\ fresh /\ Idle
  /\ phase = "sent" =>
       /\ mCrtFieldIdx = FieldsNum /\ fresh
       /\ \/ cleared /\ Idle /\ input = <<Record>>
          \/ input = <<>> /\ (NulFree(Record) => data = Record)

(* The record is in the memory, unless a long delimiter carried it out.    *)
MemoryInv ==
  /\ mMemLen \in Nat
  /\ Width <= 2 => mCrtRcdLen <= mMemLen /\ phase # "overrun"

LEMMA PrefixIs ==
  ASSUME NEW C, NEW s \in Seq(C), NEW n \in Nat, n <= Len(s)
  PROVE  SubSeq(s, 1, n) \in Seq(C) /\ Len(SubSeq(s, 1, n)) = n /\ Same(s, SubSeq(s, 1, n), n)
PROOF
<1>1. PICK t : t = SubSeq(s, 1, n)  OBVIOUS
<1>2. 1 \in Nat /\ n \in Int /\ 1 <= 1  OBVIOUS
<1>3. /\ t \in Seq(C) /\ Len(t) = (IF 1 <= n THEN n - 1 + 1 ELSE 0)
      /\ \A k \in 1 .. n - 1 + 1 : t[k] = s[1 + k - 1]
  BY <1>1, <1>2, PartOf
<1>4. Len(t) = n
  BY <1>3
<1>5. ASSUME NEW k \in 1 .. n PROVE s[k] = t[k]
  <2>1. k \in 1 .. n - 1 + 1 /\ 1 + k - 1 = k  OBVIOUS
  <2>2. QED  BY <1>3, <2>1
<1>6. QED  BY <1>1, <1>3, <1>4, <1>5 DEF Same

LEMMA WholeIs ==
  ASSUME NEW C, NEW s \in Seq(C)
  PROVE  SubSeq(s, 1, Len(s)) = s
PROOF
<1>1. PICK n \in Nat : n = Len(s)  BY LenProperties
<1>2. PICK t : t = SubSeq(s, 1, n)  OBVIOUS
<1>3. t \in Seq(C) /\ Len(t) = n /\ Same(s, t, n)
  BY <1>1, <1>2, PrefixIs
<1>4. t = s
  BY <1>1, <1>3, SeqEqual DEF Same
<1>5. QED  BY <1>1, <1>2, <1>4

LEMMA PrefixKept ==
  ASSUME NEW C, NEW s \in Seq(C), NEW u \in Seq(C)
  PROVE  SubSeq(s \o u, 1, Len(s)) = s
PROOF
<1>1. PICK w : w = s \o u  OBVIOUS
<1>2. PICK n \in Nat : n = Len(s)  BY LenProperties
<1>3. w \in Seq(C) /\ Len(w) = n + Len(u) /\ Len(u) \in Nat /\ Same(s, w, n)
  BY <1>1, <1>2, ConcatAt
<1>4. PICK t : t = SubSeq(w, 1, n)  OBVIOUS
<1>5. t \in Seq(C) /\ Len(t) = n /\ Same(w, t, n)
  <2>1. n <= Len(w)  BY <1>3
  <2>2. QED  BY <1>3, <1>4, <2>1, PrefixIs
<1>6. \A k \in 1 .. n : t[k] = s[k]
  BY <1>3, <1>5 DEF Same
<1>7. t = s
  BY <1>2, <1>5, <1>6, SeqEqual
<1>8. QED  BY <1>1, <1>2, <1>4, <1>7

LEMMA RecordTypes ==
  ASSUME WriterTypes
  PROVE  Record \in Seq(Chars) /\ Len(Record) = mCrtRcdLen
BY PrefixIs DEF WriterTypes, Record

LEMMA PartsTypes ==
  ASSUME WriterTypes
  PROVE  /\ Parts \in [Fields -> Seq(Chars)]
         /\ \A i \in Fields : /\ Trimmed(value[i]) \in Seq(Chars) \cup {Null}
                              /\ Parts[i] = Written(Trimmed(value[i]))
PROOF
<1>1. ASSUME NEW i \in Fields
      PROVE  /\ Trimmed(value[i]) \in Seq(Chars) \cup {Null}
             /\ Written(Trimmed(value[i])) \in Seq(Chars)
  <2>1. value[i] \in Seq(Chars) \cup {Null}  BY DEF WriterTypes
  <2>2. PICK v : v = Trimmed(value[i])  OBVIOUS
  <2>3. v \in Seq(Chars) \cup {Null}  BY <2>1, <2>2, TrimmedTypes DEF WriterTypes
  <2>4. Qual \in Chars /\ Backslash \in Chars  BY CharsAssumption, WriterAssumption
  <2>5. Written(v) \in Seq(Chars)  BY <2>3, <2>4, WrittenTypes
  <2>6. QED  BY <2>2, <2>3, <2>5
<1>2. QED  BY <1>1 DEF Parts

LEMMA LaidNext ==
  ASSUME conf' = conf, NEW r, NEW c, NEW k, NEW W, Record' = r, mCrtFieldIdx' = k,
         Parts' = W, Laid(r, c, k, W)
  PROVE  (\E d : Laid(Record, d, mCrtFieldIdx, Parts))'
PROOF
<1>1. Width' = Width
  BY DEF Width
<1>2. Laid(Record, c, mCrtFieldIdx, Parts)'
  BY <1>1 DEF Laid, Put, Hit, RowEnd
<1>3. QED  BY <1>2

LEMMA PartsNext ==
  ASSUME UNCHANGED <<conf, value, mTrimCondition>>
  PROVE  Parts' = Parts /\ (AllReadable' <=> AllReadable)
BY DEF Parts, Written, Trimmed, Stripped, Escaped, AllReadable, Readable, PlainField,
       DelimAt, EndsRow, Width

(* Nothing is written.                                                     *)
LEMMA RecordStays ==
  ASSUME WriterTypes, RecordInv,
         UNCHANGED <<conf, mTrimCondition, value, mMemory, mCrtRcdLen, mCrtFieldIdx>>
  PROVE  WriterTypes' /\ RecordInv'
PROOF
<1>1. WriterTypes'
  BY DEF WriterTypes
<1>2. Record' = Record
  BY DEF Record
<1>3. Parts' = Parts /\ (AllReadable' <=> AllReadable)
  BY PartsNext
<1>4. PICK c : Laid(Record, c, mCrtFieldIdx, Parts)
  BY DEF RecordInv
<1>5. (\E d : Laid(Record, d, mCrtFieldIdx, Parts))'
  BY <1>2, <1>3, <1>4, LaidNext
<1>6. (AllReadable => NulFree(Record))'
  BY <1>2, <1>3 DEF RecordInv, NulFree
<1>7. QED  BY <1>1, <1>5, <1>6 DEF RecordInv

(* A field is written, or the beginning of one that does not fit.          *)
LEMMA SetFieldValueWrites ==
  ASSUME Inv, WriterTypes, RecordInv, SetFieldValue
  PROVE  WriterTypes' /\ RecordInv'
PROOF
<1>1. /\ mCrtFieldIdx < FieldsNum
      /\ UNCHANGED <<conf, mTrimCondition, value>>
  BY DEF SetFieldValue, vars, objVars
<1>2. PICK i \in Fields : i = mCrtFieldIdx
  <2>1. mCrtFieldIdx \in Fields  BY <1>1, ConfigAssumption DEF WriterTypes, Fields
  <2>2. QED  BY <2>1
<1>3. ConfOK
  BY ConfTypes DEF Inv
<1>4. PICK v : v = Trimmed(value[i])
  OBVIOUS
<1>5. PICK cs : cs = Chunks(i, v)
  OBVIOUS
<1>6. PICK fits : fits = Fitting(cs, mCrtRcdLen)
  OBVIOUS
<1>7. /\ mMemory' = SubSeq(mMemory, 1, mCrtRcdLen) \o Bytes(fits)
      /\ \/ mCrtRcdLen' = mCrtRcdLen /\ mCrtFieldIdx' = mCrtFieldIdx
         \/ fits = cs /\ mCrtRcdLen' = Len(mMemory') /\ mCrtFieldIdx' = i + 1
  BY <1>2, <1>4, <1>5, <1>6, Zenon DEF SetFieldValue, Offset
<1>8. v \in Seq(Chars) \cup {Null} /\ Parts[i] = Written(v) /\ Parts \in [Fields -> Seq(Chars)]
  BY <1>4, PartsTypes
<1>9. /\ cs \in ChunkSeq /\ Bytes(cs) = (Before(i) \o Parts[i]) \o After(i)
      /\ fits \in ChunkSeq
  BY <1>3, <1>5, <1>6, <1>8, ChunksAre, FittingTypes
<1>10. PICK b \in Seq(Chars) : b = Bytes(fits)
  BY <1>9, BytesTypes
<1>11. PICK r \in Seq(Chars) : r = Record /\ Len(r) = mCrtRcdLen
  BY RecordTypes
<1>12. mMemory' = r \o b
  BY <1>7, <1>10, <1>11 DEF Record
<1>13. /\ r \o b \in Seq(Chars) /\ Len(r \o b) = Len(r) + Len(b) /\ Len(r) \in Nat
       /\ Len(b) \in Nat
  BY ConcatAt
<1>14. Parts' = Parts /\ (AllReadable' <=> AllReadable)
  BY <1>1, PartsNext
<1>15. PICK c : Laid(r, c, i, Parts)
  BY <1>2, <1>11 DEF RecordInv
<1>16. CASE mCrtRcdLen' = mCrtRcdLen /\ mCrtFieldIdx' = mCrtFieldIdx
  <2>1. Record' = r
    <3>1. SubSeq(r \o b, 1, Len(r)) = r  BY PrefixKept
    <3>2. Record' = SubSeq(mMemory', 1, mCrtRcdLen')  BY DEF Record
    <3>3. QED  BY <1>11, <1>12, <1>16, <3>1, <3>2
  <2>2. WriterTypes'
    <3>1. mMemory' \in Seq(Chars) /\ mCrtRcdLen' \in Nat /\ mCrtRcdLen' <= Len(mMemory')
      BY <1>11, <1>12, <1>13, <1>16 DEF WriterTypes
    <3>2. QED  BY <1>1, <1>16, <3>1 DEF WriterTypes
  <2>3. (\E d : Laid(Record, d, mCrtFieldIdx, Parts))'
    <3>1. mCrtFieldIdx' = i  BY <1>2, <1>16
    <3>2. QED  BY <1>1, <1>14, <1>15, <2>1, <3>1, LaidNext
  <2>4. (AllReadable => NulFree(Record))'
    <3>1. AllReadable => NulFree(r)  BY <1>11 DEF RecordInv
    <3>2. QED  BY <1>14, <2>1, <3>1 DEF NulFree
  <2>5. QED  BY <2>2, <2>3, <2>4 DEF RecordInv
<1>17. CASE fits = cs /\ mCrtRcdLen' = Len(mMemory') /\ mCrtFieldIdx' = i + 1
  <2>1. PICK s : s = r \o b  OBVIOUS
  <2>2. b = (Before(i) \o Parts[i]) \o After(i)
    BY <1>9, <1>10, <1>17
  <2>3. Record' = s
    <3>1. SubSeq(s, 1, Len(s)) = s  BY <1>13, <2>1, WholeIs
    <3>2. Record' = SubSeq(mMemory', 1, mCrtRcdLen')  BY DEF Record
    <3>3. QED  BY <1>12, <1>17, <2>1, <3>1, <3>2
  <2>4. WriterTypes'
    <3>1. mMemory' \in Seq(Chars) /\ mCrtRcdLen' \in Nat /\ mCrtRcdLen' <= Len(mMemory')
      BY <1>12, <1>13, <1>17
    <3>2. mCrtFieldIdx' \in 0 .. FieldsNum
      BY <1>17, ConfigAssumption DEF Fields
    <3>3. QED  BY <1>1, <3>1, <3>2 DEF WriterTypes
  <2>5. PICK d : Laid(s, d, i + 1, Parts)
    BY <1>3, <1>8, <1>15, <2>1, <2>2, LaidStep
  <2>6. (\E e : Laid(Record, e, mCrtFieldIdx, Parts))'
    BY <1>1, <1>14, <1>17, <2>3, <2>5, LaidNext
  <2>7. (AllReadable => NulFree(Record))'
    <3>1. ASSUME AllReadable PROVE NulFree(s)
      <4>1. NulFree(r)  BY <1>11, <3>1 DEF RecordInv
      <4>2. Readable(v)  BY <1>4, <3>1 DEF AllReadable
      <4>3. conf.unqualified \in BOOLEAN  BY DEF Inv, TypeOK
      <4>4. PICK w \in Seq(Chars \ {Nul}) : w = Parts[i]
        BY <1>3, <1>8, <4>2, <4>3, ReadsBack
      <4>5. Before(i) \in Seq(Chars \ {Nul}) /\ After(i) \in Seq(Chars \ {Nul})
        BY <1>3, AroundTypes
      <4>6. r \o ((Before(i) \o w) \o After(i)) \in Seq(Chars \ {Nul})
        BY <4>1, <4>4, <4>5, ThreeAt DEF NulFree
      <4>7. QED  BY <2>1, <2>2, <4>4, <4>6 DEF NulFree
    <3>2. QED  BY <1>14, <2>3, <3>1 DEF NulFree
  <2>8. QED  BY <2>4, <2>6, <2>7 DEF RecordInv
<1>18. QED  BY <1>7, <1>16, <1>17

LEMMA MemoryStays ==
  ASSUME MemoryInv, mCrtRcdLen \in Nat, conf' = conf, mCrtRcdLen' = mCrtRcdLen,
         mMemLen' \in Nat, mMemLen <= mMemLen', phase' = phase \/ phase' = "sent"
  PROVE  MemoryInv'
PROOF
<1>1. Width' = Width  BY DEF Width
<1>2. QED  BY <1>1 DEF MemoryInv

LEMMA SetFieldValueStays ==
  ASSUME Inv, WriterTypes, MemoryInv, SetFieldValue
  PROVE  MemoryInv'
PROOF
<1>1. /\ mCrtFieldIdx < FieldsNum
      /\ UNCHANGED <<conf, mMemLen>>
  BY DEF SetFieldValue, vars, objVars
<1>2. Width' = Width
  BY <1>1 DEF Width
<1>3. SUFFICES ASSUME Width <= 2 PROVE mCrtRcdLen' <= mMemLen /\ phase' # "overrun"
  BY <1>1, <1>2 DEF MemoryInv
<1>4. PICK i \in Fields : i = mCrtFieldIdx
  <2>1. mCrtFieldIdx \in Fields  BY <1>1, ConfigAssumption DEF WriterTypes, Fields
  <2>2. QED  BY <2>1
<1>5. ConfOK
  BY ConfTypes DEF Inv
<1>6. PICK v : v = Trimmed(value[i])
  OBVIOUS
<1>7. PICK cs : cs = Chunks(i, v)
  OBVIOUS
<1>8. PICK fits : fits = Fitting(cs, mCrtRcdLen)
  OBVIOUS
<1>9. /\ mMemory' = SubSeq(mMemory, 1, mCrtRcdLen) \o Bytes(fits)
      /\ mCrtRcdLen' = mCrtRcdLen \/ mCrtRcdLen' = Len(mMemory')
      /\ phase' = IF Len(mMemory') > mMemLen THEN "overrun" ELSE "writing"
  BY <1>4, <1>6, <1>7, <1>8, Zenon DEF SetFieldValue, Offset
<1>10. v \in Seq(Chars) \cup {Null}
  BY <1>6, PartsTypes
<1>11. cs \in ChunkSeq /\ Bounded(cs) /\ fits \in ChunkSeq
  BY <1>3, <1>5, <1>7, <1>8, <1>10, ChunksSized, FittingTypes DEF Sized
<1>12. PICK b \in Seq(Chars) : b = Bytes(fits)
  BY <1>11, BytesTypes
<1>13. PICK n \in Nat : n = mCrtRcdLen /\ n <= mMemLen /\ mMemLen \in Nat
  BY <1>3 DEF WriterTypes, MemoryInv
<1>14. n + Len(b) <= mMemLen
  BY <1>8, <1>11, <1>12, <1>13, FittingStays
<1>15. PICK r \in Seq(Chars) : r = Record /\ Len(r) = n
  BY <1>13, RecordTypes
<1>16. Len(mMemory') = n + Len(b) /\ Len(b) \in Nat
  <2>1. mMemory' = r \o b  BY <1>9, <1>12, <1>15 DEF Record
  <2>2. QED  BY <1>15, <2>1, ConcatAt
<1>17. QED  BY <1>9, <1>13, <1>14, <1>16

(* What a step of the reader leaves alone.                                 *)
LEMMA ParseKeeps ==
  ASSUME Inv, Parse
  PROVE  /\ ~Idle /\ UNCHANGED <<conf, input, fresh>>
         /\ data' = data \/ (Clean /\ p.crtidx < Len(data))
PROOF
<1>1. CASE FieldBegin \/ Field \/ StrField \/ FieldEndsEarly \/ FieldEnd \/ RecordEnd
  BY <1>1 DEF FieldBegin, Field, StrField, FieldEndsEarly, FieldEnd, RecordEnd, InField,
              Idle, objVars, valVars
<1>2. CASE StrEscape \/ StrEnd \/ UsedUp
  BY <1>2 DEF StrEscape, StrEnd, UsedUp, InField, Idle, objVars, valVars
<1>3. QED  BY <1>1, <1>2 DEF Parse

(* In a text without \000 cleaning changes nothing.                        *)
LEMMA CleanKeeps ==
  ASSUME Inv, NulFree(data), Clean, p.crtidx < Len(data)
  PROVE  data' = data
PROOF
<1>1. PICK x \in Nat : x = p.crtidx
  <2>1. p.crtidx \in Nat  BY Types DEF Inv, Locals
  <2>2. QED  BY <2>1
<1>2. data \in Seq(Chars) /\ Len(data) \in Nat
  BY Types DEF Inv
<1>3. x + 1 \in 1 .. Len(data)
  BY <1>1, <1>2
<1>4. data[x + 1] \in Chars \ {Nul}
  BY <1>3 DEF NulFree
<1>5. Seen = data[x + 1]
  BY <1>1, <1>4 DEF Seen, At
<1>6. data' = [data EXCEPT ![x + 1] = data[x + 1]]
  BY <1>1, <1>5 DEF Clean
<1>7. QED  BY <1>2, <1>6

LEMMA ConfStays == Inv /\ [Next]_vars => conf' = conf
BY ParseKeeps DEF Next, vars, objVars, Clear, SetEOF, SetData, GetFieldValue

LEMMA ReaderKeeps ==
  ASSUME Inv, RecordInv, WriterTypes, SentInv, MemoryInv, phase \in {"idle", "sent"},
         [Next]_vars, UNCHANGED writer
  PROVE  WriterTypes' /\ RecordInv' /\ SentInv' /\ MemoryInv'
PROOF
<1>1. UNCHANGED <<mTrimCondition, value, mMemory, mMemLen, mCrtRcdLen, mCrtFieldIdx, phase>>
  BY DEF writer
<1>2. WriterTypes' /\ RecordInv'
  BY <1>1, ConfStays, RecordStays
<1>3. PICK r : r = Record
  OBVIOUS
<1>4. Record' = r
  BY <1>1, <1>3 DEF Record
<1>5. ASSUME phase = "sent"
      PROVE  /\ fresh'
             /\ \/ cleared' /\ Idle' /\ input' = <<r>>
                \/ input' = <<>> /\ (NulFree(r) => data' = r)
  <2>1. /\ fresh
        /\ \/ cleared /\ Idle /\ input = <<r>>
           \/ input = <<>> /\ (NulFree(r) => data = r)
    BY <1>3, <1>5 DEF SentInv
  <2>2. CASE Clear
    BY <2>1, <2>2 DEF Clear, Idle
  <2>3. CASE SetEOF
    BY <2>1, <2>3 DEF SetEOF, Idle, valVars
  <2>4. CASE SetData
    <3>1. input # <<>> /\ input' = Tail(input) /\ data' = Head(input) /\ fresh' = cleared
      BY <2>4 DEF SetData
    <3>2. cleared /\ input = <<r>>  BY <2>1, <3>1
    <3>3. Head(<<r>>) = r /\ Tail(<<r>>) = <<>>  OBVIOUS
    <3>4. QED  BY <3>1, <3>2, <3>3
  <2>5. CASE Parse
    <3>1. /\ ~Idle /\ UNCHANGED <<conf, input, fresh>>
          /\ data' = data \/ (Clean /\ p.crtidx < Len(data))
      BY <2>5, ParseKeeps
    <3>2. input = <<>> /\ (NulFree(r) => data = r)  BY <2>1, <3>1
    <3>3. ASSUME NulFree(r) PROVE data' = r
      BY <3>1, <3>2, <3>3, CleanKeeps
    <3>4. QED  BY <2>1, <3>1, <3>2, <3>3
  <2>6. ASSUME NEW i \in Fields, GetFieldValue(i)
        PROVE  /\ fresh'
               /\ \/ cleared' /\ Idle' /\ input' = <<r>>
                  \/ input' = <<>> /\ (NulFree(r) => data' = r)
    <3>1. ~cleared /\ UNCHANGED <<data, input, fresh>>  BY <2>6 DEF GetFieldValue
    <3>2. QED  BY <2>1, <3>1
  <2>7. CASE UNCHANGED vars
    BY <2>1, <2>7 DEF vars, valVars, Idle
  <2>8. QED  BY <2>2, <2>3, <2>4, <2>5, <2>6, <2>7 DEF Next
<1>6. SentInv'
  <2>1. phase' = phase /\ mCrtFieldIdx' = mCrtFieldIdx  BY <1>1
  <2>2. ASSUME phase = "sent"
        PROVE  /\ mCrtFieldIdx' = FieldsNum /\ fresh'
               /\ \/ cleared' /\ Idle' /\ input' = <<Record'>>
                  \/ input' = <<>> /\ (NulFree(Record') => data' = Record')
    BY <1>4, <1>5, <2>1, <2>2 DEF SentInv
  <2>3. QED  BY <2>1, <2>2 DEF SentInv, NulFree
<1>7. MemoryInv'
  BY <1>1, ConfStays, MemoryStays DEF MemoryInv, WriterTypes
<1>8. QED  BY <1>2, <1>6, <1>7

(***************************************************************************)
(* The invariant of both.                                                  *)
(***************************************************************************)
ReaderInv == Inv /\ MarkInv /\ ToldInv /\ StoreInv /\ ValuesInv
WriterInv == ReaderInv /\ WriterTypes /\ RecordInv /\ SentInv /\ MemoryInv

LEMMA WriterStarts == WriterInit => WriterInv
PROOF
<1> SUFFICES ASSUME WriterInit PROVE WriterInv
  OBVIOUS
<1>1. PICK S : S \subseteq Seq(Seq(Chars) \ {<<>>}) /\ InitWith(S)
  <2>1. {<<>>} \subseteq Seq(Seq(Chars) \ {<<>>})  BY EmptySeq
  <2>2. QED  BY <2>1, InputsAssumption DEF WriterInit, Init
<1>2. ReaderInv
  BY <1>1, InvStarts, FindsStarts, StoreStarts DEF ReaderInv
<1>3. mMemory = <<>> /\ mCrtRcdLen = 0 /\ mCrtFieldIdx = 0
  BY DEF WriterInit
<1>4. WriterTypes
  <2>1. mTrimCondition \in Trimming
    BY WriterAssumption DEF WriterInit, Trimming
  <2>2. value \in [Fields -> Seq(Chars) \cup {Null}]
    BY WriterAssumption DEF WriterInit
  <2>3. mMemory \in Seq(Chars) /\ Len(mMemory) = 0
    BY <1>3, EmptySeq
  <2>4. QED  BY <1>3, <2>1, <2>2, <2>3, ConfigAssumption DEF WriterTypes
<1>5. Record = <<>>
  <2>1. Record \in Seq(Chars) /\ Len(Record) = 0  BY <1>3, <1>4, RecordTypes
  <2>2. QED  BY <2>1, EmptySeq
<1>6. RecordInv
  <2>1. \E c : Laid(<<>>, c, 0, Parts)
    BY <1>2, ConfTypes, LaidStarts DEF ReaderInv, Inv
  <2>2. NulFree(<<>>)  BY EmptySeq DEF NulFree
  <2>3. QED  BY <1>3, <1>5, <2>1, <2>2 DEF RecordInv
<1>7. SentInv
  <2>1. cleared /\ fresh /\ Idle  BY <1>1 DEF InitWith, Idle, Start
  <2>2. phase # "sent"  BY DEF WriterInit
  <2>3. QED  BY <2>1, <2>2 DEF SentInv
<1>8. MemoryInv
  <2>1. \A n \in Sizes : n \in Nat  BY WriterAssumption
  <2>2. (mMemLen = 0 \/ mMemLen \in Sizes) /\ phase # "overrun"  BY DEF WriterInit
  <2>3. QED  BY <1>3, <2>1, <2>2 DEF MemoryInv
<1>9. QED  BY <1>2, <1>4, <1>6, <1>7, <1>8 DEF WriterInv

LEMMA RecordNotEmpty ==
  ASSUME Inv, WriterTypes, RecordInv, mCrtFieldIdx = FieldsNum
  PROVE  Record \in Seq(Chars) \ {<<>>}
PROOF
<1>1. PICK r \in Seq(Chars) : r = Record
  BY RecordTypes
<1>2. PICK c : Laid(r, c, FieldsNum, Parts)
  BY <1>1 DEF RecordInv
<1>3. PICK e \in Int : e = c[FieldsNum] /\ 1 <= e
  <2>1. FieldsNum \in 0 .. FieldsNum /\ FieldsNum \in 1 .. FieldsNum  BY ConfigAssumption
  <2>2. QED  BY <1>2, <2>1 DEF Laid
<1>4. Len(r) = e - 1 + 2 \/ Len(r) = e - 1 + 1
  BY <1>2, <1>3 DEF Laid, RowEnd
<1>5. Len(r) # 0
  BY <1>3, <1>4
<1>6. r # <<>>
  BY <1>5, EmptySeq
<1>7. QED  BY <1>1, <1>6

LEMMA SendKeeps ==
  ASSUME WriterInv, Send
  PROVE  WriterInv'
PROOF
<1>1. /\ phase = "writing" /\ mCrtFieldIdx = FieldsNum /\ phase' = "sent"
      /\ input' = <<Record>>
      /\ UNCHANGED <<conf, mIsEOF, mFieldValues, cleared, fresh, outVars, fieldVars, data, p>>
      /\ UNCHANGED <<mTrimCondition, mMemory, mMemLen, mCrtRcdLen, mCrtFieldIdx, value>>
  BY DEF Send, objVars, Record
<1>2. Inv /\ MarkInv /\ ToldInv /\ StoreInv /\ ValuesInv /\ WriterTypes /\ RecordInv /\ SentInv
      /\ MemoryInv
  BY DEF WriterInv, ReaderInv
<1>3. input' \in Seq(Seq(Chars) \ {<<>>})
  <2>1. PICK r \in Seq(Chars) \ {<<>>} : r = Record
    BY <1>1, <1>2, RecordNotEmpty
  <2>2. <<r>> \in Seq(Seq(Chars) \ {<<>>})  OBVIOUS
  <2>3. QED  BY <1>1, <2>1, <2>2
<1>4. Inv'
  <2>1. UNCHANGED <<conf, mIsEOF, mIsLastRecordMissRowDelimiter, field,
                    mNeedEscapeQualifier, data, p, status, record_len, cleared, fresh>>
    BY <1>1 DEF outVars, fieldVars
  <2>2. TypeOK'
    BY <1>2, <1>3, <2>1 DEF Inv, TypeOK
  <2>3. PosInv' /\ FieldInv' /\ StaysInside'
    BY <1>2, <2>1 DEF Inv, PosInv, FieldInv, StaysInside, Complete, Told, Idle, Quoted, Width
  <2>4. QED  BY <2>2, <2>3 DEF Inv
<1>5. MarkInv' /\ ToldInv'
  BY <1>1, <1>2, Stays
<1>6. StoreInv'
  BY <1>1, <1>2, StaysStoring
<1>7. ValuesInv'
  BY <1>1, <1>2 DEF ValuesInv
<1>8. WriterTypes' /\ RecordInv'
  BY <1>1, <1>2, RecordStays
<1>9. SentInv'
  <2>1. cleared /\ fresh /\ Idle  BY <1>1, <1>2 DEF SentInv
  <2>2. cleared' /\ fresh' /\ Idle'  BY <1>1, <2>1 DEF Idle
  <2>3. Record' = Record  BY <1>1 DEF Record
  <2>4. QED  BY <1>1, <2>2, <2>3 DEF SentInv
<1>10. MemoryInv'
  BY <1>1, <1>2, MemoryStays DEF MemoryInv, WriterTypes
<1>11. QED  BY <1>4, <1>5, <1>6, <1>7, <1>8, <1>9, <1>10 DEF WriterInv, ReaderInv

LEMMA WriterInductive == WriterInv /\ [WriterNext]_<<vars, writer>> => WriterInv'
PROOF
<1> SUFFICES ASSUME WriterInv, [WriterNext]_<<vars, writer>> PROVE WriterInv'
  OBVIOUS
<1>1. /\ Inv /\ MarkInv /\ ToldInv /\ StoreInv /\ ValuesInv
      /\ WriterTypes /\ RecordInv /\ SentInv /\ MemoryInv
  BY DEF WriterInv, ReaderInv
<1>2. [Next]_vars => ReaderInv'
  BY <1>1, InvInductive, FindsInductive, StoreInductive DEF ReaderInv
<1>3. ASSUME UNCHANGED <<vars, mTrimCondition, value>>,
             WriterTypes', RecordInv', MemoryInv',
             phase' = "sent" => phase = "sent" /\ mCrtFieldIdx' = mCrtFieldIdx /\ Record' = Record,
             phase' = "writing" => phase = "writing"
      PROVE  WriterInv'
  <2>1. UNCHANGED <<cleared, fresh, p, input, data>>  BY <1>3 DEF vars, valVars
  <2>2. SentInv'
    BY <1>1, <1>3, <2>1 DEF SentInv, Idle, NulFree
  <2>3. QED  BY <1>2, <1>3, <2>2 DEF WriterInv
<1>4. CASE SetFieldValue
  <2>1. WriterTypes' /\ RecordInv' /\ MemoryInv'
    BY <1>1, <1>4, SetFieldValueWrites, SetFieldValueStays
  <2>2. /\ UNCHANGED <<vars, mTrimCondition, value>>
        /\ phase = "writing" /\ phase' # "sent"
    BY <1>4 DEF SetFieldValue
  <2>3. QED  BY <1>3, <2>1, <2>2
<1>5. CASE Grow
  <2>1. /\ UNCHANGED <<vars, mTrimCondition, mMemory, mCrtRcdLen, mCrtFieldIdx, value, phase>>
        /\ mMemLen' \in Nat /\ mMemLen <= mMemLen'
    BY <1>1, <1>5, WriterAssumption DEF Grow, MemoryInv
  <2>2. conf' = conf  BY <2>1 DEF vars, objVars
  <2>3. WriterTypes' /\ RecordInv' /\ MemoryInv'
    BY <1>1, <2>1, <2>2, RecordStays, MemoryStays DEF WriterTypes
  <2>4. Record' = Record  BY <2>1 DEF Record
  <2>5. QED  BY <1>3, <2>1, <2>3, <2>4
<1>6. CASE Send
  BY <1>6, SendKeeps
<1>7. CASE phase \in {"idle", "sent"} /\ Next /\ UNCHANGED writer
  BY <1>1, <1>2, <1>7, ReaderKeeps DEF WriterInv
<1>8. CASE UNCHANGED <<vars, writer>>
  <2>1. UNCHANGED <<vars, mTrimCondition, mMemory, mMemLen, mCrtRcdLen, mCrtFieldIdx, value, phase>>
    BY <1>8 DEF writer
  <2>2. conf' = conf  BY <2>1 DEF vars, objVars
  <2>3. mMemLen' \in Nat /\ mMemLen <= mMemLen'  BY <1>1, <2>1 DEF MemoryInv
  <2>4. WriterTypes' /\ RecordInv' /\ MemoryInv'
    BY <1>1, <2>1, <2>2, <2>3, RecordStays, MemoryStays DEF WriterTypes
  <2>5. Record' = Record  BY <2>1 DEF Record
  <2>6. QED  BY <1>3, <2>1, <2>4, <2>5
<1>9. QED  BY <1>4, <1>5, <1>6, <1>7, <1>8 DEF WriterNext

LEMMA TextsAreSome ==
  ASSUME NEW s, NEW m, NEW c, Split(s, m, c, Texts)
  PROVE  Split(s, m, c, Fields)
PROOF
<1>1. Texts \subseteq Fields
  BY ConfigAssumption DEF Texts, Fields
<1>2. ASSUME NEW i \in Fields PROVE FieldAt(s, c, i, Fields)
  <2>1. FieldAt(s, c, i, Texts)  BY DEF Split
  <2>2. QED  BY <1>1, <2>1 DEF FieldAt
<1>3. QED  BY <1>2 DEF Split

(* The two forms of the end of a record.                                   *)
LEMMA EndsAt ==
  ASSUME NEW r, NEW m \in Nat, NEW n, RowEnd(r, m), n = Len(r)
  PROVE  RowEndAt(r, m, n) /\ n \in Nat /\ 1 <= n
BY DEF RowEnd, RowEndAt

LEMMA EndsRowThere ==
  ASSUME NEW r, NEW m, NEW n, RowEndAt(r, m, n)
  PROVE  EndsRow(r[m + 1])
BY DEF RowEndAt, EndsRow

LEMMA EndsOnce ==
  ASSUME NEW r, NEW m \in Nat, NEW n, NEW o, RowEndAt(r, m, n), RowEndAt(r, m, o)
  PROVE  n = o
BY CharsAssumption DEF RowEndAt

(* The reader cannot refuse a record that is one, nor find another in it.  *)
LEMMA SentIsRead ==
  ASSUME WriterInv, phase = "sent", Separable, AllReadable
  PROVE  /\ ~Told(-1) /\ ~Told(-2)
         /\ Complete =>
              /\ record_len = Len(data)
              /\ \A i \in Fields :
                   LET v == Trimmed(value[i]) IN
                   mFieldValues[i] \in {NoValue, IF v = <<>> THEN Null ELSE v}
PROOF
<1>1. Inv /\ ToldInv /\ StoreInv /\ WriterTypes /\ RecordInv /\ SentInv
  BY DEF WriterInv, ReaderInv
<1>2. ConfOK /\ conf.unqualified \in BOOLEAN
  BY <1>1, ConfTypes DEF Inv, TypeOK
<1>3. PICK r \in Seq(Chars) : r = Record
  BY <1>1, RecordTypes
<1>4. mCrtFieldIdx = FieldsNum /\ fresh
      /\ (cleared \/ data = r)
  BY <1>1, <1>3 DEF SentInv, RecordInv
<1>5. PICK W \in [Fields -> Seq(Chars)] : W = Parts
  BY <1>1, PartsTypes
<1>6. ASSUME NEW i \in Fields
      PROVE  LET v == Trimmed(value[i]) IN
             /\ PlainField(W[i]) \/ (Width = 1 /\ QualifiedField(W[i]))
             /\ ValueOf(W[i]) = IF v = <<>> THEN Null ELSE v
  <2>1. PICK v : v = Trimmed(value[i])  OBVIOUS
  <2>2. v \in Seq(Chars) \cup {Null} /\ W[i] = Written(v)  BY <1>1, <1>5, <2>1, PartsTypes
  <2>3. Readable(v)  BY <2>1 DEF AllReadable
  <2>4. /\ PlainField(Written(v)) \/ (Width = 1 /\ QualifiedField(Written(v)))
        /\ ValueOf(Written(v)) = IF v = <<>> THEN Null ELSE v
    BY <1>2, <2>2, <2>3, ReadsBack
  <2>5. QED  BY <2>1, <2>2, <2>4
<1>7. FieldsReadable(W)
  BY <1>6 DEF FieldsReadable
<1>8. PICK c : Laid(r, c, FieldsNum, W)
  BY <1>1, <1>3, <1>4, <1>5 DEF RecordInv
<1>9. PICK m \in Nat : /\ RowEnd(r, m) /\ Split(r, m, c, Texts)
                       /\ \A i \in Fields : PartIs(r, c, i, W)
  BY <1>2, <1>7, <1>8, LaidSplit
<1>10. PICK n \in Nat : n = Len(r) /\ RowEndAt(r, m, n) /\ 1 <= n
  <2>1. PICK n : n = Len(r)  OBVIOUS
  <2>2. RowEndAt(r, m, n) /\ n \in Nat /\ 1 <= n  BY <1>9, <2>1, EndsAt
  <2>3. QED  BY <2>1, <2>2
<1>11. ~Told(-1) /\ ~Told(-2)
  <2>1. SUFFICES ASSUME Told(-1) \/ Told(-2) PROVE FALSE
    OBVIOUS
  <2>2. ~cleared  BY <2>1 DEF Told
  <2>3. Refused(r)  BY <1>1, <1>4, <2>1, <2>2 DEF ToldInv
  <2>4. n \in 1 .. Len(r)  BY <1>10
  <2>5. ~Split(r, m, c, Texts)  BY <1>10, <2>3, <2>4 DEF Refused
  <2>6. QED  BY <1>9, <2>5
<1>12. ASSUME Complete
       PROVE  /\ record_len = Len(data)
              /\ \A i \in Fields :
                   LET v == Trimmed(value[i]) IN
                   mFieldValues[i] \in {NoValue, IF v = <<>> THEN Null ELSE v}
  <2>1. ~cleared  BY <1>12 DEF Complete, Told
  <2>2. data = r  BY <1>4, <2>1
  <2>3. PICK l : l = record_len  OBVIOUS
  <2>4. Taken(r, l)  BY <1>1, <1>12, <2>2, <2>3 DEF ToldInv
  <2>5. PICK d : \E q \in Nat : RowEndAt(r, q, l) /\ Split(r, q, d, Texts)
    BY <2>4 DEF Taken
  <2>6. PICK q \in Nat : RowEndAt(r, q, l) /\ Split(r, q, d, Texts)
    BY <2>5
  <2>7. EndsRow(r[m + 1]) /\ EndsRow(r[q + 1])
    BY <1>10, <2>6, EndsRowThere
  <2>8. m = q
    BY <1>2, <1>9, <2>6, <2>7, OneRecord
  <2>9. l = n
    BY <1>10, <2>6, <2>8, EndsOnce
  <2>10. ReadOf(r, n, mFieldValues, field, mNeedEscapeQualifier)
    BY <1>1, <1>4, <1>12, <2>2, <2>3, <2>9 DEF StoreInv, ReadInv
  <2>11. Split(r, m, c, Fields)
    BY <1>9, TextsAreSome
  <2>12. ASSUME NEW i \in Fields
         PROVE  LET v == Trimmed(value[i]) IN
                mFieldValues[i] \in {NoValue, IF v = <<>> THEN Null ELSE v}
    <3>1. n \in Int  OBVIOUS
    <3>2. PICK a \in Nat \ {0} : \E b \in Nat :
            /\ a = c[i] + Width /\ b = c[i + 1] - 1 /\ a <= b + 1 /\ b <= m /\ b <= n
            /\ m <= n
            /\ Plain(r, a, b) \/ Text(r, a, b)
      BY <1>2, <1>10, <2>11, <3>1, FieldPlace
    <3>3. PICK b \in Nat :
            a = c[i] + Width /\ b = c[i + 1] - 1 /\ b <= n
      BY <3>2
    <3>4. ValueAt(r, a, b, mFieldValues[i], field[i], mNeedEscapeQualifier[i])
      BY <1>10, <2>10, <2>11, <3>3 DEF ReadOf
    <3>5. SubSeq(r, a, b) = W[i]
      BY <1>9, <3>3 DEF PartIs
    <3>6. ~(Width > 1 /\ Text(r, a, b))
      <4>1. SUFFICES ASSUME Width > 1, Text(r, a, b) PROVE FALSE
        OBVIOUS
      <4>2. Width # 1  BY <1>2, <4>1 DEF ConfOK
      <4>3. PlainField(SubSeq(r, a, b))  BY <1>6, <3>5, <4>2
      <4>4. b \in Int /\ b <= Len(r)  BY <1>10, <3>3
      <4>5. Plain(r, a, b)  BY <1>2, <4>3, <4>4, PartPlain
      <4>6. a \in Nat  OBVIOUS
      <4>7. QED  BY <4>1, <4>4, <4>5, <4>6, PlainOrText
    <3>7. mFieldValues[i] = NoValue \/ mFieldValues[i] = ValueOf(W[i])
      BY <3>4, <3>5, <3>6 DEF ValueAt
    <3>8. QED  BY <1>6, <3>7
  <2>13. QED  BY <1>10, <2>2, <2>3, <2>9, <2>12
<1>13. QED  BY <1>11, <1>12

(* With a writer in front, too: whatever is written, and however often for *)
(* want of memory, setData() and getFieldValue() do with it what the       *)
(* theorems above say of any buffer (CSVParser.cpp:331-469, 561-1066).     *)
THEOREM WriterKeepsReader ==
  WriterSpec => [](TypeOK /\ StaysInside /\ AcceptsRecords /\ ValuesAreFields)
PROOF
<1>1. WriterInv => TypeOK /\ StaysInside /\ AcceptsRecords /\ ValuesAreFields
  BY ToldIs, ReadIsValue DEF WriterInv, ReaderInv, Inv
<1>2. QED  BY WriterStarts, WriterInductive, <1>1, PTL DEF WriterSpec

(* What setFieldValue() writes is read back (CSVParser.cpp:331-469,        *)
(* 528-1070): every record of readable values, of any number of fields,    *)
(* with any delimiter that does not overlap itself and any sizes of        *)
(* memory, if it is written inside them.  It is for a delimiter of one or  *)
(* two characters; one of three or more can be copied past their end, and  *)
(* of what comes then nothing is said.                                     *)
THEOREM WrittenIsRead == WriterSpec => []RoundTrip
PROOF
<1>1. WriterInv /\ phase = "overrun" => Width > 2
  <2>1. WriterInv => Width \in Nat
    BY ConfTypes DEF WriterInv, ReaderInv, Inv, ConfOK
  <2>2. QED  BY <2>1 DEF WriterInv, MemoryInv
<1>2. WriterInv => RoundTrip
  BY <1>1, SentIsRead DEF RoundTrip, AllReadable
<1>3. QED  BY WriterStarts, WriterInductive, <1>2, PTL DEF WriterSpec

=============================================================================
