---------------------------- MODULE MCCsvRecord ----------------------------
(* Instances of CsvRecord and CsvWriter for TLC: what callers have.        *)
EXTENDS CsvWriter

CONSTANTS Delim, x, y

AllChars == {Delim, LF, CR, Qual, Nul, Blank, Backslash, x, y}

(* A delimiter of one character, one of two, one that overlaps itself, and *)
(* one for which the writer's check is too small.                          *)
AllDelims == { <<Delim>>, <<x, y>>, <<y, y>>, <<x, y, Delim>> }
NarrowDelim == { <<Delim>> }
WideDelim == { <<x, y>> }

(* All the short buffers, with everything the parser tells apart.          *)
RowBuffers == BoundedSeq({Delim, LF, CR, Qual, Nul}, 5) \ {<<>>}

(* Longer ones: texts with escapes in one field or another.                *)
TextBuffers == BoundedSeq({Delim, LF, Qual}, 7) \ {<<>>}

(* Empty fields, texts and escapes.                                        *)
Pairs == { <<>>, <<x>>, <<Qual, x, Qual>>, <<Qual, Qual, Qual, Qual>> }

(* Those with longer delimiters, and longer ones of two fields.            *)
WideFields  == BoundedSeq({x, y, Qual}, 2) \cup Pairs
WideBuffers ==
  (BoundedSeq({x, y, LF, CR, Qual}, 4) \ {<<>>})
    \cup { f \o <<x, y>> \o g \o e :
             f, g \in WideFields, e \in { <<LF>>, <<CR, LF>> } }

(* Records of two fields, one that is too short, one that is broken, and   *)
(* some that are not complete.                                             *)
ReuseBuffers ==
  { f \o <<Delim>> \o g \o <<LF>> : f \in Pairs, g \in Pairs }
    \cup { <<x, LF>>, <<Qual, x, Qual, x, LF>>, <<Delim, x>> }

(* One buffer, whatever it holds; or two records, one after the other.     *)
AllInputs ==
  {<<d>> : d \in RowBuffers \cup TextBuffers \cup WideBuffers}
    \cup {<<d, e>> : d, e \in ReuseBuffers}

(* Buffers for the parser of the delimiter, and none for the longest: it   *)
(* does not tell it from one of two characters.                            *)
MCInit ==
  /\ WriterInit
  /\ Width > 2 => phase = "writing"
  /\ phase = "idle" =>
       Range(input[1]) \cap (IF Width = 1 THEN {y} ELSE {Delim, Nul}) = {}
MCSpec ==
  MCInit /\ [][WriterNext]_<<vars, writer>>
    /\ WF_<<vars, writer>>(Parse /\ UNCHANGED writer)

(* What is written, and memory that is too small for it, several times.    *)
AllValues ==
  { Null, <<>>, <<Blank>>, <<x, LF>>, <<Qual, Blank>>, <<Delim, y>>, <<x, Nul>> }
AllSizes  == {2, 7, 20}

(* The last line of a file, with and without a row delimiter; a text in    *)
(* front of a longer delimiter.                                            *)
LastLines == { <<f \o <<Delim>> \o g \o e>> :
                 f \in Pairs, g \in Pairs, e \in { <<LF>>, <<>> } }
WideTexts == { <<f \o <<x, y>> \o g \o <<LF>>>> :
                 f, g \in { <<>>, <<Delim>>, <<Qual, Delim, LF, Qual>> } }
=============================================================================
