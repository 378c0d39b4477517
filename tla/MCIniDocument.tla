--------------------------- MODULE MCIniDocument ---------------------------
(***************************************************************************)
(* Documents of up to four lines: two sections and two keys in two cases,  *)
(* values that are empty, hold the comment character or end in a comment,  *)
(* and lines of each kind, indented and not.                               *)
(***************************************************************************)
EXTENDS IniDocument

CONSTANTS a, A, b, EF, BB, BF, MaxLines

mcBom   == <<EF, BB, BF>>
mcLower == [c \in Letters |-> IF c = A THEN a ELSE c]

Line(i, k, s, n, v, l, t) ==
  [indented |-> i, kind |-> k, section |-> s, name |-> n, value |-> v,
   loose |-> l, text |-> t]

HeadingOf(s)          == Line(FALSE, "heading", s, <<>>, <<>>, FALSE, <<>>)
PairOf(i, n, v, l)    == Line(i, "pair", <<>>, n, v, l, <<>>)
TextOf(i, k, t)       == Line(i, k, <<>>, <<>>, <<>>, FALSE, t)

mcLines ==
  {HeadingOf(<<a>>), HeadingOf(<<A, Sp, b>>)}
  \cup {PairOf(FALSE, <<a>>, <<b>>, FALSE), PairOf(FALSE, <<A>>, <<b, Semi, Sp, A>>, TRUE),
        PairOf(FALSE, <<A>>, <<>>, TRUE), PairOf(FALSE, <<b, b, a>>, <<>>, FALSE),
        PairOf(TRUE, <<b, b>>, <<a, Open>>, FALSE)}
  \cup {TextOf(FALSE, "note", <<>>), TextOf(TRUE, "note", <<Hash, a, Eq>>),
        TextOf(TRUE, "junk", <<a, Sp, Semi, b>>),
        TextOf(FALSE, "junk", <<a, Sp, Semi, Eq>>),
        TextOf(FALSE, "junk", <<Open, a, Sp, Semi, Close>>)}

(* The last line of a file is not empty or has its end.                    *)
mcDocs ==
  {d \in [bom : BOOLEAN, ended : BOOLEAN, lines : SeqOf(mcLines, MaxLines) \ {<<>>}] :
     d.ended \/ Text(Last(d.lines)) # <<>>}

=============================================================================
