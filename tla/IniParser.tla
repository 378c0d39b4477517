----------------------------- MODULE IniParser -----------------------------
(***************************************************************************)
(* INIReader (src/src/INIReader): ini_parse_stream() reads a file line by  *)
(* line and calls ValueHandler() for each value, which fills the map of    *)
(* INIReader.  One action is one turn of the loop, by the branch it takes. *)
(*                                                                         *)
(* A character is a byte, and stands for those the parser treats alike: Eq *)
(* for = and :, Sp for white space within a line, Semi for the inline      *)
(* comment prefix and Hash for the other one.  The build's configuration   *)
(* is the one of ini.h: multi-line values, a BOM, inline comments, the     *)
(* buffer on the stack, no stop at the first error.                        *)
(***************************************************************************)
EXTENDS Integers, Sequences, SequencesExt, FiniteSetsExt, Functions

CONSTANTS LF, Sp, Eq, Semi, Hash, Open, Close,
          Nul,         \* the end of a string
          Letters,     \* any other characters
          Bom,         \* the three of them that are a byte order mark
          Lower,       \* Lower[c]: tolower() of a letter
          MaxLine,     \* INI_MAX_LINE: the size of the line buffer
          MaxName      \* MAX_NAME and MAX_SECTION

Special == {LF, Sp, Eq, Semi, Hash, Open, Close}
Chars == Special \cup Letters

ASSUME CharsAssumption ==
  /\ LF \notin {Sp, Eq, Semi, Hash, Open, Close}
  /\ Sp \notin {Eq, Semi, Hash, Open, Close}
  /\ Eq \notin {Semi, Hash, Open, Close}
  /\ Semi \notin {Hash, Open, Close}
  /\ Hash \notin {Open, Close}
  /\ Open # Close
  /\ Special \cap Letters = {} /\ Nul \notin Chars
  /\ Lower \in [Letters -> Letters]
  /\ Bom \in Seq(Letters) /\ Len(Bom) = 3
  /\ MaxLine \in Nat /\ MaxLine > 2
  /\ MaxName \in Nat /\ MaxName > 1

VARIABLES
  rest,       \* what reader() has still to give
  lineno,
  section, prev_name,
  error,
  values,     \* INIReader::_values
  done        \* ini_parse_stream() has returned

vars == <<rest, lineno, section, prev_name, error, values, done>>

Init ==
  /\ rest \in Seq(Chars)
  /\ lineno = 0
  /\ section = <<>> /\ prev_name = <<>>
  /\ error = 0
  /\ values = <<>>
  /\ done = FALSE

(***************************************************************************)
(* The helpers on strings.                                                 *)
(***************************************************************************)
IsSpace(c)  == c \in {Sp, LF}
Visible(s)  == {i \in DOMAIN s : ~IsSpace(s[i])}

rstrip(s) == SubSeq(s, 1, Max(Visible(s) \cup {0}))
lskip(s)  == SubSeq(s, Min(Visible(s) \cup {Len(s) + 1}), Len(s))

(* The first of chars or the inline comment, or one behind the end.  An    *)
(* inline comment is one that follows white space.                         *)
IsComment(s, i) == s[i] = Semi /\ i > 1 /\ IsSpace(s[i - 1])

find_chars_or_comment(s, chars) ==
  Min({i \in DOMAIN s : s[i] \in chars \/ IsComment(s, i)} \cup {Len(s) + 1})

Up(s, i)    == SubSeq(s, 1, i - 1)
After(s, i) == SubSeq(s, i + 1, Len(s))

MutantStrncpy0(s) == SubSeq(s, 1, Min({Len(s), MaxName}))
strncpy0(s) == SubSeq(s, 1, Min({Len(s), MaxName - 1}))

(***************************************************************************)
(* reader() is fgets(): a line with its end, or what the buffer has room   *)
(* for.  A BOM takes three bytes of the buffer, and is skipped there.       *)
(***************************************************************************)
Read == SubSeq(rest, 1, Min({i \in DOMAIN rest : rest[i] = LF}
                              \cup {Len(rest), MaxLine - 1}))

line  == IF lineno = 0 /\ IsPrefix(Bom, Read) THEN After(Read, 3) ELSE Read
start == lskip(rstrip(line))
Indented == Len(lskip(Read)) < Len(Read) \/ line # Read

Turn ==
  /\ ~done /\ rest # <<>>
  /\ rest' = After(rest, Len(Read))
  /\ lineno' = lineno + 1
  /\ UNCHANGED done

(***************************************************************************)
(* ValueHandler().                                                         *)
(***************************************************************************)
ToLower(s) == [i \in DOMAIN s |-> IF s[i] \in Letters THEN Lower[s[i]] ELSE s[i]]

MakeKey(s, n) == ToLower(s \o <<Eq>> \o n)

Had(k) == IF k \in DOMAIN values THEN values[k] ELSE <<>>

MutantJoined(old, value) == old \o value
Joined(old, value) ==
  IF old = <<>> THEN value ELSE old \o <<LF>> \o value

Handle(n, value) ==
  LET k == MakeKey(section, n) IN
  values' = [x \in DOMAIN values \cup {k} |->
               IF x = k THEN Joined(Had(k), value) ELSE values[x]]

(* error = lineno, unless there is one already.                            *)
MutantNoted == lineno'
Noted == IF error = 0 THEN lineno' ELSE error

(***************************************************************************)
(* The branches of the loop.                                               *)
(***************************************************************************)
(* strchr() finds the end of an empty line as well.                        *)
First == IF start = <<>> THEN Nul ELSE start[1]
Blank == First \in {Nul, Semi, Hash}

Continues == prev_name # <<>> /\ ~Blank /\ Indented

Heading == ~Blank /\ ~Continues /\ First = Open

Skip ==
  /\ Turn
  /\ Blank
  /\ UNCHANGED <<section, prev_name, error, values>>

Continuation ==
  /\ Turn
  /\ Continues
  /\ Handle(prev_name, start)
  /\ UNCHANGED <<section, prev_name, error>>

Forget == <<>>

Section ==
  LET s   == Tail(start)
      end == find_chars_or_comment(s, {Close}) IN
  /\ Turn
  /\ Heading
  /\ IF end <= Len(s) /\ s[end] = Close
       THEN /\ section' = strncpy0(Up(s, end))
            /\ prev_name' = Forget
            /\ UNCHANGED error
       ELSE error' = Noted /\ UNCHANGED <<section, prev_name>>
  /\ UNCHANGED <<values>>

(* name = value ; comment                                                  *)
Pair ==
  LET end   == find_chars_or_comment(start, {Eq})
      name  == rstrip(Up(start, end))
      value == After(start, end) IN
  /\ Turn
  /\ ~Blank /\ ~Continues /\ ~Heading
  /\ IF end <= Len(start) /\ start[end] = Eq
       THEN /\ prev_name' = strncpy0(name)
            /\ Handle(name,
                      rstrip(lskip(Up(value, find_chars_or_comment(value, {})))))
            /\ UNCHANGED error
       ELSE error' = Noted /\ UNCHANGED <<prev_name, values>>
  /\ UNCHANGED section

Return ==
  /\ ~done /\ rest = <<>>
  /\ done' = TRUE
  /\ UNCHANGED <<rest, lineno, section, prev_name, error, values>>

Next == Skip \/ Continuation \/ Section \/ Pair \/ Return

Spec == Init /\ [][Next]_vars

(***************************************************************************)
(* Properties.                                                             *)
(***************************************************************************)
(* Types; a name and a section fit in their buffers.                       *)
TypeOK ==
  /\ rest \in Seq(Chars)
  /\ lineno \in Nat /\ error \in 0 .. lineno
  /\ section \in Seq(Chars) /\ Len(section) < MaxName
  /\ prev_name \in Seq(Chars) /\ Len(prev_name) < MaxName
  /\ \A k \in DOMAIN values : k \in Seq(Chars) /\ values[k] \in Seq(Chars)
  /\ done \in BOOLEAN

=============================================================================
