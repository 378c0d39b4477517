---------------------------- MODULE IniDocument ----------------------------
(***************************************************************************)
(* What an INI file says, apart from how ini.c reads it.  A document is a  *)
(* sequence of lines, each a record of what its writer meant; Meaning()    *)
(* is the map the document stands for, and Render() the text INIReader     *)
(* gets.  The reader reads each line as it is meant.                       *)
(***************************************************************************)
EXTENDS IniParser

CONSTANTS Docs         \* documents

VARIABLE doc

(***************************************************************************)
(* A document: whether it begins with a BOM and ends its last line, and    *)
(* its lines.  A line is indented or not and has a body: a heading, a      *)
(* pair, in a tight or a loose layout, a comment or nothing, or one that   *)
(* is none of these.                                                       *)
(***************************************************************************)
Body(l) ==
  CASE l.kind = "heading" -> <<Open>> \o l.section \o <<Close>>
    [] l.kind = "pair"    -> l.name \o (IF l.loose
                                          THEN <<Sp, Eq, Sp>> \o l.value \o <<Sp, Semi, Eq>>
                                          ELSE <<Eq>> \o l.value)
    [] OTHER              -> l.text

Text(l) == (IF l.indented THEN <<Sp>> ELSE <<>>) \o Body(l)

(* The i-th line with its end, and the last n lines for each n.            *)
LineOf(d, i) ==
  Text(d.lines[i]) \o (IF d.ended \/ i < Len(d.lines) THEN <<LF>> ELSE <<>>)

LastLines(d) ==
  LET last[n \in 0 .. Len(d.lines)] ==
        IF n = 0 THEN <<>> ELSE LineOf(d, Len(d.lines) - n + 1) \o last[n - 1]
  IN  last

Mark(d)   == IF d.bom THEN Bom ELSE <<>>
Render(d) == Mark(d) \o LastLines(d)[Len(d.lines)]

(***************************************************************************)
(* A document is legible when its writer has kept to the format: a line    *)
(* fits in the buffer, with its LF and the end of the string (a CR is one  *)
(* of its spaces), and the first one behind the BOM, if there is one; what *)
(* ends a name or a section does not occur in it, nor what begins a        *)
(* comment in a value; a line that is none of the kinds has nothing that   *)
(* could make it one.  A comment within a line follows white space.        *)
(***************************************************************************)
Remark(s, i)     == s[i] = Semi /\ i > 1 /\ s[i - 1] = Sp
Plain(s, chars)  == \A i \in DOMAIN s : s[i] \notin chars /\ ~Remark(s, i)
Lacks(s, c)      == \A i \in DOMAIN s : s[i] = c => \E j \in 1 .. i - 1 : Remark(s, j)
Trim(s)          == s # <<>> => s[1] # Sp /\ s[Len(s)] # Sp

LegibleHeading(l) == Plain(l.section, {Close})

LegiblePair(l) ==
  /\ l.name # <<>> /\ Trim(l.name) /\ Plain(l.name, {Eq})
  /\ l.name[1] \notin {Semi, Hash, Open}
  /\ Trim(l.value) /\ Plain(l.value, {})
  /\ l.loose /\ l.value # <<>> => l.value[1] # Semi

LegibleNote(l) ==
  \A i \in DOMAIN l.text :
    (\A j \in 1 .. i - 1 : l.text[j] = Sp) => l.text[i] \in {Sp, Semi, Hash}

LegibleJunk(l) ==
  /\ l.text # <<>> /\ Trim(l.text) /\ l.text[1] \notin {Semi, Hash}
  /\ IF l.text[1] = Open THEN Lacks(Tail(l.text), Close) ELSE Lacks(l.text, Eq)

Words == Seq(Chars \ {LF})

Lines ==
  [indented : BOOLEAN, kind : {"heading", "pair", "note", "junk"},
   section : Words, name : Words, value : Words, loose : BOOLEAN, text : Words]

LegibleLine(l) ==
  /\ l \in Lines
  /\ Len(Text(l)) + 2 <= MaxLine
  /\ l.kind = "heading" => LegibleHeading(l)
  /\ l.kind = "pair"    => LegiblePair(l)
  /\ l.kind = "note"    => LegibleNote(l)
  /\ l.kind = "junk"    => LegibleJunk(l)

(* The last line of a file is not empty or has its end, and its first line *)
(* does not look like a BOM.                                               *)
Legible(d) ==
  /\ d \in [bom : BOOLEAN, ended : BOOLEAN, lines : Seq(Lines)]
  /\ d.lines # <<>>
  /\ \A i \in DOMAIN d.lines : LegibleLine(d.lines[i])
  /\ d.ended \/ Text(Last(d.lines)) # <<>>
  /\ Len(Mark(d)) + Len(Text(d.lines[1])) + 2 <= MaxLine
  /\ d.bom \/ ~IsPrefix(Bom, Text(d.lines[1]))

ASSUME DocsAssumption == \A d \in Docs : Legible(d)

(***************************************************************************)
(* What the lines mean.  A line continues a value when it is indented and  *)
(* a pair is in force, whatever it looks like; a comment behind it belongs *)
(* to the value.  The values of one key, in any case, form one value.  A   *)
(* section is known by what fits in MAX_SECTION, and so is, in the lines   *)
(* that continue its value, a name.                                        *)
(***************************************************************************)
Fits(s) == IF Len(s) < MaxName THEN s ELSE SubSeq(s, 1, MaxName - 1)

Nothing == [section |-> <<>>, name |-> <<>>, values |-> <<>>, malformed |-> {}]

Add(m, n, v) ==
  LET k == ToLower(m.section \o <<Eq>> \o n) IN
  [m EXCEPT !.name = Fits(n),
            !.values = [x \in DOMAIN @ \cup {k} |->
               IF x # k THEN @[x]
               ELSE IF x \in DOMAIN @ /\ @[x] # <<>> THEN @[x] \o <<LF>> \o v
               ELSE v]]

Says(m, l, indented, i) ==
  CASE l.kind = "note" -> m
    [] l.kind # "note" /\ indented /\ m.name # <<>> -> Add(m, m.name, Body(l))
    [] OTHER ->
         CASE l.kind = "heading" -> [m EXCEPT !.section = Fits(l.section), !.name = <<>>]
           [] l.kind = "pair"    -> Add(m, l.name, l.value)
           [] OTHER              -> [m EXCEPT !.malformed = @ \cup {i}]

Meanings(d) ==
  LET m[n \in 0 .. Len(d.lines)] ==
        IF n = 0 THEN Nothing
        ELSE Says(m[n - 1], d.lines[n], d.lines[n].indented, n)
  IN  m

Meaning(d, n) == Meanings(d)[n]

-----------------------------------------------------------------------------
DocInit == doc \in Docs /\ rest = Render(doc) /\ Init
DocNext == Next /\ UNCHANGED doc
DocSpec == DocInit /\ [][DocNext]_<<vars, doc>>

(* At every line the map holds what the lines read so far mean, and every  *)
(* line is read once: white space and comments are gone, cases are one, a  *)
(* key that occurs again or is continued has all its values, and a         *)
(* malformed line has cost no other line its value.                        *)
ReadsLines ==
  /\ values = Meaning(doc, lineno).values
  /\ done => lineno = Len(doc.lines)

(* The error is the number of the first malformed line, and the lines      *)
(* behind it are read all the same (ini.h:44-48).                          *)
FirstError ==
  LET malformed == Meaning(doc, lineno).malformed IN
  error = IF malformed = {} THEN 0 ELSE Min(malformed)

=============================================================================
