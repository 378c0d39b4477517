----------------------------- MODULE IniProofs -----------------------------
(***************************************************************************)
(* What TLAPS proves of the INI reader: types, and that it reads every     *)
(* legible document as it is meant.                                        *)
(***************************************************************************)
EXTENDS IniDocument, FiniteSetTheorems, SequenceTheorems, WellFoundedInduction, TLAPS

(***************************************************************************)
(* Numbers.  The library's induction theorems take an operator; a set does *)
(* as well: of the intervals 1 .. n with n in S one is the least.          *)
(***************************************************************************)
LEMMA LeastNumber ==
  ASSUME NEW S, S \subseteq Nat, S # {}
  PROVE  \E x \in S : \A y \in S : x <= y
PROOF
<1> DEFINE R  == StrictSubsetOrdering(Nat)
           TT == {1 .. n : n \in S}
<1>1. IsWellFoundedOn(R, FiniteSubsetsOf(Nat))
  BY FS_StrictSubsetOrderingWellFounded
<1>2. TT \subseteq FiniteSubsetsOf(Nat)
  <2>1. ASSUME NEW n \in S PROVE 1 .. n \in FiniteSubsetsOf(Nat)
    <3>1. n \in Int  OBVIOUS
    <3>2. IsFiniteSet(1 .. n)  BY <3>1, FS_Interval
    <3>3. 1 .. n \subseteq Nat  OBVIOUS
    <3>4. QED  BY <3>2, <3>3 DEF FiniteSubsetsOf
  <2>2. QED  BY <2>1
<1>3. TT # {}
  OBVIOUS
<1>4. \E X \in TT : \A Y \in TT : ~ (<<Y, X>> \in R)
  <2> HIDE DEF TT, R
  <2>1. QED  BY <1>1, <1>2, <1>3, WFMin
<1>5. PICK x \in S : \A y \in S : ~ (<<1 .. y, 1 .. x>> \in R)
  <2>1. PICK X \in TT : \A Y \in TT : ~ (<<Y, X>> \in R)  BY <1>4
  <2>2. PICK x \in S : X = 1 .. x  BY <2>1
  <2>3. \A y \in S : 1 .. y \in TT  OBVIOUS
  <2>4. QED  BY <2>1, <2>2, <2>3
<1>6. ASSUME NEW y \in S, ~ x <= y PROVE FALSE
  <2>1. x \in Nat /\ y \in Nat  OBVIOUS
  <2>2. 1 .. y \subseteq 1 .. x /\ 1 .. y # 1 .. x
    <3>1. x \in 1 .. x /\ x \notin 1 .. y  BY <1>6, <2>1
    <3>2. QED  BY <1>6, <2>1, <3>1
  <2>3. 1 .. y \in SUBSET Nat /\ 1 .. x \in SUBSET Nat
    BY <2>1
  <2>4. <<1 .. y, 1 .. x>> \in R
    BY <2>2, <2>3 DEF StrictSubsetOrdering
  <2>5. QED  BY <1>5, <2>4
<1>7. QED  BY <1>6

LEMMA Induction ==
  ASSUME NEW S, 0 \in S, \A n \in Nat : n \in S => n + 1 \in S
  PROVE  Nat \subseteq S
PROOF
<1>1. SUFFICES ASSUME Nat \ S # {} PROVE FALSE
  OBVIOUS
<1>2. PICK x \in Nat \ S : \A y \in Nat \ S : x <= y
  BY <1>1, LeastNumber
<1>3. x # 0 /\ x - 1 \in Nat
  BY <1>2
<1>4. x - 1 \in S
  BY <1>2, <1>3
<1>5. QED  BY <1>2, <1>3, <1>4

LEMMA MinOf ==
  ASSUME NEW S, S \subseteq Nat
  PROVE  /\ S # {} => Min(S) \in S /\ \A y \in S : Min(S) <= y
         /\ \A x \in S : (\A y \in S : x <= y) => Min(S) = x
PROOF
<1>1. ASSUME S # {} PROVE Min(S) \in S /\ \A y \in S : Min(S) <= y
  <2>1. \E x \in S : \A y \in S : x <= y  BY <1>1, LeastNumber
  <2>2. QED  BY <2>1 DEF Min
<1>2. ASSUME NEW x \in S, \A y \in S : x <= y PROVE Min(S) = x
  <2>1. Min(S) \in S /\ Min(S) <= x /\ x <= Min(S)  BY <1>1, <1>2
  <2>2. Min(S) \in Nat /\ x \in Nat  BY <2>1
  <2>3. QED  BY <2>1, <2>2
<1>3. QED  BY <1>1, <1>2

LEMMA MaxOf ==
  ASSUME NEW n \in Nat, NEW S, S \subseteq 0 .. n
  PROVE  /\ S # {} => Max(S) \in S /\ \A y \in S : y <= Max(S)
         /\ \A x \in S : (\A y \in S : y <= x) => Max(S) = x
PROOF
<1>0. \A y \in S : y \in Nat
  <2>1. \A y \in 0 .. n : y \in Nat  OBVIOUS
  <2>2. QED  BY <2>1
<1>1. ASSUME S # {} PROVE Max(S) \in S /\ \A y \in S : y <= Max(S)
  <2> DEFINE T == {n - y : y \in S}
  <2>1. T \subseteq Nat /\ T # {}
    <3>1. \A y \in S : n - y \in Nat
      <4>1. \A y \in 0 .. n : n - y \in Nat  OBVIOUS
      <4>2. QED  BY <4>1
    <3>2. QED  BY <1>1, <3>1
  <2>2. PICK z \in T : \A y \in T : z <= y
    <3> HIDE DEF T
    <3>1. QED  BY <2>1, LeastNumber
  <2>3. PICK x \in S : z = n - x  BY <2>2
  <2>4. ASSUME NEW y \in S PROVE y <= x
    <3>1. n - y \in T  OBVIOUS
    <3>2. n - x <= n - y  BY <2>2, <2>3, <3>1
    <3>3. x \in Nat /\ y \in Nat  BY <1>0
    <3>4. QED  BY <3>2, <3>3
  <2>5. \E w \in S : \A y \in S : w >= y
    <3>1. \A y \in S : x >= y  BY <2>4
    <3>2. QED  BY <3>1
  <2>6. QED  BY <2>5 DEF Max
<1>2. ASSUME NEW x \in S, \A y \in S : y <= x PROVE Max(S) = x
  <2>1. Max(S) \in S /\ x <= Max(S) /\ Max(S) <= x  BY <1>1, <1>2
  <2>2. Max(S) \in Nat /\ x \in Nat  BY <1>0, <2>1
  <2>3. QED  BY <2>1, <2>2
<1>3. QED  BY <1>1, <1>2

(***************************************************************************)
(* Types.                                                                  *)
(***************************************************************************)
LEMMA PartOf ==
  ASSUME NEW C, NEW s \in Seq(C), NEW i \in Nat, NEW j \in Nat, 1 <= i, j <= Len(s)
  PROVE  /\ SubSeq(s, i, j) \in Seq(C)
         /\ Len(SubSeq(s, i, j)) = (IF i <= j THEN j - i + 1 ELSE 0)
         /\ \A k \in 1 .. j - i + 1 : SubSeq(s, i, j)[k] = s[i + k - 1]
PROOF
<1>1. \A k \in i .. j : s[k] \in C
  BY ElementOfSeq
<1>2. QED  BY <1>1, SubSeqProperties

LEMMA FindTypes ==
  ASSUME NEW s \in Seq(Chars), NEW chars
  PROVE  LET F == {i \in DOMAIN s : s[i] \in chars \/ IsComment(s, i)}
             p == find_chars_or_comment(s, chars)
         IN  /\ p \in 1 .. Len(s) + 1
             /\ p <= Len(s) => p \in F
             /\ \A i \in F : p <= i
PROOF
<1> DEFINE F == {i \in DOMAIN s : s[i] \in chars \/ IsComment(s, i)}
           G == F \cup {Len(s) + 1}
<1>1. Len(s) \in Nat /\ DOMAIN s = 1 .. Len(s)
  BY LenProperties
<1>2. G \subseteq 1 .. Len(s) + 1 /\ G \subseteq Nat /\ G # {}
  BY <1>1
<1>3. Min(G) \in G /\ \A y \in G : Min(G) <= y
  <2> HIDE DEF G
  <2>1. QED  BY <1>2, MinOf
<1>4. find_chars_or_comment(s, chars) = Min(G)
  BY DEF find_chars_or_comment
<1>5. Min(G) <= Len(s) => Min(G) \in F
  BY <1>1, <1>3
<1>6. QED  BY <1>2, <1>3, <1>4, <1>5

LEMMA VisibleTypes ==
  ASSUME NEW s \in Seq(Chars)
  PROVE  /\ Visible(s) \subseteq 1 .. Len(s)
         /\ Visible(s) \cup {0} \subseteq 0 .. Len(s)
         /\ Visible(s) \cup {Len(s) + 1} \subseteq 1 .. Len(s) + 1
         /\ Visible(s) \cup {Len(s) + 1} \subseteq Nat
         /\ Len(s) \in Nat
PROOF
<1>1. Len(s) \in Nat /\ DOMAIN s = 1 .. Len(s)
  BY LenProperties
<1>2. Visible(s) \subseteq 1 .. Len(s)
  BY <1>1 DEF Visible
<1>3. QED  BY <1>1, <1>2

LEMMA StripTypes ==
  ASSUME NEW s \in Seq(Chars)
  PROVE  /\ rstrip(s) \in Seq(Chars) /\ Len(rstrip(s)) <= Len(s)
         /\ lskip(s) \in Seq(Chars) /\ Len(lskip(s)) <= Len(s)
PROOF
<1>1. Max(Visible(s) \cup {0}) \in 0 .. Len(s)
  <2>1. Visible(s) \cup {0} # {}  OBVIOUS
  <2>2. QED  BY <2>1, VisibleTypes, MaxOf
<1>2. Min(Visible(s) \cup {Len(s) + 1}) \in 1 .. Len(s) + 1
  <2> DEFINE G == Visible(s) \cup {Len(s) + 1}
  <2>1. G \subseteq Nat /\ G \subseteq 1 .. Len(s) + 1 /\ G # {}
    BY VisibleTypes
  <2> HIDE DEF G
  <2>2. Min(G) \in G  BY <2>1, MinOf
  <2>3. Min(G) \in 1 .. Len(s) + 1  BY <2>1, <2>2
  <2>4. QED  BY <2>3 DEF G
<1>3. \A m \in 0 .. Len(s) : SubSeq(s, 1, m) \in Seq(Chars) /\ Len(SubSeq(s, 1, m)) <= Len(s)
  BY PartOf, VisibleTypes
<1>4. \A m \in 1 .. Len(s) + 1 :
        SubSeq(s, m, Len(s)) \in Seq(Chars) /\ Len(SubSeq(s, m, Len(s))) <= Len(s)
  BY PartOf, VisibleTypes
<1>5. QED  BY <1>1, <1>2, <1>3, <1>4 DEF rstrip, lskip

LEMMA CutTypes ==
  ASSUME NEW s \in Seq(Chars), NEW i \in 1 .. Len(s) + 1
  PROVE  /\ Up(s, i) \in Seq(Chars) /\ Len(Up(s, i)) = i - 1
         /\ i <= Len(s) => After(s, i) \in Seq(Chars) /\ Len(After(s, i)) = Len(s) - i
PROOF
<1>1. Len(s) \in Nat /\ i - 1 \in Nat /\ i + 1 \in Nat /\ 1 <= i + 1 /\ i - 1 <= Len(s)
  BY LenProperties
<1>2. Up(s, i) \in Seq(Chars) /\ Len(Up(s, i)) = i - 1
  BY <1>1, PartOf DEF Up
<1>3. ASSUME i <= Len(s)
      PROVE  After(s, i) \in Seq(Chars) /\ Len(After(s, i)) = Len(s) - i
  BY <1>1, <1>3, PartOf DEF After
<1>4. QED  BY <1>2, <1>3

LEMMA CopyTypes ==
  ASSUME NEW s \in Seq(Chars)
  PROVE  strncpy0(s) \in Seq(Chars) /\ Len(strncpy0(s)) < MaxName
PROOF
<1>1. Len(s) \in Nat /\ MaxName - 1 \in Nat
  BY LenProperties, CharsAssumption
<1>2. Min({Len(s), MaxName - 1}) \in {Len(s), MaxName - 1}
      /\ Min({Len(s), MaxName - 1}) <= Len(s) /\ Min({Len(s), MaxName - 1}) <= MaxName - 1
  <2>1. {Len(s), MaxName - 1} \subseteq Nat /\ {Len(s), MaxName - 1} # {}  BY <1>1
  <2>2. QED  BY <2>1, MinOf
<1>3. \A m \in Nat : m <= Len(s) => SubSeq(s, 1, m) \in Seq(Chars) /\ Len(SubSeq(s, 1, m)) = m
  BY <1>1, PartOf
<1>4. Min({Len(s), MaxName - 1}) \in Nat  BY <1>1, <1>2
<1>5. Min({Len(s), MaxName - 1}) < MaxName
  BY <1>2, <1>4, CharsAssumption
<1>6. QED  BY <1>2, <1>3, <1>4, <1>5 DEF strncpy0

LEMMA LowerTypes ==
  ASSUME NEW s \in Seq(Chars)
  PROVE  ToLower(s) \in Seq(Chars)
PROOF
<1>1. Len(s) \in Nat /\ DOMAIN s = 1 .. Len(s) /\ \A i \in 1 .. Len(s) : s[i] \in Chars
  BY LenProperties, ElementOfSeq
<1>2. \A c \in Letters : Lower[c] \in Chars
  BY CharsAssumption DEF Chars
<1>3. ToLower(s) \in [1 .. Len(s) -> Chars]
  BY <1>1, <1>2 DEF ToLower
<1>4. QED  BY <1>1, <1>3, SeqDef

LEMMA ReadTypes ==
  ASSUME rest \in Seq(Chars), rest # <<>>
  PROVE  LET F == {i \in DOMAIN rest : rest[i] = LF}
             m == Len(Read)
         IN  /\ Read = SubSeq(rest, 1, m) /\ Read \in Seq(Chars)
             /\ m \in 1 .. Len(rest) /\ m <= MaxLine - 1
             /\ m \in F \/ m = Len(rest) \/ m = MaxLine - 1
             /\ \A i \in F : m <= i
PROOF
<1> DEFINE F == {i \in DOMAIN rest : rest[i] = LF}
           G == F \cup {Len(rest), MaxLine - 1}
<1>1. Len(rest) \in Nat /\ Len(rest) >= 1 /\ DOMAIN rest = 1 .. Len(rest)
  BY LenProperties, EmptySeq
<1>2. G \subseteq Nat /\ G # {} /\ \A y \in G : 1 <= y
  BY <1>1, CharsAssumption
<1>3. Min(G) \in G /\ \A y \in G : Min(G) <= y
  <2> HIDE DEF G
  <2>1. QED  BY <1>2, MinOf
<1>4. Min(G) \in 1 .. Len(rest) /\ Min(G) <= MaxLine - 1
  <2>1. Min(G) <= Len(rest) /\ Min(G) <= MaxLine - 1  BY <1>3
  <2>2. Min(G) \in Nat /\ 1 <= Min(G)
    <3> HIDE DEF G
    <3>1. QED  BY <1>2, <1>3
  <2>3. QED  BY <1>1, <2>1, <2>2
<1>5. Read = SubSeq(rest, 1, Min(G))
  BY DEF Read
<1>6. Read \in Seq(Chars) /\ Len(Read) = Min(G)
  <2>1. Min(G) \in Nat /\ 1 <= Min(G) /\ Min(G) <= Len(rest)  BY <1>1, <1>4
  <2> HIDE DEF G
  <2>2. QED  BY <1>5, <2>1, PartOf
<1>7. QED  BY <1>3, <1>4, <1>5, <1>6

LEMMA LineTypes ==
  ASSUME rest \in Seq(Chars), rest # <<>>, lineno \in Nat
  PROVE  /\ line \in Seq(Chars) /\ Len(line) <= Len(Read)
         /\ start \in Seq(Chars) /\ Len(start) <= Len(line)
PROOF
<1>1. Read \in Seq(Chars) /\ Len(Read) \in Nat /\ Read # <<>>
  BY ReadTypes, EmptySeq, LenProperties
<1>2. IsPrefix(Bom, Read) =>
        After(Read, 3) \in Seq(Chars) /\ Len(After(Read, 3)) <= Len(Read)
  <2>1. SUFFICES ASSUME IsPrefix(Bom, Read)
                 PROVE  After(Read, 3) \in Seq(Chars) /\ Len(After(Read, 3)) <= Len(Read)
    OBVIOUS
  <2>2. 3 \in 1 .. Len(Read) + 1 /\ 3 <= Len(Read)
    BY <1>1, <2>1, CharsAssumption DEF IsPrefix
  <2>3. After(Read, 3) \in Seq(Chars) /\ Len(After(Read, 3)) = Len(Read) - 3
    BY <1>1, <2>2, CutTypes
  <2>4. QED  BY <1>1, <2>3
<1>3. line \in Seq(Chars) /\ Len(line) <= Len(Read)
  BY <1>1, <1>2 DEF line
<1>4. rstrip(line) \in Seq(Chars) /\ Len(rstrip(line)) <= Len(line)
  BY <1>3, StripTypes
<1>5. lskip(rstrip(line)) \in Seq(Chars) /\ Len(lskip(rstrip(line))) <= Len(rstrip(line))
  BY <1>4, StripTypes
<1>6. Len(line) \in Nat /\ Len(rstrip(line)) \in Nat /\ Len(lskip(rstrip(line))) \in Nat
  BY <1>3, <1>4, <1>5, LenProperties
<1>7. QED  BY <1>3, <1>4, <1>5, <1>6 DEF start

LEMMA TurnTypes ==
  ASSUME TypeOK, Turn
  PROVE  /\ rest' \in Seq(Chars) /\ lineno' \in Nat /\ lineno' = lineno + 1
         /\ done' \in BOOLEAN
         /\ start \in Seq(Chars)
         /\ Noted \in 0 .. lineno' /\ error \in 0 .. lineno'
PROOF
<1>1. rest \in Seq(Chars) /\ rest # <<>> /\ lineno \in Nat
  BY DEF TypeOK, Turn
<1>2. Len(Read) \in 1 .. Len(rest) /\ Len(rest) \in Nat
  BY <1>1, ReadTypes, LenProperties
<1>3. After(rest, Len(Read)) \in Seq(Chars)
  <2>1. Len(Read) \in 1 .. Len(rest) + 1 /\ Len(Read) <= Len(rest)  BY <1>2
  <2>2. QED  BY <1>1, <2>1, CutTypes
<1>4. QED  BY <1>1, <1>3, LineTypes DEF TypeOK, Turn, Noted

LEMMA HandleTypes ==
  ASSUME TypeOK, NEW n \in Seq(Chars), NEW value \in Seq(Chars), Handle(n, value)
  PROVE  \A k \in DOMAIN values' : k \in Seq(Chars) /\ values'[k] \in Seq(Chars)
PROOF
<1> DEFINE key == MakeKey(section, n)
<1>1. LF \in Chars /\ Eq \in Chars
  BY DEF Chars, Special
<1>2. <<LF>> \in Seq(Chars) /\ <<Eq>> \in Seq(Chars)
  BY <1>1
<1>3. key \in Seq(Chars)
  <2>1. section \o <<Eq>> \in Seq(Chars)  BY <1>2, ConcatProperties DEF TypeOK
  <2>2. section \o <<Eq>> \o n \in Seq(Chars)  BY <2>1, ConcatProperties
  <2>3. QED  BY <2>2, LowerTypes DEF MakeKey
<1>4. Had(key) \in Seq(Chars)
  BY EmptySeq DEF Had, TypeOK
<1>5. Joined(Had(key), value) \in Seq(Chars)
  <2>1. Had(key) \o <<LF>> \in Seq(Chars)  BY <1>2, <1>4, ConcatProperties
  <2>2. Had(key) \o <<LF>> \o value \in Seq(Chars)  BY <2>1, ConcatProperties
  <2>3. QED  BY <2>2 DEF Joined
<1>6. values' = [x \in DOMAIN values \cup {key} |->
                   IF x = key THEN Joined(Had(key), value) ELSE values[x]]
  BY DEF Handle
<1> HIDE DEF key
<1>7. QED  BY <1>3, <1>5, <1>6 DEF TypeOK

(* The reader keeps its types for every file: a section and the name it    *)
(* continues fit in their buffers (ini.c:71-76), and the error it returns  *)
(* is the number of a line it has read.                                    *)
THEOREM TypeCorrect == Spec => []TypeOK
PROOF
<1>1. ASSUME Init PROVE TypeOK
  <2>1. Len(<<>>) = 0 /\ <<>> \in Seq(Chars)  BY EmptySeq
  <2>2. \A k \in DOMAIN values : k \in Seq(Chars) /\ values[k] \in Seq(Chars)
    BY <1>1 DEF Init
  <2>3. section \in Seq(Chars) /\ Len(section) < MaxName
        /\ prev_name \in Seq(Chars) /\ Len(prev_name) < MaxName
    BY <1>1, <2>1, CharsAssumption DEF Init
  <2>4. rest \in Seq(Chars) /\ lineno \in Nat /\ error \in 0 .. lineno
    <3>1. lineno = 0 /\ error = 0  BY <1>1 DEF Init
    <3>2. QED  BY <1>1, <3>1 DEF Init
  <2>5. done \in BOOLEAN  BY <1>1 DEF Init
  <2>6. QED  BY <2>2, <2>3, <2>4, <2>5 DEF TypeOK
<1>2. ASSUME TypeOK, [Next]_vars PROVE TypeOK'
  <2>1. CASE Skip
    BY <1>2, <2>1, TurnTypes DEF Skip, TypeOK
  <2>2. CASE Continuation
    <3>1. Turn /\ Handle(prev_name, start) /\ UNCHANGED <<section, prev_name, error>>
      BY <2>2 DEF Continuation
    <3>2. start \in Seq(Chars)  BY <1>2, <3>1, TurnTypes
    <3>3. prev_name \in Seq(Chars)  BY <1>2 DEF TypeOK
    <3>4. \A k \in DOMAIN values' : k \in Seq(Chars) /\ values'[k] \in Seq(Chars)
      BY <1>2, <3>1, <3>2, <3>3, HandleTypes
    <3>5. QED  BY <1>2, <3>1, <3>4, TurnTypes DEF TypeOK
  <2>3. CASE Section
    <3> DEFINE s   == Tail(start)
               end == find_chars_or_comment(s, {Close})
    <3>1. Turn /\ UNCHANGED values /\ Heading  BY <2>3 DEF Section
    <3>2. start \in Seq(Chars)  BY <1>2, <3>1, TurnTypes
    <3>3. start # <<>>
      <4>1. start = <<>> => Blank  BY DEF First, Blank
      <4>2. QED  BY <3>1, <4>1 DEF Heading
    <3>4. s \in Seq(Chars)  BY <3>2, <3>3, HeadTailProperties
    <3>5. end \in 1 .. Len(s) + 1  BY <3>4, FindTypes
    <3>6. strncpy0(Up(s, end)) \in Seq(Chars) /\ Len(strncpy0(Up(s, end))) < MaxName
      <4>1. Up(s, end) \in Seq(Chars)  BY <3>4, <3>5, CutTypes
      <4>2. QED  BY <4>1, CopyTypes
    <3>7. Forget \in Seq(Chars) /\ Len(Forget) < MaxName
      BY EmptySeq, CharsAssumption DEF Forget
    <3>8. \/ section' = strncpy0(Up(s, end)) /\ prev_name' = Forget /\ error' = error
          \/ section' = section /\ prev_name' = prev_name /\ error' = Noted
      BY <2>3 DEF Section
    <3> HIDE DEF s, end
    <3>9. QED  BY <1>2, <3>1, <3>6, <3>7, <3>8, TurnTypes DEF TypeOK
  <2>4. CASE Pair
    <3> DEFINE end   == find_chars_or_comment(start, {Eq})
               name  == rstrip(Up(start, end))
               value == After(start, end)
               text  == rstrip(lskip(Up(value, find_chars_or_comment(value, {}))))
    <3>1. Turn /\ UNCHANGED section  BY <2>4 DEF Pair
    <3>2. start \in Seq(Chars) /\ Len(start) \in Nat  BY <1>2, <3>1, TurnTypes, LenProperties
    <3>3. end \in 1 .. Len(start) + 1  BY <3>2, FindTypes
    <3>4. name \in Seq(Chars)
      <4>1. Up(start, end) \in Seq(Chars)  BY <3>2, <3>3, CutTypes
      <4>2. QED  BY <4>1, StripTypes
    <3>5. strncpy0(name) \in Seq(Chars) /\ Len(strncpy0(name)) < MaxName
      BY <3>4, CopyTypes
    <3>6. ASSUME end <= Len(start) PROVE text \in Seq(Chars)
      <4>1. value \in Seq(Chars)  BY <3>2, <3>3, <3>6, CutTypes
      <4>2. find_chars_or_comment(value, {}) \in 1 .. Len(value) + 1  BY <4>1, FindTypes
      <4>3. Up(value, find_chars_or_comment(value, {})) \in Seq(Chars)
        BY <4>1, <4>2, CutTypes
      <4>4. lskip(Up(value, find_chars_or_comment(value, {}))) \in Seq(Chars)
        BY <4>3, StripTypes
      <4>5. QED  BY <4>4, StripTypes
    <3>7. \/ /\ end <= Len(start) /\ prev_name' = strncpy0(name)
             /\ Handle(name, text) /\ error' = error
          \/ prev_name' = prev_name /\ values' = values /\ error' = Noted
      BY <2>4 DEF Pair
    <3> HIDE DEF end, name, value, text
    <3>8. CASE end <= Len(start) /\ prev_name' = strncpy0(name)
                 /\ Handle(name, text) /\ error' = error
      <4>1. \A k \in DOMAIN values' : k \in Seq(Chars) /\ values'[k] \in Seq(Chars)
        BY <1>2, <3>4, <3>6, <3>8, HandleTypes
      <4>2. QED  BY <1>2, <3>1, <3>5, <3>8, <4>1, TurnTypes DEF TypeOK
    <3>9. CASE prev_name' = prev_name /\ values' = values /\ error' = Noted
      BY <1>2, <3>1, <3>9, TurnTypes DEF TypeOK
    <3>10. QED  BY <3>7, <3>8, <3>9
  <2>5. CASE Return \/ UNCHANGED vars
    BY <1>2, <2>5 DEF Return, vars, TypeOK
  <2>6. QED  BY <1>2, <2>1, <2>2, <2>3, <2>4, <2>5 DEF Next
<1>3. QED  BY <1>1, <1>2, PTL DEF Spec

(***************************************************************************)
(* What the helpers do with a string whose parts are known.                *)
(***************************************************************************)
LEMMA RstripIs ==
  ASSUME NEW s \in Seq(Chars), NEW m \in 0 .. Len(s),
         m # 0 => ~IsSpace(s[m]),
         \A i \in m + 1 .. Len(s) : IsSpace(s[i])
  PROVE  rstrip(s) = SubSeq(s, 1, m)
PROOF
<1> DEFINE G == Visible(s) \cup {0}
<1>1. Len(s) \in Nat /\ DOMAIN s = 1 .. Len(s) /\ m \in Nat /\ m <= Len(s)
  BY LenProperties
<1>2. m \in G /\ G \subseteq 0 .. Len(s)
  BY <1>1 DEF Visible
<1>3. \A y \in G : y <= m
  BY <1>1 DEF Visible
<1>4. Max(G) = m
  <2> HIDE DEF G
  <2>1. QED  BY <1>1, <1>2, <1>3, MaxOf
<1>5. QED  BY <1>4 DEF rstrip

LEMMA LskipIs ==
  ASSUME NEW s \in Seq(Chars), NEW k \in 1 .. Len(s) + 1,
         k # Len(s) + 1 => ~IsSpace(s[k]),
         \A i \in 1 .. k - 1 : IsSpace(s[i])
  PROVE  lskip(s) = SubSeq(s, k, Len(s))
PROOF
<1> DEFINE G == Visible(s) \cup {Len(s) + 1}
<1>1. Len(s) \in Nat /\ DOMAIN s = 1 .. Len(s) /\ k \in Nat
  BY LenProperties
<1>2. k \in G /\ G \subseteq Nat
  BY <1>1 DEF Visible
<1>3. \A y \in G : k <= y
  BY <1>1 DEF Visible
<1>4. Min(G) = k
  <2> HIDE DEF G
  <2>1. QED  BY <1>1, <1>2, <1>3, MinOf
<1>5. QED  BY <1>4 DEF lskip

(* t within s, behind a characters, and white space around it.             *)
Within(s, a, t) ==
  /\ a + Len(t) <= Len(s)
  /\ \A i \in 1 .. Len(t) : s[a + i] = t[i]
  /\ \A i \in 1 .. Len(s) : i <= a \/ i > a + Len(t) => IsSpace(s[i])
  /\ t # <<>> => ~IsSpace(t[1]) /\ ~IsSpace(t[Len(t)])

LEMMA EmptyStrips ==
  lskip(<<>>) = <<>> /\ rstrip(<<>>) = <<>>
PROOF
<1>1. <<>> \in Seq(Chars) /\ Len(<<>>) = 0
  BY EmptySeq
<1>2. ASSUME NEW s \in Seq(Chars), Len(s) = 0
      PROVE  lskip(s) = SubSeq(s, 1, 0) /\ rstrip(s) = SubSeq(s, 1, 0)
  <2>1. /\ 0 \in 0 .. Len(s) /\ 1 \in 1 .. Len(s) + 1 /\ 1 = Len(s) + 1
        /\ \A i \in 0 + 1 .. Len(s) : IsSpace(s[i])
        /\ \A i \in 1 .. 1 - 1 : IsSpace(s[i])
    BY <1>2
  <2>2. rstrip(s) = SubSeq(s, 1, 0)  BY <2>1, RstripIs
  <2>3. lskip(s) = SubSeq(s, 1, Len(s))  BY <2>1, LskipIs
  <2>4. QED  BY <1>2, <2>2, <2>3
<1>3. SubSeq(<<>>, 1, 0) = <<>>
  BY SubSeqEmpty
<1>4. QED  BY <1>1, <1>2, <1>3

LEMMA Stripped ==
  ASSUME NEW s \in Seq(Chars), NEW t \in Seq(Chars), NEW a \in Nat, Within(s, a, t)
  PROVE  lskip(rstrip(s)) = t /\ rstrip(lskip(s)) = t
PROOF
<1>1. Len(s) \in Nat /\ Len(t) \in Nat
  BY LenProperties
<1>2. CASE t = <<>>
  <2>1. \A i \in 1 .. Len(s) : IsSpace(s[i])
    BY <1>1, <1>2, EmptySeq DEF Within
  <2>2. rstrip(s) = SubSeq(s, 1, 0) /\ lskip(s) = SubSeq(s, Len(s) + 1, Len(s))
    <3>1. rstrip(s) = SubSeq(s, 1, 0)  BY <1>1, <2>1, RstripIs
    <3>2. lskip(s) = SubSeq(s, Len(s) + 1, Len(s))  BY <1>1, <2>1, LskipIs
    <3>3. QED  BY <3>1, <3>2
  <2>3. rstrip(s) = <<>> /\ lskip(s) = <<>>
    BY <1>1, <2>2, SubSeqEmpty
  <2>4. QED  BY <1>2, <2>3, EmptyStrips
<1>3. CASE t # <<>>
  <2> DEFINE m == a + Len(t)
             r == SubSeq(s, 1, m)
             q == SubSeq(s, a + 1, Len(s))
  <2>1. Len(t) >= 1 /\ m \in 1 .. Len(s) /\ a + 1 \in 1 .. Len(s) /\ m \in Nat
        /\ a + 1 \in Nat /\ a + 1 <= m
    BY <1>1, <1>3, EmptySeq DEF Within
  <2>2. ~IsSpace(s[m]) /\ ~IsSpace(s[a + 1])
    <3>1. s[a + 1] = t[1] /\ s[a + Len(t)] = t[Len(t)]
      BY <1>1, <2>1 DEF Within
    <3>2. QED  BY <1>3, <3>1 DEF Within
  <2>3. /\ \A i \in m + 1 .. Len(s) : IsSpace(s[i])
        /\ \A i \in 1 .. a : IsSpace(s[i])
    BY <1>1, <2>1 DEF Within
  <2>4. r \in Seq(Chars) /\ Len(r) = m /\ \A i \in 1 .. m : r[i] = s[i]
    BY <1>1, <2>1, PartOf
  <2>5. q \in Seq(Chars) /\ Len(q) = Len(s) - a /\ \A i \in 1 .. Len(s) - a : q[i] = s[a + i]
    <3>1. /\ q \in Seq(Chars)
          /\ Len(q) = IF a + 1 <= Len(s) THEN Len(s) - (a + 1) + 1 ELSE 0
          /\ \A i \in 1 .. Len(s) - (a + 1) + 1 : q[i] = s[a + 1 + i - 1]
      BY <1>1, <2>1, PartOf
    <3>2. QED  BY <1>1, <2>1, <3>1
  <2>6. rstrip(s) = r
    BY <2>1, <2>2, <2>3, RstripIs
  <2>7. lskip(s) = q
    <3>1. \A i \in 1 .. (a + 1) - 1 : IsSpace(s[i])  BY <2>3
    <3>2. QED  BY <1>1, <2>1, <2>2, <3>1, LskipIs
  <2> HIDE DEF r, q
  <2>8. lskip(r) = t
    <3>1. lskip(r) = SubSeq(r, a + 1, m)
      <4>1. ~IsSpace(r[a + 1])  BY <2>1, <2>2, <2>4
      <4>2. \A i \in 1 .. (a + 1) - 1 : IsSpace(r[i])  BY <2>1, <2>3, <2>4
      <4>3. a + 1 \in 1 .. Len(r) + 1  BY <2>1, <2>4
      <4>4. QED  BY <2>4, <4>1, <4>2, <4>3, LskipIs
    <3>2. /\ SubSeq(r, a + 1, m) \in Seq(Chars)
          /\ Len(SubSeq(r, a + 1, m)) = Len(t)
          /\ \A i \in 1 .. Len(t) : SubSeq(r, a + 1, m)[i] = r[a + i]
      <4>1. /\ SubSeq(r, a + 1, m) \in Seq(Chars)
            /\ Len(SubSeq(r, a + 1, m)) = IF a + 1 <= m THEN m - (a + 1) + 1 ELSE 0
            /\ \A i \in 1 .. m - (a + 1) + 1 : SubSeq(r, a + 1, m)[i] = r[a + 1 + i - 1]
        BY <2>1, <2>4, PartOf
      <4>2. QED  BY <1>1, <2>1, <4>1
    <3>3. ASSUME NEW i \in 1 .. Len(t) PROVE r[a + i] = t[i]
      <4>1. a + i \in 1 .. m  BY <1>1, <2>1
      <4>2. s[a + i] = t[i]  BY DEF Within
      <4>3. QED  BY <2>4, <4>1, <4>2
    <3>4. QED  BY <1>1, <3>1, <3>2, <3>3, SeqEqual
  <2>9. rstrip(q) = t
    <3>1. rstrip(q) = SubSeq(q, 1, Len(t))
      <4>1. ~IsSpace(q[Len(t)])  BY <1>1, <2>1, <2>2, <2>5
      <4>2. ASSUME NEW i \in Len(t) + 1 .. Len(q) PROVE IsSpace(q[i])
        <5>1. a + i \in m + 1 .. Len(s) /\ i \in 1 .. Len(s) - a
          BY <1>1, <2>1, <2>5
        <5>2. QED  BY <2>3, <2>5, <5>1
      <4>3. Len(t) \in 0 .. Len(q)  BY <1>1, <2>1, <2>5
      <4>4. QED  BY <2>5, <4>1, <4>2, <4>3, RstripIs
    <3>2. /\ SubSeq(q, 1, Len(t)) \in Seq(Chars)
          /\ Len(SubSeq(q, 1, Len(t))) = Len(t)
          /\ \A i \in 1 .. Len(t) : SubSeq(q, 1, Len(t))[i] = q[i]
      BY <1>1, <2>1, <2>5, PartOf
    <3>3. \A i \in 1 .. Len(t) : q[i] = t[i]
      BY <1>1, <2>1, <2>5 DEF Within
    <3>4. QED  BY <1>1, <3>1, <3>2, <3>3, SeqEqual
  <2>10. QED  BY <2>6, <2>7, <2>8, <2>9
<1>4. QED  BY <1>2, <1>3

LEMMA FindIs ==
  ASSUME NEW s \in Seq(Chars), NEW chars, NEW p \in 1 .. Len(s) + 1,
         p <= Len(s) => s[p] \in chars \/ IsComment(s, p),
         \A i \in 1 .. p - 1 : s[i] \notin chars /\ ~IsComment(s, i)
  PROVE  find_chars_or_comment(s, chars) = p
PROOF
<1> DEFINE e == find_chars_or_comment(s, chars)
<1>1. Len(s) \in Nat /\ DOMAIN s = 1 .. Len(s) /\ p \in Nat
  BY LenProperties
<1>2. /\ e \in 1 .. Len(s) + 1
      /\ e <= Len(s) => s[e] \in chars \/ IsComment(s, e)
      /\ \A i \in 1 .. Len(s) : s[i] \in chars \/ IsComment(s, i) => e <= i
  BY <1>1, FindTypes
<1> HIDE DEF e
<1>3. e <= p
  BY <1>1, <1>2
<1>4. ~ e < p
  BY <1>1, <1>2
<1>5. QED  BY <1>1, <1>2, <1>3, <1>4 DEF e

LEMMA CopyIs ==
  ASSUME NEW s \in Seq(Chars)
  PROVE  strncpy0(s) = Fits(s)
PROOF
<1>1. Len(s) \in Nat /\ MaxName - 1 \in Nat
  BY LenProperties, CharsAssumption
<1> DEFINE G == {Len(s), MaxName - 1}
<1>2. G \subseteq Nat /\ Len(s) \in G /\ MaxName - 1 \in G
      /\ \A y \in G : y = Len(s) \/ y = MaxName - 1
  BY <1>1
<1>3. CASE Len(s) < MaxName
  <2>1. Len(s) <= MaxName - 1  BY <1>1, <1>3, CharsAssumption
  <2>2. Min(G) = Len(s)
    <3> HIDE DEF G
    <3>1. \A y \in G : Len(s) <= y  BY <1>1, <1>2, <2>1
    <3>2. QED  BY <1>2, <3>1, MinOf
  <2>3. QED  BY <1>3, <2>2, SubSeqFull DEF strncpy0, Fits
<1>4. CASE ~ Len(s) < MaxName
  <2>1. MaxName - 1 <= Len(s)  BY <1>1, <1>4, CharsAssumption
  <2>2. Min(G) = MaxName - 1
    <3> HIDE DEF G
    <3>1. \A y \in G : MaxName - 1 <= y  BY <1>1, <1>2, <2>1
    <3>2. QED  BY <1>2, <3>1, MinOf
  <2>3. QED  BY <1>4, <2>2 DEF strncpy0, Fits
<1>5. QED  BY <1>3, <1>4

(* fgets() takes what is up to the next line feed, when it fits.           *)
LEMMA ReadIs ==
  ASSUME NEW u \in Seq(Chars), NEW v \in Seq(Chars), rest = u \o v, u # <<>>,
         Len(u) <= MaxLine - 1,
         \A i \in 1 .. Len(u) - 1 : u[i] # LF,
         u[Len(u)] = LF \/ v = <<>>
  PROVE  Read = u /\ After(rest, Len(Read)) = v
PROOF
<1>1. /\ Len(u) \in Nat /\ Len(v) \in Nat /\ Len(u) >= 1
      /\ rest \in Seq(Chars) /\ Len(rest) = Len(u) + Len(v)
      /\ \A i \in 1 .. Len(u) : rest[i] = u[i]
      /\ \A i \in 1 .. Len(v) : rest[Len(u) + i] = v[i]
      /\ DOMAIN rest = 1 .. Len(rest)
  <2>1. Len(u) \in Nat /\ Len(v) \in Nat /\ Len(u) >= 1
    BY EmptySeq, LenProperties
  <2>2. /\ rest \in Seq(Chars) /\ Len(rest) = Len(u) + Len(v)
        /\ \A i \in 1 .. Len(u) + Len(v) :
             rest[i] = IF i <= Len(u) THEN u[i] ELSE v[i - Len(u)]
    BY ConcatProperties
  <2>3. DOMAIN rest = 1 .. Len(rest)  BY <2>2, LenProperties
  <2>4. \A i \in 1 .. Len(u) : rest[i] = u[i]  BY <2>1, <2>2
  <2>5. \A i \in 1 .. Len(v) : rest[Len(u) + i] = v[i]  BY <2>1, <2>2
  <2>6. QED  BY <2>1, <2>2, <2>3, <2>4, <2>5
<1>2. rest # <<>>
  BY <1>1, EmptySeq
<1> DEFINE m == Len(Read)
<1>3. /\ Read = SubSeq(rest, 1, m)
      /\ m \in 1 .. Len(rest)
      /\ rest[m] = LF \/ m = Len(rest) \/ m = MaxLine - 1
      /\ \A i \in 1 .. Len(rest) : rest[i] = LF => m <= i
  BY <1>1, <1>2, ReadTypes
<1> HIDE DEF m
<1>4. m >= Len(u)
  BY <1>1, <1>3, CharsAssumption
<1>5. m <= Len(u)
  <2>1. CASE u[Len(u)] = LF
    <3>1. PICK i : i = Len(u)  OBVIOUS
    <3>2. i \in 1 .. Len(rest) /\ rest[i] = LF  BY <1>1, <2>1, <3>1
    <3>3. m <= i  BY <1>3, <3>2
    <3>4. QED  BY <3>1, <3>3
  <2>2. CASE v = <<>>
    <3>1. Len(v) = 0  BY <2>2, EmptySeq
    <3>2. Len(rest) = Len(u)  BY <1>1, <3>1
    <3>3. QED  BY <1>3, <3>2
  <2>3. QED  BY <2>1, <2>2
<1>6. m = Len(u)
  BY <1>1, <1>3, <1>4, <1>5
<1>7. Read = u
  <2>1. SubSeq(rest, 1, Len(u)) = u
    <3>1. /\ SubSeq(rest, 1, Len(u)) \in Seq(Chars)
          /\ Len(SubSeq(rest, 1, Len(u))) = Len(u)
          /\ \A i \in 1 .. Len(u) : SubSeq(rest, 1, Len(u))[i] = rest[i]
      BY <1>1, PartOf
    <3>2. QED  BY <1>1, <3>1, SeqEqual
  <2>2. QED  BY <1>3, <1>6, <2>1
<1>8. After(rest, Len(u)) = v
  <2> DEFINE w == SubSeq(rest, Len(u) + 1, Len(rest))
  <2>1. /\ w \in Seq(Chars)
        /\ Len(w) = IF Len(u) + 1 <= Len(rest) THEN Len(rest) - (Len(u) + 1) + 1 ELSE 0
        /\ \A i \in 1 .. Len(rest) - (Len(u) + 1) + 1 : w[i] = rest[Len(u) + 1 + i - 1]
    BY <1>1, PartOf
  <2>2. Len(w) = Len(v)  BY <1>1, <2>1
  <2>3. \A i \in 1 .. Len(v) : w[i] = v[i]  BY <1>1, <2>1
  <2> HIDE DEF w
  <2>4. w = v  BY <2>1, <2>2, <2>3, SeqEqual
  <2>5. QED  BY <2>4 DEF After, w
<1>9. QED  BY <1>6, <1>7, <1>8 DEF m

(***************************************************************************)
(* Lines: their text, and how the reader takes each kind apart.            *)
(***************************************************************************)
LEMMA WordTypes ==
  /\ \A w \in Words : /\ w \in Seq(Chars) /\ Len(w) \in Nat /\ DOMAIN w = 1 .. Len(w)
                      /\ \A i \in 1 .. Len(w) : w[i] # LF
  /\ <<>> \in Words /\ Len(<<>>) = 0
  /\ \A w \in Words : w # <<>> => Len(w) >= 1
PROOF
<1>1. ASSUME NEW w \in Words
      PROVE  /\ w \in Seq(Chars) /\ Len(w) \in Nat /\ DOMAIN w = 1 .. Len(w)
             /\ \A i \in 1 .. Len(w) : w[i] # LF
             /\ w # <<>> => Len(w) >= 1
  <2>1. w \in Seq(Chars \ {LF})  BY DEF Words
  <2>2. w \in Seq(Chars)  BY <2>1, SeqMonotonic
  <2>3. \A i \in 1 .. Len(w) : w[i] \in Chars \ {LF}  BY <2>1, ElementOfSeq
  <2>4. QED  BY <2>1, <2>2, <2>3, LenProperties, EmptySeq
<1>2. <<>> \in Words /\ Len(<<>>) = 0
  BY EmptySeq DEF Words
<1>3. QED  BY <1>1, <1>2

LEMMA JoinedWords ==
  ASSUME NEW v \in Words, NEW w \in Words
  PROVE  /\ v \o w \in Words /\ Len(v \o w) = Len(v) + Len(w)
         /\ \A i \in 1 .. Len(v) : (v \o w)[i] = v[i]
         /\ \A i \in 1 .. Len(w) : (v \o w)[Len(v) + i] = w[i]
PROOF
<1>1. v \in Seq(Chars \ {LF}) /\ w \in Seq(Chars \ {LF})
  BY DEF Words
<1>2. /\ v \o w \in Seq(Chars \ {LF}) /\ Len(v \o w) = Len(v) + Len(w)
      /\ \A i \in 1 .. Len(v) + Len(w) :
           (v \o w)[i] = IF i <= Len(v) THEN v[i] ELSE w[i - Len(v)]
  BY <1>1, ConcatProperties
<1>3. Len(v) \in Nat /\ Len(w) \in Nat
  BY WordTypes
<1>4. \A i \in 1 .. Len(v) : (v \o w)[i] = v[i]
  BY <1>2, <1>3
<1>5. \A i \in 1 .. Len(w) : (v \o w)[Len(v) + i] = w[i]
  BY <1>2, <1>3
<1>6. QED  BY <1>2, <1>4, <1>5 DEF Words

LEMMA Marks ==
  /\ {LF, Sp, Eq, Semi, Hash, Open, Close} \subseteq Chars
  /\ <<Sp>> \in Words /\ <<Eq>> \in Words /\ <<Open>> \in Words /\ <<Close>> \in Words
  /\ <<Sp, Eq, Sp>> \in Words /\ <<Sp, Semi, Eq>> \in Words
PROOF
<1>1. /\ {LF, Sp, Eq, Semi, Hash, Open, Close} \subseteq Chars
      /\ {Sp, Eq, Semi, Hash, Open, Close} \subseteq Chars \ {LF}
  BY CharsAssumption DEF Chars, Special
<1>2. QED  BY <1>1 DEF Words

LEMMA BomIs ==
  /\ Bom \in Seq(Chars) /\ Len(Bom) = 3 /\ Bom # <<>>
  /\ \A j \in 1 .. 3 : Bom[j] # LF
PROOF
<1>1. Bom \in Seq(Letters) /\ Len(Bom) = 3 /\ Letters \subseteq Chars
  BY CharsAssumption DEF Chars
<1>2. \A j \in 1 .. 3 : Bom[j] \in Letters
  BY <1>1, ElementOfSeq
<1>3. LF \notin Letters
  BY CharsAssumption DEF Special
<1>4. Bom \in Seq(Chars)
  BY <1>1
<1>5. Bom # <<>>
  BY <1>1, EmptySeq
<1>6. QED  BY <1>1, <1>2, <1>3, <1>4, <1>5

LEMMA PrefixIs ==
  ASSUME NEW s \in Seq(Chars)
  PROVE  IsPrefix(Bom, s) <=> 3 <= Len(s) /\ \A j \in 1 .. 3 : s[j] = Bom[j]
PROOF
<1>1. SUFFICES ASSUME 3 <= Len(s)
               PROVE  SubSeq(Bom, 1, 3) = SubSeq(s, 1, 3) <=> \A j \in 1 .. 3 : s[j] = Bom[j]
  BY BomIs DEF IsPrefix
<1>2. PICK t : t = SubSeq(s, 1, 3)
  OBVIOUS
<1>3. t \in Seq(Chars) /\ Len(t) = 3 /\ \A j \in 1 .. 3 : t[j] = s[j]
  <2>1. /\ t \in Seq(Chars) /\ Len(t) = (IF 1 <= 3 THEN 3 - 1 + 1 ELSE 0)
        /\ \A k \in 1 .. 3 - 1 + 1 : t[k] = s[1 + k - 1]
    BY <1>1, <1>2, PartOf
  <2>2. QED  BY <2>1
<1>4. PICK u : u = SubSeq(Bom, 1, 3)
  OBVIOUS
<1>5. u \in Seq(Chars) /\ Len(u) = 3 /\ \A j \in 1 .. 3 : u[j] = Bom[j]
  <2>1. /\ u \in Seq(Chars) /\ Len(u) = (IF 1 <= 3 THEN 3 - 1 + 1 ELSE 0)
        /\ \A k \in 1 .. 3 - 1 + 1 : u[k] = Bom[1 + k - 1]
    BY <1>4, BomIs, PartOf
  <2>2. QED  BY <2>1
<1>6. u = t <=> \A j \in 1 .. 3 : t[j] = u[j]
  BY <1>3, <1>5, SeqEqual
<1>7. QED  BY <1>2, <1>3, <1>4, <1>5, <1>6

LEMMA PlainIs ==
  ASSUME NEW w \in Words, NEW chars, Plain(w, chars),
         NEW s \in Seq(Chars), NEW a \in Nat,
         \A i \in 1 .. Len(w) : s[a + i] = w[i],
         w # <<>> => a = 0 \/ w[1] # Semi
  PROVE  \A i \in a + 1 .. a + Len(w) : s[i] \notin chars /\ ~IsComment(s, i)
PROOF
<1>1. Len(w) \in Nat /\ DOMAIN w = 1 .. Len(w) /\ \A i \in 1 .. Len(w) : w[i] # LF
  BY WordTypes
<1>2. ASSUME NEW i \in a + 1 .. a + Len(w) PROVE s[i] \notin chars /\ ~IsComment(s, i)
  <2> DEFINE k == i - a
  <2>1. k \in 1 .. Len(w) /\ s[i] = w[k] /\ i \in Nat
    <3>1. k \in 1 .. Len(w) /\ a + k = i  BY <1>1
    <3>2. QED  BY <3>1
  <2>2. w[k] \notin chars /\ ~Remark(w, k)
    BY <1>1, <2>1 DEF Plain
  <2>3. ASSUME IsComment(s, i) PROVE FALSE
    <3>1. s[i] = Semi /\ i > 1 /\ IsSpace(s[i - 1])  BY <2>3 DEF IsComment
    <3>2. CASE k > 1
      <4>1. k - 1 \in 1 .. Len(w)  BY <1>1, <2>1, <3>2
      <4>2. s[a + (k - 1)] = w[k - 1]  BY <4>1
      <4>3. a + (k - 1) = i - 1  BY <2>1
      <4>4. s[i - 1] = w[k - 1]  BY <4>2, <4>3
      <4>5. w[k - 1] = Sp  BY <1>1, <3>1, <4>1, <4>4 DEF IsSpace
      <4>6. QED  BY <2>1, <2>2, <3>1, <3>2, <4>5 DEF Remark
    <3>3. CASE k = 1
      <4>1. w # <<>>  BY <1>1, <2>1, EmptySeq
      <4>2. w[1] # Semi  BY <2>1, <3>1, <3>3, <4>1
      <4>3. QED  BY <2>1, <3>1, <3>3, <4>2
    <3>4. QED  BY <1>1, <2>1, <3>2, <3>3
  <2>4. QED  BY <2>1, <2>2, <2>3
<1>3. QED  BY <1>2

(* A heading, and what its section is.                                     *)
LEMMA HeadingReads ==
  ASSUME NEW l \in Lines, l.kind = "heading", LegibleHeading(l)
  PROVE  LET b   == Body(l)
             s   == Tail(b)
             end == find_chars_or_comment(s, {Close})
         IN  /\ b \in Words /\ b # <<>> /\ ~IsSpace(b[1]) /\ ~IsSpace(b[Len(b)])
             /\ b[1] = Open
             /\ end <= Len(s) /\ s[end] = Close
             /\ strncpy0(Up(s, end)) = Fits(l.section)
PROOF
<1> DEFINE w == l.section
           b == Body(l)
           s == Tail(b)
           n == Len(w)
<1>1. w \in Words /\ Plain(w, {Close})
  BY DEF Lines, LegibleHeading
<1>2. n \in Nat /\ w \in Seq(Chars) /\ w \in Seq(Chars)
  BY <1>1, WordTypes
<1>3. b = <<Open>> \o w \o <<Close>>
  BY DEF Body
<1> HIDE DEF w, b
<1>4. /\ <<Open>> \o w \in Words /\ Len(<<Open>> \o w) = n + 1
      /\ (<<Open>> \o w)[1] = Open
      /\ \A i \in 1 .. n : (<<Open>> \o w)[1 + i] = w[i]
  <2>1. Len(<<Open>>) = 1 /\ <<Open>>[1] = Open /\ 1 \in 1 .. 1  OBVIOUS
  <2>2. QED  BY <1>1, <1>2, <2>1, Marks, JoinedWords
<1>5. /\ b \in Words /\ Len(b) = n + 2 /\ b[1] = Open /\ b[n + 2] = Close
      /\ \A i \in 1 .. n : b[1 + i] = w[i]
  <2> DEFINE v == <<Open>> \o w
             c == <<Close>>
  <2>1. Len(c) = 1 /\ c[1] = Close /\ 1 \in 1 .. 1 /\ c \in Words  BY Marks
  <2>2. v \in Words /\ Len(v) = n + 1 /\ v[1] = Open /\ \A i \in 1 .. n : v[1 + i] = w[i]
    BY <1>4
  <2>3. b = v \o c  BY <1>3
  <2> HIDE DEF v, c
  <2>4. /\ b \in Words /\ Len(b) = Len(v) + Len(c)
        /\ \A i \in 1 .. Len(v) : b[i] = v[i]
        /\ \A i \in 1 .. Len(c) : b[Len(v) + i] = c[i]
    BY <2>1, <2>2, <2>3, JoinedWords
  <2>5. b[1] = Open  BY <1>2, <2>2, <2>4
  <2>6. b[n + 2] = Close
    <3>1. b[Len(v) + 1] = Close  BY <2>1, <2>4
    <3>2. QED  BY <1>2, <2>2, <3>1
  <2>7. \A i \in 1 .. n : b[1 + i] = w[i]  BY <1>2, <2>2, <2>4
  <2>8. QED  BY <1>2, <2>1, <2>2, <2>4, <2>5, <2>6, <2>7
<1>6. b \in Seq(Chars) /\ b # <<>>
  BY <1>2, <1>5, WordTypes
<1>7. s \in Seq(Chars) /\ Len(s) = n + 1 /\ s[n + 1] = Close
      /\ \A i \in 1 .. n : s[0 + i] = w[i]
  <2>1. s \in Seq(Chars) /\ Len(s) = n + 1 /\ \A i \in 1 .. n + 1 : s[i] = b[i + 1]
    BY <1>2, <1>5, <1>6, HeadTailProperties
  <2>2. s[n + 1] = Close  BY <1>2, <1>5, <2>1
  <2>3. \A i \in 1 .. n : s[0 + i] = w[i]  BY <1>2, <1>5, <2>1
  <2>4. QED  BY <2>1, <2>2, <2>3
<1> HIDE DEF s
<1>8. \A i \in 0 + 1 .. 0 + n : s[i] \notin {Close} /\ ~IsComment(s, i)
  BY <1>1, <1>7, PlainIs
<1>9. find_chars_or_comment(s, {Close}) = n + 1
  <2>1. \A i \in 1 .. (n + 1) - 1 : s[i] \notin {Close} /\ ~IsComment(s, i)
    BY <1>2, <1>8
  <2>2. n + 1 \in 1 .. Len(s) + 1 /\ s[n + 1] \in {Close}  BY <1>2, <1>7
  <2>3. QED  BY <1>7, <2>1, <2>2, FindIs
<1>10. Up(s, n + 1) = w
  <2>1. /\ SubSeq(s, 1, n) \in Seq(Chars) /\ Len(SubSeq(s, 1, n)) = n
        /\ \A i \in 1 .. n : SubSeq(s, 1, n)[i] = s[i]
    BY <1>2, <1>7, PartOf
  <2>2. SubSeq(s, 1, n) = w
    BY <1>2, <1>7, <2>1, SeqEqual
  <2>3. (n + 1) - 1 = n  BY <1>2
  <2>4. QED  BY <2>2, <2>3 DEF Up
<1>11. ~IsSpace(b[1]) /\ ~IsSpace(b[Len(b)])
  BY <1>5, CharsAssumption DEF IsSpace
<1>12. strncpy0(w) = Fits(w)
  BY <1>2, CopyIs
<1>13. QED
  BY <1>2, <1>5, <1>6, <1>7, <1>9, <1>10, <1>11, <1>12 DEF b, s, w

(* A pair: its name ends at its sign, and its value before the comment.    *)
LEMMA PairParts ==
  ASSUME NEW l \in Lines, l.kind = "pair", LegiblePair(l)
  PROVE  LET b == Body(l)
             n == Len(l.name)
             m == Len(l.value)
             p == IF l.loose THEN n + 2 ELSE n + 1
         IN  /\ b \in Words /\ \A i \in 1 .. n : b[i] = l.name[i]
             /\ b[p] = Eq
             /\ l.loose => b[n + 1] = Sp /\ Len(b) = n + m + 6
             /\ ~l.loose => Len(b) = n + m + 1 /\ \A i \in 1 .. m : b[p + i] = l.value[i]
             /\ l.loose => /\ b[p + 1] = Sp /\ b[p + m + 2] = Sp
                           /\ b[p + m + 3] = Semi /\ b[p + m + 4] = Eq
                           /\ \A i \in 1 .. m : b[p + 1 + i] = l.value[i]
PROOF
<1>1. PICK v : v = l.name
  OBVIOUS
<1>2. PICK w : w = l.value
  OBVIOUS
<1>3. PICK b : b = Body(l)
  OBVIOUS
<1>4. PICK n : n = Len(v)
  OBVIOUS
<1>5. PICK m : m = Len(w)
  OBVIOUS
<1>6. v \in Words /\ w \in Words /\ n \in Nat /\ m \in Nat /\ l.loose \in BOOLEAN
  BY <1>1, <1>2, <1>4, <1>5, WordTypes DEF Lines
<1>7. CASE ~l.loose
  <2>1. PICK e : e = <<Eq>>  OBVIOUS
  <2>2. e \in Words /\ Len(e) = 1 /\ e[1] = Eq /\ 1 \in 1 .. 1  BY <2>1, Marks
  <2>3. b = v \o (e \o w)  BY <1>1, <1>2, <1>3, <1>7, <2>1 DEF Body
  <2>4. /\ e \o w \in Words /\ Len(e \o w) = 1 + m /\ (e \o w)[1] = Eq
        /\ \A i \in 1 .. m : (e \o w)[1 + i] = w[i]
    <3>1. PICK x : x = e \o w  OBVIOUS
    <3>2. /\ x \in Words /\ Len(x) = Len(e) + Len(w)
          /\ \A i \in 1 .. Len(e) : x[i] = e[i]
          /\ \A i \in 1 .. Len(w) : x[Len(e) + i] = w[i]
      BY <1>6, <2>2, <3>1, JoinedWords
    <3>3. QED  BY <1>5, <2>2, <3>1, <3>2
  <2>5. /\ b \in Words /\ Len(b) = n + (1 + m)
        /\ \A i \in 1 .. n : b[i] = v[i]
        /\ \A i \in 1 .. 1 + m : b[n + i] = (e \o w)[i]
    <3>1. PICK x : x = e \o w  OBVIOUS
    <3>2. /\ b \in Words /\ Len(b) = Len(v) + Len(x)
          /\ \A i \in 1 .. Len(v) : b[i] = v[i]
          /\ \A i \in 1 .. Len(x) : b[Len(v) + i] = x[i]
      BY <1>6, <2>3, <2>4, <3>1, JoinedWords
    <3>3. QED  BY <1>4, <2>4, <3>1, <3>2
  <2>6. b[n + 1] = Eq
    <3>1. 1 \in 1 .. 1 + m  BY <1>6
    <3>2. QED  BY <2>4, <2>5, <3>1
  <2>7. ASSUME NEW i \in 1 .. m PROVE b[n + 1 + i] = w[i]
    <3>1. 1 + i \in 1 .. 1 + m /\ n + (1 + i) = n + 1 + i  BY <1>6
    <3>2. b[n + (1 + i)] = (e \o w)[1 + i]  BY <2>5, <3>1
    <3>3. QED  BY <2>4, <3>1, <3>2
  <2>8. Len(b) = n + m + 1  BY <1>6, <2>5
  <2>9. QED  BY <1>1, <1>2, <1>3, <1>4, <1>5, <1>7, <2>5, <2>6, <2>7, <2>8
<1>8. CASE l.loose
  <2>1. PICK e : e = <<Sp, Eq, Sp>>  OBVIOUS
  <2>2. PICK c : c = <<Sp, Semi, Eq>>  OBVIOUS
  <2>3. /\ e \in Words /\ Len(e) = 3 /\ e[1] = Sp /\ e[2] = Eq /\ e[3] = Sp
        /\ c \in Words /\ Len(c) = 3 /\ c[1] = Sp /\ c[2] = Semi /\ c[3] = Eq
    BY <2>1, <2>2, Marks
  <2>4. b = v \o ((e \o w) \o c)  BY <1>1, <1>2, <1>3, <1>8, <2>1, <2>2 DEF Body
  <2>5. PICK x : x = e \o w  OBVIOUS
  <2>6. PICK y : y = x \o c  OBVIOUS
  <2>7. /\ x \in Words /\ Len(x) = 3 + m
        /\ \A i \in 1 .. 3 : x[i] = e[i]
        /\ \A i \in 1 .. m : x[3 + i] = w[i]
    <3>1. /\ x \in Words /\ Len(x) = Len(e) + Len(w)
          /\ \A i \in 1 .. Len(e) : x[i] = e[i]
          /\ \A i \in 1 .. Len(w) : x[Len(e) + i] = w[i]
      <4>1. e \in Words /\ w \in Words  BY <1>6, <2>3
      <4>2. QED  BY <2>5, <4>1, JoinedWords
    <3>2. QED  BY <1>5, <2>3, <3>1
  <2>8. /\ y \in Words /\ Len(y) = (3 + m) + 3
        /\ \A i \in 1 .. 3 + m : y[i] = x[i]
        /\ \A i \in 1 .. 3 : y[(3 + m) + i] = c[i]
    <3>1. /\ y \in Words /\ Len(y) = Len(x) + Len(c)
          /\ \A i \in 1 .. Len(x) : y[i] = x[i]
          /\ \A i \in 1 .. Len(c) : y[Len(x) + i] = c[i]
      BY <2>3, <2>6, <2>7, JoinedWords
    <3>2. QED  BY <2>3, <2>7, <3>1
  <2>9. /\ b \in Words /\ Len(b) = n + ((3 + m) + 3)
        /\ \A i \in 1 .. n : b[i] = v[i]
        /\ \A i \in 1 .. (3 + m) + 3 : b[n + i] = y[i]
    <3>1. /\ b \in Words /\ Len(b) = Len(v) + Len(y)
          /\ \A i \in 1 .. Len(v) : b[i] = v[i]
          /\ \A i \in 1 .. Len(y) : b[Len(v) + i] = y[i]
      <4>1. v \in Words /\ y \in Words  BY <1>6, <2>8
      <4>2. b = v \o y  BY <2>4, <2>5, <2>6
      <4>3. QED  BY <4>1, <4>2, JoinedWords
    <3>2. QED  BY <1>4, <2>8, <3>1
  <2>10. b[n + 1] = Sp /\ b[n + 2] = Eq /\ b[n + 3] = Sp
    <3>1. /\ 1 \in 1 .. 3 /\ 2 \in 1 .. 3 /\ 3 \in 1 .. 3
          /\ 1 \in 1 .. 3 + m /\ 2 \in 1 .. 3 + m /\ 3 \in 1 .. 3 + m
          /\ 1 \in 1 .. (3 + m) + 3 /\ 2 \in 1 .. (3 + m) + 3 /\ 3 \in 1 .. (3 + m) + 3
      BY <1>6
    <3>2. x[1] = Sp /\ x[2] = Eq /\ x[3] = Sp  BY <2>3, <2>7, <3>1
    <3>3. y[1] = Sp /\ y[2] = Eq /\ y[3] = Sp  BY <2>8, <3>1, <3>2
    <3>4. QED  BY <2>9, <3>1, <3>3
  <2>11. ASSUME NEW i \in 1 .. m PROVE b[n + 3 + i] = w[i]
    <3>1. 3 + i \in 1 .. 3 + m /\ 3 + i \in 1 .. (3 + m) + 3 /\ n + (3 + i) = n + 3 + i
      BY <1>6
    <3>2. y[3 + i] = w[i]  BY <2>7, <2>8, <3>1
    <3>3. b[n + (3 + i)] = y[3 + i]  BY <2>9, <3>1
    <3>4. QED  BY <3>1, <3>2, <3>3
  <2>12. b[n + m + 4] = Sp /\ b[n + m + 5] = Semi /\ b[n + m + 6] = Eq
    <3>1. ASSUME NEW i \in 1 .. 3 PROVE b[n + ((3 + m) + i)] = c[i]
      <4>1. (3 + m) + i \in 1 .. (3 + m) + 3  BY <1>6
      <4>2. QED  BY <2>8, <2>9, <4>1
    <3>2. /\ 1 \in 1 .. 3 /\ 2 \in 1 .. 3 /\ 3 \in 1 .. 3
          /\ n + ((3 + m) + 1) = n + m + 4 /\ n + ((3 + m) + 2) = n + m + 5
          /\ n + ((3 + m) + 3) = n + m + 6
      BY <1>6
    <3>3. b[n + ((3 + m) + 1)] = c[1] /\ b[n + ((3 + m) + 2)] = c[2]
          /\ b[n + ((3 + m) + 3)] = c[3]
      BY <3>1, <3>2
    <3>4. QED  BY <2>3, <3>2, <3>3
  <2>13. Len(b) = n + m + 6  BY <1>6, <2>9
  <2> DEFINE p == n + 2
  <2>14. /\ p + 1 = n + 3 /\ p + m + 2 = n + m + 4 /\ p + m + 3 = n + m + 5
         /\ p + m + 4 = n + m + 6
    BY <1>6
  <2>15. \A i \in 1 .. m : b[p + 1 + i] = w[i]
    <3>1. \A i \in 1 .. m : p + 1 + i = n + 3 + i  BY <1>6
    <3>2. QED  BY <2>11, <3>1
  <2>16. b[p + 1] = Sp /\ b[p + m + 2] = Sp /\ b[p + m + 3] = Semi /\ b[p + m + 4] = Eq
    BY <2>10, <2>12, <2>14
  <2>17. QED
    BY <1>1, <1>2, <1>3, <1>4, <1>5, <1>8, <2>9, <2>10, <2>13, <2>15, <2>16
<1>9. QED  BY <1>6, <1>7, <1>8

LEMMA PairReads ==
  ASSUME NEW l \in Lines, l.kind = "pair", LegiblePair(l)
  PROVE  LET b     == Body(l)
             end   == find_chars_or_comment(b, {Eq})
             value == After(b, end)
         IN  /\ b \in Words /\ b # <<>> /\ ~IsSpace(b[1]) /\ ~IsSpace(b[Len(b)])
             /\ b[1] \notin {Semi, Hash, Open}
             /\ end <= Len(b) /\ b[end] = Eq
             /\ rstrip(Up(b, end)) = l.name
             /\ rstrip(lskip(Up(value, find_chars_or_comment(value, {})))) = l.value
PROOF
<1>1. PICK v : v = l.name
  OBVIOUS
<1>2. PICK w : w = l.value
  OBVIOUS
<1>3. PICK b : b = Body(l)
  OBVIOUS
<1>4. PICK n : n = Len(v)
  OBVIOUS
<1>5. PICK m : m = Len(w)
  OBVIOUS
<1>6. PICK p : p = IF l.loose THEN n + 2 ELSE n + 1
  OBVIOUS
<1>7. /\ v \in Words /\ w \in Words /\ n \in Nat /\ m \in Nat /\ l.loose \in BOOLEAN
      /\ v \in Seq(Chars) /\ w \in Seq(Chars)
      /\ \A i \in 1 .. n : v[i] # LF
      /\ \A i \in 1 .. m : w[i] # LF
  BY <1>1, <1>2, <1>4, <1>5, WordTypes DEF Lines
<1>8. /\ v # <<>> /\ n >= 1 /\ v[1] # Sp /\ v[n] # Sp /\ Plain(v, {Eq})
      /\ v[1] \notin {Semi, Hash, Open}
      /\ w # <<>> => m >= 1 /\ w[1] # Sp /\ w[m] # Sp
      /\ Plain(w, {})
      /\ l.loose => (w # <<>> => w[1] # Semi)
  BY <1>1, <1>2, <1>4, <1>5, <1>7, WordTypes DEF LegiblePair, Trim
<1>9. /\ b \in Words /\ \A i \in 1 .. n : b[i] = v[i]
      /\ b[p] = Eq
      /\ l.loose => b[n + 1] = Sp /\ Len(b) = n + m + 6
      /\ ~l.loose => Len(b) = n + m + 1 /\ \A i \in 1 .. m : b[p + i] = w[i]
      /\ l.loose => /\ b[p + 1] = Sp /\ b[p + m + 2] = Sp
                    /\ b[p + m + 3] = Semi /\ b[p + m + 4] = Eq
                    /\ \A i \in 1 .. m : b[p + 1 + i] = w[i]
  BY <1>1, <1>2, <1>3, <1>4, <1>5, <1>6, PairParts
<1>10. /\ b \in Seq(Chars) /\ Len(b) \in Nat /\ p \in Nat /\ p \in 1 .. Len(b)
       /\ Len(b) = IF l.loose THEN p + m + 4 ELSE p + m
  <2>1. b \in Seq(Chars) /\ Len(b) \in Nat  BY <1>9, WordTypes
  <2>2. QED  BY <1>6, <1>7, <1>8, <1>9, <2>1
<1>11. find_chars_or_comment(b, {Eq}) = p
  <2>1. \A i \in 0 + 1 .. 0 + n : b[i] \notin {Eq} /\ ~IsComment(b, i)
    <3>1. \A i \in 1 .. n : b[0 + i] = v[i]  BY <1>7, <1>9
    <3>2. QED  BY <1>4, <1>7, <1>8, <1>10, <3>1, PlainIs
  <2>2. \A i \in 1 .. p - 1 : b[i] \notin {Eq} /\ ~IsComment(b, i)
    <3>1. CASE ~l.loose
      BY <1>6, <1>7, <2>1, <3>1
    <3>2. CASE l.loose
      <4>1. b[n + 1] = Sp /\ p - 1 = n + 1  BY <1>6, <1>7, <1>9, <3>2
      <4>2. b[n + 1] \notin {Eq} /\ ~IsComment(b, n + 1)
        BY <4>1, CharsAssumption DEF IsComment
      <4>3. \A i \in 1 .. n + 1 : i \in 0 + 1 .. 0 + n \/ i = n + 1  BY <1>7
      <4>4. QED  BY <2>1, <4>1, <4>2, <4>3
    <3>3. QED  BY <1>7, <3>1, <3>2
  <2>3. p \in 1 .. Len(b) + 1 /\ b[p] \in {Eq}  BY <1>9, <1>10
  <2>4. QED  BY <1>10, <2>2, <2>3, FindIs
<1>12. rstrip(Up(b, p)) = v
  <2>1. PICK u : u = Up(b, p)  OBVIOUS
  <2>2. u \in Seq(Chars) /\ Len(u) = p - 1 /\ \A i \in 1 .. p - 1 : u[i] = b[i]
    <3>1. p - 1 \in Nat /\ p - 1 <= Len(b)  BY <1>10
    <3>2. /\ SubSeq(b, 1, p - 1) \in Seq(Chars)
          /\ Len(SubSeq(b, 1, p - 1)) = IF 1 <= p - 1 THEN (p - 1) - 1 + 1 ELSE 0
          /\ \A i \in 1 .. (p - 1) - 1 + 1 : SubSeq(b, 1, p - 1)[i] = b[1 + i - 1]
      BY <1>10, <3>1, PartOf
    <3>3. u = SubSeq(b, 1, p - 1)  BY <2>1 DEF Up
    <3>4. QED  BY <1>10, <3>1, <3>2, <3>3
  <2>3. p - 1 >= n /\ n \in 1 .. p - 1
    BY <1>6, <1>7, <1>8
  <2>4. \A i \in 1 .. n : u[i] = v[i]
    BY <1>7, <1>9, <2>2, <2>3
  <2>5. ~IsSpace(u[n])
    <3>1. u[n] = v[n]  BY <1>8, <1>7, <2>4
    <3>2. v[n] # LF  BY <1>7, <1>8
    <3>3. QED  BY <1>8, <3>1, <3>2 DEF IsSpace
  <2>6. \A i \in n + 1 .. Len(u) : IsSpace(u[i])
    <3>1. CASE ~l.loose
      BY <1>6, <1>7, <2>2, <3>1
    <3>2. CASE l.loose
      <4>1. p - 1 = n + 1 /\ b[n + 1] = Sp  BY <1>6, <1>7, <1>9, <3>2
      <4>2. u[n + 1] = Sp  BY <1>7, <2>2, <4>1
      <4>3. \A i \in n + 1 .. Len(u) : i = n + 1  BY <1>7, <2>2, <4>1
      <4>4. QED  BY <4>2, <4>3 DEF IsSpace
    <3>3. QED  BY <1>7, <3>1, <3>2
  <2>7. rstrip(u) = SubSeq(u, 1, n)
    BY <2>2, <2>3, <2>5, <2>6, RstripIs
  <2>8. /\ SubSeq(u, 1, n) \in Seq(Chars) /\ Len(SubSeq(u, 1, n)) = n
        /\ \A i \in 1 .. n : SubSeq(u, 1, n)[i] = u[i]
    BY <1>7, <2>2, <2>3, PartOf
  <2>9. SubSeq(u, 1, n) = v
    BY <1>4, <1>7, <2>4, <2>8, SeqEqual
  <2>10. QED  BY <2>1, <2>7, <2>9
<1>13. PICK s : s = After(b, p)
  OBVIOUS
<1>14. /\ s \in Seq(Chars) /\ Len(s) = Len(b) - p /\ Len(s) \in Nat
       /\ \A i \in 1 .. Len(b) - p : s[i] = b[p + i]
  <2>1. /\ SubSeq(b, p + 1, Len(b)) \in Seq(Chars)
        /\ Len(SubSeq(b, p + 1, Len(b))) =
             IF p + 1 <= Len(b) THEN Len(b) - (p + 1) + 1 ELSE 0
        /\ \A i \in 1 .. Len(b) - (p + 1) + 1 :
             SubSeq(b, p + 1, Len(b))[i] = b[(p + 1) + i - 1]
    BY <1>10, PartOf
  <2>2. s = SubSeq(b, p + 1, Len(b))  BY <1>13 DEF After
  <2>3. QED  BY <1>10, <2>1, <2>2
<1>15. PICK q : q = find_chars_or_comment(s, {})
  OBVIOUS
<1>16. PICK u : u = Up(s, q)
  OBVIOUS
<1>17. PICK a : a = IF l.loose THEN 1 ELSE 0
  OBVIOUS
<1>18. a \in Nat /\ \A i \in 1 .. m : a + i \in 1 .. Len(s) /\ s[a + i] = w[i]
  <2>1. CASE ~l.loose
    <3>1. Len(s) = m /\ a = 0  BY <1>7, <1>10, <1>14, <1>17, <2>1
    <3>2. \A i \in 1 .. m : a + i = i  BY <1>7, <3>1
    <3>3. QED  BY <1>9, <1>10, <1>14, <2>1, <3>1, <3>2
  <2>2. CASE l.loose
    <3>1. Len(s) = m + 4 /\ a = 1  BY <1>7, <1>10, <1>14, <1>17, <2>2
    <3>2. ASSUME NEW i \in 1 .. m PROVE a + i \in 1 .. Len(s) /\ s[a + i] = w[i]
      <4>1. 1 + i \in 1 .. m + 4 /\ p + (1 + i) = p + 1 + i  BY <1>7, <1>10
      <4>2. s[1 + i] = b[p + (1 + i)]  BY <1>14, <3>1, <4>1
      <4>3. b[p + 1 + i] = w[i]  BY <1>9, <2>2
      <4>4. QED  BY <3>1, <4>1, <4>2, <4>3
    <3>3. QED  BY <3>1, <3>2
  <2>3. QED  BY <1>7, <2>1, <2>2
<1>19. \A i \in a + 1 .. a + m : s[i] \notin {} /\ ~IsComment(s, i)
  <2>1. w # <<>> => a = 0 \/ w[1] # Semi  BY <1>7, <1>8, <1>17
  <2>2. QED  BY <1>5, <1>7, <1>8, <1>14, <1>18, <2>1, PlainIs
<1>20. /\ q = (IF l.loose THEN m + 3 ELSE m + 1) /\ q \in 1 .. Len(s) + 1
       /\ l.loose => s[1] = Sp /\ s[m + 2] = Sp
  <2>1. CASE ~l.loose
    <3>1. Len(s) = m /\ a = 0  BY <1>7, <1>10, <1>14, <1>17, <2>1
    <3>2. \A i \in 1 .. (m + 1) - 1 : s[i] \notin {} /\ ~IsComment(s, i)
      BY <1>7, <1>19, <3>1
    <3>3. m + 1 \in 1 .. Len(s) + 1 /\ ~ m + 1 <= Len(s)  BY <1>7, <3>1
    <3>4. find_chars_or_comment(s, {}) = m + 1  BY <1>14, <3>2, <3>3, FindIs
    <3>5. QED  BY <1>15, <2>1, <3>3, <3>4
  <2>2. CASE l.loose
    <3>1. Len(s) = m + 4 /\ a = 1  BY <1>7, <1>10, <1>14, <1>17, <2>2
    <3>2. s[1] = Sp /\ s[m + 2] = Sp /\ s[m + 3] = Semi
      <4>1. /\ 1 \in 1 .. m + 4 /\ m + 2 \in 1 .. m + 4 /\ m + 3 \in 1 .. m + 4
            /\ p + (m + 2) = p + m + 2 /\ p + (m + 3) = p + m + 3
        BY <1>7, <1>10
      <4>2. s[1] = b[p + 1] /\ s[m + 2] = b[p + (m + 2)] /\ s[m + 3] = b[p + (m + 3)]
        BY <1>14, <3>1, <4>1
      <4>3. QED  BY <1>9, <2>2, <4>1, <4>2
    <3>3. \A i \in 1 .. (m + 3) - 1 : s[i] \notin {} /\ ~IsComment(s, i)
      <4>1. ~IsComment(s, 1) /\ ~IsComment(s, m + 2)
        BY <3>2, CharsAssumption DEF IsComment
      <4>2. \A i \in 1 .. (m + 3) - 1 : i = 1 \/ i = m + 2 \/ i \in a + 1 .. a + m
        BY <1>7, <3>1
      <4>3. QED  BY <1>19, <4>1, <4>2
    <3>4. IsComment(s, m + 3)
      <4>1. (m + 3) - 1 = m + 2 /\ m + 3 > 1  BY <1>7
      <4>2. QED  BY <3>2, <4>1 DEF IsComment, IsSpace
    <3>5. m + 3 \in 1 .. Len(s) + 1  BY <1>7, <3>1
    <3>6. find_chars_or_comment(s, {}) = m + 3  BY <1>14, <3>3, <3>4, <3>5, FindIs
    <3>7. QED  BY <1>15, <2>2, <3>2, <3>5, <3>6
  <2>3. QED  BY <1>7, <2>1, <2>2
<1>21. u \in Seq(Chars) /\ Len(u) = q - 1 /\ \A i \in 1 .. q - 1 : u[i] = s[i]
  <2>1. q - 1 \in Nat /\ q - 1 <= Len(s)  BY <1>14, <1>20
  <2>2. /\ SubSeq(s, 1, q - 1) \in Seq(Chars)
        /\ Len(SubSeq(s, 1, q - 1)) = IF 1 <= q - 1 THEN (q - 1) - 1 + 1 ELSE 0
        /\ \A i \in 1 .. (q - 1) - 1 + 1 : SubSeq(s, 1, q - 1)[i] = s[1 + i - 1]
    BY <1>14, <2>1, PartOf
  <2>3. u = SubSeq(s, 1, q - 1)  BY <1>16 DEF Up
  <2>4. QED  BY <2>1, <2>2, <2>3
<1>22. Within(u, a, w)
  <2>1. a + m <= Len(u)
    BY <1>7, <1>17, <1>20, <1>21
  <2>2. ASSUME NEW i \in 1 .. m PROVE u[a + i] = w[i]
    <3>1. a + i \in 1 .. q - 1  BY <1>7, <1>18, <1>21, <2>1
    <3>2. QED  BY <1>18, <1>21, <3>1
  <2>3. ASSUME NEW i \in 1 .. Len(u), i <= a \/ i > a + m PROVE IsSpace(u[i])
    <3>1. l.loose /\ a = 1 /\ q - 1 = m + 2  BY <1>7, <1>17, <1>20, <1>21, <2>3
    <3>2. i = 1 \/ i = m + 2  BY <1>7, <1>21, <2>3, <3>1
    <3>3. u[i] = s[i] /\ s[i] = Sp  BY <1>20, <1>21, <3>1, <3>2
    <3>4. QED  BY <3>3 DEF IsSpace
  <2>4. w # <<>> => ~IsSpace(w[1]) /\ ~IsSpace(w[m])
    BY <1>7, <1>8 DEF IsSpace
  <2>5. QED  BY <1>5, <2>1, <2>2, <2>3, <2>4 DEF Within
<1>23. rstrip(lskip(u)) = w
  BY <1>7, <1>18, <1>21, <1>22, Stripped
<1>24. b # <<>> /\ ~IsSpace(b[1]) /\ b[1] \notin {Semi, Hash, Open}
  <2>1. 1 \in 1 .. n  BY <1>7, <1>8
  <2>2. b[1] = v[1] /\ v[1] # LF  BY <1>7, <1>9, <2>1
  <2>3. b # <<>>  BY <1>10, EmptySeq
  <2>4. QED  BY <1>8, <2>2, <2>3 DEF IsSpace
<1>25. ~IsSpace(b[Len(b)])
  <2>1. CASE l.loose
    <3>1. b[Len(b)] = Eq  BY <1>9, <1>10, <2>1
    <3>2. QED  BY <3>1, CharsAssumption DEF IsSpace
  <2>2. CASE ~l.loose /\ w = <<>>
    <3>1. m = 0  BY <1>5, <2>2, EmptySeq
    <3>2. Len(b) = p  BY <1>10, <2>2, <3>1
    <3>3. QED  BY <1>9, <3>2, CharsAssumption DEF IsSpace
  <2>3. CASE ~l.loose /\ w # <<>>
    <3>1. Len(b) = p + m /\ m \in 1 .. m  BY <1>7, <1>8, <1>10, <2>3
    <3>2. b[Len(b)] = w[m] /\ w[m] # LF  BY <1>7, <1>9, <2>3, <3>1
    <3>3. QED  BY <1>8, <2>3, <3>2 DEF IsSpace
  <2>4. QED  BY <1>7, <2>1, <2>2, <2>3
<1>26. QED
  BY <1>1, <1>2, <1>3, <1>9, <1>10, <1>11, <1>12, <1>13, <1>15, <1>16, <1>23, <1>24, <1>25

(* Neither a heading nor a pair: what would make it one is in a comment.   *)
LEMMA LacksIs ==
  ASSUME NEW s \in Words, NEW c, Lacks(s, c)
  PROVE  LET end == find_chars_or_comment(s, {c})
         IN  ~ (end <= Len(s) /\ s[end] = c)
PROOF
<1> DEFINE end == find_chars_or_comment(s, {c})
<1>1. s \in Seq(Chars) /\ Len(s) \in Nat /\ DOMAIN s = 1 .. Len(s)
  BY WordTypes
<1>2. /\ end \in 1 .. Len(s) + 1
      /\ \A i \in 1 .. Len(s) : IsComment(s, i) => end <= i
  BY <1>1, FindTypes
<1> HIDE DEF end
<1>3. ASSUME end <= Len(s), s[end] = c PROVE FALSE
  <2>1. PICK j \in 1 .. end - 1 : Remark(s, j)
    BY <1>1, <1>2, <1>3 DEF Lacks
  <2>2. IsComment(s, j)
    BY <2>1 DEF Remark, IsComment, IsSpace
  <2>3. QED  BY <1>1, <1>2, <1>3, <2>1, <2>2
<1>4. QED  BY <1>3 DEF end

LEMMA JunkReads ==
  ASSUME NEW l \in Lines, l.kind = "junk", LegibleJunk(l)
  PROVE  LET b == Body(l)
         IN  /\ b \in Words /\ b # <<>> /\ ~IsSpace(b[1]) /\ ~IsSpace(b[Len(b)])
             /\ b[1] \notin {Semi, Hash}
             /\ b[1] = Open =>
                  LET s   == Tail(b)
                      end == find_chars_or_comment(s, {Close})
                  IN  ~ (end <= Len(s) /\ s[end] = Close)
             /\ b[1] # Open =>
                  LET end == find_chars_or_comment(b, {Eq})
                  IN  ~ (end <= Len(b) /\ b[end] = Eq)
PROOF
<1>1. PICK b : b = Body(l)
  OBVIOUS
<1>2. b = l.text
  BY <1>1 DEF Body
<1>3. b \in Words /\ b # <<>> /\ b[1] # Sp /\ b[Len(b)] # Sp /\ b[1] \notin {Semi, Hash}
  BY <1>2 DEF Lines, LegibleJunk, Trim
<1>4. Len(b) \in Nat /\ Len(b) >= 1 /\ \A i \in 1 .. Len(b) : b[i] # LF
  BY <1>3, WordTypes
<1>5. ~IsSpace(b[1]) /\ ~IsSpace(b[Len(b)])
  BY <1>3, <1>4 DEF IsSpace
<1>6. ASSUME b[1] = Open
      PROVE  LET s   == Tail(b)
                 end == find_chars_or_comment(s, {Close})
             IN  ~ (end <= Len(s) /\ s[end] = Close)
  <2>1. Tail(b) \in Words  BY <1>3, HeadTailProperties DEF Words
  <2>2. Lacks(Tail(b), Close)  BY <1>2, <1>6 DEF LegibleJunk
  <2>3. QED  BY <2>1, <2>2, LacksIs
<1>7. ASSUME b[1] # Open
      PROVE  LET end == find_chars_or_comment(b, {Eq})
             IN  ~ (end <= Len(b) /\ b[end] = Eq)
  <2>1. Lacks(b, Eq)  BY <1>2, <1>7 DEF LegibleJunk
  <2>2. QED  BY <1>3, <2>1, LacksIs
<1>8. QED  BY <1>1, <1>3, <1>5, <1>6, <1>7

(* A comment, or an empty line.                                            *)
LEMMA BlankIs ==
  ASSUME NEW s \in Seq(Chars),
         \A i \in 1 .. Len(s) : (\A j \in 1 .. i - 1 : IsSpace(s[j]))
                                  => IsSpace(s[i]) \/ s[i] \in {Semi, Hash}
  PROVE  LET x == lskip(rstrip(s)) IN x = <<>> \/ x[1] \in {Semi, Hash}
PROOF
<1>1. PICK m : m = Max(Visible(s) \cup {0})
  OBVIOUS
<1>2. m \in 0 .. Len(s) /\ Len(s) \in Nat
  <2>1. Visible(s) \cup {0} # {}  OBVIOUS
  <2>2. QED  BY <1>1, <2>1, VisibleTypes, MaxOf
<1>3. PICK r : r = rstrip(s)
  OBVIOUS
<1>4. r \in Seq(Chars) /\ Len(r) = m /\ \A i \in 1 .. m : r[i] = s[i]
  <2>1. r = SubSeq(s, 1, m)  BY <1>1, <1>3 DEF rstrip
  <2>2. QED  BY <1>2, <2>1, PartOf
<1>5. DOMAIN r = 1 .. m
  BY <1>4, LenProperties
<1>6. PICK G : G = Visible(r) \cup {m + 1}
  OBVIOUS
<1>7. PICK k : k = Min(G)
  OBVIOUS
<1>8. k \in G /\ \A y \in G : k <= y
  <2>1. G \subseteq Nat /\ G # {}  BY <1>4, <1>6, VisibleTypes
  <2>2. QED  BY <1>7, <2>1, MinOf
<1>9. lskip(r) = SubSeq(r, k, m)
  BY <1>4, <1>6, <1>7 DEF lskip
<1>10. CASE k = m + 1
  BY <1>2, <1>3, <1>9, <1>10, SubSeqEmpty
<1>11. CASE k # m + 1
  <2>1. k \in 1 .. m /\ ~IsSpace(r[k])
    BY <1>5, <1>6, <1>8, <1>11 DEF Visible
  <2>2. \A j \in 1 .. k - 1 : IsSpace(r[j])
    BY <1>2, <1>5, <1>6, <1>8, <2>1 DEF Visible
  <2>3. k \in 1 .. Len(s) /\ \A j \in 1 .. k - 1 : IsSpace(s[j])
    BY <1>2, <1>4, <2>1, <2>2
  <2>4. s[k] \in {Semi, Hash}
    BY <1>4, <2>1, <2>3
  <2>5. SubSeq(r, k, m)[1] = r[k]
    <3>1. /\ \A i \in 1 .. m - k + 1 : SubSeq(r, k, m)[i] = r[k + i - 1]
          /\ 1 \in 1 .. m - k + 1 /\ k + 1 - 1 = k
      BY <1>2, <1>4, <2>1, PartOf
    <3>2. QED  BY <3>1
  <2>6. QED  BY <1>3, <1>4, <1>9, <2>1, <2>4, <2>5
<1>12. QED  BY <1>10, <1>11

LEMMA BodyTypes ==
  ASSUME NEW l, LegibleLine(l)
  PROVE  /\ l \in Lines /\ Body(l) \in Words
         /\ l.kind # "note" =>
              Body(l) # <<>> /\ ~IsSpace(Body(l)[1]) /\ ~IsSpace(Body(l)[Len(Body(l))])
PROOF
<1>1. l \in Lines /\ l.kind \in {"heading", "pair", "note", "junk"}
  BY DEF LegibleLine, Lines
<1>2. CASE l.kind = "heading"
  BY <1>1, <1>2, HeadingReads DEF LegibleLine
<1>3. CASE l.kind = "pair"
  BY <1>1, <1>3, PairReads DEF LegibleLine
<1>4. CASE l.kind = "junk"
  BY <1>1, <1>4, JunkReads DEF LegibleLine
<1>5. CASE l.kind = "note"
  <2>1. Body(l) = l.text  BY <1>5 DEF Body
  <2>2. QED  BY <1>1, <1>5, <2>1 DEF Lines
<1>6. QED  BY <1>1, <1>2, <1>3, <1>4, <1>5

(* A line of a document as the reader gets it.                             *)
LEMMA LineIs ==
  ASSUME NEW d, Legible(d), NEW i \in 1 .. Len(d.lines)
  PROVE  LET l == d.lines[i]
             b == Body(l)
             a == IF l.indented THEN 1 ELSE 0
             u == LineOf(d, i)
         IN  /\ LegibleLine(l)
             /\ u \in Seq(Chars) /\ u # <<>> /\ Len(u) + 1 <= MaxLine
             /\ i = 1 => Len(Mark(d)) + Len(u) + 1 <= MaxLine
             /\ \A j \in 1 .. Len(b) : u[a + j] = b[j]
             /\ l.indented => u[1] = Sp
             /\ \/ Len(u) = a + Len(b) + 1 /\ u[Len(u)] = LF
                \/ Len(u) = a + Len(b) /\ i = Len(d.lines)
             /\ \A j \in 1 .. Len(u) - 1 : u[j] # LF
             /\ i = 1 => d.bom \/ ~IsPrefix(Bom, u)
PROOF
<1>1. /\ d \in [bom : BOOLEAN, ended : BOOLEAN, lines : Seq(Lines)]
      /\ LegibleLine(d.lines[i])
      /\ Len(d.lines) \in Nat
  <2>1. d \in [bom : BOOLEAN, ended : BOOLEAN, lines : Seq(Lines)]  BY DEF Legible
  <2>2. d.lines \in Seq(Lines)  BY <2>1
  <2>3. QED  BY <2>1, <2>2, LenProperties DEF Legible
<1>2. PICK l : l = d.lines[i]
  OBVIOUS
<1>3. PICK b : b = Body(l)
  OBVIOUS
<1>4. b \in Words /\ l \in Lines /\ l.indented \in BOOLEAN /\ Len(b) \in Nat
  <2>1. b \in Words /\ l \in Lines  BY <1>1, <1>2, <1>3, BodyTypes
  <2>2. QED  BY <2>1, WordTypes DEF Lines
<1>5. PICK a : a = IF l.indented THEN 1 ELSE 0
  OBVIOUS
<1>6. PICK t : t = Text(l)
  OBVIOUS
<1>7. /\ t \in Words /\ Len(t) = a + Len(b) /\ a \in Nat
      /\ \A j \in 1 .. Len(b) : t[a + j] = b[j]
      /\ l.indented => t[1] = Sp
  <2>1. CASE l.indented
    <3>1. PICK e : e = <<Sp>>  OBVIOUS
    <3>2. e \in Words /\ Len(e) = 1 /\ e[1] = Sp /\ 1 \in 1 .. 1  BY <3>1, Marks
    <3>3. t = e \o b  BY <1>3, <1>6, <2>1, <3>1 DEF Text
    <3>4. /\ t \in Words /\ Len(t) = Len(e) + Len(b)
          /\ \A j \in 1 .. Len(e) : t[j] = e[j]
          /\ \A j \in 1 .. Len(b) : t[Len(e) + j] = b[j]
      <4>1. e \in Words /\ b \in Words  BY <1>4, <3>2
      <4>2. QED  BY <3>3, <4>1, JoinedWords
    <3>5. QED  BY <1>5, <2>1, <3>2, <3>4
  <2>2. CASE ~l.indented
    <3>1. t = <<>> \o b  BY <1>3, <1>6, <2>2 DEF Text
    <3>2. b \in Seq(Chars)  BY <1>4, WordTypes
    <3>3. t = b  BY <3>1, <3>2, ConcatEmptySeq
    <3>4. QED  BY <1>4, <1>5, <2>2, <3>3
  <2>3. QED  BY <1>4, <2>1, <2>2
<1>8. t \in Seq(Chars) /\ Len(t) \in Nat /\ \A j \in 1 .. Len(t) : t[j] # LF
  BY <1>7, WordTypes
<1>9. /\ Len(t) + 2 <= MaxLine /\ MaxLine \in Nat /\ Len(Mark(d)) \in Nat
      /\ i = 1 => Len(Mark(d)) + Len(t) + 2 <= MaxLine
  <2>1. Len(Mark(d)) \in Nat  BY BomIs, EmptySeq DEF Mark
  <2>2. i = 1 => Len(Mark(d)) + Len(t) + 2 <= MaxLine  BY <1>2, <1>6 DEF Legible
  <2>3. QED  BY <1>1, <1>2, <1>6, <2>1, <2>2, CharsAssumption DEF LegibleLine
<1>10. PICK u : u = LineOf(d, i)
  OBVIOUS
<1>11. CASE d.ended \/ i < Len(d.lines)
  <2>1. PICK e : e = <<LF>>  OBVIOUS
  <2>2. e \in Seq(Chars) /\ Len(e) = 1 /\ e[1] = LF  BY <2>1, Marks
  <2>3. u = t \o e  BY <1>2, <1>6, <1>10, <1>11, <2>1 DEF LineOf
  <2>4. /\ u \in Seq(Chars) /\ Len(u) = Len(t) + 1
        /\ \A j \in 1 .. Len(t) : u[j] = t[j]
        /\ u[Len(t) + 1] = LF
    <3>1. /\ u \in Seq(Chars) /\ Len(u) = Len(t) + Len(e)
          /\ \A j \in 1 .. Len(t) + Len(e) :
               u[j] = IF j <= Len(t) THEN t[j] ELSE e[j - Len(t)]
      <4>1. t \in Seq(Chars) /\ e \in Seq(Chars)  BY <1>8, <2>2
      <4>2. QED  BY <2>3, <4>1, ConcatProperties
    <3>2. \A j \in 1 .. Len(t) : u[j] = t[j]  BY <1>8, <2>2, <3>1
    <3>3. u[Len(t) + 1] = LF
      <4>1. Len(t) + 1 \in 1 .. Len(t) + Len(e) /\ ~ Len(t) + 1 <= Len(t)
            /\ Len(t) + 1 - Len(t) = 1
        BY <1>8, <2>2
      <4>2. QED  BY <2>2, <3>1, <4>1
    <3>4. QED  BY <2>2, <3>1, <3>2, <3>3
  <2>5. u # <<>>  BY <1>8, <2>4, EmptySeq
  <2>6. \A j \in 1 .. Len(b) : u[a + j] = b[j]
    <3>1. \A j \in 1 .. Len(b) : a + j \in 1 .. Len(t)  BY <1>4, <1>7
    <3>2. QED  BY <1>7, <2>4, <3>1
  <2>7. l.indented => u[1] = Sp
    <3>1. l.indented => 1 \in 1 .. Len(t)  BY <1>4, <1>5, <1>7
    <3>2. QED  BY <1>7, <2>4, <3>1
  <2>8. Len(u) = a + Len(b) + 1 /\ u[Len(u)] = LF  BY <1>7, <2>4
  <2>9. \A j \in 1 .. Len(u) - 1 : u[j] # LF  BY <1>8, <2>4
  <2>10. i = 1 => d.bom \/ ~IsPrefix(Bom, u)
    <3>1. SUFFICES ASSUME IsPrefix(Bom, u) PROVE IsPrefix(Bom, t)
      BY <1>2, <1>6 DEF Legible
    <3>2. 3 <= Len(u) /\ \A j \in 1 .. 3 : u[j] = Bom[j]  BY <2>4, <3>1, PrefixIs
    <3>3. Len(t) + 1 # 3
      <4>1. u[3] # LF  BY <3>2, BomIs
      <4>2. QED  BY <2>4, <4>1
    <3>4. 3 <= Len(t)  BY <1>8, <2>4, <3>2, <3>3
    <3>5. \A j \in 1 .. 3 : t[j] = Bom[j]  BY <1>8, <2>4, <3>2, <3>4
    <3>6. QED  BY <1>8, <3>4, <3>5, PrefixIs
  <2>11. Len(u) + 1 <= MaxLine /\ (i = 1 => Len(Mark(d)) + Len(u) + 1 <= MaxLine)
    BY <1>8, <1>9, <2>4
  <2>12. QED
    BY <1>1, <1>2, <1>3, <1>5, <1>10, <2>4, <2>5, <2>6, <2>7, <2>8, <2>9, <2>10, <2>11
<1>12. CASE ~ (d.ended \/ i < Len(d.lines))
  <2>1. u = t \o <<>>  BY <1>2, <1>6, <1>10, <1>12 DEF LineOf
  <2>2. u = t  BY <1>8, <2>1, ConcatEmptySeq
  <2>3. i = Len(d.lines)  BY <1>1, <1>12
  <2>4. u # <<>>
    <3>1. Last(d.lines) = l  BY <1>2, <2>3 DEF Last
    <3>2. QED  BY <1>6, <1>12, <2>2, <3>1 DEF Legible
  <2>5. i = 1 => d.bom \/ ~IsPrefix(Bom, u)  BY <1>2, <1>6, <2>2 DEF Legible
  <2>6. Len(u) + 1 <= MaxLine /\ (i = 1 => Len(Mark(d)) + Len(u) + 1 <= MaxLine)
    BY <1>8, <1>9, <2>2
  <2>7. \A j \in 1 .. Len(u) - 1 : u[j] # LF  BY <1>8, <2>2
  <2>8. QED
    BY <1>1, <1>2, <1>3, <1>5, <1>7, <1>8, <1>10, <2>2, <2>3, <2>4, <2>5, <2>6, <2>7
<1>13. QED  BY <1>11, <1>12

(***************************************************************************)
(* The recursive functions satisfy their equations: there is a function    *)
(* that does, by induction on its domain.                                  *)
(***************************************************************************)
LEMMA DocTypes ==
  ASSUME NEW d, Legible(d)
  PROVE  /\ d.lines \in Seq(Lines) /\ Len(d.lines) \in Nat /\ Len(d.lines) >= 1
         /\ d.bom \in BOOLEAN /\ d.ended \in BOOLEAN
PROOF
<1>1. d \in [bom : BOOLEAN, ended : BOOLEAN, lines : Seq(Lines)] /\ d.lines # <<>>
  BY DEF Legible
<1>2. d.lines \in Seq(Lines) /\ d.bom \in BOOLEAN /\ d.ended \in BOOLEAN
  BY <1>1
<1>3. QED  BY <1>1, <1>2, LenProperties, EmptySeq

LEMMA LastLinesIs ==
  ASSUME NEW d, Legible(d)
  PROVE  LET f == LastLines(d)
             N == Len(d.lines)
         IN  /\ f[0] = <<>>
             /\ \A n \in 1 .. N : f[n] = LineOf(d, N - n + 1) \o f[n - 1]
             /\ \A n \in 0 .. N : f[n] \in Seq(Chars)
PROOF
<1>1. PICK N : N = Len(d.lines)
  OBVIOUS
<1>2. N \in Nat
  BY <1>1, DocTypes
<1> DEFINE Is(f, n) ==
      f = [i \in 0 .. n |-> IF i = 0 THEN <<>> ELSE LineOf(d, N - i + 1) \o f[i - 1]]
           S == {n \in Nat : \E f : Is(f, n)}
<1>3. 0 \in S
  <2>1. PICK f : f = [i \in 0 .. 0 |-> <<>>]  OBVIOUS
  <2>2. Is(f, 0)  BY <2>1
  <2>3. QED  BY <2>2
<1>4. ASSUME NEW n \in Nat, n \in S PROVE n + 1 \in S
  <2>1. PICK f : Is(f, n)  BY <1>4
  <2>2. PICK g : g = [i \in 0 .. n + 1 |->
                        IF i <= n THEN f[i] ELSE LineOf(d, N - i + 1) \o f[i - 1]]
    OBVIOUS
  <2>3. ASSUME NEW i \in 0 .. n + 1
        PROVE  g[i] = IF i = 0 THEN <<>> ELSE LineOf(d, N - i + 1) \o g[i - 1]
    <3>1. CASE i = 0
      <4>1. i <= n /\ i \in 0 .. n  BY <3>1
      <4>2. g[i] = f[i] /\ f[i] = <<>>  BY <2>1, <2>2, <3>1, <4>1
      <4>3. QED  BY <3>1, <4>2
    <3>2. CASE i # 0 /\ i <= n
      <4>1. i \in 0 .. n /\ i - 1 \in 0 .. n + 1 /\ i - 1 <= n  BY <3>2
      <4>2. g[i] = f[i] /\ g[i - 1] = f[i - 1]  BY <2>2, <3>2, <4>1
      <4>3. f[i] = LineOf(d, N - i + 1) \o f[i - 1]  BY <2>1, <3>2, <4>1
      <4>4. QED  BY <3>2, <4>2, <4>3
    <3>3. CASE i = n + 1
      <4>1. i # 0 /\ ~ i <= n /\ i - 1 \in 0 .. n + 1 /\ i - 1 <= n  BY <3>3
      <4>2. g[i] = LineOf(d, N - i + 1) \o f[i - 1] /\ g[i - 1] = f[i - 1]
        BY <2>2, <4>1
      <4>3. QED  BY <4>1, <4>2
    <3>4. QED  BY <3>1, <3>2, <3>3
  <2>4. Is(g, n + 1)
    <3>1. g = [i \in 0 .. n + 1 |-> g[i]]  BY <2>2
    <3>2. QED  BY <2>3, <3>1
  <2>5. n + 1 \in Nat  OBVIOUS
  <2>6. QED  BY <2>4, <2>5
<1>5. \E f : Is(f, N)
  <2>1. Nat \subseteq S
    <3> HIDE DEF S
    <3>1. QED  BY <1>3, <1>4, Induction
  <2>2. QED  BY <1>2, <2>1
<1>6. PICK f : f = LastLines(d)
  OBVIOUS
<1>7. f = CHOOSE g : Is(g, N)
  BY <1>1, <1>6 DEF LastLines
<1>8. Is(f, N)
  <2> HIDE DEF Is
  <2>1. QED  BY <1>5, <1>7
<1>9. f[0] = <<>>
  BY <1>2, <1>8
<1>10. \A n \in 1 .. N : f[n] = LineOf(d, N - n + 1) \o f[n - 1]
  BY <1>2, <1>8
<1> HIDE DEF Is, S
<1>11. \A n \in 0 .. N : f[n] \in Seq(Chars)
  <2> DEFINE T == {n \in Nat : n <= N => f[n] \in Seq(Chars)}
  <2>1. 0 \in T  BY <1>9, EmptySeq
  <2>2. ASSUME NEW n \in Nat, n \in T PROVE n + 1 \in T
    <3>1. SUFFICES ASSUME n + 1 <= N PROVE f[n + 1] \in Seq(Chars)
      OBVIOUS
    <3>2. f[n] \in Seq(Chars)  BY <1>2, <2>2, <3>1
    <3>3. n + 1 \in 1 .. N /\ (n + 1) - 1 = n /\ N - (n + 1) + 1 \in 1 .. N
      BY <1>2, <3>1
    <3>4. f[n + 1] = LineOf(d, N - (n + 1) + 1) \o f[n]  BY <1>10, <3>3
    <3>5. LineOf(d, N - (n + 1) + 1) \in Seq(Chars)  BY <1>1, <3>3, LineIs
    <3>6. QED  BY <3>2, <3>4, <3>5, ConcatProperties
  <2>3. Nat \subseteq T
    <3> HIDE DEF T
    <3>1. QED  BY <2>1, <2>2, Induction
  <2>4. QED  BY <2>3
<1>12. QED  BY <1>1, <1>6, <1>9, <1>10, <1>11

LEMMA MeaningIs ==
  ASSUME NEW d, Legible(d)
  PROVE  /\ Meaning(d, 0) = Nothing
         /\ \A n \in 1 .. Len(d.lines) :
              Meaning(d, n) = Says(Meaning(d, n - 1), d.lines[n], d.lines[n].indented, n)
PROOF
<1>1. PICK N : N = Len(d.lines)
  OBVIOUS
<1>2. N \in Nat
  BY <1>1, DocTypes
<1> DEFINE Is(f, n) ==
      f = [i \in 0 .. n |-> IF i = 0 THEN Nothing
                            ELSE Says(f[i - 1], d.lines[i], d.lines[i].indented, i)]
           S == {n \in Nat : \E f : Is(f, n)}
<1>3. 0 \in S
  <2>1. PICK f : f = [i \in 0 .. 0 |-> Nothing]  OBVIOUS
  <2>2. Is(f, 0)  BY <2>1
  <2>3. QED  BY <2>2
<1>4. ASSUME NEW n \in Nat, n \in S PROVE n + 1 \in S
  <2>1. PICK f : Is(f, n)  BY <1>4
  <2>2. PICK g : g = [i \in 0 .. n + 1 |->
                        IF i <= n THEN f[i]
                        ELSE Says(f[i - 1], d.lines[i], d.lines[i].indented, i)]
    OBVIOUS
  <2>3. ASSUME NEW i \in 0 .. n + 1
        PROVE  g[i] = IF i = 0 THEN Nothing
                      ELSE Says(g[i - 1], d.lines[i], d.lines[i].indented, i)
    <3>1. CASE i = 0
      <4>1. i <= n /\ i \in 0 .. n  BY <3>1
      <4>2. g[i] = f[i] /\ f[i] = Nothing  BY <2>1, <2>2, <3>1, <4>1
      <4>3. QED  BY <3>1, <4>2
    <3>2. CASE i # 0 /\ i <= n
      <4>1. i \in 0 .. n /\ i - 1 \in 0 .. n + 1 /\ i - 1 <= n  BY <3>2
      <4>2. g[i] = f[i] /\ g[i - 1] = f[i - 1]  BY <2>2, <3>2, <4>1
      <4>3. f[i] = Says(f[i - 1], d.lines[i], d.lines[i].indented, i)
        BY <2>1, <3>2, <4>1
      <4>4. QED  BY <3>2, <4>2, <4>3
    <3>3. CASE i = n + 1
      <4>1. i # 0 /\ ~ i <= n /\ i - 1 \in 0 .. n + 1 /\ i - 1 <= n  BY <3>3
      <4>2. g[i] = Says(f[i - 1], d.lines[i], d.lines[i].indented, i)
            /\ g[i - 1] = f[i - 1]
        BY <2>2, <4>1
      <4>3. QED  BY <4>1, <4>2
    <3>4. QED  BY <3>1, <3>2, <3>3
  <2>4. Is(g, n + 1)
    <3>1. g = [i \in 0 .. n + 1 |-> g[i]]  BY <2>2
    <3>2. QED  BY <2>3, <3>1
  <2>5. n + 1 \in Nat  OBVIOUS
  <2>6. QED  BY <2>4, <2>5
<1>5. \E f : Is(f, N)
  <2>1. Nat \subseteq S
    <3> HIDE DEF S
    <3>1. QED  BY <1>3, <1>4, Induction
  <2>2. QED  BY <1>2, <2>1
<1>6. PICK f : f = Meanings(d)
  OBVIOUS
<1>7. f = CHOOSE g : Is(g, N)
  BY <1>1, <1>6 DEF Meanings
<1>8. Is(f, N)
  <2> HIDE DEF Is
  <2>1. QED  BY <1>5, <1>7
<1>9. f[0] = Nothing
  BY <1>2, <1>8
<1>10. \A n \in 1 .. N : f[n] = Says(f[n - 1], d.lines[n], d.lines[n].indented, n)
  BY <1>2, <1>8
<1>11. QED  BY <1>1, <1>6, <1>9, <1>10 DEF Meaning

(***************************************************************************)
(* Why the reader reads a document as it is meant.  What is left is the    *)
(* text of the lines not yet read; the section, the name in force, the     *)
(* values and the error are what the lines read so far mean.               *)
(***************************************************************************)
LeftIs ==
  rest = (IF lineno = 0 THEN Mark(doc) ELSE <<>>)
           \o LastLines(doc)[Len(doc.lines) - lineno]

MeantIs ==
  LET m == Meaning(doc, lineno) IN
  m = [section |-> section, name |-> prev_name, values |-> values,
       malformed |-> m.malformed]

ErrorIs ==
  LET malformed == Meaning(doc, lineno).malformed IN
  /\ malformed \subseteq 1 .. lineno
  /\ IF malformed = {} THEN error = 0
     ELSE error \in malformed /\ \A i \in malformed : error <= i

ReadInv ==
  /\ doc \in Docs
  /\ lineno \in 0 .. Len(doc.lines)
  /\ LeftIs /\ MeantIs /\ ErrorIs
  /\ done => lineno = Len(doc.lines)

LEMMA DocIsLegible ==
  ASSUME ReadInv
  PROVE  /\ Legible(doc) /\ Len(doc.lines) \in Nat /\ Len(doc.lines) >= 1
         /\ lineno \in Nat /\ lineno <= Len(doc.lines)
         /\ doc.bom \in BOOLEAN
PROOF
<1>1. Legible(doc)
  BY DocsAssumption DEF ReadInv
<1>2. QED  BY <1>1, DocTypes DEF ReadInv

(* A turn of the loop takes the next line.                                 *)
LEMMA TurnReads ==
  ASSUME ReadInv, Turn
  PROVE  LET l == doc.lines[lineno + 1]
         IN  /\ lineno + 1 \in 1 .. Len(doc.lines)
             /\ LegibleLine(l)
             /\ rest' = LastLines(doc)[Len(doc.lines) - (lineno + 1)]
             /\ l.kind = "note" => Blank
             /\ l.kind # "note" => start = Body(l)
             /\ l.kind # "note" /\ lineno # 0 => (Indented <=> l.indented)
PROOF
<1>1. PICK N : N = Len(doc.lines)
  OBVIOUS
<1>2. PICK n : n = lineno
  OBVIOUS
<1>3. Legible(doc) /\ N \in Nat /\ N >= 1 /\ n \in 0 .. N /\ doc.bom \in BOOLEAN
  BY <1>1, <1>2, DocIsLegible
<1>4. PICK f : f = LastLines(doc)
  OBVIOUS
<1>5. /\ f[0] = <<>>
      /\ \A i \in 1 .. N : f[i] = LineOf(doc, N - i + 1) \o f[i - 1]
      /\ \A i \in 0 .. N : f[i] \in Seq(Chars)
  BY <1>1, <1>3, <1>4, LastLinesIs
<1>6. PICK p : p = IF n = 0 THEN Mark(doc) ELSE <<>>
  OBVIOUS
<1>7. rest = p \o f[N - n] /\ rest # <<>>
  BY <1>1, <1>2, <1>4, <1>6 DEF ReadInv, LeftIs, Turn
<1>8. n < N
  <2>1. SUFFICES ASSUME n = N PROVE FALSE  BY <1>3
  <2>2. p = <<>> /\ f[N - n] = <<>>
    <3>1. n # 0 /\ N - n = 0  BY <1>3, <2>1
    <3>2. QED  BY <1>5, <1>6, <3>1
  <2>3. <<>> \o <<>> = <<>>
    <3>1. <<>> \in Seq(Chars)  BY EmptySeq
    <3>2. QED  BY <3>1, ConcatEmptySeq
  <2>4. QED  BY <1>7, <2>2, <2>3
<1>9. PICK i : i = n + 1
  OBVIOUS
<1>10. i \in 1 .. N /\ N - n \in 1 .. N /\ N - (N - n) + 1 = i /\ (N - n) - 1 = N - i
       /\ N - i \in 0 .. N
  BY <1>3, <1>8, <1>9
<1>11. PICK L : L = LineOf(doc, i)
  OBVIOUS
<1>12. PICK v : v = f[N - i]
  OBVIOUS
<1>13. f[N - n] = L \o v /\ v \in Seq(Chars)
  BY <1>5, <1>10, <1>11, <1>12
<1>14. PICK l : l = doc.lines[i]
  OBVIOUS
<1>15. PICK b : b = Body(l)
  OBVIOUS
<1>16. PICK a : a = IF l.indented THEN 1 ELSE 0
  OBVIOUS
<1>17. /\ LegibleLine(l)
       /\ L \in Seq(Chars) /\ L # <<>> /\ Len(L) + 1 <= MaxLine
       /\ i = 1 => Len(Mark(doc)) + Len(L) + 1 <= MaxLine
       /\ \A j \in 1 .. Len(b) : L[a + j] = b[j]
       /\ l.indented => L[1] = Sp
       /\ \/ Len(L) = a + Len(b) + 1 /\ L[Len(L)] = LF
          \/ Len(L) = a + Len(b) /\ i = N
       /\ \A j \in 1 .. Len(L) - 1 : L[j] # LF
       /\ i = 1 => doc.bom \/ ~IsPrefix(Bom, L)
  <2>1. Legible(doc) /\ i \in 1 .. Len(doc.lines)  BY <1>1, <1>3, <1>10
  <2>2. /\ LegibleLine(doc.lines[i])
        /\ LineOf(doc, i) \in Seq(Chars) /\ LineOf(doc, i) # <<>>
        /\ Len(LineOf(doc, i)) + 1 <= MaxLine
        /\ i = 1 => Len(Mark(doc)) + Len(LineOf(doc, i)) + 1 <= MaxLine
        /\ \A j \in 1 .. Len(Body(doc.lines[i])) :
             LineOf(doc, i)[(IF doc.lines[i].indented THEN 1 ELSE 0) + j]
               = Body(doc.lines[i])[j]
        /\ doc.lines[i].indented => LineOf(doc, i)[1] = Sp
        /\ \/ /\ Len(LineOf(doc, i)) = (IF doc.lines[i].indented THEN 1 ELSE 0)
                                           + Len(Body(doc.lines[i])) + 1
              /\ LineOf(doc, i)[Len(LineOf(doc, i))] = LF
           \/ /\ Len(LineOf(doc, i)) = (IF doc.lines[i].indented THEN 1 ELSE 0)
                                           + Len(Body(doc.lines[i]))
              /\ i = Len(doc.lines)
        /\ \A j \in 1 .. Len(LineOf(doc, i)) - 1 : LineOf(doc, i)[j] # LF
        /\ i = 1 => doc.bom \/ ~IsPrefix(Bom, LineOf(doc, i))
    BY <2>1, LineIs
  <2>3. QED  BY <1>1, <1>11, <1>14, <1>15, <1>16, <2>2
<1>18. Len(L) \in Nat /\ Len(L) >= 1
  BY <1>17, EmptySeq, LenProperties
<1>19. L[Len(L)] = LF \/ v = <<>>
  <2>1. i = N => v = <<>>
    <3>1. i = N => N - i = 0  BY <1>3
    <3>2. QED  BY <1>5, <1>12, <3>1
  <2>2. QED  BY <1>17, <2>1
<1>20. PICK u : u = p \o L
  OBVIOUS
<1>21. p \in Seq(Chars) /\ (p = <<>> \/ (n = 0 /\ doc.bom /\ p = Bom))
  <2>1. Mark(doc) \in Seq(Chars)  BY BomIs, EmptySeq DEF Mark
  <2>2. QED  BY <1>6, <2>1, EmptySeq DEF Mark
<1>22. rest = u \o v
  <2>1. p \in Seq(Chars) /\ L \in Seq(Chars) /\ v \in Seq(Chars)
    BY <1>13, <1>17, <1>21
  <2>2. (p \o L) \o v = p \o (L \o v)  BY <2>1, ConcatAssociative
  <2>3. QED  BY <1>7, <1>13, <1>20, <2>2
<1>23. /\ u \in Seq(Chars) /\ Len(u) = Len(p) + Len(L) /\ (Len(p) = 0 \/ Len(p) = 3)
       /\ \A j \in 1 .. Len(L) : u[Len(p) + j] = L[j]
       /\ Len(p) = 3 => p = Bom /\ \A j \in 1 .. 3 : u[j] = Bom[j]
       /\ Len(p) = 0 => u = L /\ p = <<>>
  <2>1. CASE p = <<>>
    <3>1. u = L /\ Len(p) = 0  BY <1>17, <1>20, <2>1, ConcatEmptySeq, EmptySeq
    <3>2. QED  BY <1>17, <1>18, <2>1, <3>1
  <2>2. CASE p = Bom
    <3>1. Len(p) = 3  BY <2>2, BomIs
    <3>2. /\ u \in Seq(Chars) /\ Len(u) = Len(p) + Len(L)
          /\ \A j \in 1 .. Len(p) + Len(L) :
               u[j] = IF j <= Len(p) THEN p[j] ELSE L[j - Len(p)]
      BY <1>17, <1>20, <1>21, ConcatProperties
    <3>3. \A j \in 1 .. 3 : u[j] = Bom[j]  BY <1>18, <2>2, <3>1, <3>2
    <3>4. \A j \in 1 .. Len(L) : u[Len(p) + j] = L[j]  BY <1>18, <3>1, <3>2
    <3>5. QED  BY <2>2, <3>1, <3>2, <3>3, <3>4
  <2>3. QED  BY <1>21, <2>1, <2>2
<1>24. Read = u /\ After(rest, Len(Read)) = v
  <2>1. Len(u) >= 1 /\ Len(u) <= MaxLine - 1 /\ Len(u) \in Nat
    <3>1. Len(L) + 1 <= MaxLine /\ MaxLine \in Nat  BY <1>17, CharsAssumption
    <3>2. Len(u) = Len(p) + Len(L) /\ (Len(p) = 0 \/ Len(p) = 3)  BY <1>23
    <3>3. Len(p) \in Nat
      <4>1. \A k : k = 0 \/ k = 3 => k \in Nat  OBVIOUS
      <4>2. QED  BY <3>2, <4>1, Zenon
    <3>4. Len(u) \in Nat /\ Len(u) >= 1  BY <1>18, <3>2, <3>3
    <3>5. Len(p) + Len(L) + 1 <= MaxLine
      <4>1. CASE p = <<>>
        <5>1. Len(p) = 0  BY <4>1, EmptySeq
        <5>2. QED  BY <1>18, <3>1, <5>1
      <4>2. CASE n = 0 /\ doc.bom /\ p = Bom
        <5>1. i = 1 /\ p = Mark(doc)  BY <1>6, <1>9, <4>2
        <5>2. QED  BY <1>17, <5>1
      <4>3. QED  BY <1>21, <4>1, <4>2
    <3>6. QED  BY <1>18, <3>1, <3>2, <3>3, <3>4, <3>5
  <2>2. u # <<>>  BY <2>1, EmptySeq
  <2>3. ASSUME NEW j \in 1 .. Len(u) - 1 PROVE u[j] # LF
    <3>1. CASE Len(p) = 0
      BY <1>17, <1>23, <3>1
    <3>2. CASE Len(p) = 3 /\ j \in 1 .. 3
      BY <1>23, <3>2, BomIs
    <3>3. CASE Len(p) = 3 /\ j \notin 1 .. 3
      <4>1. j - 3 \in 1 .. Len(L) - 1 /\ Len(p) + (j - 3) = j
        BY <1>18, <1>23, <3>3
      <4>2. j - 3 \in 1 .. Len(L)  BY <1>18, <4>1
      <4>3. u[Len(p) + (j - 3)] = L[j - 3]  BY <1>23, <4>2
      <4>4. QED  BY <1>17, <4>1, <4>3
    <3>4. QED  BY <1>23, <3>1, <3>2, <3>3
  <2>4. u[Len(u)] = L[Len(L)]
    <3>1. Len(L) \in 1 .. Len(L)  BY <1>18
    <3>2. u[Len(p) + Len(L)] = L[Len(L)]  BY <1>23, <3>1
    <3>3. QED  BY <1>23, <3>2
  <2>5. u[Len(u)] = LF \/ v = <<>>  BY <1>19, <2>4
  <2>6. QED  BY <1>13, <1>22, <1>23, <2>1, <2>2, <2>3, <2>5, ReadIs
<1>25. rest' = LastLines(doc)[N - (n + 1)]
  <2>1. rest' = v  BY <1>24 DEF Turn
  <2>2. QED  BY <1>4, <1>9, <1>12, <2>1
<1>26. ~ (n = 0 /\ IsPrefix(Bom, Read)) \/ Len(p) = 3
  <2>1. SUFFICES ASSUME n = 0, Len(p) = 0 PROVE ~IsPrefix(Bom, Read)
    BY <1>23
  <2>2. u = L /\ p = <<>>  BY <1>23, <2>1
  <2>3. ~doc.bom  BY <1>6, <2>1, <2>2, BomIs DEF Mark
  <2>4. QED  BY <1>9, <1>17, <1>24, <2>1, <2>2, <2>3
<1>27. line = L /\ (n # 0 => Read = L)
  <2>1. CASE Len(p) = 0
    <3>1. u = L  BY <1>23, <2>1
    <3>2. ~ (n = 0 /\ IsPrefix(Bom, Read))  BY <1>26, <2>1
    <3>3. QED  BY <1>2, <1>24, <3>1, <3>2 DEF line
  <2>2. CASE Len(p) = 3
    <3>1. n = 0  BY <1>21, <2>2, EmptySeq
    <3>2. 3 <= Len(u) /\ Len(u) = 3 + Len(L)  BY <1>18, <1>23, <2>2
    <3>3. IsPrefix(Bom, u)  BY <1>23, <2>2, <3>2, PrefixIs
    <3>4. line = After(u, 3)  BY <1>2, <1>24, <3>1, <3>3 DEF line
    <3>5. PICK w : w = After(u, 3)  OBVIOUS
    <3>6. /\ w \in Seq(Chars) /\ Len(w) = Len(L)
          /\ \A j \in 1 .. Len(L) : w[j] = u[3 + j]
      <4>1. w = SubSeq(u, 4, Len(u)) /\ 4 \in Nat /\ Len(u) \in Nat /\ 4 <= Len(u)
        BY <1>18, <3>2, <3>5 DEF After
      <4>2. /\ w \in Seq(Chars)
            /\ Len(w) = (IF 4 <= Len(u) THEN Len(u) - 4 + 1 ELSE 0)
            /\ \A k \in 1 .. Len(u) - 4 + 1 : w[k] = u[4 + k - 1]
        BY <1>23, <4>1, PartOf
      <4>3. QED  BY <1>18, <3>2, <4>1, <4>2
    <3>7. \A j \in 1 .. Len(L) : w[j] = L[j]  BY <1>23, <2>2, <3>6
    <3>8. w = L  BY <1>17, <3>6, <3>7, SeqEqual
    <3>9. QED  BY <3>1, <3>4, <3>5, <3>8
  <2>3. QED  BY <1>23, <2>1, <2>2
<1>28. /\ b \in Words /\ b \in Seq(Chars) /\ Len(b) \in Nat /\ l \in Lines
       /\ l.indented \in BOOLEAN /\ a \in Nat
       /\ \A j \in 1 .. Len(b) : b[j] # LF
  <2>1. b \in Words /\ l \in Lines  BY <1>15, <1>17, BodyTypes
  <2>2. l.indented \in BOOLEAN  BY <2>1 DEF Lines
  <2>3. QED  BY <1>16, <2>1, <2>2, WordTypes
<1>29. \A j \in 1 .. Len(L) : j <= a \/ j > a + Len(b) => IsSpace(L[j])
  <2>1. ASSUME NEW j \in 1 .. Len(L), j <= a PROVE IsSpace(L[j])
    <3>1. j = 1 /\ l.indented  BY <1>16, <1>28, <2>1
    <3>2. QED  BY <1>17, <3>1 DEF IsSpace
  <2>2. ASSUME NEW j \in 1 .. Len(L), j > a + Len(b) PROVE IsSpace(L[j])
    <3>1. j = Len(L) /\ L[Len(L)] = LF  BY <1>17, <1>18, <1>28, <2>2
    <3>2. QED  BY <3>1 DEF IsSpace
  <2>3. QED  BY <2>1, <2>2
<1>30. ASSUME l.kind = "note" PROVE Blank
  <2>1. ASSUME NEW j \in 1 .. Len(L), \A k \in 1 .. j - 1 : IsSpace(L[k])
        PROVE  IsSpace(L[j]) \/ L[j] \in {Semi, Hash}
    <3>1. CASE j <= a \/ j > a + Len(b)
      BY <1>29, <3>1
    <3>2. CASE ~ (j <= a \/ j > a + Len(b))
      <4>1. PICK k : k = j - a  OBVIOUS
      <4>2. k \in 1 .. Len(b) /\ a + k = j  BY <1>28, <3>2, <4>1
      <4>3. ASSUME NEW h \in 1 .. k - 1 PROVE b[h] = Sp
        <5>1. h \in 1 .. Len(b) /\ a + h \in 1 .. j - 1  BY <1>28, <4>2
        <5>2. IsSpace(L[a + h]) /\ L[a + h] = b[h] /\ b[h] # LF
          BY <1>17, <1>28, <2>1, <5>1
        <5>3. QED  BY <5>2 DEF IsSpace
      <4>4. b = l.text /\ DOMAIN b = 1 .. Len(b)
        BY <1>15, <1>28, <1>30, WordTypes DEF Body
      <4>5. b[k] \in {Sp, Semi, Hash}
        BY <1>17, <1>30, <4>2, <4>3, <4>4 DEF LegibleLine, LegibleNote
      <4>6. L[j] = b[k]  BY <1>17, <4>2
      <4>7. QED  BY <4>5, <4>6 DEF IsSpace
    <3>3. QED  BY <3>1, <3>2
  <2>2. LET x == lskip(rstrip(L)) IN x = <<>> \/ x[1] \in {Semi, Hash}
    BY <1>17, <2>1, BlankIs
  <2>3. QED  BY <1>27, <2>2 DEF start, First, Blank
<1>31. ASSUME l.kind # "note" PROVE start = b
  <2>1. b # <<>> /\ ~IsSpace(b[1]) /\ ~IsSpace(b[Len(b)])
    BY <1>15, <1>17, <1>31, BodyTypes
  <2>2. a + Len(b) <= Len(L)  BY <1>17, <1>18, <1>28
  <2>3. Within(L, a, b)  BY <1>17, <1>29, <2>1, <2>2 DEF Within
  <2>4. lskip(rstrip(L)) = b  BY <1>17, <1>28, <2>3, Stripped
  <2>5. QED  BY <1>27, <2>4 DEF start
<1>32. ASSUME l.kind # "note", n # 0 PROVE Indented <=> l.indented
  <2>1. b # <<>> /\ ~IsSpace(b[1]) /\ Len(b) >= 1
    BY <1>15, <1>17, <1>28, <1>32, BodyTypes, WordTypes
  <2>2. Read = L /\ line = L  BY <1>27, <1>32
  <2>3. a + 1 \in 1 .. Len(L) /\ a + 1 \in Nat  BY <1>17, <1>18, <1>28, <2>1
  <2>4. ~IsSpace(L[a + 1])
    <3>1. 1 \in 1 .. Len(b)  BY <1>28, <2>1
    <3>2. QED  BY <1>17, <2>1, <3>1
  <2>5. \A j \in 1 .. (a + 1) - 1 : IsSpace(L[j])
    BY <1>18, <1>28, <1>29, <2>3
  <2>6. lskip(L) = SubSeq(L, a + 1, Len(L))
    <3>1. a + 1 \in 1 .. Len(L) + 1  BY <1>18, <2>3
    <3>2. QED  BY <1>17, <2>4, <2>5, <3>1, LskipIs
  <2>7. Len(lskip(L)) = Len(L) - a
    <3>1. Len(SubSeq(L, a + 1, Len(L))) =
            IF a + 1 <= Len(L) THEN Len(L) - (a + 1) + 1 ELSE 0
      BY <1>17, <1>18, <2>3, PartOf
    <3>2. QED  BY <1>18, <1>28, <2>3, <2>6, <3>1
  <2>8. Len(lskip(L)) < Len(L) <=> a # 0  BY <1>18, <1>28, <2>7
  <2>9. QED  BY <1>16, <1>28, <2>2, <2>8 DEF Indented
<1>33. QED
  BY <1>1, <1>2, <1>9, <1>10, <1>14, <1>15, <1>17, <1>25, <1>30, <1>31, <1>32

(* What a value does to the map is what it means.                          *)
LEMMA AddIs ==
  ASSUME NEW n, NEW v, NEW M, Handle(n, v)
  PROVE  Add([section |-> section, name |-> prev_name,
              values |-> values, malformed |-> M], n, v)
           = [section |-> section, name |-> Fits(n),
              values |-> values', malformed |-> M]
PROOF
<1>1. PICK k : k = ToLower(section \o <<Eq>> \o n)
  OBVIOUS
<1>2. PICK w : w = [x \in DOMAIN values \cup {k} |->
               IF x # k THEN values[x]
               ELSE IF x \in DOMAIN values /\ values[x] # <<>>
                 THEN values[x] \o <<LF>> \o v
               ELSE v]
  OBVIOUS
<1>3. values' = [x \in DOMAIN values \cup {k} |->
                   IF x = k THEN Joined(Had(k), v) ELSE values[x]]
  BY <1>1 DEF Handle, MakeKey
<1>4. ASSUME NEW x \in DOMAIN values \cup {k}
      PROVE  (IF x = k THEN Joined(Had(k), v) ELSE values[x])
               = IF x # k THEN values[x]
                 ELSE IF x \in DOMAIN values /\ values[x] # <<>>
                   THEN values[x] \o <<LF>> \o v
                 ELSE v
  BY DEF Joined, Had
<1>5. values' = w
  BY <1>2, <1>3, <1>4
<1>6. Add([section |-> section, name |-> prev_name,
           values |-> values, malformed |-> M], n, v)
        = [section |-> section, name |-> Fits(n), values |-> w, malformed |-> M]
  <2>1. PICK m : m = [section |-> section, name |-> prev_name,
                      values |-> values, malformed |-> M]
    OBVIOUS
  <2>2. m.section = section /\ m.values = values  BY <2>1
  <2>3. Add(m, n, v) = [m EXCEPT !.name = Fits(n), !.values = w]
    BY <1>1, <1>2, <2>2 DEF Add
  <2>4. QED  BY <2>1, <2>3
<1>7. QED  BY <1>5, <1>6

(* The first character of a line tells a comment from the rest, and the    *)
(* reader finds a line to continue a value when it does.                   *)
LEMMA KindIs ==
  ASSUME TypeOK, ReadInv, Turn
  PROVE  LET l == doc.lines[lineno + 1]
             m == Meaning(doc, lineno)
         IN  /\ Blank <=> l.kind = "note"
             /\ Continues <=> l.kind # "note" /\ l.indented /\ m.name # <<>>
             /\ l.kind # "note" => First = Body(l)[1] /\ start = Body(l)
             /\ l.kind = "heading" => Body(l)[1] = Open
             /\ l.kind = "pair" => Body(l)[1] # Open
             /\ l \in Lines /\ LegibleLine(l)
PROOF
<1>1. PICK l : l = doc.lines[lineno + 1]
  OBVIOUS
<1>2. PICK b : b = Body(l)
  OBVIOUS
<1>3. /\ LegibleLine(l)
      /\ l.kind = "note" => Blank
      /\ l.kind # "note" => start = b
      /\ l.kind # "note" /\ lineno # 0 => (Indented <=> l.indented)
  BY <1>1, <1>2, TurnReads
<1>4. l \in Lines /\ l.kind \in {"heading", "pair", "note", "junk"}
  BY <1>3 DEF LegibleLine, Lines
<1>5. b \in Words /\ (l.kind # "note" => b # <<>>)
  BY <1>2, <1>3, BodyTypes
<1>6. /\ l.kind = "heading" => b[1] = Open
      /\ l.kind = "pair" => b[1] \notin {Semi, Hash, Open}
      /\ l.kind = "junk" => b[1] \notin {Semi, Hash}
  <2>1. l.kind = "heading" => b[1] = Open
    BY <1>2, <1>3, <1>4, HeadingReads DEF LegibleLine
  <2>2. l.kind = "pair" => b[1] \notin {Semi, Hash, Open}
    BY <1>2, <1>3, <1>4, PairReads DEF LegibleLine
  <2>3. l.kind = "junk" => b[1] \notin {Semi, Hash}
    BY <1>2, <1>3, <1>4, JunkReads DEF LegibleLine
  <2>4. QED  BY <2>1, <2>2, <2>3
<1>7. l.kind # "note" => First = b[1] /\ ~Blank
  <2>1. SUFFICES ASSUME l.kind # "note" PROVE First = b[1] /\ ~Blank
    OBVIOUS
  <2>2. First = b[1]  BY <1>3, <1>5, <2>1 DEF First
  <2>3. b[1] \in Chars
    <3>1. b \in Seq(Chars) /\ 1 \in 1 .. Len(b)  BY <1>5, <2>1, WordTypes
    <3>2. QED  BY <3>1, ElementOfSeq
  <2>4. b[1] # Nul  BY <2>3, CharsAssumption
  <2>5. b[1] \notin {Semi, Hash}  BY <1>4, <1>6, <2>1, CharsAssumption
  <2>6. QED  BY <2>2, <2>4, <2>5 DEF Blank
<1>8. Meaning(doc, lineno).name = prev_name /\ (lineno = 0 => prev_name = <<>>)
  <2>1. Meaning(doc, lineno).name = prev_name  BY DEF ReadInv, MeantIs
  <2>2. Meaning(doc, 0).name = <<>>  BY DocIsLegible, MeaningIs DEF Nothing
  <2>3. QED  BY <2>1, <2>2
<1>9. Continues <=> l.kind # "note" /\ l.indented /\ Meaning(doc, lineno).name # <<>>
  BY <1>3, <1>7, <1>8 DEF Continues
<1>10. QED  BY <1>1, <1>2, <1>3, <1>4, <1>6, <1>7, <1>9

(* A turn does what its line says.                                         *)
LEMMA StepMeans ==
  ASSUME TypeOK, ReadInv, Skip \/ Continuation \/ Section \/ Pair
  PROVE  LET i == lineno + 1
             l == doc.lines[i]
             m == Meaning(doc, lineno)
             s == Says(m, l, l.indented, i)
         IN  \/ /\ s = [section |-> section', name |-> prev_name',
                        values |-> values', malformed |-> m.malformed]
                /\ error' = error
             \/ /\ s = [section |-> section', name |-> prev_name',
                        values |-> values', malformed |-> m.malformed \cup {i}]
                /\ error' = Noted
PROOF
<1>1. PICK i : i = lineno + 1
  OBVIOUS
<1>2. PICK l : l = doc.lines[i]
  OBVIOUS
<1>3. PICK m : m = Meaning(doc, lineno)
  OBVIOUS
<1>4. PICK b : b = Body(l)
  OBVIOUS
<1>5. PICK M : M = m.malformed
  OBVIOUS
<1>6. m = [section |-> section, name |-> prev_name, values |-> values, malformed |-> M]
  BY <1>3, <1>5 DEF ReadInv, MeantIs
<1>7. Turn
  BY DEF Skip, Continuation, Section, Pair
<1>8. /\ Blank <=> l.kind = "note"
      /\ Continues <=> l.kind # "note" /\ l.indented /\ m.name # <<>>
      /\ l.kind # "note" => First = b[1] /\ start = b
      /\ l.kind = "heading" => b[1] = Open
      /\ l.kind = "pair" => b[1] # Open
      /\ l \in Lines /\ LegibleLine(l)
  BY <1>1, <1>2, <1>3, <1>4, <1>7, KindIs
<1>9. l.kind \in {"heading", "pair", "note", "junk"}
  BY <1>8 DEF Lines
<1> DEFINE To(X) == [section |-> section', name |-> prev_name',
                     values |-> values', malformed |-> X]
<1>10. PICK s : s = Says(m, l, l.indented, i)
  OBVIOUS
<1>11. CASE Skip
  <2>1. l.kind = "note"  BY <1>8, <1>11 DEF Skip
  <2>2. s = m  BY <1>10, <2>1 DEF Says
  <2>3. s = To(M) /\ error' = error  BY <1>6, <1>11, <2>2 DEF Skip
  <2>4. QED  BY <1>1, <1>2, <1>3, <1>5, <1>10, <2>3
<1>12. CASE Continuation
  <2>1. /\ Continues /\ Handle(prev_name, start)
        /\ section' = section /\ prev_name' = prev_name /\ error' = error
    BY <1>12 DEF Continuation
  <2>2. l.kind # "note" /\ l.indented /\ m.name # <<>> /\ start = b
    BY <1>8, <2>1
  <2>3. s = Add(m, m.name, b)  BY <1>4, <1>10, <2>2 DEF Says
  <2>4. m.name = prev_name  BY <1>6
  <2>5. Add(m, prev_name, b) = [section |-> section, name |-> Fits(prev_name),
                                values |-> values', malformed |-> M]
    <3>1. Handle(prev_name, b)  BY <2>1, <2>2
    <3>2. QED  BY <1>6, <3>1, AddIs
  <2>6. Fits(prev_name) = prev_name  BY DEF TypeOK, Fits
  <2>7. s = To(M)  BY <2>1, <2>3, <2>4, <2>5, <2>6
  <2>8. QED  BY <1>1, <1>2, <1>3, <1>5, <1>10, <2>1, <2>7
<1>13. CASE Section
  <2>1. Heading  BY <1>13 DEF Section
  <2>2. l.kind # "note" /\ ~Continues /\ b[1] = Open /\ start = b
    BY <1>8, <2>1 DEF Heading
  <2>3. PICK t : t = Tail(b)  OBVIOUS
  <2>4. PICK end : end = find_chars_or_comment(t, {Close})  OBVIOUS
  <2>5. /\ IF end <= Len(t) /\ t[end] = Close
             THEN /\ section' = strncpy0(Up(t, end)) /\ prev_name' = <<>>
                  /\ error' = error
             ELSE error' = Noted /\ section' = section /\ prev_name' = prev_name
        /\ values' = values
    BY <1>13, <2>2, <2>3, <2>4 DEF Section, Forget
  <2>6. CASE l.kind = "heading"
    <3>1. LegibleHeading(l)  BY <1>8, <2>6 DEF LegibleLine
    <3>2. end <= Len(t) /\ t[end] = Close /\ strncpy0(Up(t, end)) = Fits(l.section)
      BY <1>4, <1>8, <2>3, <2>4, <2>6, <3>1, HeadingReads
    <3>3. s = [m EXCEPT !.section = Fits(l.section), !.name = <<>>]
      <4>1. ~ (l.indented /\ m.name # <<>>)  BY <1>8, <2>2
      <4>2. QED  BY <1>10, <2>2, <2>6, <4>1 DEF Says
    <3>4. s = To(M) /\ error' = error  BY <1>6, <2>5, <3>2, <3>3
    <3>5. QED  BY <1>1, <1>2, <1>3, <1>5, <1>10, <3>4
  <2>7. CASE l.kind = "junk"
    <3>1. LegibleJunk(l)  BY <1>8, <2>7 DEF LegibleLine
    <3>2. ~ (end <= Len(t) /\ t[end] = Close)
      BY <1>4, <1>8, <2>2, <2>3, <2>4, <2>7, <3>1, JunkReads
    <3>3. s = [m EXCEPT !.malformed = @ \cup {i}]
      <4>1. ~ (l.indented /\ m.name # <<>>)  BY <1>8, <2>2
      <4>2. QED  BY <1>10, <2>2, <2>7, <4>1 DEF Says
    <3>4. s = To(M \cup {i}) /\ error' = Noted  BY <1>6, <2>5, <3>2, <3>3
    <3>5. QED  BY <1>1, <1>2, <1>3, <1>5, <1>10, <3>4
  <2>8. QED  BY <1>8, <1>9, <2>2, <2>6, <2>7
<1>14. CASE Pair
  <2>1. ~Blank /\ ~Continues /\ ~Heading  BY <1>14 DEF Pair
  <2>2. l.kind # "note" /\ b[1] # Open /\ start = b
    BY <1>8, <2>1 DEF Heading
  <2>3. PICK end : end = find_chars_or_comment(b, {Eq})  OBVIOUS
  <2>4. PICK name : name = rstrip(Up(b, end))  OBVIOUS
  <2>5. PICK t : t = After(b, end)  OBVIOUS
  <2>6. PICK value : value = rstrip(lskip(Up(t, find_chars_or_comment(t, {}))))
    OBVIOUS
  <2>7. /\ IF end <= Len(b) /\ b[end] = Eq
             THEN /\ prev_name' = strncpy0(name) /\ Handle(name, value)
                  /\ error' = error
             ELSE error' = Noted /\ prev_name' = prev_name /\ values' = values
        /\ section' = section
    BY <1>14, <2>2, <2>3, <2>4, <2>5, <2>6 DEF Pair
  <2>8. CASE l.kind = "pair"
    <3>1. LegiblePair(l)  BY <1>8, <2>8 DEF LegibleLine
    <3>2. end <= Len(b) /\ b[end] = Eq /\ name = l.name /\ value = l.value
      BY <1>4, <1>8, <2>3, <2>4, <2>5, <2>6, <2>8, <3>1, PairReads
    <3>3. s = Add(m, l.name, l.value)
      <4>1. ~ (l.indented /\ m.name # <<>>)  BY <1>8, <2>1, <2>2
      <4>2. QED  BY <1>10, <2>2, <2>8, <4>1 DEF Says
    <3>4. prev_name' = Fits(l.name) /\ error' = error /\ Handle(l.name, l.value)
      <4>1. l.name \in Seq(Chars)  BY <1>8, WordTypes DEF Lines
      <4>2. QED  BY <2>7, <3>2, <4>1, CopyIs
    <3>5. s = [section |-> section, name |-> Fits(l.name),
               values |-> values', malformed |-> M]
      BY <1>6, <3>3, <3>4, AddIs
    <3>6. s = To(M) /\ error' = error  BY <2>7, <3>4, <3>5
    <3>7. QED  BY <1>1, <1>2, <1>3, <1>5, <1>10, <3>6
  <2>9. CASE l.kind = "junk"
    <3>1. LegibleJunk(l)  BY <1>8, <2>9 DEF LegibleLine
    <3>2. ~ (end <= Len(b) /\ b[end] = Eq)
      BY <1>4, <1>8, <2>2, <2>3, <2>9, <3>1, JunkReads
    <3>3. s = [m EXCEPT !.malformed = @ \cup {i}]
      <4>1. ~ (l.indented /\ m.name # <<>>)  BY <1>8, <2>1, <2>2
      <4>2. QED  BY <1>10, <2>2, <2>9, <4>1 DEF Says
    <3>4. s = To(M \cup {i}) /\ error' = Noted  BY <1>6, <2>7, <3>2, <3>3
    <3>5. QED  BY <1>1, <1>2, <1>3, <1>5, <1>10, <3>4
  <2>10. QED  BY <1>8, <1>9, <2>2, <2>8, <2>9
<1>15. QED  BY <1>11, <1>12, <1>13, <1>14

(* The first malformed line stays the first.                               *)
LEMMA ErrorMoves ==
  ASSUME NEW n \in Nat, NEW M, M \subseteq 1 .. n, NEW e, NEW f,
         IF M = {} THEN e = 0 ELSE e \in M /\ \A i \in M : e <= i,
         f = IF e = 0 THEN n + 1 ELSE e
  PROVE  LET L == M \cup {n + 1}
         IN  /\ M \subseteq 1 .. n + 1 /\ L \subseteq 1 .. n + 1
             /\ L # {} /\ f \in L /\ \A i \in L : f <= i
PROOF
<1>1. \A i \in M : i \in Nat /\ i >= 1 /\ i <= n
  <2>1. \A i \in 1 .. n : i \in Nat /\ i >= 1 /\ i <= n  OBVIOUS
  <2>2. QED  BY <2>1
<1>2. M \subseteq 1 .. n + 1 /\ n + 1 \in 1 .. n + 1
  BY <1>1
<1>3. CASE M = {}
  BY <1>2, <1>3
<1>4. CASE M # {}
  <2>1. e \in M /\ \A i \in M : e <= i  BY <1>4
  <2>2. e # 0 /\ e <= n + 1 /\ f = e  BY <1>1, <2>1
  <2>3. QED  BY <1>2, <2>1, <2>2
<1>5. QED  BY <1>3, <1>4

LEMMA TurnKeeps ==
  ASSUME TypeOK, ReadInv, Skip \/ Continuation \/ Section \/ Pair, doc' = doc
  PROVE  ReadInv'
PROOF
<1>1. PICK n : n = lineno
  OBVIOUS
<1>2. PICK i : i = n + 1
  OBVIOUS
<1>3. PICK M : M = Meaning(doc, n).malformed
  OBVIOUS
<1>4. Turn /\ n \in Nat /\ lineno' = i /\ done' = done /\ ~done
  <2>1. Turn  BY DEF Skip, Continuation, Section, Pair
  <2>2. QED  BY <1>1, <1>2, <2>1, DocIsLegible DEF Turn
<1>5. /\ Legible(doc) /\ i \in 1 .. Len(doc.lines) /\ i - 1 = n /\ i # 0 /\ i \in Nat
      /\ rest' = LastLines(doc)[Len(doc.lines) - i]
  BY <1>1, <1>2, <1>4, TurnReads, DocIsLegible
<1>6. doc \in Docs /\ i \in 0 .. Len(doc.lines)
  <2>1. Len(doc.lines) \in Nat  BY DocIsLegible
  <2>2. QED  BY <1>5, <2>1 DEF ReadInv
<1>7. LeftIs'
  <2>1. PICK u : u = LastLines(doc)[Len(doc.lines) - i]  OBVIOUS
  <2>2. u \in Seq(Chars)
    <3>1. Len(doc.lines) - i \in 0 .. Len(doc.lines)  BY <1>5, DocIsLegible
    <3>2. QED  BY <1>5, <2>1, <3>1, LastLinesIs
  <2>3. <<>> \o u = u  BY <2>2, ConcatEmptySeq
  <2>4. rest' = <<>> \o u  BY <1>5, <2>1, <2>3
  <2>5. QED  BY <1>4, <1>5, <2>1, <2>4 DEF LeftIs
<1>8. PICK m : m = Meaning(doc, i)
  OBVIOUS
<1>9. \/ /\ m = [section |-> section', name |-> prev_name',
                 values |-> values', malformed |-> M]
         /\ error' = error
      \/ /\ m = [section |-> section', name |-> prev_name',
                 values |-> values', malformed |-> M \cup {i}]
         /\ error' = Noted
  <2>1. m = Says(Meaning(doc, n), doc.lines[i], doc.lines[i].indented, i)
    BY <1>5, <1>8, MeaningIs
  <2>2. QED  BY <1>1, <1>2, <1>3, <2>1, StepMeans
<1>10. MeantIs'
  <2>1. m = [section |-> section', name |-> prev_name',
             values |-> values', malformed |-> m.malformed]
    BY <1>9
  <2>2. QED  BY <1>4, <1>8, <2>1 DEF MeantIs
<1>11. /\ M \subseteq 1 .. n
       /\ IF M = {} THEN error = 0 ELSE error \in M /\ \A j \in M : error <= j
  BY <1>1, <1>3 DEF ReadInv, ErrorIs
<1>12. Noted = IF error = 0 THEN n + 1 ELSE error
  BY <1>2, <1>4 DEF Noted
<1>13. PICK L : L = M \cup {n + 1}
  OBVIOUS
<1>14. /\ M \subseteq 1 .. i /\ L \subseteq 1 .. i
       /\ L # {} /\ Noted \in L /\ \A j \in L : Noted <= j
  BY <1>2, <1>4, <1>11, <1>12, <1>13, ErrorMoves
<1>15. \/ m.malformed = M /\ error' = error
       \/ m.malformed = L /\ error' = Noted
  BY <1>2, <1>9, <1>13
<1>16. /\ m.malformed \subseteq 1 .. i
       /\ IF m.malformed = {} THEN error' = 0
          ELSE error' \in m.malformed /\ \A j \in m.malformed : error' <= j
  <2>1. CASE m.malformed = M /\ error' = error
    BY <1>11, <1>14, <2>1
  <2>2. CASE m.malformed = L /\ error' = Noted
    BY <1>14, <2>2
  <2>3. QED  BY <1>15, <2>1, <2>2
<1>17. ErrorIs'
  BY <1>4, <1>8, <1>16 DEF ErrorIs
<1>18. QED
  BY <1>4, <1>6, <1>7, <1>10, <1>17 DEF ReadInv

LEMMA ReturnKeeps ==
  ASSUME ReadInv, Return, doc' = doc
  PROVE  ReadInv'
PROOF
<1>1. rest = <<>> /\ UNCHANGED <<rest, lineno, section, prev_name, error, values>>
  BY DEF Return
<1>2. lineno = Len(doc.lines)
  <2>1. SUFFICES ASSUME lineno # Len(doc.lines) PROVE FALSE
    OBVIOUS
  <2>2. PICK N : N = Len(doc.lines)  OBVIOUS
  <2>3. PICK n : n = N - lineno  OBVIOUS
  <2>4. /\ Legible(doc) /\ n \in 1 .. N /\ n - 1 \in 0 .. N /\ n \in 0 .. N
        /\ N - n + 1 \in 1 .. N
    <3>1. lineno \in Nat /\ N \in Nat /\ lineno <= N /\ Legible(doc)
      BY <2>2, DocIsLegible
    <3>2. lineno < N  BY <2>1, <2>2, <3>1
    <3>3. QED  BY <2>3, <3>1, <3>2
  <2>5. PICK L : L = LineOf(doc, N - n + 1)  OBVIOUS
  <2>6. PICK v : v = LastLines(doc)[n - 1]  OBVIOUS
  <2>7. LastLines(doc)[n] = L \o v /\ v \in Seq(Chars)
    BY <2>2, <2>4, <2>5, <2>6, LastLinesIs
  <2>8. L \in Seq(Chars) /\ L # <<>>
    BY <2>2, <2>4, <2>5, LineIs
  <2>9. PICK p : p = IF lineno = 0 THEN Mark(doc) ELSE <<>>  OBVIOUS
  <2>10. p \in Seq(Chars)
    <3>1. Mark(doc) \in Seq(Chars)  BY BomIs, EmptySeq DEF Mark
    <3>2. QED  BY <2>9, <3>1, EmptySeq
  <2>11. PICK u : u = L \o v  OBVIOUS
  <2>12. u \in Seq(Chars) /\ Len(u) = Len(L) + Len(v)
    BY <2>7, <2>8, <2>11, ConcatProperties
  <2>13. Len(p \o u) = Len(p) + Len(u)
    BY <2>10, <2>12, ConcatProperties
  <2>14. rest = p \o u
    BY <2>2, <2>3, <2>7, <2>9, <2>11 DEF ReadInv, LeftIs
  <2>15. /\ Len(p) \in Nat /\ Len(L) \in Nat /\ Len(v) \in Nat /\ Len(L) # 0
         /\ Len(rest) = 0
    BY <1>1, <2>7, <2>8, <2>10, EmptySeq, LenProperties
  <2>16. QED  BY <2>12, <2>13, <2>14, <2>15
<1>3. LeftIs' /\ MeantIs' /\ ErrorIs'
  BY <1>1 DEF ReadInv, LeftIs, MeantIs, ErrorIs
<1>4. QED  BY <1>1, <1>2, <1>3 DEF ReadInv

LEMMA ReadInitially ==
  ASSUME DocInit
  PROVE  ReadInv
PROOF
<1>1. doc \in Docs /\ rest = Render(doc) /\ lineno = 0 /\ section = <<>>
      /\ prev_name = <<>> /\ error = 0 /\ values = <<>> /\ done = FALSE
  BY DEF DocInit, Init
<1>2. Legible(doc)
  BY <1>1, DocsAssumption
<1>3. Len(doc.lines) \in Nat /\ Len(doc.lines) >= 1
  BY <1>2, DocTypes
<1>4. lineno \in 0 .. Len(doc.lines) /\ Len(doc.lines) - lineno = Len(doc.lines)
  BY <1>1, <1>3
<1>5. LeftIs
  BY <1>1, <1>4 DEF LeftIs, Render
<1>6. Meaning(doc, lineno) = Nothing
  BY <1>1, <1>2, MeaningIs
<1>7. MeantIs
  BY <1>1, <1>6 DEF MeantIs, Nothing
<1>8. ErrorIs
  BY <1>1, <1>6 DEF ErrorIs, Nothing
<1>9. QED  BY <1>1, <1>4, <1>5, <1>7, <1>8 DEF ReadInv

LEMMA ReadAlways == DocSpec => []ReadInv
PROOF
<1>1. DocSpec => []TypeOK
  <2>1. DocInit => Init  BY DEF DocInit
  <2>2. [DocNext]_<<vars, doc>> => [Next]_vars  BY DEF DocNext
  <2>3. DocSpec => Spec  BY <2>1, <2>2, PTL DEF DocSpec, Spec
  <2>4. QED  BY <2>3, TypeCorrect, PTL
<1>2. TypeOK /\ ReadInv /\ [DocNext]_<<vars, doc>> => ReadInv'
  <2>1. SUFFICES ASSUME TypeOK, ReadInv, [DocNext]_<<vars, doc>> PROVE ReadInv'
    OBVIOUS
  <2>2. CASE UNCHANGED <<vars, doc>>
    BY <2>1, <2>2 DEF vars, ReadInv, LeftIs, MeantIs, ErrorIs
  <2>3. CASE DocNext
    <3>1. doc' = doc /\ Next  BY <2>3 DEF DocNext
    <3>2. CASE Skip \/ Continuation \/ Section \/ Pair
      BY <2>1, <3>1, <3>2, TurnKeeps
    <3>3. CASE Return
      BY <2>1, <3>1, <3>3, ReturnKeeps
    <3>4. QED  BY <3>1, <3>2, <3>3 DEF Next
  <2>4. QED  BY <2>1, <2>2, <2>3
<1>3. DocInit => ReadInv
  BY ReadInitially
<1>4. QED  BY <1>1, <1>2, <1>3, PTL DEF DocSpec

(* After every line the map holds what the lines of the document mean so   *)
(* far, and when the reader returns it has read them all, for every        *)
(* legible document and every size of the buffers (ini.c:84-201).          *)
THEOREM ReadsEveryLine == DocSpec => []ReadsLines
PROOF
<1>1. ReadInv => ReadsLines
  <2>1. SUFFICES ASSUME ReadInv PROVE ReadsLines
    OBVIOUS
  <2>2. Meaning(doc, lineno).values = values  BY <2>1 DEF ReadInv, MeantIs
  <2>3. QED  BY <2>1, <2>2 DEF ReadsLines, ReadInv
<1>2. QED  BY <1>1, ReadAlways, PTL

(* The error is the number of the first malformed line, however many       *)
(* follow it (ini.h:44-48).                                                *)
THEOREM ReportsFirstError == DocSpec => []FirstError
PROOF
<1>1. ReadInv => FirstError
  <2>1. SUFFICES ASSUME ReadInv PROVE FirstError
    OBVIOUS
  <2>2. PICK M : M = Meaning(doc, lineno).malformed  OBVIOUS
  <2>3. /\ M \subseteq 1 .. lineno
        /\ IF M = {} THEN error = 0 ELSE error \in M /\ \A i \in M : error <= i
    BY <2>1, <2>2 DEF ReadInv, ErrorIs
  <2>4. M \subseteq Nat
    <3>1. lineno \in Nat  BY <2>1, DocIsLegible
    <3>2. \A i \in 1 .. lineno : i \in Nat  BY <3>1
    <3>3. QED  BY <2>3, <3>2
  <2>5. M # {} => Min(M) = error  BY <2>3, <2>4, MinOf
  <2>6. QED  BY <2>2, <2>3, <2>5 DEF FirstError
<1>2. QED  BY <1>1, ReadAlways, PTL

=============================================================================
