---------------------------- MODULE MCValueRslt ----------------------------
(* Instance of ValueRslt for TLC: strings on both sides of the boundary    *)
(* between the union and the heap, and a longer one.                       *)
EXTENDS ValueRslt

CONSTANTS s19, s20, s21, s40

SomeStrings == {s19, s20, s21, s40}

Lengths == [s \in SomeStrings \cup {Junk} |->
              CASE s = s19 -> 19 [] s = s20 -> 20 [] s = s21 -> 21
                [] s = s40 -> 40
                [] s = Junk -> 0]

=============================================================================
