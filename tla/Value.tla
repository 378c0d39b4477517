------------------------------- MODULE Value -------------------------------
(***************************************************************************)
(* What a value object promises: it holds null, a scalar or a string; the  *)
(* copy of a value is independent of the original; an operation changes    *)
(* the one object it is called on.  An object that has lost its value in   *)
(* an allocation that failed is not safe any more: the next operation on   *)
(* it gives it a value or ends it, but may cost another object its value.  *)
(* There is no memory here: that the tagged union of ValueRslt keeps this  *)
(* promise is what is checked.                                             *)
(***************************************************************************)
CONSTANTS Objects,   \* the variables of type ValueRslt
          Strings,   \* the strings they are given
          Scalars    \* the other values they are given: bool, char, i64, ...

Null == "null"
Dead == "dead"       \* not constructed, or destroyed
Lost == "lost"       \* no value, since an allocation has failed

Values == {Null} \cup Scalars \cup Strings

VARIABLE val         \* val[o]: what object o holds

Init == val = [o \in Objects |-> Dead]

Construct(o, v) == val[o] = Dead /\ val' = [val EXCEPT ![o] = v]

(* The operations on an object that is there.                              *)
Write(o, v) ==
  \/ val[o] # Dead /\ val' = [val EXCEPT ![o] = v]
  \/ val[o] = Lost /\ \E q \in Objects \ {o} :
       val[q] # Dead /\ val' = [val EXCEPT ![o] = v, ![q] = Lost]

CopyConstruct(o, p) == val[p] \in Values /\ Construct(o, val[p])

Assign(o, p) == val[p] \in Values /\ Write(o, val[p])

Destroy(o) == Write(o, Dead)

(* An allocation fails: the object written to may lose its value.          *)
Fail(o) == Write(o, Lost)

Next ==
  \E o \in Objects :
    \/ \E v \in Values : Construct(o, v) \/ Write(o, v)
    \/ \E p \in Objects : CopyConstruct(o, p) \/ Assign(o, p)
    \/ Destroy(o)
    \/ Fail(o)

Spec == Init /\ [][Next]_val
=============================================================================
