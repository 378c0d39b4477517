----------------------------- MODULE ValueRslt -----------------------------
(***************************************************************************)
(* value::ValueRslt (src/src/Util/ValueRslt.cpp): a tagged union.  Scalars *)
(* and short strings are kept in the union, a long string in a block of    *)
(* the heap that the object owns: an int, its length, and the characters.  *)
(*                                                                         *)
(* The heap is modelled: blocks that are live or free, and operator new,   *)
(* which may fail.  deleteMemory() leaves the tag and the pointer as they  *)
(* are, so when the allocation after it throws the object is left with a   *)
(* pointer it does not own: it is "damaged".  The next setter or the       *)
(* destructor deletes that pointer.  By then the block may be another's,   *)
(* who loses it, or it may be free, which is undefined.  Nothing is said   *)
(* of what the program does after that.                                    *)
(***************************************************************************)
EXTENDS Integers, FiniteSets

CONSTANTS Objects,   \* the variables of type ValueRslt
          Strings,   \* the strings they are given
          Length,    \* their lengths, and the one freed memory seems to hold
          Scalars,   \* values of the types eBool, eChar, eInt64, eU64, eDouble
          Blocks,    \* the addresses operator new can return
          NullPtr,   \* the null pointer
          Junk,      \* the content of memory that has been freed
          MaxFails   \* bound: allocations that fail in a behaviour

ASSUME StringsAssumption ==
  /\ Length \in [Strings \cup {Junk} -> Nat]
  /\ Junk \notin Strings

ASSUME UnionAssumption ==
  /\ NullPtr \notin Blocks
  /\ (Blocks \cup {NullPtr}) \cap (Strings \cup Scalars) = {}
  /\ Strings \cap Scalars = {}

ASSUME FailsAssumption == MaxFails \in Nat

(* The literals that stand for the tag, and for objects without a value,   *)
(* are no data.                                                            *)
ASSUME TagsAssumption ==
  {"null", "dead", "lost"} \cap (Strings \cup Scalars) = {}

eDefaultSize == 24
sizeofInt    == 4

VARIABLES
  mType,    \* mType[o]: the tag; "dead" when o is not constructed
  mValue,   \* mValue[o]: the bits of the union: scalar, string or pointer
  heap,     \* heap[b]: is block b live, how long a string fits, the string
  damaged,  \* the objects that hold a pointer they do not own
  fails,    \* the counter MaxFails speaks of
  undefined \* memory has been used in a way that is undefined

vars == <<mType, mValue, heap, damaged, fails, undefined>>

Tags == {"null", "scalar", "short", "long", "dead"}
Free == [live |-> FALSE, cap |-> 0, str |-> Junk]

Init ==
  /\ mType = [o \in Objects |-> "dead"]
  /\ mValue = [o \in Objects |-> NullPtr]
  /\ heap = [b \in Blocks |-> Free]
  /\ damaged = {}
  /\ fails = 0
  /\ undefined = FALSE

(***************************************************************************)
(* What can be asked of an object.                                         *)
(***************************************************************************)
Usable(o) == mType[o] # "dead" /\ o \notin damaged

(* A long string without a block: assignment to a null object has failed.  *)
Hollow(o) == mType[o] = "long" /\ mValue[o] = NullPtr

Readable(o) == Usable(o) /\ ~Hollow(o)

(* getStr() and the other getters: what a readable object holds.           *)
Content(o) == IF mType[o] = "null" THEN "null"
              ELSE IF mType[o] = "long" THEN heap[mValue[o]].str
              ELSE mValue[o]

(* The string and its length do not fit in the union.                      *)
MutantIsLong(s) == Length[s] >= eDefaultSize
IsLong(s) == Length[s] + sizeofInt >= eDefaultSize

(* The objects that own a block.                                           *)
Owners == {o \in Objects : Usable(o) /\ mType[o] = "long" /\ ~Hollow(o)}

(***************************************************************************)
(* Memory.                                                                 *)
(***************************************************************************)
(* deleteMemory() of o is delete of null, of its block, or of a block that *)
(* has been given to another object since it was o's.                      *)
Deletable(o) ==
  /\ mType[o] # "dead"
  /\ o \in damaged => mValue[o] \in Blocks /\ heap[mValue[o]].live

(* The objects that lose their block when o deletes one it does not own.   *)
Victims(o) == {q \in Owners : o \in damaged /\ mValue[q] = mValue[o]}

(* deleteMemory(): the heap after it; delete of a null pointer is nothing. *)
MutantDeleted(o) == heap
Deleted(o) ==
  IF mType[o] = "long" /\ mValue[o] # NullPtr
    THEN [heap EXCEPT ![mValue[o]] = Free] ELSE heap

Update(o, type, bits) ==
  /\ mType' = [mType EXCEPT ![o] = type]
  /\ mValue' = [mValue EXCEPT ![o] = bits]

(* obj_value = new char[len + sizeof(int)], then the copy of the string.   *)
Allocate(o, h, s) ==
  \E b \in Blocks :
    /\ ~h[b].live
    /\ heap' = [h EXCEPT ![b] = [live |-> TRUE, cap |-> Length[s], str |-> s]]
    /\ Update(o, "long", b)
    /\ damaged' = (damaged \ {o}) \cup Victims(o)
    /\ UNCHANGED <<fails, undefined>>

(* The same when operator new throws: tag and heap are left as they are    *)
(* by then, and the bits of the union are what they were before.  Taken as *)
(* a pointer they are null, a block that is freed, or anything at all.     *)
AllocationFails(o, h, tag) ==
  /\ fails < MaxFails
  /\ fails' = fails + 1
  /\ heap' = h
  /\ mType' = [mType EXCEPT ![o] = tag]
  /\ damaged' = damaged \cup Victims(o)
                   \cup (IF tag = "long" /\ mValue[o] # NullPtr THEN {o} ELSE {})
  /\ UNCHANGED <<mValue, undefined>>

Store(o, h, type, bits) ==
  /\ heap' = h
  /\ Update(o, type, bits)
  /\ damaged' = (damaged \ {o}) \cup Victims(o)
  /\ UNCHANGED <<fails, undefined>>

(***************************************************************************)
(* Constructors and the destructor.                                        *)
(***************************************************************************)
Construct(o) ==
  /\ mType[o] = "dead"
  /\ Store(o, heap, "null", NullPtr)

ConstructScalar(o, v) ==
  /\ mType[o] = "dead"
  /\ Store(o, heap, "scalar", v)

(* If the allocation throws there is no object, and nothing to destroy.    *)
ConstructStr(o, s) ==
  /\ mType[o] = "dead"
  /\ IF IsLong(s) THEN Allocate(o, heap, s) ELSE Store(o, heap, "short", s)

(* A copy of a long string gets a block of its own.                        *)
MutantNeedsBlock(p) == FALSE
NeedsBlock(p) == mType[p] = "long"

CopyConstruct(o, p) ==
  /\ mType[o] = "dead"
  /\ Readable(p)
  /\ IF NeedsBlock(p) THEN Allocate(o, heap, Content(p))
                        ELSE Store(o, heap, mType[p], mValue[p])

Destroy(o) ==
  /\ Deletable(o)
  /\ Store(o, Deleted(o), "dead", NullPtr)

(***************************************************************************)
(* Setters and assignment.                                                 *)
(***************************************************************************)
(* setNull(): the bits of the union stay, an old pointer included.         *)
SetNull(o) ==
  /\ Deletable(o)
  /\ Store(o, Deleted(o), "null", mValue[o])

(* setDouble(), setU64(), setI64(), setBool(), setChar()                   *)
SetScalar(o, v) ==
  /\ Deletable(o)
  /\ Store(o, Deleted(o), "scalar", v)

(* setStr() keeps the block when the new string is shorter than the old.   *)
MutantKeepsBlock(o, s) == mType[o] = "long" /\ mValue[o] # NullPtr
KeepsBlock(o, s) ==
  /\ mType[o] = "long"
  /\ mValue[o] # NullPtr
  /\ Length[s] < Length[heap[mValue[o]].str]

SetStrInPlace(o, s) ==
  /\ Usable(o)
  /\ IsLong(s)
  /\ KeepsBlock(o, s)
  /\ heap' = [heap EXCEPT ![mValue[o]].str = s]
  /\ UNCHANGED <<mType, mValue, damaged, fails, undefined>>

(* Otherwise the old memory goes first; the tag is set last.               *)
SetStr(o, s) ==
  /\ Deletable(o)
  /\ IsLong(s) => Usable(o) /\ ~KeepsBlock(o, s)
  /\ IF IsLong(s) THEN \/ Allocate(o, Deleted(o), s)
                       \/ AllocationFails(o, Deleted(o), mType[o])
                  ELSE Store(o, Deleted(o), "short", s)

(* operator= does nothing when an object is assigned to itself.            *)
MutantSelf(o, p) == FALSE
Self(o, p) == o = p

(* The string is copied from the heap as deleteMemory() left it; the tag   *)
(* is set before the allocation.                                           *)
Assign(o, p) ==
  LET h == Deleted(o) IN
  /\ Deletable(o)
  /\ Readable(p) /\ p \notin Victims(o)
  /\ ~Self(o, p)
  /\ IF NeedsBlock(p)
       THEN \/ Allocate(o, h, h[mValue[p]].str)
            \/ AllocationFails(o, h, "long")
       ELSE Store(o, h, mType[p], mValue[p])

SelfAssign(o, p) ==
  /\ mType[o] # "dead"
  /\ Self(o, p)
  /\ UNCHANGED vars

(* Undefined: to read a long string that is not there (a getter, a copy,   *)
(* setStr() looking for the length of the old one, an assignment that has  *)
(* deleted the block it copies), and to delete a block that is free or a   *)
(* pointer that never was one.                                             *)
Misuse(o) ==
  /\ mType[o] # "dead"
  /\ ~Readable(o)
  /\ undefined' = TRUE
  /\ UNCHANGED <<mType, mValue, heap, damaged, fails>>

Next ==
  ~undefined /\ \E o \in Objects :
    \/ Construct(o)
    \/ \E v \in Scalars : ConstructScalar(o, v) \/ SetScalar(o, v)
    \/ \E s \in Strings : ConstructStr(o, s) \/ SetStrInPlace(o, s) \/ SetStr(o, s)
    \/ \E p \in Objects : CopyConstruct(o, p) \/ Assign(o, p) \/ SelfAssign(o, p)
    \/ SetNull(o)
    \/ Destroy(o)
    \/ Misuse(o)

Spec == Init /\ [][Next]_vars

(***************************************************************************)
(* Properties.                                                             *)
(***************************************************************************)
Cells == [live : BOOLEAN, cap : Nat, str : Strings \cup {Junk}]

(* Tags and bits belong together: a short string fits in the union with    *)
(* its length, a usable long string is a pointer.                          *)
TypeOK ==
  /\ mType \in [Objects -> Tags]
  /\ mValue \in [Objects -> Blocks \cup {NullPtr} \cup Strings \cup Scalars]
  /\ heap \in [Blocks -> Cells]
  /\ damaged \subseteq Objects
  /\ fails \in Nat
  /\ undefined \in BOOLEAN
  /\ \A o \in Objects :
       /\ mType[o] = "scalar" => mValue[o] \in Scalars
       /\ mType[o] = "short" => /\ mValue[o] \in Strings
                                /\ Length[mValue[o]] + sizeofInt <= eDefaultSize
       /\ mType[o] = "long" /\ o \notin damaged =>
            mValue[o] \in Blocks \cup {NullPtr}

(* An object that owns a block has it for itself, and it is live           *)
(* (deleteMemory, copy construction, assignment).  An object without one   *)
(* can make another one lose it, but the damage does not multiply: at any  *)
(* time there are no more damaged objects than allocations have failed,    *)
(* and memory is misused only after one has (ValueRslt.cpp:145-146,        *)
(* 258-264, 444-453).                                                      *)
ExclusiveOwner ==
  /\ \A o \in Owners : heap[mValue[o]].live
  /\ \A o, p \in Owners : mValue[o] = mValue[p] => o = p
  /\ Cardinality(damaged) <= fails
  /\ undefined => fails > 0

(* Every live block is owned: no path of a setter, an assignment or the    *)
(* destructor loses one, the failing ones included.                        *)
NoLeak == \A b \in Blocks : heap[b].live => \E o \in Owners : mValue[o] = b

(* The string in a block fits in it, though setStr() writes strings into   *)
(* blocks allocated for others (ValueRslt.cpp:138-143).                    *)
StringFits ==
  \A b \in Blocks : heap[b].live => /\ heap[b].str \in Strings
                                    /\ Length[heap[b].str] <= heap[b].cap

(* What an object holds, as its users see it.                              *)
Holds(o) ==
  IF mType[o] = "dead" THEN "dead"
  ELSE IF Readable(o) THEN Content(o)
  ELSE "lost"

Abstract == INSTANCE Value WITH val <- [o \in Objects |-> Holds(o)]

(* Each operation does to the object it is called on what it says and      *)
(* nothing to the others, as long as that object has a value; an operation *)
(* on one that a failed allocation cost its value, its destructor          *)
(* included, can cost one other object its value.                          *)
ImplementsValue == Abstract!Spec
=============================================================================
