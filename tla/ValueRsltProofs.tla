-------------------------- MODULE ValueRsltProofs --------------------------
(***************************************************************************)
(* Proofs about ValueRslt, for any objects, blocks, strings and scalars    *)
(* and any number of failed allocations.                                   *)
(***************************************************************************)
EXTENDS ValueRslt, FiniteSetTheorems, TLAPS

USE DEF NeedsBlock

(* What a failed allocation leaves behind still carries the tag "long".    *)
DamagedAreLong == \A o \in damaged : mType[o] = "long" /\ mValue[o] # NullPtr

(* Who has a pointer of another, or none, has seen an allocation fail.     *)
FailuresShow ==
  /\ IsFiniteSet(damaged)
  /\ \A o \in Objects : Hollow(o) => fails > 0

Inv == TypeOK /\ DamagedAreLong /\ FailuresShow /\ ExclusiveOwner /\ NoLeak /\ StringFits

(* The objects that own a block before and after an operation on o.        *)
Left(o) == Owners \ ({o} \cup Victims(o))

(* h is the heap without the block that o points to: what an operation on  *)
(* o has to work with after deleteMemory().                                *)
Cleared(o, h) ==
  /\ h \in [Blocks -> Cells]
  /\ \A p \in Left(o) : h[mValue[p]] = heap[mValue[p]]
  /\ \A b \in Blocks : h[b].live =>
       h[b] = heap[b] /\ \E p \in Left(o) : mValue[p] = b

LEMMA OwnersTypes ==
  ASSUME Inv, NEW p \in Owners
  PROVE  /\ p \in Objects /\ p \notin damaged /\ mType[p] = "long"
         /\ mValue[p] \in Blocks
BY DEF Inv, TypeOK, Owners, Usable, Hollow

(* An object that is not damaged has no victims; a damaged one, at most    *)
(* one, and it is another object.                                          *)
LEMMA VictimsTypes ==
  ASSUME Inv, NEW o \in Objects
  PROVE  /\ o \notin damaged => Victims(o) = {}
         /\ Victims(o) \subseteq Owners /\ o \notin Victims(o)
         /\ Victims(o) # {} => \E q : Victims(o) = {q}
         /\ \A q \in Victims(o) : q \in Objects /\ q # o /\ mType[q] = "long"
<1>1. Victims(o) \subseteq Owners /\ (o \notin damaged => Victims(o) = {})
  BY DEF Victims
<1>2. \A q \in Victims(o) : q \in Objects /\ mType[q] = "long" /\ q # o
  BY OwnersTypes DEF Victims
<1>3. ASSUME Victims(o) # {} PROVE \E q : Victims(o) = {q}
  <2>1. PICK q : q \in Victims(o)
    BY <1>3
  <2>2. \A p \in Victims(o) : p = q
    BY <2>1 DEF Victims, Inv, ExclusiveOwner
  <2>3. Victims(o) = {q}
    BY <2>1, <2>2
  <2>4. QED
    BY <2>3
<1>4. QED
  BY <1>1, <1>2, <1>3

LEMMA DeadCleared ==
  ASSUME Inv, NEW o \in Objects, mType[o] = "dead"
  PROVE  o \notin damaged /\ Cleared(o, heap)
<1>1. o \notin damaged /\ o \notin Owners
  BY DEF Inv, DamagedAreLong, Owners, Usable
<1>2. heap \in [Blocks -> Cells] /\ Left(o) = Owners
  BY <1>1, VictimsTypes DEF Inv, TypeOK, Left
<1>3. QED
  BY <1>1, <1>2 DEF Cleared, Inv, NoLeak

LEMMA DeletableCleared ==
  ASSUME Inv, NEW o \in Objects, Deletable(o)
  PROVE  Cleared(o, Deleted(o))
<1>1. heap \in [Blocks -> Cells] /\ o \in Objects
  BY DEF Inv, TypeOK
<1>2. CASE o \in Owners \/ o \in damaged
  <2>1. mValue[o] \in Blocks /\ mValue[o] # NullPtr /\ mType[o] = "long"
    BY <1>2, OwnersTypes, UnionAssumption DEF Deletable, Inv, DamagedAreLong
  <2>2. Deleted(o) = [heap EXCEPT ![mValue[o]] = Free]
    BY <2>1 DEF Deleted
  <2>3. Free \in Cells /\ ~Free.live
    BY DEF Free, Cells
  <2>4. Deleted(o) \in [Blocks -> Cells]
    BY <1>1, <2>1, <2>2, <2>3
  <2>5. \A p \in Left(o) : mValue[p] # mValue[o] /\ mValue[p] \in Blocks
    <3>1. TAKE p \in Left(o)
    <3>2. p \in Owners /\ p # o /\ p \notin Victims(o)
      BY DEF Left
    <3>3. CASE o \in Owners
      BY <3>2, <3>3, OwnersTypes DEF Inv, ExclusiveOwner
    <3>4. CASE o \in damaged
      BY <3>2, <3>4, OwnersTypes DEF Victims
    <3>5. QED
      BY <1>2, <3>3, <3>4
  <2>6. \A p \in Left(o) : Deleted(o)[mValue[p]] = heap[mValue[p]]
    BY <1>1, <2>1, <2>2, <2>5
  <2>7. ASSUME NEW b \in Blocks, Deleted(o)[b].live
        PROVE  /\ Deleted(o)[b] = heap[b]
               /\ \E p \in Left(o) : mValue[p] = b
    <3>1. b # mValue[o] /\ Deleted(o)[b] = heap[b]
      BY <1>1, <2>1, <2>2, <2>3, <2>7
    <3>2. PICK p \in Owners : mValue[p] = b
      BY <2>7, <3>1 DEF Inv, NoLeak
    <3>3. p \in Left(o)
      BY <3>1, <3>2 DEF Left, Victims
    <3>4. QED
      BY <3>1, <3>2, <3>3
  <2>8. QED
    BY <2>4, <2>6, <2>7 DEF Cleared
<1>3. CASE o \notin Owners /\ o \notin damaged
  <2>1. Deleted(o) = heap /\ Left(o) = Owners
    BY <1>3, VictimsTypes DEF Deleted, Owners, Hollow, Usable, Left, Deletable
  <2>2. QED
    BY <1>1, <2>1 DEF Cleared, Inv, NoLeak
<1>4. QED
  BY <1>2, <1>3

(* Damage moves from an object to its victim, and one allocation that      *)
(* fails adds one damaged object at most.                                  *)
LEMMA DamageMoves ==
  ASSUME Inv, NEW o \in Objects,
         NEW D, \/ D = (damaged \ {o}) \cup Victims(o) /\ UNCHANGED fails
                \/ /\ \/ D = damaged \cup Victims(o)
                      \/ D = damaged \cup Victims(o) \cup {o}
                   /\ fails' = fails + 1
  PROVE  IsFiniteSet(D) /\ Cardinality(D) <= fails'
<1>1. /\ IsFiniteSet(damaged) /\ Cardinality(damaged) \in Nat
      /\ Cardinality(damaged) <= fails /\ fails \in Nat
  BY FS_CardinalityType DEF Inv, FailuresShow, ExclusiveOwner, TypeOK
<1>2. CASE o \notin damaged
  <2>1. Victims(o) = {}
    BY <1>2, VictimsTypes
  <2>2. /\ IsFiniteSet(damaged \cup {o})
        /\ Cardinality(damaged \cup {o}) = Cardinality(damaged) + 1
    BY <1>1, <1>2, FS_AddElement
  <2>3. (damaged \ {o}) \cup Victims(o) = damaged
    BY <1>2, <2>1
  <2>4. /\ damaged \cup Victims(o) = damaged
        /\ damaged \cup Victims(o) \cup {o} = damaged \cup {o}
    BY <2>1
  <2>5. CASE D = damaged
    BY <1>1, <2>5
  <2>6. CASE D = damaged \cup {o} /\ fails' = fails + 1
    BY <1>1, <2>2, <2>6
  <2>7. QED
    BY <2>3, <2>4, <2>5, <2>6
<1>3. CASE o \in damaged /\ Victims(o) = {}
  <2>1. /\ IsFiniteSet(damaged \ {o})
        /\ Cardinality(damaged \ {o}) = Cardinality(damaged) - 1
    BY <1>1, <1>3, FS_RemoveElement
  <2>2. (D = damaged \/ D = damaged \ {o}) /\ (fails' = fails \/ fails' = fails + 1)
    BY <1>3
  <2>3. CASE D = damaged
    BY <1>1, <2>2, <2>3
  <2>4. CASE D = damaged \ {o}
    BY <1>1, <2>1, <2>2, <2>4
  <2>5. QED
    BY <2>2, <2>3, <2>4
<1>4. CASE o \in damaged /\ Victims(o) # {}
  <2>1. PICK q : Victims(o) = {q}
    BY <1>4, VictimsTypes
  <2>2. q \notin damaged /\ q # o
    <3>1. q \in Victims(o)
      BY <2>1
    <3>2. QED
      BY <3>1, OwnersTypes, VictimsTypes
  <2>3. /\ IsFiniteSet(damaged \ {o})
        /\ Cardinality(damaged \ {o}) = Cardinality(damaged) - 1
    BY <1>1, <1>4, FS_RemoveElement
  <2>4. q \notin damaged \ {o}
    BY <2>2
  <2>5. /\ IsFiniteSet((damaged \ {o}) \cup {q})
        /\ Cardinality((damaged \ {o}) \cup {q}) = Cardinality(damaged \ {o}) + 1
    BY <2>3, <2>4, FS_AddElement
  <2>6. /\ IsFiniteSet(damaged \cup {q})
        /\ Cardinality(damaged \cup {q}) = Cardinality(damaged) + 1
    BY <1>1, <2>2, FS_AddElement
  <2>7. CASE D = (damaged \ {o}) \cup {q} /\ UNCHANGED fails
    BY <1>1, <2>3, <2>5, <2>7
  <2>8. CASE D = damaged \cup {q} /\ fails' = fails + 1
    BY <1>1, <2>6, <2>8
  <2>9. damaged \cup {q} \cup {o} = damaged \cup {q}
    BY <1>4
  <2>10. QED
    BY <2>1, <2>7, <2>8, <2>9
<1>5. QED
  BY <1>2, <1>3, <1>4

(***************************************************************************)
(* The three ways an operation on o ends.                                  *)
(***************************************************************************)
LEMMA StoreStep ==
  ASSUME Inv, NEW o \in Objects, NEW h, Cleared(o, h),
         NEW type \in {"null", "scalar", "short", "dead"},
         NEW bits \in Blocks \cup {NullPtr} \cup Strings \cup Scalars,
         type = "scalar" => bits \in Scalars,
         type = "short" => /\ bits \in Strings
                           /\ Length[bits] + sizeofInt <= eDefaultSize,
         Store(o, h, type, bits)
  PROVE  Inv'
<1>1. /\ mType' = [mType EXCEPT ![o] = type]
      /\ mValue' = [mValue EXCEPT ![o] = bits]
      /\ heap' = h /\ damaged' = (damaged \ {o}) \cup Victims(o)
      /\ fails' = fails /\ undefined' = undefined
  BY DEF Store, Update
<1>2. /\ mType'[o] = type /\ mValue'[o] = bits
      /\ \A p \in Objects \ {o} : mType'[p] = mType[p] /\ mValue'[p] = mValue[p]
  BY <1>1 DEF Inv, TypeOK
<1>3. Owners' = Left(o)
  <2>1. o \notin Owners'
    BY <1>2 DEF Owners
  <2>2. \A p \in Objects \ {o} : p \in Owners' <=> p \in Owners /\ p \notin Victims(o)
    BY <1>1, <1>2 DEF Owners, Usable, Hollow
  <2>3. QED
    BY <2>1, <2>2 DEF Left, Owners
<1>4. TypeOK'
  <2>1. /\ mType' \in [Objects -> Tags]
        /\ mValue' \in [Objects -> Blocks \cup {NullPtr} \cup Strings \cup Scalars]
    BY <1>1 DEF Inv, TypeOK, Tags
  <2>2. /\ heap' \in [Blocks -> Cells] /\ damaged' \subseteq Objects
        /\ fails' \in Nat /\ undefined' \in BOOLEAN
    BY <1>1, VictimsTypes DEF Cleared, Inv, TypeOK
  <2>3. ASSUME NEW p \in Objects
        PROVE  /\ mType'[p] = "scalar" => mValue'[p] \in Scalars
               /\ mType'[p] = "short" =>
                    /\ mValue'[p] \in Strings
                    /\ Length[mValue'[p]] + sizeofInt <= eDefaultSize
               /\ mType'[p] = "long" /\ p \notin damaged' =>
                    mValue'[p] \in Blocks \cup {NullPtr}
    <3>1. CASE p = o
      BY <1>2, <3>1
    <3>2. CASE p # o
      BY <1>1, <1>2, <3>2 DEF Inv, TypeOK
    <3>3. QED
      BY <3>1, <3>2
  <2>4. QED
    BY <2>1, <2>2, <2>3 DEF TypeOK
<1>5. DamagedAreLong'
  BY <1>1, <1>2, VictimsTypes, OwnersTypes, UnionAssumption
  DEF Inv, DamagedAreLong, TypeOK
<1>6. \A p \in Left(o) : p \in Owners /\ mValue'[p] = mValue[p]
  BY <1>2 DEF Owners, Left
<1>7. ExclusiveOwner' /\ FailuresShow'
  <2>1. IsFiniteSet(damaged') /\ Cardinality(damaged') <= fails'
    BY <1>1, DamageMoves
  <2>2. \A p \in Objects : Hollow(p)' => Hollow(p)
    BY <1>2 DEF Hollow
  <2>3. FailuresShow'
    BY <1>1, <2>1, <2>2 DEF Inv, FailuresShow
  <2>4. /\ \A p \in Owners' : heap'[mValue'[p]].live
        /\ \A p, q \in Owners' : mValue'[p] = mValue'[q] => p = q
    BY <1>1, <1>3, <1>6 DEF Cleared, Inv, ExclusiveOwner
  <2>5. QED
    BY <1>1, <2>1, <2>3, <2>4 DEF Inv, ExclusiveOwner
<1>8. NoLeak'
  BY <1>1, <1>3, <1>6 DEF Cleared, NoLeak
<1>9. StringFits'
  BY <1>1 DEF Cleared, Inv, StringFits
<1>10. QED
  BY <1>4, <1>5, <1>7, <1>8, <1>9 DEF Inv

LEMMA AllocateStep ==
  ASSUME Inv, NEW o \in Objects, NEW h, Cleared(o, h),
         NEW s \in Strings, Allocate(o, h, s)
  PROVE  Inv'
<1>1. PICK b \in Blocks :
        /\ ~h[b].live
        /\ heap' = [h EXCEPT ![b] = [live |-> TRUE, cap |-> Length[s], str |-> s]]
        /\ mType' = [mType EXCEPT ![o] = "long"]
        /\ mValue' = [mValue EXCEPT ![o] = b]
        /\ damaged' = (damaged \ {o}) \cup Victims(o)
        /\ fails' = fails /\ undefined' = undefined
  BY DEF Allocate, Update
<1>2. /\ mType'[o] = "long" /\ mValue'[o] = b
      /\ \A p \in Objects \ {o} : mType'[p] = mType[p] /\ mValue'[p] = mValue[p]
  BY <1>1 DEF Inv, TypeOK
<1>3. b # NullPtr
  BY UnionAssumption
<1>4. Owners' = Left(o) \cup {o}
  <2>1. o \in Owners'
    BY <1>1, <1>2, <1>3, VictimsTypes DEF Owners, Usable, Hollow
  <2>2. \A p \in Objects \ {o} : p \in Owners' <=> p \in Owners /\ p \notin Victims(o)
    BY <1>1, <1>2 DEF Owners, Usable, Hollow
  <2>3. QED
    BY <2>1, <2>2 DEF Left, Owners
<1>5. [live |-> TRUE, cap |-> Length[s], str |-> s] \in Cells
  BY StringsAssumption DEF Cells
<1>6. /\ heap' \in [Blocks -> Cells]
      /\ heap'[b] = [live |-> TRUE, cap |-> Length[s], str |-> s]
      /\ \A c \in Blocks \ {b} : heap'[c] = h[c]
  BY <1>1, <1>5 DEF Cleared
<1>7. TypeOK'
  <2>1. /\ mType' \in [Objects -> Tags]
        /\ mValue' \in [Objects -> Blocks \cup {NullPtr} \cup Strings \cup Scalars]
    BY <1>1 DEF Inv, TypeOK, Tags
  <2>2. ASSUME NEW p \in Objects
        PROVE  /\ mType'[p] = "scalar" => mValue'[p] \in Scalars
               /\ mType'[p] = "short" =>
                    /\ mValue'[p] \in Strings
                    /\ Length[mValue'[p]] + sizeofInt <= eDefaultSize
               /\ mType'[p] = "long" /\ p \notin damaged' =>
                    mValue'[p] \in Blocks \cup {NullPtr}
    <3>1. CASE p = o
      BY <1>2, <3>1
    <3>2. CASE p # o
      BY <1>1, <1>2, <3>2 DEF Inv, TypeOK
    <3>3. QED
      BY <3>1, <3>2
  <2>3. damaged' \subseteq Objects /\ fails' \in Nat /\ undefined' \in BOOLEAN
    BY <1>1, VictimsTypes DEF Inv, TypeOK
  <2>4. QED
    BY <1>6, <2>1, <2>2, <2>3 DEF TypeOK
<1>8. DamagedAreLong'
  BY <1>1, <1>2, VictimsTypes, OwnersTypes, UnionAssumption
  DEF Inv, DamagedAreLong, TypeOK
<1>9. \A p \in Left(o) : /\ p \in Owners
                         /\ mValue'[p] = mValue[p] /\ mValue[p] \in Blocks
                         /\ heap[mValue[p]].live /\ mValue[p] # b
                         /\ heap'[mValue[p]] = heap[mValue[p]]
  BY <1>1, <1>2, <1>6, OwnersTypes DEF Cleared, Inv, ExclusiveOwner, Left
<1>10. ExclusiveOwner' /\ FailuresShow'
  <2>1. \A p \in Owners' : heap'[mValue'[p]].live
    <3>1. heap'[mValue'[o]].live
      BY <1>2, <1>6
    <3>2. \A p \in Left(o) : heap'[mValue'[p]].live
      BY <1>9
    <3>3. QED
      BY <1>4, <3>1, <3>2
  <2>2. \A p, q \in Owners' : mValue'[p] = mValue'[q] => p = q
    BY <1>2, <1>4, <1>9 DEF Inv, ExclusiveOwner
  <2>3. IsFiniteSet(damaged') /\ Cardinality(damaged') <= fails'
    BY <1>1, DamageMoves
  <2>4. \A p \in Objects : Hollow(p)' => Hollow(p)
    BY <1>2, <1>3 DEF Hollow
  <2>5. FailuresShow'
    BY <1>1, <2>3, <2>4 DEF Inv, FailuresShow
  <2>6. QED
    BY <1>1, <2>1, <2>2, <2>3, <2>5 DEF Inv, ExclusiveOwner
<1>11. NoLeak'
  <2>1. SUFFICES ASSUME NEW c \in Blocks, heap'[c].live
                 PROVE  \E p \in Owners' : mValue'[p] = c
    BY DEF NoLeak
  <2>2. CASE c = b
    BY <1>2, <1>4, <2>2
  <2>3. CASE c # b
    <3>1. PICK p \in Left(o) : mValue[p] = c
      BY <1>6, <2>1, <2>3 DEF Cleared
    <3>2. QED
      BY <1>4, <1>9, <3>1
  <2>4. QED
    BY <2>2, <2>3
<1>12. StringFits'
  <2>1. SUFFICES ASSUME NEW c \in Blocks, heap'[c].live
                 PROVE  /\ heap'[c].str \in Strings
                        /\ Length[heap'[c].str] <= heap'[c].cap
    BY DEF StringFits
  <2>2. CASE c = b
    BY <1>6, <2>2, StringsAssumption
  <2>3. CASE c # b
    BY <1>6, <2>1, <2>3 DEF Cleared, Inv, StringFits
  <2>4. QED
    BY <2>2, <2>3
<1>13. QED
  BY <1>7, <1>8, <1>10, <1>11, <1>12 DEF Inv

LEMMA FailStep ==
  ASSUME Inv, NEW o \in Objects, NEW h, Cleared(o, h),
         mType[o] # "dead",
         NEW tag, tag = "long" \/ tag = mType[o], AllocationFails(o, h, tag)
  PROVE  Inv'
<1>1. /\ mType' = [mType EXCEPT ![o] = tag]
      /\ mValue' = mValue /\ heap' = h
      /\ fails' = fails + 1 /\ undefined' = undefined
      /\ damaged' = damaged \cup Victims(o)
                      \cup (IF tag = "long" /\ mValue[o] # NullPtr THEN {o} ELSE {})
  BY DEF AllocationFails
<1>2. tag \in Tags
  BY DEF Inv, TypeOK, Tags
<1>3. /\ mType'[o] = tag
      /\ \A p \in Objects \ {o} :
           /\ mType'[p] = mType[p]
           /\ p \in damaged' <=> p \in damaged \/ p \in Victims(o)
  BY <1>1 DEF Inv, TypeOK
<1>4. Owners' = Left(o)
  <2>1. o \notin Owners'
    BY <1>1, <1>3 DEF Owners, Usable, Hollow
  <2>2. \A p \in Objects \ {o} : p \in Owners' <=> p \in Owners /\ p \notin Victims(o)
    BY <1>1, <1>3 DEF Owners, Usable, Hollow
  <2>3. QED
    BY <2>1, <2>2 DEF Left, Owners
<1>5. TypeOK'
  <2>1. mType' \in [Objects -> Tags] /\ damaged' \subseteq Objects
    BY <1>1, <1>2, VictimsTypes DEF Inv, TypeOK
  <2>2. heap' \in [Blocks -> Cells] /\ fails' \in Nat /\ undefined' \in BOOLEAN
    BY <1>1 DEF Inv, TypeOK, Cleared
  <2>3. ASSUME NEW p \in Objects
        PROVE  /\ mType'[p] = "scalar" => mValue'[p] \in Scalars
               /\ mType'[p] = "short" =>
                    /\ mValue'[p] \in Strings
                    /\ Length[mValue'[p]] + sizeofInt <= eDefaultSize
               /\ mType'[p] = "long" /\ p \notin damaged' =>
                    mValue'[p] \in Blocks \cup {NullPtr}
    <3>1. CASE p = o
      BY <1>1, <1>3, <3>1 DEF Inv, TypeOK
    <3>2. CASE p # o
      BY <1>1, <1>3, <3>2 DEF Inv, TypeOK
    <3>3. QED
      BY <3>1, <3>2
  <2>4. QED
    BY <1>1, <2>1, <2>2, <2>3 DEF TypeOK, Inv
<1>6. DamagedAreLong'
  <2>1. \A p \in Objects \ {o} : p \in damaged' => mType'[p] = "long" /\ mValue'[p] # NullPtr
    BY <1>1, <1>3, OwnersTypes, VictimsTypes, UnionAssumption
    DEF Inv, DamagedAreLong, TypeOK
  <2>2. o \in damaged' => mType'[o] = "long" /\ mValue'[o] # NullPtr
    BY <1>1, <1>3, VictimsTypes DEF Inv, DamagedAreLong
  <2>3. damaged' \subseteq Objects
    BY <1>5 DEF TypeOK
  <2>4. QED
    BY <2>1, <2>2, <2>3 DEF DamagedAreLong
<1>7. ExclusiveOwner' /\ FailuresShow'
  <2>1. IsFiniteSet(damaged') /\ Cardinality(damaged') <= fails'
    BY <1>1, DamageMoves
  <2>2. fails' > 0
    BY <1>1 DEF Inv, TypeOK
  <2>3. /\ \A p \in Owners' : heap'[mValue'[p]].live
        /\ \A p, q \in Owners' : mValue'[p] = mValue'[q] => p = q
    BY <1>1, <1>4 DEF Cleared, Inv, ExclusiveOwner, Left
  <2>4. QED
    BY <2>1, <2>2, <2>3 DEF FailuresShow, ExclusiveOwner
<1>8. NoLeak'
  BY <1>1, <1>4 DEF Cleared, NoLeak
<1>9. StringFits'
  BY <1>1 DEF Cleared, Inv, StringFits
<1>10. QED
  BY <1>5, <1>6, <1>7, <1>8, <1>9 DEF Inv

LEMMA InPlaceStep ==
  ASSUME Inv, NEW o \in Objects, NEW s \in Strings, SetStrInPlace(o, s)
  PROVE  Inv'
<1>1. /\ heap' = [heap EXCEPT ![mValue[o]].str = s]
      /\ UNCHANGED <<mType, mValue, damaged, fails, undefined>>
      /\ o \in Owners
  BY DEF SetStrInPlace, KeepsBlock, Owners, Hollow
<1>2. /\ mValue[o] \in Blocks /\ heap[mValue[o]].live
      /\ heap \in [Blocks -> Cells]
  BY <1>1, OwnersTypes DEF Inv, ExclusiveOwner, TypeOK
<1>3. /\ heap[mValue[o]] \in Cells
      /\ heap[mValue[o]].str \in Strings
      /\ Length[s] < Length[heap[mValue[o]].str]
      /\ Length[heap[mValue[o]].str] <= heap[mValue[o]].cap
  BY <1>2 DEF SetStrInPlace, KeepsBlock, Inv, StringFits
<1>4. /\ heap' \in [Blocks -> Cells]
      /\ \A b \in Blocks : /\ heap'[b].live = heap[b].live
                           /\ heap'[b].cap = heap[b].cap
                           /\ b # mValue[o] => heap'[b].str = heap[b].str
      /\ heap'[mValue[o]].str = s
  BY <1>1, <1>2, <1>3 DEF Cells
<1>5. Owners' = Owners
  BY <1>1 DEF Owners, Usable, Hollow
<1>6. TypeOK' /\ DamagedAreLong' /\ FailuresShow'
  BY <1>1, <1>4 DEF Inv, TypeOK, DamagedAreLong, FailuresShow, Hollow
<1>7. ExclusiveOwner' /\ NoLeak'
  BY <1>1, <1>4, <1>5, OwnersTypes DEF Inv, ExclusiveOwner, NoLeak
<1>8. StringFits'
  <2>1. Length[s] <= heap[mValue[o]].cap
    BY <1>3, StringsAssumption DEF Cells
  <2>2. QED
    BY <1>4, <2>1 DEF Inv, StringFits
<1>9. QED
  BY <1>6, <1>7, <1>8 DEF Inv

LEMMA ShortFits ==
  ASSUME NEW s \in Strings, ~IsLong(s)
  PROVE  Length[s] + sizeofInt <= eDefaultSize
BY StringsAssumption DEF IsLong, sizeofInt, eDefaultSize

(* What is read is what is there, and a readable long string is a string.  *)
LEMMA ReadableTypes ==
  ASSUME Inv, NEW p \in Objects, Readable(p)
  PROVE  /\ mType[p] = "long" => /\ p \in Owners /\ mValue[p] \in Blocks
                                 /\ heap[mValue[p]].live
                                 /\ heap[mValue[p]].str \in Strings
         /\ mType[p] # "long" =>
              /\ mType[p] \in {"null", "scalar", "short"}
              /\ mValue[p] \in Blocks \cup {NullPtr} \cup Strings \cup Scalars
              /\ mType[p] = "scalar" => mValue[p] \in Scalars
              /\ mType[p] = "short" =>
                   /\ mValue[p] \in Strings
                   /\ Length[mValue[p]] + sizeofInt <= eDefaultSize
<1>1. mType[p] = "long" => p \in Owners
  BY DEF Readable, Owners
<1>2. QED
  BY <1>1, OwnersTypes DEF Readable, Usable, Inv, TypeOK, Tags, ExclusiveOwner,
     StringFits

LEMMA InvStep == Inv /\ [Next]_vars => Inv'
<1> SUFFICES ASSUME Inv, [Next]_vars PROVE Inv'
  OBVIOUS
<1>1. CASE UNCHANGED vars
  BY <1>1 DEF vars, Inv, TypeOK, DamagedAreLong, FailuresShow,
     ExclusiveOwner, NoLeak, StringFits, Owners, Usable, Hollow
<1>2. ASSUME NEW o \in Objects, Construct(o) \/ Destroy(o) \/ SetNull(o)
      PROVE  Inv'
  <2>1. mValue[o] \in Blocks \cup {NullPtr} \cup Strings \cup Scalars
    BY DEF Inv, TypeOK
  <2>2. QED
    BY <1>2, <2>1, DeadCleared, DeletableCleared, StoreStep
       DEF Construct, Destroy, SetNull
<1>3. ASSUME NEW o \in Objects, NEW v \in Scalars,
             ConstructScalar(o, v) \/ SetScalar(o, v)
      PROVE  Inv'
  BY <1>3, DeadCleared, DeletableCleared, StoreStep DEF ConstructScalar, SetScalar
<1>4. ASSUME NEW o \in Objects, NEW s \in Strings, ConstructStr(o, s)
      PROVE  Inv'
  <2>1. CASE IsLong(s)
    BY <1>4, <2>1, DeadCleared, AllocateStep DEF ConstructStr
  <2>2. CASE ~IsLong(s)
    BY <1>4, <2>2, DeadCleared, StoreStep, ShortFits DEF ConstructStr
  <2>3. QED
    BY <2>1, <2>2
<1>5. ASSUME NEW o \in Objects, NEW s \in Strings, SetStr(o, s)
      PROVE  Inv'
  <2>1. Deletable(o) /\ mType[o] # "dead"
    BY <1>5 DEF SetStr, Deletable
  <2>2. CASE IsLong(s)
    BY <1>5, <2>1, <2>2, DeletableCleared, AllocateStep, FailStep DEF SetStr
  <2>3. CASE ~IsLong(s)
    BY <1>5, <2>1, <2>3, DeletableCleared, StoreStep, ShortFits DEF SetStr
  <2>4. QED
    BY <2>2, <2>3
<1>6. ASSUME NEW o \in Objects, NEW p \in Objects, CopyConstruct(o, p)
      PROVE  Inv'
  <2>1. Readable(p) /\ mType[o] = "dead"
    BY <1>6 DEF CopyConstruct
  <2>2. CASE mType[p] = "long"
    <3>1. Content(p) \in Strings
      BY <2>1, <2>2, ReadableTypes DEF Content
    <3>2. QED
      BY <1>6, <2>1, <2>2, <3>1, DeadCleared, AllocateStep DEF CopyConstruct
  <2>3. CASE mType[p] # "long"
    BY <1>6, <2>1, <2>3, ReadableTypes, DeadCleared, StoreStep DEF CopyConstruct
  <2>4. QED
    BY <2>2, <2>3
<1>7. ASSUME NEW o \in Objects, NEW p \in Objects, Assign(o, p)
      PROVE  Inv'
  <2> DEFINE h == Deleted(o)
  <2>1. /\ Readable(p) /\ o # p /\ p \notin Victims(o) /\ mType[o] # "dead"
        /\ Cleared(o, h)
    BY <1>7, DeletableCleared DEF Assign, Self, Deletable
  <2>2. CASE mType[p] = "long"
    <3>1. h[mValue[p]].str \in Strings
      BY <2>1, <2>2, ReadableTypes DEF Cleared, Left
    <3>2. CASE Allocate(o, h, h[mValue[p]].str)
      BY <2>1, <3>1, <3>2, AllocateStep
    <3>3. CASE AllocationFails(o, h, "long")
      BY <2>1, <3>3, FailStep
    <3>4. QED
      BY <1>7, <2>2, <3>2, <3>3 DEF Assign
  <2>3. CASE mType[p] # "long"
    BY <1>7, <2>1, <2>3, ReadableTypes, StoreStep DEF Assign
  <2>4. QED
    BY <2>2, <2>3
<1>8. ASSUME NEW o \in Objects, Misuse(o) PROVE Inv'
  <2>1. UNCHANGED <<mType, mValue, heap, damaged, fails>> /\ undefined' = TRUE
    BY <1>8 DEF Misuse
  <2>2. Owners' = Owners
    BY <2>1 DEF Owners, Usable, Hollow
  <2>3. fails > 0
    <3>1. CASE o \in damaged
      <4>1. /\ IsFiniteSet(damaged) /\ Cardinality(damaged) <= fails
            /\ fails \in Nat
        BY DEF Inv, FailuresShow, ExclusiveOwner, TypeOK
      <4>2. Cardinality(damaged) # 0 /\ Cardinality(damaged) \in Nat
        BY <3>1, <4>1, FS_EmptySet, FS_CardinalityType
      <4>3. QED
        BY <4>1, <4>2
    <3>2. CASE Hollow(o)
      BY <3>2 DEF Inv, FailuresShow
    <3>3. QED
      BY <1>8, <3>1, <3>2 DEF Misuse, Readable, Usable
  <2>4. QED
    BY <2>1, <2>2, <2>3 DEF Inv, TypeOK, DamagedAreLong, FailuresShow, Hollow,
       ExclusiveOwner, NoLeak, StringFits
<1>9. QED
  BY <1>1, <1>2, <1>3, <1>4, <1>5, <1>6, <1>7, <1>8, InPlaceStep DEF Next, SelfAssign

LEMMA InvInit == Init => Inv
<1>1. SUFFICES ASSUME Init PROVE Inv
  OBVIOUS
<1>2. Free \in Cells /\ ~Free.live
  BY DEF Free, Cells
<1>3. Owners = {}
  BY <1>1 DEF Init, Owners, Usable
<1>4. TypeOK
  BY <1>1, <1>2 DEF Init, TypeOK, Tags
<1>5. QED
  BY <1>1, <1>2, <1>3, <1>4, FS_EmptySet
  DEF Init, Inv, DamagedAreLong, FailuresShow, Hollow, ExclusiveOwner, NoLeak, StringFits

(* The tag of the union always says what its bits are.                     *)
THEOREM TypeCorrect == Spec => []TypeOK
<1>1. Inv => TypeOK
  BY DEF Inv
<1>2. QED
  BY InvInit, InvStep, <1>1, PTL DEF Spec

(* Every live block has exactly one owner, and every owner a live block,   *)
(* whatever allocations have failed and whatever the damaged objects then  *)
(* delete, as long as that is defined; it can only fail to be after an     *)
(* allocation has failed, and each of these damages one object at most     *)
(* (ValueRslt.cpp:20-36, 93-159, 253-273, 444-453).                        *)
THEOREM Ownership == Spec => [](ExclusiveOwner /\ NoLeak)
<1>1. Inv => ExclusiveOwner /\ NoLeak
  BY DEF Inv
<1>2. QED
  BY InvInit, InvStep, <1>1, PTL DEF Spec

(* No block is forgotten while it is live: the other half of ownership.    *)
THEOREM NothingLeaks == Spec => []NoLeak
BY Ownership, PTL

(* No string is longer than the block it is written to, blocks that are    *)
(* kept by setStr() included (ValueRslt.cpp:138-144).                      *)
THEOREM StringsFit == Spec => []StringFits
<1>1. Inv => StringFits
  BY DEF Inv
<1>2. QED
  BY InvInit, InvStep, <1>1, PTL DEF Spec

(***************************************************************************)
(* The union and the heap implement the values.                            *)
(***************************************************************************)
Val == [o \in Objects |-> Holds(o)]

LEMMA HoldsValue ==
  ASSUME Inv, NEW p \in Objects
  PROVE  /\ Readable(p) => Holds(p) = Content(p) /\ Content(p) \in Abstract!Values
         /\ mType[p] # "dead" <=> Holds(p) # "dead"
<1>1. Readable(p) => mType[p] # "dead"
  BY DEF Readable, Usable
<1>2. Readable(p) => Content(p) \in {"null"} \cup Strings \cup Scalars
  BY ReadableTypes DEF Content
<1>3. QED
  BY <1>1, <1>2, TagsAssumption DEF Holds, Abstract!Values, Abstract!Null

(* An operation on o gives it x; if o had lost its value, another object   *)
(* may lose its own.                                                       *)
Becomes(o, x) ==
  \/ Val' = [Val EXCEPT ![o] = x]
  \/ /\ Val[o] = "lost"
     /\ \E q \in Objects \ {o} :
          Val[q] # "dead" /\ Val' = [Val EXCEPT ![o] = x, ![q] = "lost"]

(* An operation on o that leaves the others' blocks alone leaves their     *)
(* values alone.                                                           *)
LEMMA OthersKeep ==
  ASSUME Inv, NEW o \in Objects,
         \A p \in Objects \ {o} :
           /\ mType'[p] = mType[p] /\ mValue'[p] = mValue[p]
           /\ p \in damaged' <=> p \in damaged \/ p \in Victims(o),
         \A p \in Left(o) : heap'[mValue[p]] = heap[mValue[p]]
  PROVE  Becomes(o, Holds(o)')
<1>1. ASSUME NEW p \in Objects \ {o}, p \notin Victims(o) PROVE Holds(p)' = Holds(p)
  <2>1. /\ mType'[p] = mType[p] /\ mValue'[p] = mValue[p]
        /\ p \in damaged' <=> p \in damaged
    BY <1>1
  <2>2. Readable(p)' <=> Readable(p)
    BY <2>1 DEF Readable, Usable, Hollow
  <2>3. CASE Readable(p) /\ mType[p] = "long"
    <3>1. p \in Left(o)
      BY <1>1, <2>3 DEF Owners, Readable, Left
    <3>2. heap'[mValue[p]] = heap[mValue[p]]
      BY <3>1
    <3>3. QED
      BY <2>1, <2>2, <2>3, <3>2 DEF Holds, Content
  <2>4. CASE ~(Readable(p) /\ mType[p] = "long")
    BY <2>1, <2>2, <2>4 DEF Holds, Content
  <2>5. QED
    BY <2>3, <2>4
<1>2. CASE Victims(o) = {}
  BY <1>1, <1>2 DEF Val, Becomes
<1>3. CASE Victims(o) # {}
  <2>1. PICK q : Victims(o) = {q}
    BY <1>3, VictimsTypes
  <2>2. q \in Objects \ {o} /\ mType[q] = "long" /\ o \in damaged
    BY <2>1, VictimsTypes
  <2>3. mType'[q] = "long" /\ q \in damaged' /\ mType[o] = "long"
    BY <2>1, <2>2 DEF Inv, DamagedAreLong
  <2>4. Holds(q)' = "lost" /\ Holds(o) = "lost"
    BY <2>2, <2>3 DEF Holds, Readable, Usable
  <2>5. Holds(q) # "dead"
    BY <2>2, HoldsValue
  <2>6. Val' = [Val EXCEPT ![o] = Holds(o)', ![q] = "lost"]
    BY <1>1, <2>1, <2>2, <2>4 DEF Val
  <2>7. Val[q] # "dead" /\ Val[o] = "lost"
    BY <2>2, <2>4, <2>5 DEF Val
  <2>8. QED
    BY <2>2, <2>6, <2>7 DEF Becomes
<1>4. QED
  BY <1>2, <1>3

LEMMA StoreHolds ==
  ASSUME Inv, NEW o \in Objects, NEW h, Cleared(o, h),
         NEW type \in {"null", "scalar", "short", "dead"}, NEW bits,
         Store(o, h, type, bits)
  PROVE  Becomes(o, IF type = "dead" THEN "dead"
                    ELSE IF type = "null" THEN "null" ELSE bits)
<1>1. /\ mType'[o] = type /\ mValue'[o] = bits /\ heap' = h
      /\ damaged' = (damaged \ {o}) \cup Victims(o)
      /\ \A p \in Objects \ {o} : mType'[p] = mType[p] /\ mValue'[p] = mValue[p]
  BY DEF Store, Update, Inv, TypeOK
<1>2. Holds(o)' = IF type = "dead" THEN "dead"
                  ELSE IF type = "null" THEN "null" ELSE bits
  BY <1>1, VictimsTypes DEF Holds, Readable, Usable, Hollow, Content
<1>3. Becomes(o, Holds(o)')
  BY <1>1, OthersKeep DEF Cleared
<1>4. QED
  BY <1>2, <1>3

LEMMA AllocateHolds ==
  ASSUME Inv, NEW o \in Objects, NEW h, Cleared(o, h),
         NEW s \in Strings, Allocate(o, h, s)
  PROVE  Becomes(o, s)
<1>1. PICK b \in Blocks :
        /\ ~h[b].live
        /\ heap' = [h EXCEPT ![b] = [live |-> TRUE, cap |-> Length[s], str |-> s]]
        /\ mType' = [mType EXCEPT ![o] = "long"]
        /\ mValue' = [mValue EXCEPT ![o] = b]
        /\ damaged' = (damaged \ {o}) \cup Victims(o)
  BY DEF Allocate, Update
<1>2. /\ mType'[o] = "long" /\ mValue'[o] = b /\ b # NullPtr
      /\ \A p \in Objects \ {o} : mType'[p] = mType[p] /\ mValue'[p] = mValue[p]
  BY <1>1, UnionAssumption DEF Inv, TypeOK
<1>3. heap'[b].str = s /\ \A c \in Blocks \ {b} : heap'[c] = h[c]
  BY <1>1 DEF Cleared
<1>4. Holds(o)' = s
  BY <1>1, <1>2, <1>3, VictimsTypes DEF Holds, Readable, Usable, Hollow, Content
<1>5. \A p \in Left(o) : heap'[mValue[p]] = heap[mValue[p]]
  BY <1>1, <1>3, OwnersTypes DEF Cleared, Inv, ExclusiveOwner, Left
<1>6. Becomes(o, Holds(o)')
  BY <1>1, <1>2, <1>5, OthersKeep
<1>7. QED
  BY <1>4, <1>6

LEMMA FailHolds ==
  ASSUME Inv, NEW o \in Objects, NEW h, Cleared(o, h),
         NEW tag, tag = "long" \/ tag = mType[o], AllocationFails(o, h, tag)
  PROVE  Val' = Val \/ Becomes(o, "lost")
<1>1. /\ mType' = [mType EXCEPT ![o] = tag]
      /\ mValue' = mValue /\ heap' = h
      /\ damaged' = damaged \cup Victims(o)
                      \cup (IF tag = "long" /\ mValue[o] # NullPtr THEN {o} ELSE {})
  BY DEF AllocationFails
<1>2. /\ mType'[o] = tag
      /\ \A p \in Objects \ {o} :
           /\ mType'[p] = mType[p]
           /\ p \in damaged' <=> p \in damaged \/ p \in Victims(o)
  BY <1>1 DEF Inv, TypeOK
<1>3. Becomes(o, Holds(o)')
  BY <1>1, <1>2, OthersKeep DEF Cleared
<1>4. CASE tag = "long"
  <2>1. Holds(o)' = "lost"
    BY <1>1, <1>2, <1>4 DEF Holds, Readable, Usable, Hollow
  <2>2. QED
    BY <1>3, <2>1
<1>5. CASE tag # "long"
  <2>1. o \notin damaged /\ Victims(o) = {}
    BY <1>5, VictimsTypes DEF Inv, DamagedAreLong
  <2>2. Holds(o)' = Holds(o)
    BY <1>1, <1>2, <1>5, <2>1 DEF Holds, Readable, Usable, Hollow, Content
  <2>3. Holds(o) # "lost" \/ Holds(o)' = "lost"
    BY <2>2
  <2>4. Val' = Val \/ Becomes(o, "lost")
    <3>1. CASE Val' = [Val EXCEPT ![o] = Holds(o)']
      BY <2>2, <3>1 DEF Val
    <3>2. CASE Val[o] = "lost"
      <4>1. Holds(o)' = "lost"
        BY <2>2, <3>2 DEF Val
      <4>2. QED
        BY <1>3, <4>1
    <3>3. QED
      BY <1>3, <3>1, <3>2 DEF Becomes
  <2>5. QED
    BY <2>4
<1>6. QED
  BY <1>4, <1>5

LEMMA InPlaceHolds ==
  ASSUME Inv, NEW o \in Objects, NEW s \in Strings, SetStrInPlace(o, s)
  PROVE  Becomes(o, s)
<1>1. /\ heap' = [heap EXCEPT ![mValue[o]].str = s]
      /\ UNCHANGED <<mType, mValue, damaged>>
      /\ o \in Owners
  BY DEF SetStrInPlace, KeepsBlock, Owners, Hollow
<1>2. mValue[o] \in Blocks /\ heap \in [Blocks -> Cells]
  BY <1>1, OwnersTypes DEF Inv, TypeOK
<1>3. /\ \A p \in Left(o) : heap'[mValue[p]] = heap[mValue[p]]
      /\ Victims(o) = {}
  BY <1>1, <1>2, OwnersTypes, VictimsTypes DEF Inv, ExclusiveOwner, Left
<1>4. heap'[mValue[o]].str = s
  BY <1>1, <1>2 DEF Cells
<1>5. Holds(o)' = s
  BY <1>1, <1>4 DEF Holds, Readable, Usable, Hollow, Content, Owners
<1>6. Becomes(o, Holds(o)')
  BY <1>1, <1>3, OthersKeep
<1>7. QED
  BY <1>5, <1>6

(* The steps of Abstract in terms of Val.                                  *)
LEMMA AbstractSteps ==
  ASSUME NEW o \in Objects
  PROVE  /\ \A v \in Abstract!Values :
              /\ Val[o] = "dead" /\ Becomes(o, v) => Abstract!Next
              /\ Val[o] # "dead" /\ Becomes(o, v) => Abstract!Next
         /\ Val[o] # "dead" /\ Becomes(o, "dead") => Abstract!Next
         /\ Val[o] # "dead" /\ Becomes(o, "lost") => Abstract!Next
<1>1. ASSUME NEW x, Val[o] # "dead", Becomes(o, x) PROVE Abstract!Write(o, x)
  <2>1. CASE Val' = [Val EXCEPT ![o] = x]
    BY <1>1, <2>1 DEF Abstract!Write, Abstract!Dead, Val
  <2>2. CASE ~(Val' = [Val EXCEPT ![o] = x])
    BY <1>1, <2>2 DEF Becomes, Abstract!Write, Abstract!Dead, Abstract!Lost, Val
  <2>3. QED
    BY <2>1, <2>2
<1>2. ASSUME NEW x, Val[o] = "dead", Becomes(o, x) PROVE Abstract!Construct(o, x)
  BY <1>2 DEF Becomes, Abstract!Construct, Abstract!Dead, Val
<1>3. QED
  BY <1>1, <1>2 DEF Abstract!Next, Abstract!Destroy, Abstract!Fail, Abstract!Dead,
     Abstract!Lost

LEMMA ValueStep == Inv /\ [Next]_vars => Abstract!Next \/ UNCHANGED Val
<1> SUFFICES ASSUME Inv, [Next]_vars PROVE Abstract!Next \/ UNCHANGED Val
  OBVIOUS
<1>1. CASE UNCHANGED vars
  BY <1>1 DEF vars, Val, Holds, Readable, Usable, Hollow, Content
<1>2. \A o \in Objects : /\ mType[o] = "dead" => Val[o] = "dead"
                         /\ mType[o] # "dead" => Val[o] # "dead"
  BY HoldsValue DEF Val
<1>3. /\ "null" \in Abstract!Values
      /\ Strings \subseteq Abstract!Values /\ Scalars \subseteq Abstract!Values
  BY DEF Abstract!Values, Abstract!Null
<1>4. ASSUME NEW o \in Objects, Deletable(o)
      PROVE  Val[o] # "dead" /\ Cleared(o, Deleted(o))
  BY <1>2, <1>4, DeletableCleared DEF Deletable
<1>5. ASSUME NEW o \in Objects, Construct(o) \/ Destroy(o) \/ SetNull(o)
      PROVE  Abstract!Next
  <2>1. CASE Construct(o)
    BY <1>2, <1>3, <2>1, DeadCleared, StoreHolds, AbstractSteps DEF Construct
  <2>2. CASE Destroy(o)
    BY <1>4, <2>2, StoreHolds, AbstractSteps DEF Destroy
  <2>3. CASE SetNull(o)
    BY <1>3, <1>4, <2>3, StoreHolds, AbstractSteps DEF SetNull
  <2>4. QED
    BY <1>5, <2>1, <2>2, <2>3
<1>6. ASSUME NEW o \in Objects, NEW v \in Scalars,
             ConstructScalar(o, v) \/ SetScalar(o, v)
      PROVE  Abstract!Next
  <2>1. CASE ConstructScalar(o, v)
    <3>1. Val[o] = "dead" /\ Becomes(o, v)
      BY <1>2, <2>1, DeadCleared, StoreHolds DEF ConstructScalar
    <3>2. QED
      BY <1>3, <3>1, AbstractSteps
  <2>2. CASE SetScalar(o, v)
    <3>1. Val[o] # "dead" /\ Becomes(o, v)
      BY <1>4, <2>2, StoreHolds DEF SetScalar
    <3>2. QED
      BY <1>3, <3>1, AbstractSteps
  <2>3. QED
    BY <1>6, <2>1, <2>2
<1>7. ASSUME NEW o \in Objects, NEW s \in Strings,
             ConstructStr(o, s) \/ SetStrInPlace(o, s) \/ SetStr(o, s)
      PROVE  Abstract!Next \/ UNCHANGED Val
  <2>1. CASE ConstructStr(o, s)
    <3>1. Val[o] = "dead" /\ Becomes(o, s)
      BY <1>2, <2>1, DeadCleared, StoreHolds, AllocateHolds DEF ConstructStr
    <3>2. QED
      BY <1>3, <3>1, AbstractSteps
  <2>2. CASE SetStrInPlace(o, s)
    <3>1. Val[o] # "dead" /\ Becomes(o, s)
      BY <1>2, <2>2, InPlaceHolds DEF SetStrInPlace, Usable
    <3>2. QED
      BY <1>3, <3>1, AbstractSteps
  <2>3. CASE SetStr(o, s)
    <3>1. Deletable(o)
      BY <2>3 DEF SetStr
    <3>2. \/ Becomes(o, s)
          \/ Val' = Val
          \/ Becomes(o, "lost")
      BY <1>4, <2>3, <3>1, StoreHolds, AllocateHolds, FailHolds DEF SetStr
    <3>3. QED
      BY <1>3, <1>4, <3>1, <3>2, AbstractSteps
  <2>4. QED
    BY <1>7, <2>1, <2>2, <2>3
<1>8. ASSUME NEW o \in Objects, NEW p \in Objects, CopyConstruct(o, p)
      PROVE  Abstract!Next
  <2>1. /\ Readable(p) /\ mType[o] = "dead" /\ o \notin damaged
        /\ Cleared(o, heap) /\ Content(p) \in Abstract!Values
    BY <1>8, DeadCleared, HoldsValue DEF CopyConstruct
  <2>2. Becomes(o, Content(p))
    <3>1. CASE mType[p] = "long"
      <4>1. Content(p) \in Strings
        BY <2>1, <3>1, ReadableTypes DEF Content
      <4>2. QED
        BY <1>8, <2>1, <3>1, <4>1, AllocateHolds DEF CopyConstruct
    <3>2. CASE mType[p] # "long"
      <4>1. mType[p] \in {"null", "scalar", "short"}
        BY <2>1, <3>2, ReadableTypes
      <4>2. Content(p) = IF mType[p] = "null" THEN "null" ELSE mValue[p]
        BY <3>2 DEF Content
      <4>3. Store(o, heap, mType[p], mValue[p])
        BY <1>8, <3>2 DEF CopyConstruct
      <4>4. Becomes(o, IF mType[p] = "dead" THEN "dead"
                         ELSE IF mType[p] = "null" THEN "null" ELSE mValue[p])
        BY <2>1, <4>1, <4>3, StoreHolds
      <4>5. QED
        BY <4>1, <4>2, <4>4
    <3>3. QED
      BY <3>1, <3>2
  <2>3. QED
    BY <1>2, <2>1, <2>2, AbstractSteps
<1>9. ASSUME NEW o \in Objects, NEW p \in Objects, Assign(o, p)
      PROVE  Abstract!Next \/ UNCHANGED Val
  <2> DEFINE h == Deleted(o)
  <2>1. /\ Readable(p) /\ o # p /\ p \notin Victims(o)
        /\ Content(p) \in Abstract!Values
        /\ Val[o] # "dead" /\ Cleared(o, h)
    BY <1>4, <1>9, HoldsValue DEF Assign, Self
  <2>2. CASE mType[p] = "long"
    <3>1. h[mValue[p]].str = Content(p) /\ Content(p) \in Strings
      BY <2>1, <2>2, ReadableTypes DEF Cleared, Content, Left
    <3>2. CASE Allocate(o, h, h[mValue[p]].str)
      <4>1. Becomes(o, Content(p))
        BY <2>1, <3>1, <3>2, AllocateHolds
      <4>2. QED
        BY <2>1, <4>1, AbstractSteps
    <3>3. CASE AllocationFails(o, h, "long")
      <4>1. Val' = Val \/ Becomes(o, "lost")
        BY <2>1, <3>3, FailHolds
      <4>2. QED
        BY <2>1, <4>1, AbstractSteps
    <3>4. QED
      BY <1>9, <2>2, <3>2, <3>3 DEF Assign
  <2>3. CASE mType[p] # "long"
    <3>1. mType[p] \in {"null", "scalar", "short"}
      BY <2>1, <2>3, ReadableTypes
    <3>2. Content(p) = IF mType[p] = "null" THEN "null" ELSE mValue[p]
      BY <2>3 DEF Content
    <3>3. Store(o, h, mType[p], mValue[p])
      BY <1>9, <2>3 DEF Assign
    <3>4. Becomes(o, IF mType[p] = "dead" THEN "dead"
                         ELSE IF mType[p] = "null" THEN "null" ELSE mValue[p])
      BY <2>1, <3>1, <3>3, StoreHolds
    <3>5. Becomes(o, Content(p))
      BY <3>1, <3>2, <3>4
    <3>6. QED
      BY <2>1, <3>5, AbstractSteps
  <2>4. QED
    BY <2>2, <2>3
<1>10. ASSUME NEW o \in Objects, NEW p \in Objects, SelfAssign(o, p)
       PROVE  UNCHANGED Val
  BY <1>10 DEF SelfAssign, vars, Val, Holds, Readable, Usable, Hollow, Content
<1>11. ASSUME NEW o \in Objects, Misuse(o) PROVE UNCHANGED Val
  BY <1>11 DEF Misuse, Val, Holds, Readable, Usable, Hollow, Content
<1>12. QED
  BY <1>1, <1>5, <1>6, <1>7, <1>8, <1>9, <1>10, <1>11 DEF Next

(* The union and its blocks implement values that are independent of each  *)
(* other: what is read is what was written last, copies included.  Once an *)
(* allocation has failed an operation on the object it failed for can cost *)
(* one other object its value, and so on, as Value says.                   *)
THEOREM ValueRsltImplementsValue == Spec => ImplementsValue
<1>1. Init => Abstract!Init
  BY DEF Init, Abstract!Init, Holds, Abstract!Dead
<1>2. Spec => []Inv
  BY InvInit, InvStep, PTL DEF Spec
<1>3. Inv /\ [Next]_vars => [Abstract!Next]_[o \in Objects |-> Holds(o)]
  BY ValueStep DEF Val
<1>4. QED
  BY <1>1, <1>2, <1>3, PTL DEF Spec, ImplementsValue, Abstract!Spec
=============================================================================
