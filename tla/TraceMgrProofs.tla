-------------------------- MODULE TraceMgrProofs --------------------------
(***************************************************************************)
(* Proofs about the configuration file and the threads that follow it      *)
(* (TraceMgr), for any sizes, edits, seconds and watching threads: the     *)
(* types, and that an edit is overlooked in the blind spot only.           *)
(***************************************************************************)
EXTENDS TraceMgr, TLAPS

(* A call of config() starts its own thread, at its end.                   *)
CalledInv ==
  /\ \A w \in Watchers : w > configs => pc[w] = "none"
  /\ pc[Main] # "idle" => configs \in Watchers /\ pc[configs] = "none"

TypeInv == TypeOK /\ CalledInv

FileType(e) == [version : 0 .. e, mtime : 0 .. now, size : Sizes \cup {0},
                valid : BOOLEAN, link : 0 .. now]

-----------------------------------------------------------------------------
(***************************************************************************)
(* Why an edit is seen.  A file carries the second of its last edit, or is *)
(* a link younger than what it points to.  What is stored, or is about to  *)
(* be, was asked for no earlier than the time it names.  As long as the    *)
(* logger is behind an edit that fell into no load, nobody has asked since *)
(* the edit: whoever reads now reads the newest version and configures     *)
(* the logger with it before he asks.                                      *)
(***************************************************************************)
MarkedInv == Exists => file.mtime = editedAt \/ file.link > file.mtime

AskedInv == /\ \A l \in Loaders : fi[l].mtime =< askedAt[l]
            /\ \E l \in Loaders : mLastFileInfo.mtime =< askedAt[l]

ReadInv == ~ raced => \A l \in Loaders :
                        pc[l] = "configure" => properties[l] = file.version

BehindInv == ~ raced /\ logger # file.version =>
               \A l \in Loaders : pc[l] # "stat" /\ askedAt[l] =< editedAt

SeenInv == MarkedInv /\ AskedInv /\ ReadInv /\ BehindInv

-----------------------------------------------------------------------------
(***************************************************************************)
(* Types.                                                                  *)
(***************************************************************************)
USE DEF Main, Watchers, Loaders, Seconds, Fields

LEMMA InitTypes == Init => TypeInv
PROOF
<1> SUFFICES ASSUME Init PROVE TypeInv  OBVIOUS
<1> USE BoundsAssumption DEF Init
<1>1. PICK s \in Sizes, b \in BOOLEAN :
         \/ file = NoFile
         \/ file = [version |-> 1, mtime |-> 1, size |-> s, valid |-> b, link |-> 0]
  OBVIOUS
<1>4. file \in FileType(edits) /\ edits \in 0 .. MaxEdits \cup {1}
  <2>1. CASE file = NoFile
    BY <2>1 DEF FileType, NoFile
  <2>2. CASE file = [version |-> 1, mtime |-> 1, size |-> s, valid |-> b, link |-> 0]
    BY <2>2 DEF FileType
  <2>3. QED  BY <1>1, <2>1, <2>2
<1>2. mLastFileInfo \in FileInfo /\ fi \in [Loaders -> FileInfo]
  BY DEF FileInfo, NoInfo
<1>3. /\ now \in Seconds /\ editedAt \in 1 .. now /\ raced \in BOOLEAN
      /\ configs \in 0 .. MaxConfigs /\ threads \subseteq Watchers
      /\ askedAt \in [Loaders -> 0 .. now]
  <2>1. now = 1 /\ editedAt = 1 /\ raced = FALSE /\ configs = 0 /\ threads = {}
    OBVIOUS
  <2>2. askedAt = [l \in Loaders |-> 0]  OBVIOUS
  <2>3. MaxTime \in Nat \ {0} /\ MaxConfigs \in Nat  OBVIOUS
  <2>4. now \in Seconds /\ editedAt \in 1 .. now  BY <2>1, <2>3
  <2>5. raced \in BOOLEAN /\ threads \subseteq Watchers  BY <2>1, Zenon
  <2>6. configs \in 0 .. MaxConfigs  BY <2>1, <2>3
  <2>7. askedAt \in [Loaders -> 0 .. now]  BY <2>1, <2>2
  <2>8. QED  BY <2>4, <2>5, <2>6, <2>7
<1>5. edits \in {0, 1} /\ logger \in 0 .. edits /\ properties \in [Loaders -> 0 .. edits]
  <2>1. edits \in {0, 1}  BY <1>1 DEF NoFile
  <2>2. QED  BY <2>1
<1>6. /\ pc \in [Loaders -> {"none", "idle", "read", "configure", "stat", "store",
                            "thread", "sleep"}]
      /\ todo \in [Loaders -> SUBSET Fields]
      /\ \A l \in Loaders : todo[l] # {} <=> pc[l] = "store"
      /\ pc[Main] = "idle" /\ \A w \in Watchers : pc[w] = "none"
  OBVIOUS
<1>7. QED  BY ONLY <1>2, <1>3, <1>4, <1>5, <1>6 DEF TypeInv, TypeOK, CalledInv, FileType

(* What every edit does to the types.                                      *)
LEMMA ChangeTypes ==
  ASSUME TypeInv, NEW f \in FileType(edits + 1), Change(f)
  PROVE  TypeInv'
PROOF
<1> USE BoundsAssumption DEF TypeInv, TypeOK, Change, FileType
<1>1. edits \in Nat /\ edits' = edits + 1 /\ edits' \in 0 .. MaxEdits
  OBVIOUS
<1>2. file' = f /\ UNCHANGED <<now, loadVars>>
  OBVIOUS
<1>3. logger' \in 0 .. edits' /\ properties' \in [Loaders -> 0 .. edits']
  BY <1>1 DEF loadVars
<1>4. CalledInv' /\ mLastFileInfo' \in FileInfo' /\ fi' \in [Loaders -> FileInfo']
  BY DEF CalledInv, loadVars, FileInfo
<1>5. QED  BY <1>1, <1>2, <1>3, <1>4 DEF loadVars

LEMMA StepTypes == TypeInv /\ [Next]_vars => TypeInv'
PROOF
<1> SUFFICES ASSUME TypeInv, [Next]_vars PROVE TypeInv'  OBVIOUS
<1>1. CASE Tick
  BY <1>1, BoundsAssumption DEF Tick, CalledInv, fileVars, loadVars, TypeInv,
       TypeOK, FileInfo
<1>e. /\ now \in Nat /\ edits \in Nat /\ 1 =< now
      /\ file.link \in 0 .. now
  BY BoundsAssumption DEF TypeInv, TypeOK
<1>2. ASSUME NEW s \in Sizes, NEW b \in BOOLEAN, Write(s, b) PROVE TypeInv'
  <2> DEFINE f == [version |-> edits + 1, mtime |-> now, size |-> s, valid |-> b,
                   link |-> file.link]
  <2>1. f \in FileType(edits + 1)  BY <1>e DEF FileType
  <2>2. Change(f)  BY <1>2 DEF Write
  <2>3. QED  BY <2>1, <2>2, ChangeTypes
<1>3. ASSUME NEW s \in Sizes, NEW k \in 1 .. now, Relink(s, k) PROVE TypeInv'
  <2> DEFINE f == [version |-> edits + 1, mtime |-> k, size |-> s, valid |-> TRUE,
                   link |-> now]
  <2>1. f \in FileType(edits + 1)  BY <1>e DEF FileType
  <2>2. Change(f)  BY <1>3 DEF Relink
  <2>3. QED  BY <2>1, <2>2, ChangeTypes
<1>4. CASE Delete
  <2>1. NoFile \in FileType(edits + 1)  BY <1>e DEF FileType, NoFile
  <2>2. Change(NoFile)  BY <1>4 DEF Delete
  <2>3. QED  BY <2>1, <2>2, ChangeTypes
<1> USE BoundsAssumption DEF TypeInv, TypeOK, FileInfo
<1>5. CASE Config
  BY <1>5 DEF Config, CalledInv, fileVars
<1>6. ASSUME NEW watch \in BOOLEAN, StartThread(watch) PROVE TypeInv'
  <2>1. configs \in Watchers /\ pc[configs] = "none"
    BY <1>6 DEF StartThread, CalledInv
  <2>2. /\ pc' \in [Loaders -> {"none", "idle", "read", "configure", "stat", "store",
                               "thread", "sleep"}]
        /\ pc'[Main] = "idle"
        /\ \A l \in Loaders : l # Main /\ l # configs => pc'[l] = pc[l]
        /\ pc'[configs] # "store" /\ pc[Main] # "store"
    BY <1>6, <2>1 DEF StartThread
  <2>3. \A l \in Loaders : pc'[l] = "store" <=> pc[l] = "store"
    BY <2>1, <2>2
  <2>4. CalledInv'
    BY <1>6, <2>1, <2>2 DEF StartThread, CalledInv
  <2>5. threads' \subseteq Watchers
    BY <1>6, <2>1 DEF StartThread
  <2>6. QED  BY <1>6, <2>2, <2>3, <2>4, <2>5 DEF StartThread, fileVars
<1>7. ASSUME NEW l \in Loaders, Step(l) PROVE TypeInv'
  <2> USE DEF CalledInv, fileVars
  <2>1. CASE Read(l)
    BY <2>1 DEF Read, AfterThrow, AfterLoad
  <2>2. CASE Configure(l)
    BY <2>2 DEF Configure
  <2>3. CASE Stat(l)
    <3>1. CASE Exists
      <4>1. [mtime |-> file.mtime, size |-> file.size] \in FileInfo
        <5>1. now \in 0 .. MaxTime /\ file.mtime \in 0 .. now /\ file.size \in Sizes \cup {0}
          OBVIOUS
        <5>2. file.mtime \in 0 .. MaxTime  BY <5>1
        <5>3. QED  BY <5>1, <5>2
      <4>2. fi' \in [Loaders -> FileInfo']  BY <2>3, <3>1, <4>1 DEF Stat
      <4>3. /\ pc' = [pc EXCEPT ![l] = "store"] /\ todo' = [todo EXCEPT ![l] = Fields]
            /\ askedAt' = [askedAt EXCEPT ![l] = now]
            /\ pc[l] = "stat"
        BY <2>3, <3>1 DEF Stat
      <4>4. UNCHANGED <<now, fileVars, logger, mLastFileInfo, properties, configs,
                        threads>>
        BY <2>3 DEF Stat
      <4>5. CalledInv'  BY <4>3, <4>4
      <4>6. askedAt' \in [Loaders -> 0 .. now']  BY <4>3, <4>4
      <4>7. QED  BY <4>2, <4>3, <4>4, <4>5, <4>6
    <3>2. CASE ~ Exists
      <4>1. /\ pc[l] = "stat"
            /\ pc' = [pc EXCEPT ![l] = IF l = Main THEN "thread" ELSE "sleep"]
            /\ UNCHANGED <<fi, todo, askedAt, now, fileVars, logger, mLastFileInfo,
                           properties, configs, threads>>
        BY <2>3, <3>2 DEF Stat, AfterLoad
      <4>2. CalledInv'  BY <4>1
      <4>3. QED  BY <4>1, <4>2
    <3>3. QED  BY <3>1, <3>2
  <2>4. ASSUME NEW f \in Fields, Store(l, f) PROVE TypeInv'
    BY <2>4 DEF Store, AfterLoad, NoInfo
  <2>5. CASE Poll(l)
    BY <2>5 DEF Poll
  <2>6. QED  BY <1>7, <2>1, <2>2, <2>3, <2>4, <2>5 DEF Step
<1>8. CASE UNCHANGED vars
  BY <1>8 DEF CalledInv, vars, fileVars, loadVars
<1>9. QED  BY <1>1, <1>2, <1>3, <1>4, <1>5, <1>6, <1>7, <1>8 DEF Next

(* Whatever is edited and loaded, the file, what is known of it and what   *)
(* the loaders hold keep their types (TraceMgr.cpp:88-198).                *)
THEOREM TypeCorrect == Spec => []TypeOK
PROOF
<1>1. TypeInv => TypeOK  BY DEF TypeInv
<1>2. QED  BY <1>1, InitTypes, StepTypes, PTL DEF Spec

-----------------------------------------------------------------------------
(***************************************************************************)
(* The blind spot.                                                         *)
(***************************************************************************)
LEMMA InitSeen == Init => SeenInv
PROOF
<1> SUFFICES ASSUME Init PROVE SeenInv  OBVIOUS
<1> USE DEF Init
<1>1. MarkedInv
  BY DEF MarkedInv, Exists, NoFile
<1>2. AskedInv
  BY DEF AskedInv, NoInfo
<1>3. ReadInv /\ BehindInv
  BY DEF ReadInv, BehindInv
<1>4. QED  BY <1>1, <1>2, <1>3 DEF SeenInv

(* An edit that falls into no load finds nobody between read and stat, and *)
(* everybody who asked did so before.                                      *)
LEMMA ChangeSeen ==
  ASSUME TypeInv, SeenInv, NEW f, Change(f),
         f.version = 0 \/ f.mtime = now \/ f.link > f.mtime
  PROVE  SeenInv'
PROOF
<1> USE DEF TypeInv, TypeOK, SeenInv, Change
<1>1. MarkedInv'
  BY DEF MarkedInv, Exists
<1>2. AskedInv'
  BY DEF AskedInv, loadVars
<1>3. ~ raced' => \A l \in Loaders : pc'[l] # "configure" /\ pc'[l] # "stat"
  BY DEF Loading, loadVars
<1>4. \A l \in Loaders : askedAt'[l] =< editedAt'
  BY DEF loadVars
<1>5. ReadInv' /\ BehindInv'
  BY <1>3, <1>4 DEF ReadInv, BehindInv
<1>6. QED  BY <1>1, <1>2, <1>5

LEMMA StepSeen == TypeInv /\ SeenInv /\ [Next]_vars => SeenInv'
PROOF
<1> SUFFICES ASSUME TypeInv, SeenInv, [Next]_vars PROVE SeenInv'  OBVIOUS
<1> USE DEF TypeInv, TypeOK, SeenInv, Exists
<1>1. CASE Tick
  BY <1>1 DEF Tick, fileVars, loadVars, MarkedInv, AskedInv, ReadInv, BehindInv
<1>2. ASSUME NEW s \in Sizes, NEW b \in BOOLEAN, Write(s, b) PROVE SeenInv'
  BY <1>2, ChangeSeen DEF Write
<1>3. ASSUME NEW s \in Sizes, NEW k \in 1 .. now, Relink(s, k) PROVE SeenInv'
  <2>1. k = now \/ now > k
    OBVIOUS
  <2>2. QED  BY <1>3, <2>1, ChangeSeen DEF Relink
<1>4. CASE Delete
  BY <1>4, ChangeSeen DEF Delete, NoFile
<1>5. CASE Config
  BY <1>5 DEF Config, fileVars, MarkedInv, AskedInv, ReadInv, BehindInv
<1>6. ASSUME NEW watch \in BOOLEAN, StartThread(watch) PROVE SeenInv'
  BY <1>6 DEF StartThread, fileVars, MarkedInv, AskedInv, ReadInv, BehindInv
<1>7. ASSUME NEW l \in Loaders, Step(l) PROVE SeenInv'
  <2>1. CASE Read(l)
    BY <2>1 DEF Read, AfterThrow, AfterLoad, fileVars, MarkedInv, AskedInv,
         ReadInv, BehindInv
  <2>2. CASE Configure(l)
    <3>1. MarkedInv' /\ AskedInv'
      BY <2>2 DEF Configure, fileVars, MarkedInv, AskedInv
    <3>2. ReadInv'
      BY <2>2 DEF Configure, fileVars, ReadInv
    <3>3. ~ raced' => logger' = file'.version
      BY <2>2 DEF Configure, fileVars, ReadInv
    <3>4. QED  BY <3>1, <3>2, <3>3 DEF BehindInv
  <2>3. CASE Stat(l)
    <3>1. MarkedInv' /\ ReadInv'
      BY <2>3 DEF Stat, AfterLoad, fileVars, MarkedInv, ReadInv
    <3>2. AskedInv'
      <4>1. CASE Exists
        <5>1. file.mtime =< now /\ (\A k \in Loaders : askedAt[k] =< now)
          OBVIOUS
        <5>2. \A k \in Loaders : fi'[k].mtime =< askedAt'[k] /\ askedAt[k] =< askedAt'[k]
          BY <2>3, <4>1, <5>1 DEF Stat, AskedInv
        <5>3. QED  BY <2>3, <5>2 DEF Stat, AskedInv, FileInfo
      <4>2. CASE ~ Exists
        BY <2>3, <4>2 DEF Stat, AskedInv
      <4>3. QED  BY <4>1, <4>2
    <3>3. ~ raced' => logger' = file'.version
      BY <2>3 DEF Stat, fileVars, BehindInv
    <3>4. QED  BY <3>1, <3>2, <3>3 DEF BehindInv
  <2>4. ASSUME NEW f \in Fields, Store(l, f) PROVE SeenInv'
    <3>1. MarkedInv' /\ ReadInv' /\ BehindInv'
      BY <2>4 DEF Store, AfterLoad, fileVars, MarkedInv, ReadInv, BehindInv
    <3>2. mLastFileInfo'.mtime \in {mLastFileInfo.mtime, fi[l].mtime}
      BY <2>4 DEF Store, FileInfo
    <3>3. \A k \in Loaders : fi'[k].mtime =< askedAt'[k]
      BY <2>4 DEF Store, AskedInv, NoInfo
    <3>4. AskedInv'
      BY <2>4, <3>2, <3>3 DEF Store, AskedInv
    <3>5. QED  BY <3>1, <3>4
  <2>5. CASE Poll(l)
    BY <2>5 DEF Poll, fileVars, MarkedInv, AskedInv, ReadInv, BehindInv
  <2>6. QED  BY <1>7, <2>1, <2>2, <2>3, <2>4, <2>5 DEF Step
<1>8. CASE UNCHANGED vars
  BY <1>8 DEF vars, fileVars, loadVars, MarkedInv, AskedInv, ReadInv, BehindInv
<1>9. QED  BY <1>1, <1>2, <1>3, <1>4, <1>5, <1>6, <1>7, <1>8 DEF Next

(* The logger is behind an edit that fell into no load, and the file does  *)
(* not look modified: then what is stored bears the second of the edit, so *)
(* that somebody asked in that very second, and the sizes are the same.    *)
LEMMA SeenGivesBlindSpot == TypeInv /\ SeenInv => BlindSpot
PROOF
<1> SUFFICES ASSUME TypeInv, SeenInv, Stale, ~ Modified, ~ raced
             PROVE  /\ file.size = mLastFileInfo.size
                    /\ \E l \in Loaders : askedAt[l] = editedAt
  BY DEF BlindSpot
<1> USE DEF TypeInv, TypeOK, SeenInv, Stale
<1>1. Exists /\ file.mtime =< mLastFileInfo.mtime /\ file.size = mLastFileInfo.size
  BY DEF Modified, FileInfo
<1>2. file.mtime = editedAt
  BY <1>1 DEF Modified, MarkedInv
<1>3. PICK l \in Loaders : mLastFileInfo.mtime =< askedAt[l]
  BY DEF AskedInv
<1>4. askedAt[l] =< editedAt
  BY DEF BehindInv
<1>5. askedAt[l] = editedAt
  <2>1. mLastFileInfo.mtime \in Int /\ editedAt \in Int /\ askedAt[l] \in Int
    BY DEF FileInfo
  <2>2. editedAt =< mLastFileInfo.mtime
    BY <1>1, <1>2
  <2>3. QED  BY ONLY <1>3, <1>4, <2>1, <2>2
<1>6. QED  BY <1>1, <1>5

(* However many threads load the file, whichever loads fail and whatever   *)
(* they store over one another, an edit is overlooked only between read    *)
(* and stat (TraceMgr.cpp:173, 190) or in the second of a stat, with the   *)
(* size left alone (140).                                                  *)
THEOREM EditsAreSeen == Spec => []BlindSpot
PROOF
<1>1. Init => TypeInv /\ SeenInv
  BY InitTypes, InitSeen
<1>2. TypeInv /\ SeenInv /\ [Next]_vars => (TypeInv /\ SeenInv)'
  BY StepTypes, StepSeen
<1>3. QED  BY <1>1, <1>2, SeenGivesBlindSpot, PTL DEF Spec

=============================================================================
