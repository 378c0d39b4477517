----------------------------- MODULE TraceMgr -----------------------------
(***************************************************************************)
(* OmnTraceMgr (src/src/TraceMgr/TraceMgr.cpp): the logger's configuration *)
(* file and the threads that follow it.                                    *)
(*                                                                         *)
(* config() loads the file and may start a thread that looks at the file   *)
(* every mWaitSec seconds and loads it again when it seems changed.  To    *)
(* load is to read the properties, to configure the logger with them and   *)
(* then to ask for the file's time and size: somebody may edit the file    *)
(* between any two of these.  Every call of config() starts a thread of    *)
(* its own, and mLastFileInfo is shared by all of them without a lock.     *)
(*                                                                         *)
(* Times are whole seconds, as st_mtime is.  An editor that writes a file  *)
(* in pieces is one that edits it several times.                           *)
(***************************************************************************)
EXTENDS Integers, FiniteSets

CONSTANTS Sizes,       \* sizes the file may have
          MaxEdits,    \* bound: changes of the file
          MaxTime,     \* bound: the last second of the clock
          MaxConfigs   \* bound: calls of config()

ASSUME BoundsAssumption ==
  /\ MaxEdits \in Nat
  /\ MaxTime \in Nat \ {0}
  /\ MaxConfigs \in Nat

ASSUME SizesAssumption == Sizes # {}

Main    == 0                  \* the caller of config()
Watchers == 1 .. MaxConfigs   \* the thread the n-th call starts
Loaders == {Main} \cup Watchers
Seconds == 1 .. MaxTime
Fields  == {"mtime", "size"}

VARIABLES
  now,           \* the clock
  file,          \* the file; version 0: there is none
  edits,         \* changes so far; the n-th gives the file version n
  logger,        \* the version the logger is configured with
  mLastFileInfo, \* what the last load found
  pc,            \* pc[l]: what loader l does next
  properties,    \* properties[l]: the version l has read, 0 out of scope
  fi,            \* fi[l]: the time and size l asked for, likewise
  todo,          \* todo[l]: the fields of mLastFileInfo l has to store
  configs,       \* calls of config() so far
  threads        \* the threads started; mThread is the last of them

(* Auxiliary variables, never read by a guard.                             *)
VARIABLES
  editedAt,      \* the second of the last change
  raced,         \* the last change fell into a load, between read and stat
  askedAt        \* askedAt[l]: the second in which l last asked

loadVars == <<logger, mLastFileInfo, pc, properties, fi, todo, configs, threads,
              askedAt>>
fileVars == <<file, edits, editedAt, raced>>
vars     == <<now, fileVars, loadVars>>

NoInfo == [mtime |-> 0, size |-> 0]
NoFile == [version |-> 0, mtime |-> 0, size |-> 0, valid |-> TRUE, link |-> 0]
Exists == file.version # 0

(* mLastFileInfo's time starts at the epoch; its size is not initialised.  *)
Init ==
  /\ now = 1
  /\ \E s \in Sizes, b \in BOOLEAN :
       file \in {NoFile, [version |-> 1, mtime |-> 1, size |-> s,
                          valid |-> b, link |-> 0]}
  /\ edits = file.version
  /\ logger = 0
  /\ \E s \in Sizes : mLastFileInfo = [mtime |-> 0, size |-> s]
  /\ pc = [l \in Loaders |-> IF l = Main THEN "idle" ELSE "none"]
  /\ properties = [l \in Loaders |-> 0]
  /\ fi = [l \in Loaders |-> NoInfo]
  /\ todo = [l \in Loaders |-> {}]
  /\ configs = 0
  /\ threads = {}
  /\ editedAt = 1
  /\ raced = FALSE
  /\ askedAt = [l \in Loaders |-> 0]

(***************************************************************************)
(* The environment: the clock and whoever edits the file.                  *)
(***************************************************************************)
Tick == now < MaxTime /\ now' = now + 1 /\ UNCHANGED <<fileVars, loadVars>>

Loading(l) == pc[l] \in {"configure", "stat"}

Change(f) ==
  /\ edits < MaxEdits
  /\ edits' = edits + 1
  /\ file' = f
  /\ editedAt' = now
  /\ raced' = \E l \in Loaders : Loading(l)
  /\ UNCHANGED <<now, loadVars>>

(* The file, or what it is a link to, is written.  It is valid when the    *)
(* program's name is found in every property that names a log file.        *)
Write(s, b) == Change([version |-> edits + 1, mtime |-> now, size |-> s,
                       valid |-> b, link |-> file.link])

(* The file becomes a link to some older file.                             *)
Relink(s, k) == Change([version |-> edits + 1, mtime |-> k, size |-> s,
                        valid |-> TRUE, link |-> now])

Delete == Exists /\ Change(NoFile)

(***************************************************************************)
(* initProperty(): read, configure, ask.                                   *)
(***************************************************************************)
(* config() goes on to look for its "TraceMgr" tag; a thread sleeps again. *)
MutantAfterLoad(l) == IF l = Main THEN "thread" ELSE "none"
AfterLoad(l) == IF l = Main THEN "thread" ELSE "sleep"

(* catch(...): the load is over with nothing to store.                     *)
AfterThrow(l) == AfterLoad(l)

(* Properties(mPropertyFilename); a missing file has no property.  When a  *)
(* log file is not named after the program, string::replace() throws.      *)
Read(l) ==
  /\ pc[l] = "read"
  /\ properties' = [properties EXCEPT ![l] = IF file.valid THEN file.version
                                                          ELSE 0]
  /\ pc' = [pc EXCEPT ![l] = IF file.valid THEN "configure" ELSE AfterThrow(l)]
  /\ UNCHANGED <<now, fileVars, logger, mLastFileInfo, fi, todo, configs,
                 threads, askedAt>>

Configure(l) ==
  /\ pc[l] = "configure"
  /\ logger' = properties[l]
  /\ properties' = [properties EXCEPT ![l] = 0]
  /\ pc' = [pc EXCEPT ![l] = "stat"]
  /\ UNCHANGED <<now, fileVars, mLastFileInfo, fi, todo, configs, threads,
                 askedAt>>

(* updateLastModInfo(): nothing is stored when the file is gone.           *)
Stat(l) ==
  /\ pc[l] = "stat"
  /\ IF Exists
       THEN /\ fi' = [fi EXCEPT ![l] = [mtime |-> file.mtime, size |-> file.size]]
            /\ todo' = [todo EXCEPT ![l] = Fields]
            /\ askedAt' = [askedAt EXCEPT ![l] = now]
            /\ pc' = [pc EXCEPT ![l] = "store"]
       ELSE /\ pc' = [pc EXCEPT ![l] = AfterLoad(l)]
            /\ UNCHANGED <<fi, todo, askedAt>>
  /\ UNCHANGED <<now, fileVars, logger, mLastFileInfo, properties, configs, threads>>

(* mLastFileInfo = fi, a field at a time and in any order.                 *)
Store(l, f) ==
  /\ pc[l] = "store"
  /\ f \in todo[l]
  /\ mLastFileInfo' = [mLastFileInfo EXCEPT ![f] = fi[l][f]]
  /\ todo' = [todo EXCEPT ![l] = @ \ {f}]
  /\ IF todo'[l] = {}
       THEN /\ pc' = [pc EXCEPT ![l] = AfterLoad(l)]
            /\ fi' = [fi EXCEPT ![l] = NoInfo]
       ELSE UNCHANGED <<pc, fi>>
  /\ UNCHANGED <<now, fileVars, logger, properties, configs, threads, askedAt>>

(***************************************************************************)
(* config() and threadFunc().                                              *)
(***************************************************************************)
Config ==
  /\ pc[Main] = "idle"
  /\ configs < MaxConfigs
  /\ configs' = configs + 1
  /\ pc' = [pc EXCEPT ![Main] = "read"]
  /\ UNCHANGED <<now, fileVars, logger, mLastFileInfo, properties, fi, todo,
                 threads, askedAt>>

(* With watch_property_change a thread is started, even if one runs.       *)
StartThread(watch) ==
  /\ pc[Main] = "thread"
  /\ pc' = [pc EXCEPT ![Main] = "idle",
                      ![configs] = IF watch THEN "sleep" ELSE @]
  /\ threads' = IF watch THEN threads \cup {configs} ELSE threads
  /\ UNCHANGED <<now, fileVars, logger, mLastFileInfo, properties, fi, todo,
                 configs, askedAt>>

(* checkForFileModification()                                              *)
MutantModified ==
  /\ Exists
  /\ \/ file.mtime > mLastFileInfo.mtime
     \/ file.link > file.mtime
Modified ==
  /\ Exists
  /\ \/ file.mtime > mLastFileInfo.mtime
     \/ file.size # mLastFileInfo.size
     \/ file.link > file.mtime

(* After its sleep a thread looks at the file.                             *)
Poll(l) ==
  /\ pc[l] = "sleep"
  /\ pc' = [pc EXCEPT ![l] = IF Modified THEN "read" ELSE "sleep"]
  /\ UNCHANGED <<now, fileVars, logger, mLastFileInfo, properties, fi, todo,
                 configs, threads, askedAt>>

Step(l) == \/ Read(l) \/ Configure(l) \/ Stat(l)
           \/ \E f \in Fields : Store(l, f)
           \/ Poll(l)

Next ==
  \/ Tick
  \/ \E s \in Sizes : (\E b \in BOOLEAN : Write(s, b))
                      \/ (\E k \in 1 .. now : Relink(s, k))
  \/ Delete
  \/ Config
  \/ \E watch \in BOOLEAN : StartThread(watch)
  \/ \E l \in Loaders : Step(l)

(* The watching threads run for ever: nothing stops them.                  *)
Spec == Init /\ [][Next]_vars /\ \A l \in Loaders : WF_vars(Step(l))

(***************************************************************************)
(* Properties.                                                             *)
(***************************************************************************)
FileInfo == [mtime : 0 .. MaxTime, size : Sizes \cup {0}]

(* Types; an idle loader has nothing left to store.                        *)
TypeOK ==
  /\ now \in Seconds
  /\ file \in [version : 0 .. edits, mtime : 0 .. now, size : Sizes \cup {0},
               valid : BOOLEAN, link : 0 .. now]
  /\ edits \in 0 .. MaxEdits \cup {1}
  /\ logger \in 0 .. edits
  /\ mLastFileInfo \in FileInfo
  /\ pc \in [Loaders -> {"none", "idle", "read", "configure", "stat", "store",
                         "thread", "sleep"}]
  /\ properties \in [Loaders -> 0 .. edits]
  /\ fi \in [Loaders -> FileInfo]
  /\ todo \in [Loaders -> SUBSET Fields]
  /\ \A l \in Loaders : todo[l] # {} <=> pc[l] = "store"
  /\ configs \in 0 .. MaxConfigs
  /\ threads \subseteq Watchers
  /\ editedAt \in 1 .. now
  /\ raced \in BOOLEAN
  /\ askedAt \in [Loaders -> 0 .. now]

Quiet == \A l \in Loaders : pc[l] \in {"none", "idle", "thread", "sleep"}
Stale == configs > 0 /\ Exists /\ logger # file.version

(* An edit is overlooked only in two ways: it fell between the moment a    *)
(* load read the properties and the moment it asked for the file's time    *)
(* (173, 190), or it left the size alone in the very second in which a     *)
(* load had asked (140).  Every other edit makes the file look modified,   *)
(* whatever the size mLastFileInfo started with, whichever loads failed,   *)
(* and however many threads load.                                          *)
BlindSpot ==
  Stale /\ Quiet =>
    \/ Modified
    \/ raced
    \/ /\ file.size = mLastFileInfo.size
       /\ \E l \in Loaders : askedAt[l] = editedAt

(* A modification that is visible while nobody loads is loaded, unless the *)
(* file changes again or cannot be loaded (140, 73).                       *)
Visible(v) ==
  /\ Quiet /\ threads # {}
  /\ file.version = v /\ file.valid /\ Modified

LoadsWhatItSees ==
  \A v \in 1 .. MaxEdits : Visible(v) ~> (logger = v \/ file.version # v)

=============================================================================
