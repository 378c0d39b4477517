# TLA+ models and proofs for `value`

The repository holds a handful of utility components of a C++ server: alarms,
timers, traces, a dynamically typed value, an INI reader and a CSV record. This
directory models them in TLA+, model-checks the models with TLC on small
instances and proves the properties that matter most with TLAPS.

All paths below are relative to `src/src/` unless they say otherwise.

## 1. Inventory

| Component | Files | State | Operations | Interacts with |
|---|---|---|---|---|
| Alarm manager | `Alarm/AlarmMgr.*` | `smAlarmTracker` (line -> second, count), `smIgnoredAlarms`, the lock `sgLock` over both; `sgAlarmId`, `smMaxAlarms`, `smPauseOnAlarm` without a lock | `getEntry`, `closeEntry`, `ignoreAlarm`, `set/removeIgnoredAlarm(s)`, `pauseOnAlarm`, `config` | every component raises alarms through it |
| Alarm entry | `Alarm/AlarmEntry.*`, `Alarm/AlarmMacros.h` | one entry per thread: seqno, file, line, message; a ring of text buffers for all threads | `operator<<`, `enderr`, `toString`, `aos_alarm()`, the assertion macros | filled by its thread, closed by the alarm manager, shown through the trace |
| Timer manager | `Timer/TimerMgr.*` | `mTimers` (id -> timer), `mCrtTimerId`, `mLock`, an `io_service` and its thread | `addTimer` (two), `cancel`, `remove`, `start`, `stop`, `threadFunc` | asio timers; alarms while `mLock` is held |
| Trace | `TraceMgr/*` | one entry per thread; the configuration file's time and size | `getEntry`, `init`, `refresh`, `endl`, `config`, the watcher thread | log4cplus; the file system |
| Value | `Util/ValueRslt.*` | a tagged union whose long strings live in a heap block | constructors, assignment, setters, getters, comparisons | the allocator |
| INI reader | `INIReader/*` | the map section=name -> value | `ini_parse_stream`, `ValueHandler`, `Get*` | - |
| CSV record | `DataParser/*` (four copies of one class) | field offsets, lengths, null flags, parse state | `setData`, `parseData`, `setFieldValue`, `appendField`, `clear` | its caller's buffer |
| Legacy alarms | `Alarm/bak/*` | a ring of shared entries | - | not compiled: no build file names them |

`src/Include` and `src/Runtime_lib` hold boost, Poco and log4cplus; they are third
party. Where a model needs them (asio's timers and the mutex) it models them
from how this code uses them and marks the definitions external.

## 2. What is hard, and what must be true

**Alarm manager.** Every thread may raise alarms at any line at once. `closeEntry()`
reads the second before it takes `sgLock`, takes the lock twice, prints in between
and may pause for ever at its end. What makes it right: the two hash maps are used
by one thread at a time and no path keeps the lock; an occurrence is found, counted
and judged as if in one step; between two restarts of its count a line is shown less
often than the limit; late calls can restart a count only so many times; a line in
the ignored list never pauses a thread, whatever other threads do to the list; calls end.
Making the text of an alarm may raise alarms: calls of `closeEntry()` inside the one that
prints, which share the thread's one entry with it.

**Timer manager.** Callers and handlers add, cancel and remove timers while the
service expires and dispatches them. `addTimer()` works on the asio timer under
`mLock`; `cancel()` and `remove()` release it first. What makes it right: each
successful `addTimer()` leads to exactly one run of its handler; no handler hears of
success early; arming again replaces the wait; a timer that is cancelled or
destroyed has no wait left; `run()`, whose return is reported with an alarm, returns once
for each `stop()` and not before.

**Trace.** The configuration file is edited by others while one or more threads read
it, configure the logger and note its time, in this order and without a lock. What a
thread traces stays in its buffer until its next statement or `endl`. What makes it
right: an edit is not overlooked but in a narrow window; a change that can be seen is
loaded; text keeps its own head, its order, and is neither lost nor doubled.

**Value.** A tagged union frees and allocates in its setters, and allocations fail.
What makes it right: a block is live exactly while one object owns it, a string fits
in the block it is written to, and a value behaves as if there were no memory at all.
An object whose allocation failed keeps a pointer that is not its own, and its destructor
runs all the same: at most one object may lose its value for each allocation that failed.

**Alarm entry.** A thread has one entry for all its alarms; an operand of a statement, or
the making of the text itself, may raise another one before the first is closed. The
number of an alarm and the buffer of its text come from two counters that are read and
written back without a lock. What makes it right: an alarm is reported under its own
line and number with all of its text, or goes by another one when that was raised in its
midst; when its text cannot be made nothing of it is shown; numbers and texts are an alarm's own as long as no two threads are in one of the
counters at once and the ring does not come round to a buffer in use.

**Alarms of the timer manager.** An assertion of the manager fails with `mLock` held, and
its alarm may pause for ever. What makes it right: `mLock` comes back unless its holder
sleeps, and handlers run unless their thread sleeps or waits for one that does.

**CSV record.** Two loops over the characters (one for delimiters of several characters)
with offsets that are off by one, two or three, state that is kept from one buffer to the
next, three answers (a record, more data, invalid), and a writer that writes a field again
when its memory was too small. What makes it right: it accepts exactly the records its
comment defines, asks for more data only when they can help, stays in its buffer, the
values are those of the fields of this buffer, what was written is read back, and nothing is
written behind the memory.

**INI reader.** Names and sections are cut at 49 characters, a line may continue the value
of the line before it, a key that occurs twice becomes one value of two lines, the first
error is reported while the rest is read, and a line is one only if it fits in a buffer of
fixed size, the first one with the bytes of a BOM in front. What makes it right: after every line the map is
the one the lines so far mean, and a malformed line costs no other one its value.

## 3. Modules

| Module | Models | Extends / instances |
|---|---|---|
| `AlarmLimiter` | abstract: an occurrence is counted and judged in one step | - |
| `AlarmMgr` | `closeEntry()`, `ignoreAlarm()`, the edits of the list, `config()`, `pauseOnAlarm()` | instances `AlarmLimiter` |
| `AlarmMgrProofs` | theorems about `AlarmMgr` | `AlarmMgr`, TLAPS |
| `TraceEntry` | the buffered record of each thread | - |
| `TraceEntryProofs` | theorems about `TraceEntry` | `TraceEntry`, TLAPS |
| `AlarmEntry` | a thread's entry, `getEntry()`, the macros, `aos_alarm()` and its ring, nested alarms | `TraceEntry` |
| `AlarmEntryProofs` | theorems about `AlarmEntry`, among them that it implements `TraceEntry` | `AlarmEntry`, `TraceEntryProofs` |
| `TimerMgr` | the manager, the asio timers below it, the thread, `start()`/`stop()` | - |
| `TimerAlarm` | the manager with the alarms it raises while it holds `mLock` | `TimerMgr`; instances it again |
| `TimerMgrProofs` | theorems about `TimerMgr` and `TimerAlarm`, among them that the second implements the first | `TimerAlarm`, TLAPS |
| `Value` | abstract: objects that hold plain values | - |
| `ValueRslt` | the tagged union, its heap, failing allocations | instances `Value` |
| `ValueRsltProofs` | theorems about `ValueRslt` | `ValueRslt`, TLAPS |
| `TraceMgr` | the configuration file and the threads that watch it | - |
| `TraceMgrProofs` | theorems about `TraceMgr` | `TraceMgr`, TLAPS |
| `CsvRecord` | `setData()`, `parseData()`, `parseData2()`, `clear()`, `getFieldValue()`, and what a record is | - |
| `CsvRecordProofs` | theorems about `CsvRecord` and `CsvWriter` | `CsvWriter`, TLAPS |
| `CsvWriter` | `setFieldValue()` with the retry for want of memory, read back by the parser | `CsvRecord` |
| `IniParser` | `ini_parse_stream()` and `ValueHandler()` | - |
| `IniDocument` | what the lines of a document mean, and their text | `IniParser` |
| `IniProofs` | theorems about `IniParser` and `IniDocument` | `IniDocument`, TLAPS |
| `MCAlarmMgr`, `MCAlarmEntry`, `MCTimerMgr`, `MCTimerAlarm`, `MCValueRslt`, `MCCsvRecord`, `MCIniDocument` | constants for TLC that a `.cfg` cannot express | the module they are named after |

Nearly every component raises alarms, and alarms are shown through the trace. Two
compositions matter: `AlarmEntry` puts the alarms on top of the trace entries they are
printed with, and `TimerAlarm` puts under the manager's calls the alarms that are raised
with `mLock` held. Whether an alarm is shown or sleeps is `AlarmMgr`'s part; both take
either outcome. The CSV writer hands its records to the parser (`CsvWriter`).

A definition called `Mutant...` in front of another one is a plausible slip in the
code of the second. No specification uses it: put in the place of its neighbour it
makes a property fail, which shows that the property looks at that code.

### AlarmMgr

`pc[t]` is the statement thread `t` executes next; one action is one stretch of code
between two accesses to shared state.

| Code (`Alarm/AlarmMgr.cpp`) | Actions |
|---|---|
| `getEntry()` 88-107, `closeEntry()` 110-128, reads the second | `CloseEntry` |
| 130-154, the tracker under `sgLock` | `LockTracker`, `Find`, `Count`, `UnlockTracker` |
| 154-166 `toString()`, `OmnScreenError` | `PrintAlarm` |
| 168, file and line of the entry as it is by now | `LineOf` |
| `ignoreAlarm()` 177-194, under `sgLock` | `LockIgnored`, `Look` |
| the end of the call, 168-173 | `Return` |
| `pauseOnAlarm()` 295-306 | `PauseOnAlarm`, `Sleep` (the endless loop) |
| `set/removeIgnoredAlarm(s)()` | `SetIgnoredAlarm(s)`, `RemoveIgnoredAlarm`, `LockAdd`, `Add`, `StopScan`, `LockRemove`, `Remove` |
| `setMaxAlarms()`, `config()`, without a lock | `SetMaxAlarms`, `Config` |

A thread has one entry (`entry`); `OmnAlarm` closes that one, the macros and `aos_alarm()` a
copy (`copy`). `toString()` may raise alarms: `CloseEntry` is also taken at "print", `outer`
keeps the calls around it (`line`, the local `key`, and `copy`), and `Return` goes back to
the innermost of them. Each alarm puts its file and line in the thread's entry, so the outer
call may look up another line than the one it counted. `covered` (the lines that have been
in the list since the thread's last alarm of them) and `renewed` (an alarm was raised while
this one's text was made) only record what happened. Of an entry this module knows the line;
its number and text are `AlarmEntry`'s part. The key "file_line" is a model value; the text of a list is the sequence of its
items, among them a malformed one and text without a colon.

### TimerMgr

A call of the manager is cut where it touches the asio timer: `Look`, `Pull`, `Clear`
are asio's `cancel()` (flag, reactor, flag), `Arm`, `Schedule` are `expires_at()` and
`async_wait()`, `Drop` lets go of the shared pointer. `NewTimer`, `Rearm`, `Cancel`,
`Remove` are the calls up to there. `Expire`, `RunHandler`, `HandlerReturns`,
`RunReturns` (43-45, with the alarm behind `run()`) and `TestState` (41) are the service's
thread; `Start`, `StopThread`, `StopService` the manager's life. `errors` counts the alarms of
line 45: one for each return of `run()`, at an orderly `stop()` as well. The asio definitions are translated from `src/Include/boost/asio`.
The constant `Users` says which threads use which variable of type `time_id`.

### AlarmEntry

A thread is raising the alarms in `frames[t]`, the innermost last; `at` is where that call
is. `Raise` is `OmnAlarm`, `aos_assert` or `aos_alarm()`; `Take`, `Store` are
`slBufIndex++`, `Fill` and `Copy` the buffer's use; `Number`, `Stamp` are `getEntry()` with
`sgAlarmId++`; `PutPiece` is `<<`; `CloseEntry`, `OpenScreen`, `ScreenText`, `ScreenEnd`,
`CloseReturns` are `closeEntry()` with its `OmnScreenError` statement. A thread may trace
or raise another alarm in an operand (`open`) and while the text is made (`format`).
`OpenScreen` has both outcomes of `toString()`: the text, or `false` (a full backtrace of a
shallow stack, a text longer than its buffer), when "alarm error" is shown and nothing of the
entry (`AlarmMgr.cpp:154-165`). `no`,
`outer`, `given`, `idRaced`, `ringRaced`, `during` only record what happened.

### TimerAlarm

`in[p]` says what keeps a thread: nothing, `mLock`, an alarm, or the endless sleep.
`TimerMgr` begins a call when `mLock` is free; here `Wait` comes before `Call`. `Misuse` is
a call with an id that is gone, whose assertion raises its alarm before it unlocks;
`AlarmReturns`, `AlarmSleeps` are its ends. `RunEnds` is the return of `run()`, whose alarm
is always raised and may keep the thread for ever. `Loop`, `RunEnds` and `Others` are the
steps of `TimerMgr` between these. `Manager` is the manager as `TimerMgr` has it, for which `mLock` is
free (`LockWithin`) while an alarm keeps it; that every step is one of the manager or none
(`ImplementsManager`) is proved.

### ValueRslt

The state is the tag, the bits of the union and the heap. A string is a model value
with a length; the four lengths used lie on both sides of the boundary (20 characters
fit with their length of 4 in 24 bytes but the code compares with `>=`, so 20 is long).
`AllocationFails` is `operator new` throwing in the midst of `setStr()` or `operator=`; an
object that is left with a pointer or a tag that is not its own is `damaged`. Everything
that may be called on it is: it is destroyed, overwritten and assigned to, and
`deleteMemory()` deletes what its stale pointer names. If another object has that block by
now (`Victims`), the block is freed and that object is `damaged` in turn; if nobody has it,
or the bits are no pointer, or a string is read that is not there, the behaviour is undefined
(`Misuse`) and nothing follows. `Owners` are the objects that have a block.

### TraceMgr and TraceEntry

`Read`, `Configure`, `Stat`, `Store` are `initProperty()`; `Config` and `StartThread`
are `config()`; `Poll` is a turn of `threadFunc()`. `Write`, `Relink`, `Delete` and
`Tick` are the world outside. The initial size of `mLastFileInfo` is any size, as
nothing initialises it; `mLastFileInfo` is stored one field at a time, in any order,
as two threads may do it at once. `GetEntry`, `Put`, `Endl` are the statement
`OmnScreen << ... << endl`; `Return` is its end, with or without `endl`; an operand
may itself trace, so the statements of a thread are a stack.

### CsvRecord and CsvWriter

One action is one turn of the loop in `parseData()` or, when the delimiter has several
characters, `parseData2()`, named after the `crt_status` it handles; the two outcomes of a
qualifier inside of a text are apart (`StrEscape`, `StrEnd`), and so is the turn in which
`parseData2()` finds a delimiter that ended before (`FieldEndsEarly`). What a record is
(`PlainField`, `QualifiedField`, `Cuts`, `IsRecord`, `ValueOf`) is stated without any
reference to the loops, from the comment at lines 547-559: `Cuts` are the ways to cut a
text at its delimiters (`DelimAt`) into pieces that are fields, and a text is qualified when
every run of qualifiers inside is of even length (`InPairs`). `Halve` is what is left of a
text when pairs of qualifiers are replaced from left to right. `NoValue`, that a field was not read,
is no value a field can have (`NoValueAssumption`). `SetFieldValue` writes the
chunks of one field as far as the memory goes; `Grow` is the caller's retry; `Send` is
`flush()`, which makes the record the parser's input. `Fits` is the writer's own test: for the
delimiter it looks for room for one byte (352) and copies all of it (361-365). A call
that has written more than `mMemLen` characters has left its memory: phase "overrun", the
last one.

### IniParser and IniDocument

One action is one line, by the branch the loop takes: `Skip`, `Continuation`, `Section`,
`Pair`. A document is a sequence of lines of which it is known what their writer meant;
`Render` is its text and `Meaning` the map it stands for, stated line by line without any
scanning. `Bom` is three characters of the text, which `line` skips after `Read` has put them
in the buffer with the first line: a document is `Legible` when that line fits with them. The properties compare the parser's map with it after every line.

## 4. Runs

| Run | Bounds | States | Shows |
|---|---|---|---|
| `alarm_calls` | 2 threads; 1 line, 5 calls (3 while one is inside of another), 3 seconds, limit 1 or 3 that changes once; or 2 lines, 2 alarms, beside or in one another, 2 edits of the list (a malformed item, no colon), 1 switch of the flag | 1,283,312 | `ResetsBounded`, `WindowBounded`, `LockHeldIffCritical`, `CoveredNeverPauses`, `CallsEnd`; `closeEntry()` implements `AlarmLimiter` |
| `value_heap` | 3 objects, 3 blocks, strings of 19, 20, 21, 40, 2 failed allocations, whatever is done with the objects afterwards | 87,237 | `ExclusiveOwner`, `NoLeak`, `StringFits`; the union implements `Value` |
| `timer_owned` | a caller and the handlers with a timer each, 2 timers, 3 waits, 2 times, 1 start | 1,079,119 | `OneWait`, `CancelForces`, `RemovedIsSilent`, `NeverEarly`, `RunsWhileActive`, `WaitsEnd` |
| `timer_alarm` | a caller and the handlers with the same timer, 2 waits, 2 starts, ids that are gone, alarms that return or sleep | 258,420 | `HandledOnce`, `LockReturns`, `HandlersRun` |
| `timer_shared` | a caller and the handlers with the same timer, 2 waits | violated | `RemovedIsSilent` |
| `timer_restart` | a manager that is started twice | violated | `RunsWhileActive` |
| `trace_file` | 3 edits, 2 seconds, 2 sizes, 2 calls of `config()`, up to 2 watching threads | 731,398 | `BlindSpot`, `LoadsWhatItSees` |
| `entries` | 2 threads; 3 statements of up to 3 pieces; or 3 calls of `aos_alarm()` and a ring of 2 buffers; or 3 alarms of the other kinds among statements, 4 in all | 2,349,898 | `RightHead`, `NothingLost`, `NotTorn`, `AlarmsAreWhole`, `NumbersDiffer`, `OwnText` |
| `csv_record` | 2 fields; all buffers of up to 5 of {delimiter, LF, CR, qualifier, zero}, of up to 7 of {delimiter, LF, qualifier}, of up to 4 for delimiters of two characters and longer ones of two fields; pairs of 19 records in one object; two values of seven written into 2, 7 or 20 bytes, also with a delimiter of three characters; all configurations | 1,880,881 | `AcceptsRecords`, `ValuesAreFields`, `StaysInside`, `RoundTrip`, `ParseEnds` |
| `csv_last_line` | the last line of a file | violated | `LastLineMayMissDelimiter` |
| `csv_wide` | texts in front of a delimiter of two characters | violated | `TextsAreFields` |
| `ini_file` | all documents of up to 4 lines of 12 kinds, with and without a BOM and an end of the last line; names cut at 2 characters, a buffer of 16 that the longest line fills behind a BOM | 512,394 | `ReadsLines`, `FirstError` |

Each passing run but `trace_file` and `timer_alarm` also checks the types. `MCAlarmMgr`,
`MCAlarmEntry` and `MCCsvRecord` let a behaviour go deep into one of the parts named with
"or" above, as parts that share no variable need not be interleaved in full.

**Why the bounds are enough.** Two threads suffice for every race in the alarm manager
that involves one late call and one punctual one; three seconds let a late call bring
back a second that has passed; five calls exceed the limit of 1 in two windows, and that of 3
in one; of three calls one may be inside of another and around the third. Two timers
and three waits let a timer be armed, armed again and removed while another one
expires; with one timer for both a caller can find an id that a handler has removed while
the handler waits for the lock. Three alarms of which each may be inside of another give
every way to lose an entry and to win it back, and go round a ring of two buffers. Three
objects are needed for a copy of a copy. Three edits and two loaders
let an edit fall into each gap of a load while the other loader is in another one.
With two fields a buffer of five characters holds every end of row with every kind of
plain or empty field, and one of seven an escape in either field; a longer field only
repeats turns of the loop that leave the state it depends on alone; a delimiter that
overlaps itself shows why the properties ask for one that does not. Four lines hold a
heading, a pair, its continuation and a malformed line among them, in any order; two
characters are enough for a name that is cut. The theorems of section 6 hold without bounds.

**Deadlock** is checked for the alarm manager. The other configurations say
`CHECK_DEADLOCK FALSE`, as their systems may really stop: a file is read to its end; a timer
manager that is stopped (or out of timers, waits and ticks) has nothing to do; without a
watching thread nothing follows the file; a thread need not trace; a caller may have no more
data; nothing is said of what follows undefined behaviour of a value.

## 5. What the violated runs show

* **`timer_shared`.** A caller cancels a timer whose handler arms it again. Asio's
  `cancel()` reads its flag, takes the waits out and then clears the flag; when the
  new wait comes in before the last step its flag is lost. The next `remove()`
  finds the flag clear, and the timer is destroyed with its wait in the reactor.
* **`timer_restart`.** `stop()` leaves the service stopped and `start()` does not reset
  it: after a restart `run()` returns at once, for ever. Each return is reported with the
  alarm of `TimerMgr.cpp:45`; the run counts more of them than there were calls of `stop()`.
* **`csv_last_line`.** At the end of a file the last line may miss its row delimiter
  (comment at `CSVParser.cpp:787`); when its last field is a qualified text the parser
  asks for more data instead (626-631).
* **`csv_wide`.** The comment at `CSVParser.cpp:814-816` calls a record with a text in it
  correct. Behind the closing qualifier of a text `parseData2()` looks whether a delimiter
  ends at the character it is at, which is the first one of the delimiter (896): with a
  delimiter of two characters it refuses the record (915).

More was met that no run claims, since nothing in the repository states the contrary, or
since it does not go beyond what a property says:

* A line is shown as often as its limit allows in a second, and then again when a late
  call puts an old second back (`AlarmMgr.cpp:126-146`): `ResetsBounded` says how often a
  count can start again (with N threads at most 2N-1 times) and `WindowBounded` how much
  is shown in between.
* An alarm is raised at the end of every manager, too: `threadFunc()` tests its state only
  behind the alarm that `run()` has returned (`TimerMgr.cpp:41-45`). With `pause_on_alarm`
  set its thread then sleeps and never ends.
* `OmnAlarm` of a line that is ignored may pause after all, if making its text raises an alarm
  of another line (`AlarmMgr.cpp:157`, 168); the second conjunct of `CoveredNeverPauses` says
  that nothing else can do so.
* An alarm whose text cannot be made shows "alarm error", without file, line and number
  (`AlarmMgr.cpp:162-165`), as with a full backtrace of a shallow stack (`AlarmEntry.cpp:186`).
* The destructor of a value whose allocation failed frees its block a second time, or frees the
  block of another value (`ValueRslt.cpp:145-146`, 258-264, 444-453). `ExclusiveOwner` says
  how far this goes: no more objects are damaged than allocations failed.
* A field delimiter of three or more characters may be copied past the writer's memory, as
  there is looked for room for one (`CSVParser.cpp:352-365`); `RoundTrip` says that shorter
  ones are not.
* The bytes of a BOM are in the line buffer (`ini.c:143-146`): a first line of 196 to 198
  characters behind one is split by `fgets()`, though it fits without it. `Legible` counts them.
* On a last line without row delimiter the last field's offset and length are not stored
  (`CSVParser.cpp:783-792`), and a text that is never closed is accepted there; the
  properties about values leave such lines out (`Complete`).
* A text at the end of a record with a longer delimiter keeps its closing qualifier
  (1010); a text written with backslash as its escape is not unescaped when it is read;
  a \000 is written as it is, and the parser makes it a blank (576, as the comment at 558
  wants). `Readable` and `ValuesAreFields` name these cases.

## 6. Proofs

All theorems are checked by `tlapm` (Z3, Zenon, LS4) for any value of the constants.

**Alarm manager** (`AlarmMgrProofs`). `TypeInv` joins the types, the discipline of
`sgLock` and the fact that a list being added to has an item to add (`ScanOK`); it is
inductive and gives `TypeCorrect` and `LockDiscipline`. `Inv` adds `FoundIsFresh`, which
holds because only the holder of the lock writes the tracker. `WindowInv` (a window is
no longer than the count) gives `WindowsAreBounded`; `CallInv` says by which
line a call goes (the one raised last, which is its own unless one was raised while its text
was made); with it `CoverInv` (covered lines are in the list, and a thread that pauses does
not by one of them) gives `IgnoredLinesNeverPause`. For `ResetsAreBounded` the invariant is a
potential: restarts of a count for second k plus the threads whose call is stamped
before k, and, once k has passed, plus those stamped k. No step lets the sum grow but
the first restart, and a sum of threads is bounded by their number. The refinement
`AlarmMgrImplementsLimiter` maps `Count` to `Decide` and the rest to stutters, `Occur`
and `Finish`; an occurrence inside of another is told by `within`, the length of `outer`.

**Value** (`ValueRsltProofs`). Types, `DamagedAreLong`, ownership, the absence of
leaks and the fit of strings are one inductive invariant: that a freed block had one
owner needs that no other object owns it, and that every live block is owned
needs in turn that the owner is the one who lost it. A damaged object that deletes another
one's block is no longer damaged, and there is at most one such other (`Victims`): so the
number of damaged objects grows only when an allocation fails. `ValueRsltImplementsValue`
follows step by step.

**Timer manager** (`TimerMgrProofs`). `TypeCorrect` has no assumption. The others but
`WaitsAreHandledOnce` assume `OneUser`, that no two threads use one variable of type `time_id`: `LockInv` (who is where
with `mLock`), `OwnInv` (a call is about a timer of its own variable, so two calls are
about two timers) and `FlagInv` (a timer with a wait has its flag set) are inductive
together with `OneWait` and `RemovedIsSilent`; `DueInv` (the heap's time is the wait's)
gives `NeverEarly`. Without the assumption the run `timer_shared` shows them wrong.
`StartedOnceRunsWhileActive` assumes one start; the run `timer_restart` shows why. The
service is stopped only behind a `stop()`, and a thread that finds its state not active
ends, so one that is started once comes to line 45 once at most (`LifeInv`).

`WaitsAreHandledOnce` needs none: every wait ever armed is in one queue of
waits, among the ready handlers, running, or handled, once and in one of these only
(`OncePlaced`).

**Timer manager with alarms** (`TimerMgrProofs`). A thread that an alarm or `mLock` keeps is
between two calls, and whoever holds `mLock` is in `addTimer()` or in an alarm (`HeldInv`).
So `Wait`, `Misuse` and the two ends of an alarm change nothing the manager sees, and the
other steps are its own: `AlarmsKeepManager`. It is a statement of safety: the manager's
fairness does not survive a service thread that sleeps, which is what `HandlersRun` is
about. With the refinement the invariants carry over: `AlarmsLoseNoWait`
for any users, and `AlarmsKeepTimers` (one wait, none left of a removed timer, none early) for
one user.

**Trace entry** (`TraceEntryProofs`). That a piece is written with a right head
(`HeadsAreRight`) needs the reason it is put into a right entry: the statements a thread
is executing are the one its entry was taken for or those around it (`OpenInv`), so that
every piece, buffered or written, belongs to the head it stands under (`RightInv`), and an
entry with anything in it has a head (`Headed`, without which the types of the log fail).
Together with the types these are inductive and also give `TypeCorrect`: no empty record
is ever written. `StatementsAreNotTorn` needs that one thread at a time has a statement open
or a piece of it in its entry, and that while one does, one record less is in the log than
in the end (`TornInv`). `NothingIsLost` is `NothingLost` itself with two facts that make
it inductive (`KeptInv`): an entry holds pieces of its own thread only (`OwnPiecesInv`), so that
what one thread writes or loses is no other one's; a piece is written or in the entry
exactly when it was put and not lost (`AccountInv`); and the numbers of the pieces grow within a
stream, from record to record and from the log to the entry (`GrowInv`), which makes a
record that is written the next one and no piece be written twice.

**Alarm entry** (`AlarmEntryProofs`). `AlarmsTrace` is the refinement: every step of an
alarm is one of `TraceEntry` or leaves its variables alone, so the theorems about heads,
torn statements and lost pieces carry over (`AlarmsLoseNothing`). Each of the other three has an inductive invariant.
`NumbersAreGivenOnce`: while nobody raced, all numbers given are behind `sgAlarmId` and the
one thread about to write it back has read it (`NumberInv`). `AlarmsStayWhole`, which is about what is counted and what is
shown, if the text can be made: a thread's alarms are inside one another in the order they were raised and no two threads have the
same (`OrderInv`); from its stamp to its closing an alarm's entry is all of it or of one
raised inside (`FramesWhole`). `TextsAreOwn`: the number of the buffer a thread uses plus
those taken since is `slBufIndex` (`RingInv`), so fewer than `RingSize` of them leave it to
its owner, which is the arithmetic of `Apart`.

**Trace file** (`TraceMgrProofs`). `EditsAreSeen` rests on `SeenInv`: when the logger is
behind the file and no edit fell into a load, nobody has asked for the file's time since
the edit (`BehindInv`), because whoever reads now configures the logger with the newest
version first (`ReadInv`); the time that is kept was asked by some loader (`AskedInv`).

**Induction.** `tlapm` cannot instantiate the library's induction theorems, whose
hypothesis is an operator. `LeastNumber` gets the same from sets: among the intervals `1 .. n`
for `n` in a set of numbers one is the least (`FS_StrictSubsetOrderingWellFounded`). From it come
`Induction`, the least and the greatest of a set, and the unique function that satisfies
a recursive definition, which is how the recursive functions (`Halved`, `Delimiters`, `Meaning`,
the folds of an INI document) are reasoned about.

**CSV record** (`CsvRecordProofs`). `PosInv` says where the two loops are: the position is
at or behind the field's first character, and behind both qualifiers when a text ends, so
the lengths that subtract them are not negative. `FieldInv` keeps earlier fields in front.
They give `TypeCorrect` (every index exists) and `FieldsStayInside` for any buffer, any
number of fields and any delimiter.

`AcceptsExactly` is about positions in the buffer: a delimiter at `b` (`Hit`), and the
stretches that are fields (`Plain`, `Text`). Two delimiters do not overlap (`NoOverlap`,
from `Separable`), so a field that begins at a position has one end (`OneEnd`): there is
at most one way to cut a text into fields, and the parser's is that one as far as it has
come (`MarkInv`). When it gives up there is no record (`Refused`), when it asks for more
there is the beginning of one (`Open`), and `OpenCompletes` writes the text that completes it.
Zeros that are replaced by blanks are the one change of the buffer; what was judged of it
stays true because everything judged lies in front of the position (`SameSplit`).

`ValuesAreRead` needs what is stored of a field between two positions (`IsStored`: offset, length,
null flag, the flag for escapes) for the fields that have been passed, what is known of the
one the parser is in (`FieldNow`), and that nothing is set of those to come, which is why
`clear()` has to come first (`ClearedInv`, `KeptInv`); behind the parser the values
that were read are right and the others still stored (`ReadInv`). `ReadIs` computes what
`getFieldValue()` makes of such a field, with the equations of `Halve`.

`WrittenIsRead` is about the writer in front of the reader. What is written of a value is a
field whose value is that value, trimmed (`ReadsBack`, in which `Halve` undoes `Escaped`).
`RecordInv`: each field of the record so far begins where the one before ended and is what
is written of its value (`Laid`); `LaidStep` shows that it stays so, and a field that did not
fit leaves the record as it was, since `mCrtRcdLen` is advanced only behind a field written
whole. `MemoryInv`: a record that is being written ends in its memory, and so does what a
call writes behind it when the delimiter has one or two characters. Such a record is a `Split` (`LaidSplit`), and a text begins with one record only
(`OneRecord`); so by `AcceptsExactly` the reader, which was given just that record (`SentInv`),
can neither refuse it nor find another in it, and by `ValuesAreRead` its values are those that
were set. The reader's invariant starts from any set of buffers, so its three properties hold
behind the writer as well (`WriterKeepsReader`): the specification the run checks.

**INI reader** (`IniProofs`). `ReadInv`: what is left of the text is the text of the lines
not yet read (`LeftIs`); section, name in force and values are what the lines read so far mean
(`MeantIs`); the error is the least malformed line of these (`ErrorIs`). The work is in
showing that a turn of the loop takes exactly the text of one line and finds in it what its
writer meant, for each kind of line: where a comment begins, which the first `=` or `:` is,
what is left of a name that is cut. `DocsAssumption` asks that the documents are legible:
lines that fit in the buffer, the first with the BOM in front, no first line that looks like a
BOM itself, and names, values and comments without the characters that
would make them something else.

**Only model-checked:** liveness (`CallsEnd`, `WaitsEnd`, `LockReturns`, `HandlersRun`,
`LoadsWhatItSees`, `ParseEnds`), which is out of the prover's reach, and the
violations.

## 7. Fairness

* `AlarmMgr`: weak fairness of each thread's steps inside a call. A thread inside a
  call is runnable; waiting for the mutex it gets it in the end, since only finitely many
  calls compete (the bounds, which also end the alarms raised in making a text), and a thread pauses only after it has released it. No
  fairness makes a thread raise an alarm.
* `TimerMgr`: weak fairness of the steps of a call and of the service's loop (`Expire`,
  `RunHandler`, `RunReturns`, `TestState`) and of the clock; strong fairness of `HandlerReturns`, as a
  handler may make calls of its own but does return. None for `Start`, `StopThread`,
  `StopService`, or for callers.
* `TraceMgr`: weak fairness of every loading or watching thread: nothing in the program
  stops one. None for edits, `config()` or the clock.
* `TimerAlarm`: as `TimerMgr`; a thread that waits for `mLock` gets it if it comes free again
  and again (strong fairness of `Call` and `Misuse`), and an alarm returns or sleeps (weak
  fairness of the two together): nothing says which.
* `CsvRecord`, `CsvWriter`: weak fairness of the parser's loop, which is sequential code.
* `ValueRslt`, `TraceEntry`, `AlarmEntry`, `IniParser`: none; their properties are safety.

## 8. Assumptions and abstractions

* The clock never goes back; a second is the grain of `getSecTick()` and `st_mtime`.
* Counters do not overflow (`mCrtTimerId`, `sgAlarmId`); ids therefore name one timer.
* What alarms and traces look like, the screen and the logger are left out; a record
  is handed to the logger in one step.
* In `TimerMgr` calls that only fail an assertion (an unknown `time_id`) change nothing and
  are no steps; in `TimerAlarm` they are. Handlers do not throw.
* Alarms: what an alarm's text is made of is the number of its pieces and the alarm that
  put them; alarms raised by `toString()` come before it reads the entry, as the stack trace is
  taken first (`AlarmEntry.cpp:164-197`); a text that is formatted into a buffer is written in one step and copied in
  one step.
* INI: the build's configuration (`INI_USE_STACK`, multi-line values, a BOM, inline
  comments, `INI_STOP_ON_FIRST_ERROR` off); a character stands for those the parser treats
  alike. The model cuts a line that is longer than the buffer in two, as `fgets()` does, but
  the documents of the run have no such line.
* Timers: asio posts what a cancelled timer had in one step with taking it out of the
  queue; the reactor expires one timer at a time; what it does with a destroyed
  timer that still has a wait is undefined, and left out: reaching it is the violation.
  `mThread->stop()` lets the loop end after the handler that runs; `start()` is called
  again only when the old thread has ended.
* Trace: an edit gives the file the present time, except for links, which may point to
  older files; log4cplus does not throw in `configure()`; replacing `mThread` does not
  end the older thread.
* CSV: delimiter, qualifier, row ends and blank are different characters;
  `OmnString::replace()` works from left to right; `getValueFromRecord()` returns the bytes
  the field's offset and length name.

## 9. Not modelled, and what is left

* `appendField()`, `removeFields()`, `config()` of the CSV record, virtual fields and fields
  that are not strings: they call the fields' own classes, which are not in the repository.
  `serializeToXmlDoc()` is a loop over `getFieldValue()`.
* The getters' conversions and the comparisons of `ValueRslt` change no state. What they
  return is the C library's (`atof`, `atoll`, a string stream); the comparisons compare
  with null only and `==` is always false, so a property would restate the code.
* Ids that overflow: `mCrtTimerId` after 2^31 timers.
* The life of the pointers `getCStr()` returns (no caller keeps one), and what a caller reads of a last line
  whose field was not stored: both are the caller's.
* `Alarm/bak` (not compiled), `Util/ArithOpr.h` and the other enumerations (no state), the
  third-party libraries but for the asio timer, and `toString()` and the like (formatting).

What could follow: lines of an INI file that are longer than the buffer; `AlarmMgr` and
`AlarmEntry` in one specification, so that an alarm that is not shown is one the limiter
refused.

## 10. How to run

In this directory, for a run of module `M` with configuration `C.cfg`:

    tlc -workers 2 -config C.cfg M
    tlapm AlarmMgrProofs.tla

`PROJECT.json` lists runs, mutants, theorems, hazards and, for each definition, the
lines it models.
