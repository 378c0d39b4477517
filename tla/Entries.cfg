\* Two threads trace and raise alarms, one statement inside another or not.
SPECIFICATION MCSpec
CONSTANTS
  Threads = {t1, t2}
  MaxStatements = 3
  MaxPieces = 3
  MaxAlarms = 3
  MaxAlarmPieces = 2
  RingSize = 2
SYMMETRY MCThreads
INVARIANTS TypeOK RightHead NothingLost NotTorn AlarmsAreWhole NumbersDiffer OwnText
CHECK_DEADLOCK FALSE
