\* Two threads raise alarms, edit the list of ignored lines (lists with malformed
\* ends included), switch pause_on_alarm and change the limit from 3 to 1 or back.
SPECIFICATION MCSpec
CONSTANTS
  Threads = {t1, t2}
  l1 = l1
  l2 = l2
  Lines = {l1, l2}
  MaxTick = 2
  MaxCalls = 5
  MaxEdits = 2
  MaxConfigs = 1
  Limits = {1, 3}
  Lists <- SomeLists
  NoThread = NoThread
  Malformed = Malformed
  NoColon = NoColon
INVARIANTS TypeOK ResetsBounded WindowBounded LockHeldIffCritical CoveredNeverPauses
PROPERTIES ImplementsLimiter CallsEnd
