\* A thread and the handlers use the same timer, ids that were removed included.
SPECIFICATION AlarmSpec
CONSTANTS
  a = a
  s1 = s1
  IoThread = IoThread
  Nobody = Nobody
  Threads = {a}
  Slots = {s1}
  Users <- SharedTimer
  MaxTimers = 1
  MaxWaits = 2
  MaxTime = 1
  MaxStarts = 2
INVARIANT HandledOnce
PROPERTIES LockReturns HandlersRun
CHECK_DEADLOCK FALSE
