\* The manager is stopped and started again.
SPECIFICATION Spec
CONSTANTS
  a = a
  b = b
  s1 = s1
  s2 = s2
  IoThread = IoThread
  Nobody = Nobody
  Threads = {a}
  Slots = {s1}
  Users <- OneCaller
  MaxTimers = 1
  MaxWaits = 1
  MaxTime = 1
  MaxStarts = 2
INVARIANT RunsWhileActive
CHECK_DEADLOCK FALSE
