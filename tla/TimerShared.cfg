\* A thread removes a timer that its handler is arming again.
SPECIFICATION Spec
CONSTANTS
  a = a
  b = b
  s1 = s1
  s2 = s2
  IoThread = IoThread
  Nobody = Nobody
  Threads = {a}
  Slots = {s1}
  Users <- SharedTimer
  MaxTimers = 1
  MaxWaits = 2
  MaxTime = 1
  MaxStarts = 1
INVARIANT RemovedIsSilent
CHECK_DEADLOCK FALSE
