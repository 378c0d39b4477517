\* A timer is used by one thread: a caller, or the handlers.
SPECIFICATION Spec
CONSTANTS
  a = a
  b = b
  s1 = s1
  s2 = s2
  IoThread = IoThread
  Nobody = Nobody
  Threads = {a}
  Slots = {s1, s2}
  Users <- OwnTimers
  MaxTimers = 2
  MaxWaits = 3
  MaxTime = 1
  MaxStarts = 1
INVARIANTS TypeOK NeverEarly OneWait RemovedIsSilent RunsWhileActive
PROPERTIES CancelForces WaitsEnd
CHECK_DEADLOCK FALSE
