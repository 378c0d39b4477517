\* Two calls of config() and up to two watching threads of a file that is
\* edited.
SPECIFICATION Spec
CONSTANTS
  Sizes = {1, 2}
  MaxEdits = 3
  MaxTime = 2
  MaxConfigs = 2
INVARIANTS BlindSpot
PROPERTY LoadsWhatItSees
CHECK_DEADLOCK FALSE
