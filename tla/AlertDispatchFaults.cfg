SPECIFICATION Spec
CONSTANTS
  None = None
  lecturer = lecturer
  affairs = affairs
  Recipients = {lecturer, affairs}
  MinLevel <- MCMinLevel
  Workers = {w1, w2}
  Levels = {2, 3}
  MaxCalls = 2
  Attempts = 2
  StallLimit = 1
  FaultKinds <- MCFaults
  MaxFaults = 2
INVARIANTS TypeOK AnnouncedOnce
PROPERTY EveryoneTold
CHECK_DEADLOCK FALSE
