SPECIFICATION MCSpec
CONSTANTS
  Task = {1, 2}
  Process = {p1}
  None = None
  Attempts = 2
  MaxProcessing = 1
  MaxFaults = 2
INVARIANTS TypeOK Located
PROPERTIES EventuallyRun ParkedQuiet
CHECK_DEADLOCK FALSE
