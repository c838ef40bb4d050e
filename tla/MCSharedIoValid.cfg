SPECIFICATION Spec
CONSTANTS
  EnableWait = 1
  BusyWait = 2
  ChipTime = 2
  RetryCount = 2
  Modes = 2
  MaxCommands = 2
INVARIANTS ValidMeansMeasured
CHECK_DEADLOCK FALSE
