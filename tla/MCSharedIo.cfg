SPECIFICATION FairSpec
CONSTANTS
  EnableWait = 1
  BusyWait = 2
  ChipTime = 2
  RetryCount = 2
  Modes = 2
  MaxCommands = 1
INVARIANTS TypeOK SuccessMeansDone ReadsMeetReadyChip NoI2cDuringFlashWrite
PROPERTIES SensorComesBack DisplayFollowsButton
CHECK_DEADLOCK FALSE
