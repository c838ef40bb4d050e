SPECIFICATION Spec
CONSTANTS
  Sectors = 3
  SectorSize = 4
  PageSize = 4
  Lens = {4}
  SeqCount = 14
  Faults = {"power"}
  MaxFaults = 1
INVARIANTS SendsAllOldestFirst
CHECK_DEADLOCK FALSE
