SPECIFICATION Spec
CONSTANTS
  Sectors = 3
  SectorSize = 4
  PageSize = 4
  Lens = {3}
  SeqCount = 14
  Faults = {"wipe"}
  MaxFaults = 1
INVARIANTS BusyOnlyDuringWipe
CHECK_DEADLOCK FALSE
