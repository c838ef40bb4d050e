SPECIFICATION PipelineSpec
CONSTANTS
  adc = adc
  temperature = temperature
  Tasks = {adc, temperature}
  Deferring = {}
  QueueLength = 2
  MaxEvents = 2
  Commands = {}
  MaxWipes = 0
  Sectors = 2
  SectorSize = 4
  PageSize = 4
  Lens = {3}
  SeqCount = 20
  Faults = {"power"}
  MaxFaults = 1
SYMMETRY TaskSymmetry
INVARIANTS PipelineTypeOK TaskOrderKept NothingLostSilently StoreKeepsUartOrder NextSeqIsFresh
CHECK_DEADLOCK FALSE
