SPECIFICATION PipelineSpec
CONSTANTS
  adc = adc
  temperature = temperature
  Tasks = {adc, temperature}
  Deferring = {temperature}
  QueueLength = 2
  MaxEvents = 2
  Commands = {}
  MaxWipes = 0
  Sectors = 3
  SectorSize = 4
  PageSize = 4
  Lens = {3}
  SeqCount = 20
  Faults = {"power"}
  MaxFaults = 1
INVARIANTS SendsEveryFrame
CHECK_DEADLOCK FALSE
