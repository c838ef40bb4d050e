SPECIFICATION FairPipeline
CONSTANTS
  adc = adc
  temperature = temperature
  Tasks = {adc, temperature}
  Deferring = {temperature}
  QueueLength = 1
  MaxEvents = 1
  Commands = {"p", "a", "e"}
  MaxWipes = 1
  Sectors = 2
  SectorSize = 4
  PageSize = 4
  Lens = {3}
  SeqCount = 20
  Faults = {"power", "command", "wipe"}
  MaxFaults = 1
INVARIANTS IndexCountsFrames
PROPERTIES QueueDrains
CHECK_DEADLOCK FALSE
