SPECIFICATION PartsSpec
CONSTANTS
  Sectors = 2
  SectorSize = 8
  PageSize = 4
  Lens = {3, 7}
  SeqCount = 20
  Faults = {"power", "command", "wipe"}
  MaxFaults = 2
  MaxSent = 5
  CmdBufSize = 4
  Keys = {"e", "l", "1", "0", "BS", "CR"}
  MaxKeys = 7
  Samples = {0, 1, 3}
  MaxWindow = 3
  Calibrations <- TwoSensors
  RawT <- AcrossT
  RawH <- AcrossH
INVARIANTS TypeOK AppendStaysInSector ProgramsErasedCells SendsLatest ViewerRecovers GapsAreLosses LinesRunAsTyped AverageOfWindow IndexMatchesFlash SendsAllOldestFirst
PROPERTIES ReadingsFollowTheAir VerifyFailureHeals OtherSectorsUntouched ImplementsLogStore
CHECK_DEADLOCK FALSE
