SPECIFICATION Spec
CONSTANTS
  TxSize = 4
  ChunkMax = 2
  FrameSizes = {2, 3}
  MaxFrames = 1
  MaxDumps = 1
  MaxFull = 1
INVARIANTS FramesUnbroken
CHECK_DEADLOCK FALSE
