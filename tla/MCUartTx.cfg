SPECIFICATION FairSpec
CONSTANTS
  TxSize = 4
  ChunkMax = 2
  FrameSizes = {1, 2, 3}
  MaxFrames = 3
  MaxDumps = 1
  MaxFull = 1
INVARIANTS TypeOK DmaWindowInRing NoStrandedBytes LogFramesUnbroken
PROPERTIES ImplementsFifo EveryByteSent DumpFinishes
CHECK_DEADLOCK FALSE
