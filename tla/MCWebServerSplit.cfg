SPECIFICATION Spec
CONSTANTS
  Conns = {c1}
  HeapReplies = 1
  MaxReadings = 1
  MaxFaults = 0
INVARIANTS
  ApiServesJson
CHECK_DEADLOCK FALSE
