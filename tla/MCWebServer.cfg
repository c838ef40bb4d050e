SPECIFICATION Spec
CONSTANTS
  Conns = {c1, c2}
  HeapReplies = 1
  MaxReadings = 1
  MaxFaults = 2
INVARIANTS
  WebTypeOK
  RepliesUnmixed
PROPERTIES
  SegmentsReturned
  RequestsSettled
  StatusFollowsLink
  ServerComesUp
CHECK_DEADLOCK FALSE
