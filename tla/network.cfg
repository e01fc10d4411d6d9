SPECIFICATION Spec
CONSTANTS
  BLOCKS = 14
  NULL = NULL
  Sizes <- MCSizes
  TQ = 1
  EVENTS = 7
  QS = 5
  MBOX = 3
  POOL = 3
  Conn = {1, 2, 3, 4}
  Slot = {1, 2}
  TRIES = 2
INVARIANTS FailedStartIsFinal NothingElseLeaks RoomForSlots
PROPERTY IsHeap
CHECK_DEADLOCK FALSE
