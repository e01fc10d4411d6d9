SPECIFICATION LoopSpec
CONSTANTS
  P = 2
  WDOG = 10
  SCAN = 3
  FEED = 3
  STUDY = 4
  LIMIT = 5
  LATE = 1
INVARIANTS FedInTime ListsLastScan
PROPERTIES SilenceRestarts SettledIsDone
