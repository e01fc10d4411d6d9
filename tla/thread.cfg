SPECIFICATION FairSpec
CONSTANTS
  Msg = {"open", "close"}
  NONE = "none"
  SIZE = 2
  Timeout = {0, 1, 2, 3}
  U32 = 7
  SECOND = 2
  OS_TICKS_PER_SEC = 1
  Interval <- MCInterval
INVARIANTS TimersScheduled DueWithinInterval
PROPERTIES IsMailbox TimersRun
