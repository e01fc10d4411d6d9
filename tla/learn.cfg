SPECIFICATION RegularFairSpec
CONSTANTS
  N = 1
  TICKS = 4
  DELAY = 1
  LAG = 0
  U8 = 8
  U32 = 17
  DISCARD = 6
  STUDY_MAX = 24
  RELEARN = 30
  Durations <- MCDurations
PROPERTIES EventuallyLearned StudiesEnd
