SPECIFICATION Spec
CONSTANTS
  N = 1
  TICKS = 2
  DELAY = 1
  LAG = 1
  U8 = 4
  U32 = 5
  DISCARD = 2
  STUDY_MAX = 3
  RELEARN = 4
INVARIANTS TypeOK StudiedIsReported PhaseClocksAgree
PROPERTIES FirstStudyComplete LearnedForGood
