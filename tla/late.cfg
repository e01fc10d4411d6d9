SPECIFICATION RegularSpec
CONSTANTS
  N = 1
  TICKS = 4
  DELAY = 1
  LAG = 1
  U8 = 8
  U32 = 13
  DISCARD = 6
  STUDY_MAX = 16
  RELEARN = 17
  Durations <- MCLateDurations
INVARIANTS PeriodsTrue ReportTrueAtRest CountingHasPeriods
