SPECIFICATION HistorySpec
CONSTANTS
  TimeLimit = 4
  Debounce = 1
  FrameGap = 2
  BootTime = 3
  MaxNow = 11
  Skews = {0, 2}
INVARIANTS
  HistoryTypeOK
  NeverOvercharges
  ClockTracksPlay
  PauseIsDelayedByDate
