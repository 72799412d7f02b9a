SPECIFICATION MotionSpec
CONSTANTS
  Workers = {w1, w2}
  MaxSamples = 4
INVARIANTS
  TimerSparesTheUnwrap
  MenusAreBounded
  OnlyHalfLosesTheTilt
