SPECIFICATION PlaySpec
CONSTANTS
  cardsPerRow = 2
  cardsPerColumn = 2
  MaxTries = 1
  TimeLimit = 2
  Debounce = 0
  FrameGap = 2
  BootTime = 1
  MaxNow = 3
  difficulty = 1
  TicksPerSecond = 2
  MaxPresented = 2
INVARIANTS
  PlayTypeOK
  RecordedOnceSolved
  RecordedScoreIsEarned
PROPERTIES
  
  PauseFreezesGame
  ImplementsCardTable
  PairIsSettled
