SPECIFICATION RankingSpec
CONSTANTS
  Scores <- MCScores
  MaxGames = 4
  MayCrash = FALSE
INVARIANTS
  HoldsBestGames
PROPERTY
  ImplementsTopThree
