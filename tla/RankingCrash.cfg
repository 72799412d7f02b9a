SPECIFICATION RankingSpec
CONSTANTS
  Scores <- MCScores
  MaxGames = 3
  MayCrash = TRUE
INVARIANTS
  RankingTypeOK
  SavedRankingIsSorted
  SavedScoresWereEarned
  LabelsNeverOverstate
PROPERTY
  SavedRankingOnlyGrows
