SPECIFICATION FlowSpec
CONSTANT MaxScenes = 5
INVARIANTS
  FlowTypeOK
  OneTrackPerTimer
  LeaderboardShowsItsGame
  BackIsOvertakenOnlyBySolving
PROPERTY LeftGamesAreFreed
