SPECIFICATION TableSpec
CONSTANTS
  cardsPerRow = 2
  cardsPerColumn = 3
  MaxTries = 2
INVARIANTS
  TableTypeOK
  LockedWhilePending
  ClosureFindsItsPair
  BoardMirrorsState
  MatchesCountFoundPairs
PROPERTIES
  OnlyPairsAreFound
  LockIsReleased
