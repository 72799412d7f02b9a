SPECIFICATION DeckSpec
CONSTANTS
  cardsPerRow = 2
  cardsPerColumn = 3
INVARIANT DrawsFromZeroToIndexMinusOne
