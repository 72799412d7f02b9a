SPECIFICATION DeckSpec
CONSTANTS
  cardsPerRow = 2
  cardsPerColumn = 4
INVARIANTS
  DeckTypeOK
  PairedDeck
  BoardHoldsPairs
  LastCardNeverHighest
