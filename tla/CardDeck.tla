------------------------------ MODULE CardDeck ------------------------------
(***************************************************************************)
(* How PlayScene deals: FillCardSequence fills cardsSequence with two      *)
(* cards of each number, ShuffleArray permutes it in place, CreateCardboard*)
(* lays it on the grid.  The arrays of the code are functions with a       *)
(* 0-based domain.  One ShuffleStep is one turn of the while loop.         *)
(***************************************************************************)
EXTENDS Integers, FiniteSets

CONSTANTS
  cardsPerRow,    (* outer bound of the loops of CreateCardboard           *)
  cardsPerColumn  (* inner bound of the loops of CreateCardboard           *)

(* What FillCardSequence, ShuffleArray and CreateCardboard need of a board:*)
(* two pairs, and no card left over, or cardsSequence[idx] would trap.     *)
Dealable(rows, columns) ==
  /\ rows \in Nat /\ columns \in Nat
  /\ rows * columns >= 4
  /\ (rows * columns) % 2 = 0

ASSUME GridAssumption == Dealable(cardsPerRow, cardsPerColumn)

(* The board and the time of each difficulty.                              *)
SetDifficulty(difficultyId) ==
  CASE difficultyId = 0 -> [cardsPerRow |-> 3, cardsPerColumn |-> 4, time |-> 120]
    [] difficultyId = 1 -> [cardsPerRow |-> 4, cardsPerColumn |-> 4, time |-> 210]
    [] difficultyId = 2 -> [cardsPerRow |-> 4, cardsPerColumn |-> 5, time |-> 250]

(* The asset catalog holds the pictures Number-1 to Number-10.             *)
Pictures == 1..10

NumPairs  == (cardsPerRow * cardsPerColumn) \div 2
Numbers   == 1..NumPairs
LastIndex == 2 * NumPairs - 1
Cards     == 0..LastIndex

VARIABLES
  cardsSequence,  (* the numbers of the cards, in dealing order            *)
  index           (* loop variable of ShuffleArray; 0 once it has returned *)

deckVars == <<cardsSequence, index>>
-----------------------------------------------------------------------------
(* cardsSequence before the shuffle: 1, 1, 2, 2, 3, 3, ...                 *)
FillCardSequence == [k \in Cards |-> k \div 2 + 1]

(* The C library draws below the bound; bounds 0 and 1 both give 0.        *)
Arc4RandomUniform(bound) == IF bound < 2 THEN {0} ELSE 0..(bound - 1)

(* Wrong variant: the range that the comment in the loop announces.        *)
DrawAsCommented(i) == Arc4RandomUniform(i)
Draw(i) == Arc4RandomUniform(i - 1)

(* Wrong variant: without the temporary, one of the two cards is lost.     *)
SwapNoTemp(s, a, b) == [s EXCEPT ![a] = s[b]]
Swap(s, a, b) == [s EXCEPT ![a] = s[b], ![b] = s[a]]

(* Wrong variant: the loop does not stop at 0.                             *)
ShuffleStepPastZero ==
  /\ index >= 0
  /\ \E j \in Draw(index) : cardsSequence' = Swap(cardsSequence, index, j)
  /\ index' = index - 1

ShuffleStep ==
  /\ index > 0
  /\ \E j \in Draw(index) : cardsSequence' = Swap(cardsSequence, index, j)
  /\ index' = index - 1

Dealt == index = 0

Grid == (0..(cardsPerRow - 1)) \X (0..(cardsPerColumn - 1))

(* Wrong variant: the row stride instead of the column stride.             *)
CreateCardboardByRow ==
  [p \in Grid |-> cardsSequence[p[1] * cardsPerRow + p[2]]]

(* The number of the card that CreateCard puts at each place of the grid.  *)
CreateCardboard ==
  [p \in Grid |-> cardsSequence[p[1] * cardsPerColumn + p[2]]]

DeckInit ==
  /\ cardsSequence = FillCardSequence
  /\ index = LastIndex

DeckDone == Dealt /\ UNCHANGED deckVars

DeckNext == ShuffleStep \/ DeckDone

DeckSpec == DeckInit /\ [][DeckNext]_deckVars
-----------------------------------------------------------------------------
(* cardsSequence stays an array of card numbers, and index stays within it.*)
DeckTypeOK ==
  /\ cardsSequence \in [Cards -> Numbers]
  /\ index \in Cards

Paired(s) ==
  \A v \in Numbers : \E a, b \in Cards :
    a # b /\ \A k \in Cards : s[k] = v <=> k \in {a, b}

(* Every number is on exactly two cards, whatever the swaps of             *)
(* ShuffleArray: otherwise CheckIfGameOver could never answer true.        *)
PairedDeck == Paired(cardsSequence)

(* The two nested loops of CreateCardboard with the index they compute put *)
(* both cards of every number on the grid, once each.                      *)
BoardHoldsPairs ==
  Dealt => \A v \in Numbers :
             Cardinality({p \in Grid : CreateCardboard[p] = v}) = 2

(* A bias of the shuffle: from its first turn on, the last card of the     *)
(* board never carries the highest number, since the draw stops at         *)
(* index - 2 and the last two cards are filled with the highest number.    *)
LastCardNeverHighest ==
  index < LastIndex => cardsSequence[LastIndex] # NumPairs

(* What the comment in ShuffleArray says of the draw: "Random int from 0   *)
(* to index-1".                                                            *)
DrawsFromZeroToIndexMinusOne == index > 0 => Draw(index) = 0..(index - 1)
=============================================================================
