-------------------------- MODULE CardTableProofs ---------------------------
(***************************************************************************)
(* Proofs about the card table, for boards of every size and any number of *)
(* tries.                                                                  *)
(*                                                                         *)
(* ClosureFindsItsPair is not inductive: that a pending closure finds two  *)
(* unfound cards depends on what was touchable, which depends on which     *)
(* backs the last frame hid, which depends on what the closures queued.    *)
(* TableIInv ties the selection, the lock, the values remembered with the  *)
(* selection and the sprites together.                                     *)
(***************************************************************************)
EXTENDS CardTable, CardDeckProofs, FiniteSetTheorems

(* The second index is set exactly under the lock, never without the       *)
(* first, and nothing is selected while the cards are dealt.               *)
SelectionShape ==
  /\ selectedCardIndex2 # -1 <=> lockInteraction
  /\ selectedCardIndex1 = -1 => selectedCardIndex2 = -1
  /\ ~Dealt => selectedCardIndex1 = -1
  /\ selectedCardIndex1 # -1 =>
       selectedCard1Value = cardsSequence[selectedCardIndex1]

(* While the view draws, the back of a found card is already hidden.       *)
FoundBacksHidden == rendering = "on" => Found \subseteq backsHidden

TableIInv ==
  /\ TableTypeOK
  /\ LockedWhilePending
  /\ ClosureFindsItsPair
  /\ BoardMirrorsState
  /\ FoundNeverSelected
  /\ SelectionShape
  /\ FoundBacksHidden
  /\ crash = "none"

LEMMA CardsFact == Cards \subseteq Nat /\ -1 \notin Cards /\ Cards # {}
BY PairsFact DEF Cards

LEMMA TableInitial == TableInit => TableIInv
<1> SUFFICES ASSUME TableInit PROVE TableIInv
  OBVIOUS
<1>1. TableTypeOK
  BY DeckInitial DEF TableInit, HandInit, ResetCardsStatus, TableTypeOK, DeckIInv, RenderStates
<1>2. Found = {} /\ Selected = {}
  BY CardsFact DEF TableInit, HandInit, ResetCardsStatus, Found, Selected
<1>3. QED
  BY <1>1, <1>2 DEF TableInit, HandInit, ResetCardsStatus, TableIInv, LockedWhilePending,
     ClosureFindsItsPair, BoardMirrorsState, FoundNeverSelected,
     SelectionShape, FoundBacksHidden

(* Deal touches the deck only, while nothing is selected or pending.       *)
LEMMA DealKeepsTable == TableIInv /\ Deal => TableIInv'
<1> SUFFICES ASSUME TableIInv, Deal PROVE TableIInv'
  OBVIOUS
<1>1. DeckTypeOK'
  <2>1. PICK j \in Draw(index) : cardsSequence' = Swap(cardsSequence, index, j)
    BY DEF Deal, ShuffleStep
  <2>2. index \in Cards /\ index > 0 /\ index' = index - 1
    BY DEF Deal, ShuffleStep, TableIInv, TableTypeOK, DeckTypeOK
  <2>3. j \in Cards
    BY <2>2, DrawInRange
  <2>4. QED
    BY <2>1, <2>2, <2>3, PairsFact
       DEF TableIInv, TableTypeOK, DeckTypeOK, Swap, Cards
<1>2. UNCHANGED handVars
  BY DEF Deal
<1>3. /\ selectedCardIndex1 = -1 /\ selectedCardIndex2 = -1 /\ ~lockInteraction
      /\ matchClosures = 0 /\ unmatchClosures = 0
  BY PairsFact DEF TableIInv, SelectionShape, LockedWhilePending, TableTypeOK,
     DeckTypeOK, Deal, ShuffleStep, Dealt, Cards
<1>4. Found' = Found /\ Selected' = Selected
  BY <1>2 DEF handVars, selVars, statusVars, Found, Selected
<1>5. QED
  BY <1>1, <1>2, <1>3, <1>4
     DEF TableIInv, TableTypeOK, LockedWhilePending, ClosureFindsItsPair,
         BoardMirrorsState, FoundNeverSelected, SelectionShape,
         FoundBacksHidden, handVars, selVars, statusVars, pendVars, spriteVars

LEMMA SelectFirstKeepsTable ==
  ASSUME TableIInv, NEW i \in Cards, SelectFirst(i)
  PROVE  TableIInv'
<1>1. /\ selectedCardIndex1 = -1 /\ selectedCardIndex2 = -1 /\ ~lockInteraction
      /\ matchClosures = 0 /\ unmatchClosures = 0 /\ i \notin Found
  BY DEF SelectFirst, Touchable, TableIInv, SelectionShape, LockedWhilePending,
     TableTypeOK, FoundBacksHidden
<1>2. Found' = Found /\ Selected = {} /\ Selected' = {i}
  BY <1>1, CardsFact DEF SelectFirst, statusVars, Found, Selected
<1>3. TableTypeOK'
  BY DEF SelectFirst, TableIInv, TableTypeOK, DeckTypeOK, deckVars, statusVars,
     pendVars
<1>4. SelectionShape'
  BY <1>1, CardsFact DEF SelectFirst, Touchable, SelectionShape, Dealt, deckVars
<1>5. LockedWhilePending' /\ ClosureFindsItsPair'
  BY <1>1 DEF SelectFirst, pendVars, LockedWhilePending, ClosureFindsItsPair
<1>6. BoardMirrorsState' /\ FoundNeverSelected' /\ FoundBacksHidden' /\ crash' = "none"
  BY <1>1, <1>2 DEF SelectFirst, TableIInv, BoardMirrorsState,
     FoundNeverSelected, FoundBacksHidden
<1>7. QED
  BY <1>3, <1>4, <1>5, <1>6 DEF TableIInv

LEMMA SelectSecondKeepsTable ==
  ASSUME TableIInv, NEW i \in Cards, SelectSecond(i)
  PROVE  TableIInv'
<1> USE DEF SelectSecond, SelectSecondEffect
<1>1. /\ selectedCardIndex1 \in Cards \ Found /\ selectedCardIndex2 = -1
      /\ i \notin Found /\ i # selectedCardIndex1
      /\ matchClosures = 0 /\ unmatchClosures = 0 /\ ~lockInteraction
      /\ selectedCard1Value = cardsSequence[selectedCardIndex1]
  BY DEF Touchable, TableIInv, SelectionShape, LockedWhilePending,
     TableTypeOK, FoundBacksHidden, FoundNeverSelected, Selected
<1>2. Found' = Found /\ Selected' = Selected \cup {i}
  BY <1>1, CardsFact DEF statusVars, Found, Selected
<1>3. /\ matchClosures' \in Nat /\ unmatchClosures' \in Nat
      /\ matchClosures' + unmatchClosures' = 1
      /\ matchClosures' > 0 <=> selectedCard1Value = cardsSequence[i]
  BY <1>1 DEF Schedule
<1>4. TableTypeOK'
  BY <1>3 DEF TableIInv, TableTypeOK, DeckTypeOK, deckVars, statusVars
<1>5. SelectionShape'
  BY <1>1, CardsFact DEF Touchable, TableIInv, SelectionShape, Dealt, deckVars
<1>6. LockedWhilePending'
  BY <1>3 DEF LockedWhilePending
<1>7. ClosureFindsItsPair'
  BY <1>1, <1>2, <1>3 DEF ClosureFindsItsPair, deckVars
<1>8. BoardMirrorsState' /\ FoundNeverSelected' /\ FoundBacksHidden' /\ crash' = "none"
  BY <1>1, <1>2 DEF TableIInv, BoardMirrorsState, FoundNeverSelected,
     FoundBacksHidden
<1>9. QED
  BY <1>4, <1>5, <1>6, <1>7, <1>8 DEF TableIInv

(* A match closure finds the pair it was scheduled for: no index traps,    *)
(* exactly these two cards become found, and their backs are hidden.       *)
LEMMA MatchClosureEffect ==
  ASSUME TableIInv, MatchClosure
  PROVE  /\ selectedCardIndex1 \in Cards \ Found
         /\ selectedCardIndex2 \in Cards \ Found
         /\ selectedCardIndex1 # selectedCardIndex2
         /\ cardsSequence[selectedCardIndex1] = cardsSequence[selectedCardIndex2]
         /\ Found' = Found \cup {selectedCardIndex1, selectedCardIndex2}
         /\ Selected = {selectedCardIndex1, selectedCardIndex2} /\ Selected' = {}
         /\ matchClosures' = 0 /\ unmatchClosures' = 0
<1>1. /\ matchClosures \in Nat /\ unmatchClosures \in Nat
      /\ matchClosures = 1 /\ unmatchClosures = 0
  BY DEF MatchClosure, HideSelectedCards, TableIInv, TableTypeOK, LockedWhilePending
<1>2. /\ selectedCardIndex1 \in Cards \ Found
      /\ selectedCardIndex2 \in Cards \ Found
      /\ selectedCardIndex1 # selectedCardIndex2
      /\ cardsSequence[selectedCardIndex1] = cardsSequence[selectedCardIndex2]
  BY <1>1 DEF TableIInv, ClosureFindsItsPair
<1>3. Found' = Found \cup {selectedCardIndex1, selectedCardIndex2}
  BY <1>2 DEF MatchClosure, HideSelectedCards, StatusCardFound, Found, TableIInv, TableTypeOK
<1>4. Selected = {selectedCardIndex1, selectedCardIndex2} /\ Selected' = {}
  BY <1>2, CardsFact DEF MatchClosure, HideSelectedCards, DeselectCards, Selected
<1>5. QED
  BY <1>1, <1>2, <1>3, <1>4 DEF MatchClosure, HideSelectedCards

LEMMA MatchClosureKeepsTable == TableIInv /\ MatchClosure => TableIInv'
<1> SUFFICES ASSUME TableIInv, MatchClosure PROVE TableIInv'
  OBVIOUS
<1>1. /\ {selectedCardIndex1, selectedCardIndex2} \subseteq Cards
      /\ Found' = Found \cup {selectedCardIndex1, selectedCardIndex2}
      /\ Selected = {selectedCardIndex1, selectedCardIndex2} /\ Selected' = {}
      /\ matchClosures' = 0 /\ unmatchClosures' = 0
  BY MatchClosureEffect
<1>2. /\ selectedCardIndex1' = -1 /\ selectedCardIndex2' = -1
      /\ lockInteraction' = FALSE
  BY DEF MatchClosure, HideSelectedCards, DeselectCards
<1>3. TableTypeOK'
  <2>1. cardsStatus' \in [Cards -> BOOLEAN]
    BY DEF MatchClosure, HideSelectedCards, StatusCardFound, TableIInv, TableTypeOK
  <2>2. frontsQueued' \in SUBSET Cards /\ crash' = crash
    BY <1>1 DEF MatchClosure, HideSelectedCards, TableIInv, TableTypeOK
  <2>3. matchesCount' \in Nat
    BY DEF MatchClosure, HideSelectedCards, TableIInv, TableTypeOK
  <2>4. UNCHANGED <<deckVars, selectedCard1Value, selectedCard2Value, tryCount,
                    backsHidden, backsQueued, frontsHidden, rendering>>
    BY DEF MatchClosure, HideSelectedCards
  <2>5. QED
    BY <1>1, <1>2, <2>1, <2>2, <2>3, <2>4
       DEF TableIInv, TableTypeOK, DeckTypeOK, deckVars
<1>4. LockedWhilePending' /\ ClosureFindsItsPair' /\ SelectionShape'
  BY <1>1, <1>2 DEF LockedWhilePending, ClosureFindsItsPair, SelectionShape
<1>5. BoardMirrorsState' /\ FoundNeverSelected' /\ crash' = "none"
  BY <1>1 DEF MatchClosure, HideSelectedCards, TableIInv, BoardMirrorsState, FoundNeverSelected
<1>6. FoundBacksHidden'
  <2> SUFFICES ASSUME rendering' = "on" PROVE Found' \subseteq backsHidden'
    BY DEF FoundBacksHidden
  <2>1. backsHidden = Found \cup Selected /\ backsHidden' = backsHidden
    BY DEF MatchClosure, HideSelectedCards, Due, Settled, TableIInv, BoardMirrorsState
  <2>2. QED
    BY <2>1, <1>1
<1>7. QED
  BY <1>3, <1>4, <1>5, <1>6 DEF TableIInv

(* An unmatch closure finds its pair too, so ResetSelectedCards never      *)
(* takes its early return.                                                 *)
LEMMA UnmatchClosureKeepsTable == TableIInv /\ UnmatchClosure => TableIInv'
<1> SUFFICES ASSUME TableIInv, UnmatchClosure PROVE TableIInv'
  OBVIOUS
<1>1. /\ matchClosures \in Nat /\ unmatchClosures \in Nat
      /\ unmatchClosures = 1 /\ matchClosures = 0
  BY DEF UnmatchClosure, TableIInv, TableTypeOK, LockedWhilePending
<1>2. {selectedCardIndex1, selectedCardIndex2} \subseteq Cards \ Found
  BY <1>1 DEF TableIInv, ClosureFindsItsPair
<1>3. backsQueued' = backsQueued \ Selected /\ DeselectCards
  BY <1>2 DEF UnmatchClosure, ResetSelectedCards
<1>4. /\ Found' = Found /\ Selected' = {} /\ Selected \cap Found = {}
      /\ matchClosures' = 0 /\ unmatchClosures' = 0
  BY <1>1, <1>2, <1>3, CardsFact DEF UnmatchClosure, DeselectCards, Selected, Found
<1>5. TableTypeOK'
  <2>1. backsQueued' \in SUBSET Cards /\ tryCount' \in Nat
    BY <1>3 DEF UnmatchClosure, TableIInv, TableTypeOK
  <2>2. UNCHANGED <<deckVars, selectedCard1Value, selectedCard2Value, cardsStatus,
                    matchesCount, backsHidden, frontsHidden, frontsQueued,
                    rendering, crash>>
    BY DEF UnmatchClosure
  <2>3. QED
    BY <1>3, <1>4, <2>1, <2>2
       DEF DeselectCards, TableIInv, TableTypeOK, DeckTypeOK, deckVars
<1>6. LockedWhilePending' /\ ClosureFindsItsPair' /\ SelectionShape'
  BY <1>3, <1>4 DEF DeselectCards, LockedWhilePending, ClosureFindsItsPair,
     SelectionShape
<1>7. BoardMirrorsState' /\ FoundNeverSelected' /\ FoundBacksHidden' /\ crash' = "none"
  BY <1>3, <1>4 DEF UnmatchClosure, TableIInv, BoardMirrorsState,
     FoundNeverSelected, FoundBacksHidden
<1>8. QED
  BY <1>5, <1>6, <1>7 DEF TableIInv

LEMMA FrameKeepsTable == TableIInv /\ Frame => TableIInv'
<1> SUFFICES ASSUME TableIInv, Frame PROVE TableIInv'
  OBVIOUS
<1> USE DEF Frame, RenderSprites, DrawFrame, deckVars, selVars, statusVars, pendVars
<1>1. Found' = Found /\ Selected' = Selected
  BY DEF Found, Selected
<1>2. TableTypeOK'
  BY DEF TableIInv, TableTypeOK, DeckTypeOK, RenderStates
<1>3. LockedWhilePending' /\ ClosureFindsItsPair' /\ SelectionShape'
  BY <1>1 DEF TableIInv, LockedWhilePending, ClosureFindsItsPair, SelectionShape, Dealt
<1>4. BoardMirrorsState' /\ FoundNeverSelected' /\ FoundBacksHidden' /\ crash' = "none"
  BY <1>1 DEF TableIInv, BoardMirrorsState, FoundNeverSelected, FoundBacksHidden
<1>5. QED
  BY <1>2, <1>3, <1>4 DEF TableIInv

LEMMA LifeCycleKeepsTable == TableIInv /\ LifeCycle => TableIInv'
<1> SUFFICES ASSUME TableIInv, LifeCycle PROVE TableIInv'
  OBVIOUS
<1> USE DEF LifeCycle, deckVars, selVars, statusVars, pendVars, spriteVars
<1>1. Found' = Found /\ Selected' = Selected
  BY DEF Found, Selected
<1>2. rendering' \in {"off", "resuming"}
  BY DEF ResignActive, BecomeActive
<1>3. TableTypeOK'
  BY <1>2 DEF TableIInv, TableTypeOK, DeckTypeOK, RenderStates
<1>4. LockedWhilePending' /\ ClosureFindsItsPair' /\ SelectionShape'
  BY <1>1 DEF TableIInv, LockedWhilePending, ClosureFindsItsPair, SelectionShape, Dealt
<1>5. BoardMirrorsState' /\ FoundNeverSelected' /\ FoundBacksHidden' /\ crash' = "none"
  BY <1>1, <1>2 DEF TableIInv, BoardMirrorsState, FoundNeverSelected, FoundBacksHidden
<1>6. QED
  BY <1>3, <1>4, <1>5 DEF TableIInv

LEMMA StutterKeepsTable == TableIInv /\ UNCHANGED tableVars => TableIInv'
<1> SUFFICES ASSUME TableIInv, UNCHANGED tableVars PROVE TableIInv'
  OBVIOUS
<1> USE DEF tableVars, deckVars, handVars, selVars, statusVars, pendVars, spriteVars
<1>1. Found' = Found /\ Selected' = Selected
  BY DEF Found, Selected
<1>2. TableTypeOK'
  BY DEF TableIInv, TableTypeOK, DeckTypeOK
<1>3. QED
  BY <1>1, <1>2 DEF TableIInv, LockedWhilePending, ClosureFindsItsPair,
     SelectionShape, Dealt, BoardMirrorsState, FoundNeverSelected, FoundBacksHidden
-----------------------------------------------------------------------------
LEMMA TableInductive == TableIInv /\ [TableNext]_tableVars => TableIInv'
<1> SUFFICES ASSUME TableIInv, [TableNext]_tableVars PROVE TableIInv'
  OBVIOUS
<1>1. CASE \E i \in Cards : SelectFirst(i) \/ SelectSecond(i)
  BY <1>1, SelectFirstKeepsTable, SelectSecondKeepsTable
<1>2. CASE Deal \/ MatchClosure \/ UnmatchClosure
  BY <1>2, DealKeepsTable, MatchClosureKeepsTable, UnmatchClosureKeepsTable
<1>3. CASE Frame \/ LifeCycle \/ UNCHANGED tableVars
  BY <1>3, FrameKeepsTable, LifeCycleKeepsTable, StutterKeepsTable
<1>4. QED
  BY <1>1, <1>2, <1>3 DEF TableNext

LEMMA TableInvariance == TableSafety => []TableIInv
BY TableInitial, TableInductive, PTL DEF TableSafety

(* The variables of the table keep their types, on boards of every size.   *)
THEOREM TableTypeCorrect == TableSafety => []TableTypeOK
<1>1. TableIInv => TableTypeOK
  BY DEF TableIInv
<1>2. QED
  BY <1>1, TableInvariance, PTL

(* The table is locked exactly while one closure is pending.               *)
THEOREM LockDiscipline == TableSafety => []LockedWhilePending
<1>1. TableIInv => LockedWhilePending
  BY DEF TableIInv
<1>2. QED
  BY <1>1, TableInvariance, PTL

(* Every delayed closure finds the pair it was scheduled for, whatever was *)
(* touched, drawn or sent to the background in between, and none traps.    *)
THEOREM ClosuresAreSafe == TableSafety => [](ClosureFindsItsPair /\ NoIndexTrap)
<1>1. TableIInv => ClosureFindsItsPair /\ NoIndexTrap
  BY DEF TableIInv, TableTypeOK, ClosureFindsItsPair, NoIndexTrap
<1>2. QED
  BY <1>1, TableInvariance, PTL

(* The sprites follow the arrays, and a found card is never selected.      *)
THEOREM BoardIsFaithful == TableSafety => [](BoardMirrorsState /\ FoundNeverSelected)
<1>1. TableIInv => BoardMirrorsState /\ FoundNeverSelected
  BY DEF TableIInv
<1>2. QED
  BY <1>1, TableInvariance, PTL

(* What a step does to the found cards and to matchesCount: nothing, or    *)
(* two new cards of one number and one more match.                         *)
LEMMA FoundStep ==
  ASSUME TableIInv, [TableNext]_tableVars
  PROVE  \/ Found' = Found /\ matchesCount' = matchesCount
         \/ /\ MatchClosure
            /\ matchesCount' = matchesCount + 1
<1>1. CASE MatchClosure
  BY <1>1 DEF MatchClosure, HideSelectedCards
<1>2. CASE UNCHANGED <<cardsStatus, matchesCount>>
  BY <1>2 DEF Found
<1>3. MatchClosure \/ UNCHANGED <<cardsStatus, matchesCount>>
  BY DEF TableNext, Deal, SelectFirst, SelectSecond, SelectSecondEffect,
     UnmatchClosure, Frame, LifeCycle, tableVars, handVars, statusVars
<1>4. QED
  BY <1>1, <1>2, <1>3

(* Cards are found two at a time, with the same number, and stay found.    *)
THEOREM FoundInPairs == TableSafety => OnlyPairsAreFound
<1> DEFINE A == Found' # Found =>
       /\ Found \subseteq Found'
       /\ \E a, b \in Cards : /\ a # b /\ cardsSequence[a] = cardsSequence[b]
                              /\ Found' \ Found = {a, b}
<1>1. TableIInv /\ [TableNext]_tableVars => [A]_tableVars
  <2> SUFFICES ASSUME TableIInv, [TableNext]_tableVars, Found' # Found PROVE A
    OBVIOUS
  <2>1. MatchClosure
    BY FoundStep
  <2>2. Found' \ Found = {selectedCardIndex1, selectedCardIndex2}
    BY <2>1, MatchClosureEffect
  <2>3. QED
    BY <2>1, <2>2, MatchClosureEffect
<1>2. QED
  BY <1>1, TableInvariance, PTL DEF TableSafety, OnlyPairsAreFound

(* matchesCount is half the number of found cards: no pair is paid twice.  *)
THEOREM MatchesAreFoundPairs == TableSafety => []MatchesCountFoundPairs
<1> DEFINE Inv == IsFiniteSet(Found) /\ MatchesCountFoundPairs
<1>1. TableInit => Inv
  <2> SUFFICES ASSUME TableInit PROVE Inv
    OBVIOUS
  <2>1. Found = {} /\ matchesCount = 0
    BY DEF TableInit, HandInit, ResetCardsStatus, Found
  <2>2. QED
    BY <2>1, FS_EmptySet DEF MatchesCountFoundPairs
<1>2. TableIInv /\ Inv /\ [TableNext]_tableVars => Inv'
  <2> SUFFICES ASSUME TableIInv, Inv, [TableNext]_tableVars PROVE Inv'
    OBVIOUS
  <2>1. CASE Found' = Found /\ matchesCount' = matchesCount
    BY <2>1 DEF MatchesCountFoundPairs
  <2>2. CASE MatchClosure /\ matchesCount' = matchesCount + 1
    <3> DEFINE one == Found \cup {selectedCardIndex1}
    <3>1. IsFiniteSet(one) /\ Cardinality(one) = Cardinality(Found) + 1
      BY <2>2, MatchClosureEffect, FS_AddElement
    <3>2. Found' = one \cup {selectedCardIndex2} /\ selectedCardIndex2 \notin one
      BY <2>2, MatchClosureEffect
    <3> HIDE DEF one
    <3>3. IsFiniteSet(Found') /\ Cardinality(Found') = Cardinality(one) + 1
      BY <3>1, <3>2, FS_AddElement
    <3>4. matchesCount \in Nat
      BY DEF TableIInv, TableTypeOK
    <3>5. QED
      BY <2>2, <3>1, <3>3, <3>4 DEF MatchesCountFoundPairs
  <2>3. QED
    BY <2>1, <2>2, FoundStep
<1>3. QED
  BY <1>1, <1>2, TableInvariance, PTL DEF TableSafety
=============================================================================
