----------------------------- MODULE CardTable ------------------------------
(***************************************************************************)
(* The card table of PlayScene: which cards are selected, found and        *)
(* visible, and the delayed closures that settle a pair.                   *)
(*                                                                         *)
(* Everything here runs on the main queue, one handler at a time, but a    *)
(* pair is settled by a closure that asyncAfter runs 1.5 s (match) or      *)
(* 0.75 s (no match) after the touch, and SKAction.hide()/unhide() only    *)
(* take effect when the next frame evaluates the actions.  The closures    *)
(* capture the scene, not the cards: they read the selection when they     *)
(* run, so the pending ones are counted and nothing else of them is kept.  *)
(***************************************************************************)
EXTENDS CardDeck, AppState

CONSTANT MaxTries  (* bound on tryCount: no touch once it is reached       *)

ASSUME MaxTriesAssumption == MaxTries \in Nat

VARIABLES
  selectedCardIndex1, selectedCardIndex2,  (* -1: no card                  *)
  selectedCard1Value, selectedCard2Value,  (* 0 stands for the string ""   *)
  lockInteraction,
  cardsStatus,        (* found or not, for each card                       *)
  matchesCount, tryCount,
  matchClosures,      (* pending closures of a matched pair                *)
  unmatchClosures,    (* pending closures of an unmatched pair             *)
  backsHidden, backsQueued,    (* backs hidden now; after the next frame   *)
  frontsHidden, frontsQueued,  (* the same for the faces                   *)
  crash               (* "none", or why the process trapped                *)

selVars    == <<selectedCardIndex1, selectedCardIndex2,
                selectedCard1Value, selectedCard2Value, lockInteraction>>
statusVars == <<cardsStatus, matchesCount, tryCount>>
pendVars   == <<matchClosures, unmatchClosures>>
spriteVars == <<backsHidden, backsQueued, frontsHidden, frontsQueued>>
handVars   == <<selVars, statusVars, pendVars, spriteVars, rendering, crash>>
tableVars  == <<deckVars, handVars>>

Found    == {k \in Cards : cardsStatus[k]}
Selected == {selectedCardIndex1, selectedCardIndex2} \cap Cards

ResetCardsStatus == [k \in Cards |-> FALSE]

(* The state that RemoveAllCards, CreateCardboard and ResetCardsStatus     *)
(* leave, on top of the initial values of the properties.                  *)
HandInit ==
  /\ selectedCardIndex1 = -1 /\ selectedCardIndex2 = -1
  /\ selectedCard1Value = 0 /\ selectedCard2Value = 0
  /\ lockInteraction = FALSE
  /\ cardsStatus = ResetCardsStatus
  /\ matchesCount = 0 /\ tryCount = 0
  /\ matchClosures = 0 /\ unmatchClosures = 0
  /\ backsHidden = {} /\ backsQueued = {}
  /\ frontsHidden = {} /\ frontsQueued = {}
  /\ rendering = "on" /\ crash = "none"
-----------------------------------------------------------------------------
(* ProcessItemTouch on the back of card i.  A touch reaches a back that is *)
(* not hidden; UIKit delivers touches to an active application that draws. *)
Touchable(i) ==
  /\ Dealt /\ rendering = "on" /\ i \notin backsHidden
  /\ ~lockInteraction
  /\ tryCount < MaxTries

SelectFirst(i) ==
  /\ Touchable(i)
  /\ selectedCardIndex1 = -1
  /\ selectedCardIndex1' = i
  /\ selectedCard1Value' = cardsSequence[i]
  /\ backsQueued' = backsQueued \cup {i}
  /\ UNCHANGED <<deckVars, selectedCardIndex2, selectedCard2Value,
                 lockInteraction, statusVars, pendVars, backsHidden,
                 frontsHidden, frontsQueued, rendering, crash>>

(* Wrong variant: the two values are not compared.                         *)
ScheduleMatch(v1, v2) ==
  matchClosures' = matchClosures + 1 /\ UNCHANGED unmatchClosures
(* asyncAfter: one more closure, of the kind the two values call for.      *)
Schedule(v1, v2) ==
  IF v1 = v2 THEN matchClosures' = matchClosures + 1 /\ UNCHANGED unmatchClosures
             ELSE unmatchClosures' = unmatchClosures + 1 /\ UNCHANGED matchClosures

SelectSecondEffect(i) ==
  /\ lockInteraction' = TRUE
  /\ selectedCard2Value' = cardsSequence[i]
  /\ backsQueued' = backsQueued \cup {i}
  /\ Schedule(selectedCard1Value, cardsSequence[i])
  /\ UNCHANGED <<deckVars, selectedCardIndex1, selectedCard1Value, statusVars,
                 backsHidden, frontsHidden, frontsQueued, rendering, crash>>

(* Wrong variant: the same card counts as a pair with itself, before the   *)
(* frame that hides its back.                                              *)
SelectSecondSame(i) ==
  /\ Touchable(i)
  /\ selectedCardIndex1 # -1 /\ selectedCardIndex2 = -1
  /\ selectedCardIndex2' = i
  /\ SelectSecondEffect(i)

SelectSecond(i) ==
  /\ Touchable(i)
  /\ selectedCardIndex1 # -1 /\ selectedCardIndex2 = -1 /\ i # selectedCardIndex1
  /\ selectedCardIndex2' = i
  /\ SelectSecondEffect(i)
-----------------------------------------------------------------------------
(* A closure is due at least 0.75 s after the touch that scheduled it: the *)
(* view, when it draws, has evaluated the queued actions by then.          *)
Settled == backsHidden = backsQueued /\ frontsHidden = frontsQueued
Due == rendering = "on" => Settled

(* Wrong variant: the lock is forgotten.                                   *)
DeselectCardsLocked ==
  /\ selectedCardIndex1' = -1
  /\ selectedCardIndex2' = -1
  /\ UNCHANGED lockInteraction
(* Wrong variant: "no card" is the number of cards here, -1 elsewhere.     *)
DeselectCardsCount ==
  /\ selectedCardIndex1' = LastIndex + 1
  /\ selectedCardIndex2' = LastIndex + 1
  /\ lockInteraction' = FALSE
DeselectCards ==
  /\ selectedCardIndex1' = -1
  /\ selectedCardIndex2' = -1
  /\ lockInteraction' = FALSE

(* Wrong variant: the second of the two SetStatusCardFound calls is lost.  *)
StatusCardFoundOnce == [cardsStatus EXCEPT ![selectedCardIndex1] = TRUE]
StatusCardFound ==
  [cardsStatus EXCEPT ![selectedCardIndex1] = TRUE, ![selectedCardIndex2] = TRUE]

HideSelectedCards ==
  /\ frontsQueued' = frontsQueued \cup Selected
  /\ DeselectCards

(* The closure of a matched pair.  An index outside the arrays traps.      *)
MatchClosure ==
  /\ matchClosures > 0 /\ Due
  /\ matchClosures' = matchClosures - 1
  /\ crash' = IF {selectedCardIndex1, selectedCardIndex2} \subseteq Cards
                THEN crash ELSE "index"
  /\ cardsStatus' = StatusCardFound
  /\ HideSelectedCards
  /\ matchesCount' = matchesCount + 1
  /\ UNCHANGED <<deckVars, selectedCard1Value, selectedCard2Value, tryCount,
                 unmatchClosures, backsHidden, backsQueued, frontsHidden,
                 rendering>>

(* Wrong variant: the backs stay hidden.                                   *)
ResetSelectedCardsOpen ==
  UNCHANGED backsQueued /\ DeselectCards

(* ResetSelectedCards returns early when an index is outside the arrays.   *)
ResetSelectedCards ==
  IF {selectedCardIndex1, selectedCardIndex2} \subseteq Cards
    THEN backsQueued' = backsQueued \ Selected /\ DeselectCards
    ELSE UNCHANGED <<backsQueued, selectedCardIndex1, selectedCardIndex2,
                     lockInteraction>>

(* The closure of an unmatched pair.                                       *)
UnmatchClosure ==
  /\ unmatchClosures > 0 /\ Due
  /\ unmatchClosures' = unmatchClosures - 1
  /\ ResetSelectedCards
  /\ tryCount' = tryCount + 1
  /\ UNCHANGED <<deckVars, selectedCard1Value, selectedCard2Value, cardsStatus,
                 matchesCount, matchClosures, backsHidden, frontsHidden,
                 frontsQueued, rendering, crash>>
-----------------------------------------------------------------------------
(* A frame evaluates the actions queued on the sprites.                    *)
RenderSprites ==
  /\ backsHidden' = backsQueued
  /\ frontsHidden' = frontsQueued
  /\ UNCHANGED <<backsQueued, frontsQueued>>

Frame ==
  /\ Dealt /\ DrawFrame /\ RenderSprites
  /\ UNCHANGED <<deckVars, selVars, statusVars, pendVars, crash>>

(* The application leaves or enters the foreground; the table is untouched.*)
LifeCycle ==
  /\ Dealt /\ (ResignActive \/ BecomeActive)
  /\ UNCHANGED <<deckVars, selVars, statusVars, pendVars, spriteVars, crash>>

Deal == ShuffleStep /\ UNCHANGED handVars

TableInit == DeckInit /\ HandInit

TableNext ==
  \/ Deal
  \/ \E i \in Cards : SelectFirst(i) \/ SelectSecond(i)
  \/ MatchClosure \/ UnmatchClosure
  \/ Frame \/ LifeCycle

(* The main queue runs every closure submitted to it, the display link     *)
(* calls every frame; the player promises nothing.                         *)
TableFairness ==
  /\ WF_tableVars(Deal)
  /\ WF_tableVars(MatchClosure) /\ WF_tableVars(UnmatchClosure)
  /\ WF_tableVars(Frame)

TableSafety == TableInit /\ [][TableNext]_tableVars
TableSpec   == TableSafety /\ TableFairness
-----------------------------------------------------------------------------
TableTypeOK ==
  /\ DeckTypeOK
  /\ selectedCardIndex1 \in Cards \cup {-1}
  /\ selectedCardIndex2 \in Cards \cup {-1}
  /\ selectedCard1Value \in Numbers \cup {0}
  /\ selectedCard2Value \in Numbers \cup {0}
  /\ lockInteraction \in BOOLEAN
  /\ cardsStatus \in [Cards -> BOOLEAN]
  /\ matchesCount \in Nat /\ tryCount \in Nat
  /\ matchClosures \in Nat /\ unmatchClosures \in Nat
  /\ backsHidden \in SUBSET Cards /\ backsQueued \in SUBSET Cards
  /\ frontsHidden \in SUBSET Cards /\ frontsQueued \in SUBSET Cards
  /\ rendering \in RenderStates
  /\ crash \in {"none", "index"}

(* lockInteraction is held exactly while one closure is pending, never     *)
(* more than one: no closure is lost with the table left locked, and no    *)
(* pair is settled twice.                                                  *)
LockedWhilePending ==
  matchClosures + unmatchClosures = IF lockInteraction THEN 1 ELSE 0

(* A closure that reads the selection 0.75 s or 1.5 s after it was         *)
(* scheduled finds the two cards it was scheduled for: two different       *)
(* cards, not found yet, equal for the match closure and unequal for the   *)
(* other.                                                                  *)
ClosureFindsItsPair ==
  matchClosures + unmatchClosures > 0 =>
    /\ {selectedCardIndex1, selectedCardIndex2} \subseteq Cards \ Found
    /\ selectedCardIndex1 # selectedCardIndex2
    /\ matchClosures > 0
         <=> cardsSequence[selectedCardIndex1] = cardsSequence[selectedCardIndex2]

(* The index expressions in the closures never trap, and the early return  *)
(* of ResetSelectedCards, which would leave the table locked, never runs.  *)
NoIndexTrap ==
  /\ crash # "index"
  /\ unmatchClosures > 0 => {selectedCardIndex1, selectedCardIndex2} \subseteq Cards

(* What the sprites show from the next frame on is what the arrays say: a  *)
(* back is hidden exactly on selected and found cards, a face on found     *)
(* cards.                                                                  *)
BoardMirrorsState ==
  /\ backsQueued = Found \cup Selected
  /\ frontsQueued = Found

(* No card that was found can be selected again, even though the only      *)
(* thing that prevents it is a back hidden by an earlier frame.            *)
FoundNeverSelected == Selected \cap Found = {}

(* Every match removes two cards: matchesCount, which the score pays for,  *)
(* is half the number of found cards, so it cannot exceed NumPairs.        *)
MatchesCountFoundPairs == Cardinality(Found) = 2 * matchesCount

(* Cards are found two at a time, with the same number, and stay found.    *)
OnlyPairsAreFound ==
  [][Found' # Found =>
       /\ Found \subseteq Found'
       /\ \E a, b \in Cards : /\ a # b /\ cardsSequence[a] = cardsSequence[b]
                              /\ Found' \ Found = {a, b}]_tableVars

(* The table never stays locked.                                           *)
LockIsReleased == lockInteraction ~> ~lockInteraction
=============================================================================
