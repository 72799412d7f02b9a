----------------------------- MODULE PlayScene ------------------------------
(***************************************************************************)
(* PlayScene as a whole: the card table and the countdown under the        *)
(* handlers that drive them (touches, frames, closures on the main queue,  *)
(* gyroscope timer, accelerometer samples), the score, and the ways out    *)
(* of the scene.                                                           *)
(*                                                                         *)
(* The scene holds its view until the transition to the next scene has     *)
(* ended; meanwhile SpriteKit stops its frames.  Its closures, its gyro    *)
(* timer and its accelerometer samples outlive it: nothing stops them.     *)
(***************************************************************************)
EXTENDS CardTable, GameClock, Sequences

CONSTANTS
  difficulty,      (* 0, 1 or 2, as the menu sets it                       *)
  TicksPerSecond,  (* resolution of the countdown                          *)
  MaxPresented     (* bound on the scenes this one presents                *)

ASSUME PlayAssumption ==
  /\ difficulty \in 0..2 /\ TicksPerSecond \in Nat \ {0}
  /\ MaxPresented \in Nat

VARIABLES
  score,
  stage,      (* self.view: "attached"; "leaving" during the transition to *)
              (* another scene; "detached", nil, after it                  *)
  presented,  (* the scenes this one has presented, in order               *)
  recorded,   (* the scores it has passed to UpdateRanking, in order       *)
  lastZ,      (* last acceleration along x: below, at or above 0.5         *)
  castTrap    (* as! SKSpriteNode has failed and the process is gone       *)

exitVars == <<stage, presented, recorded, lastZ, castTrap>>
playVars == <<tableVars, clockVars, score, exitVars>>

PlayInit ==
  /\ TableInit /\ ClockInit
  /\ score = 0
  /\ stage = "attached" /\ presented = <<>> /\ recorded = <<>>
  /\ lastZ = "below" /\ castTrap = FALSE
-----------------------------------------------------------------------------
(* Int(timer) drops the fraction of a second.                              *)
ScoreOf(matches, tries, time) ==
  matches * (difficulty + 1) * 5 - tries + time \div TicksPerSecond

(* UpdateScore, after whatever the handler did to the counts and the timer.*)
UpdateScore == score' = ScoreOf(matchesCount, tryCount, timer)'

Present(scene) ==
  IF stage = "detached" THEN UNCHANGED <<stage, presented>>
  ELSE stage' = "leaving" /\ presented' = Append(presented, scene)
GoMenu        == Present("menu")
GoLeaderBoard == Present("leaderboard")

(* touchesEnded: a touch finds the topmost visible node.  The view takes   *)
(* several touches at once: one that began before another one has left the *)
(* scene ends in it as long as the transition lasts.                       *)
TouchArrives == Dealt /\ rendering = "on" /\ stage # "detached" /\ ~pauseShown

(* Wrong variant: the pause is not looked at.                              *)
TouchCardPaused(i) ==
  /\ TouchArrives
  /\ SelectFirst(i) \/ SelectSecond(i)
  /\ UNCHANGED <<clockVars, score, exitVars>>
TouchCard(i) ==
  /\ TouchArrives /\ ~pauseState
  /\ SelectFirst(i) \/ SelectSecond(i)
  /\ UNCHANGED <<clockVars, score, exitVars>>

TouchBack ==
  /\ TouchArrives /\ ~pauseState
  /\ Len(presented) < MaxPresented
  /\ GoMenu
  /\ UNCHANGED <<tableVars, clockVars, score, recorded, lastZ, castTrap>>

(* The score and the time are SKLabelNodes, not SKSpriteNodes.             *)
TouchLabel ==
  /\ TouchArrives
  /\ castTrap' = TRUE
  /\ UNCHANGED <<tableVars, clockVars, score, stage, presented, recorded, lastZ>>
-----------------------------------------------------------------------------
(* Wrong variant: the last card of the loop decides.                       *)
CheckIfGameOverLast(status) == status[LastIndex]
CheckIfGameOver(status) == \A k \in Cards : status[k]

(* Wrong variants: the score is recorded before SetMatchesCount updates it;*)
(* a scene that is leaving already does not present the leaderboard.       *)
MatchedPairStale ==
  /\ MatchClosure
  /\ UNCHANGED <<clockVars, lastZ, castTrap>>
  /\ UpdateScore
  /\ IF CheckIfGameOver(cardsStatus')
       THEN recorded' = Append(recorded, score) /\ GoLeaderBoard
       ELSE UNCHANGED <<recorded, stage, presented>>
MatchedPairOnce ==
  /\ MatchClosure
  /\ UNCHANGED <<clockVars, lastZ, castTrap>>
  /\ UpdateScore
  /\ recorded' = IF CheckIfGameOver(cardsStatus') THEN Append(recorded, score')
                                                  ELSE recorded
  /\ IF CheckIfGameOver(cardsStatus') /\ stage = "attached"
       THEN GoLeaderBoard ELSE UNCHANGED <<stage, presented>>
MatchedPair ==
  /\ MatchClosure
  /\ UNCHANGED <<clockVars, lastZ, castTrap>>
  /\ UpdateScore
  /\ IF CheckIfGameOver(cardsStatus')
       THEN recorded' = Append(recorded, score') /\ GoLeaderBoard
       ELSE UNCHANGED <<recorded, stage, presented>>

(* Wrong variant: the cards are not reset.                                 *)
UnmatchedPairKeeps ==
  /\ unmatchClosures > 0 /\ Due
  /\ unmatchClosures' = unmatchClosures - 1
  /\ tryCount' = tryCount + 1
  /\ UNCHANGED <<deckVars, selVars, cardsStatus, matchesCount, matchClosures,
                 spriteVars, rendering, crash, clockVars, exitVars>>
  /\ UpdateScore
UnmatchedPair ==
  /\ UnmatchClosure
  /\ UNCHANGED <<clockVars, exitVars>>
  /\ UpdateScore

SceneFrame ==
  /\ stage # "detached"
  /\ Frame /\ Update
  /\ IF Charges THEN UpdateScore ELSE UNCHANGED score
  /\ UNCHANGED exitVars

GyroPause ==
  /\ Dealt /\ TogglePause
  /\ UNCHANGED <<tableVars, score, exitVars>>

(* The accelerometer's handler; x is the sample.                           *)
Accelerometer(x) ==
  /\ Dealt
  /\ IF lastZ = "below" /\ x = "above"
       THEN (stage # "detached" => Len(presented) < MaxPresented) /\ GoMenu
       ELSE UNCHANGED <<stage, presented>>
  /\ lastZ' = x
  /\ UNCHANGED <<tableVars, clockVars, score, recorded, castTrap>>

Time ==
  /\ Dealt /\ Tick
  /\ UNCHANGED <<tableVars, score, exitVars>>

(* The application's life cycle; a leaving scene stops drawing for good.   *)
SceneLifeCycle ==
  /\ LifeCycle
  /\ stage = "attached" \/ rendering # "off"
  /\ UNCHANGED <<clockVars, score, exitVars>>

TransitionEnds ==
  /\ stage = "leaving" /\ rendering = "off"
  /\ stage' = "detached"
  /\ UNCHANGED <<tableVars, clockVars, score, presented, recorded, lastZ, castTrap>>

SceneDeal == Deal /\ UNCHANGED <<clockVars, score, exitVars>>

Trapped == castTrap /\ UNCHANGED playVars

Step ==
  \/ SceneDeal
  \/ \E i \in Cards : TouchCard(i)
  \/ TouchBack \/ TouchLabel
  \/ MatchedPair \/ UnmatchedPair
  \/ SceneFrame \/ GyroPause \/ Time \/ SceneLifeCycle \/ TransitionEnds
  \/ \E x \in {"below", "at", "above"} : Accelerometer(x)

PlayNext == (~castTrap /\ Step) \/ Trapped

PlayFairness ==
  /\ WF_playVars(~castTrap /\ SceneDeal)
  /\ WF_playVars(~castTrap /\ MatchedPair)
  /\ WF_playVars(~castTrap /\ UnmatchedPair)
  /\ WF_playVars(~castTrap /\ SceneFrame)

PlaySpec == PlayInit /\ [][PlayNext]_playVars /\ PlayFairness
-----------------------------------------------------------------------------
PlayTypeOK ==
  /\ TableTypeOK /\ ClockTypeOK
  /\ score \in Int
  /\ stage \in {"attached", "leaving", "detached"}
  /\ presented \in Seq({"menu", "leaderboard"})
  /\ recorded \in Seq(Int)
  /\ lastZ \in {"below", "at", "above"}
  /\ castTrap \in BOOLEAN

Solved == Found = Cards

(* A game reaches the ranking exactly once, when its last pair is settled, *)
(* also when the player pauses or leaves while that closure is pending.    *)
RecordedOnceSolved == Len(recorded) = IF Solved THEN 1 ELSE 0

(* The recorded score pays all pairs, takes all failed tries of the game,  *)
(* and adds the whole seconds of a time between the present countdown and  *)
(* the limit: nothing that happens afterwards makes it worth more.         *)
RecordedScoreIsEarned ==
  \A i \in DOMAIN recorded :
    /\ recorded[i] >= ScoreOf(NumPairs, tryCount, timer)
    /\ recorded[i] <= ScoreOf(NumPairs, tryCount, TimeLimit)

(* The leaderboard is presented by a solved game only, at most once; a     *)
(* game that is solved while it has its view, also one that is leaving     *)
(* already, does present it; and a scene without a view presents nothing.  *)
(* So a tilt, or a touch that ends late, can put a menu over the           *)
(* leaderboard only while the transition to it lasts.                      *)
Leaderboards == {i \in DOMAIN presented : presented[i] = "leaderboard"}
LeaderboardAfterSolving ==
  /\ [](Leaderboards # {} => Solved /\ \A i, j \in Leaderboards : i = j)
  /\ [](Solved /\ Leaderboards = {} => stage = "detached")
  /\ [][stage = "detached" => UNCHANGED <<stage, presented>>]_playVars

(* While the game is paused, from the toggle on and not from the frame     *)
(* that shows the pause layer, no time is charged, no card is opened and   *)
(* the score moves only with the pair that was open when the pause began.  *)
PauseFreezesGame ==
  [][pauseState => /\ timer' = timer
                   /\ Selected' \subseteq Selected
                   /\ score' # score => lockInteraction /\ ~lockInteraction']_playVars

(* A pair is settled, whatever happens to the game meanwhile: pause, loss  *)
(* of the foreground, the way to another scene.                            *)
PairIsSettled == lockInteraction ~> (~lockInteraction \/ castTrap)

(* The scene drives its table as CardTable allows, so all that is proved   *)
(* of CardTable holds of the scene.                                        *)
ImplementsCardTable == TableSafety

(* What "as! SKSpriteNode" in touchesEnded asserts of every touch.         *)
TouchedNodeIsSprite == ~castTrap
=============================================================================
