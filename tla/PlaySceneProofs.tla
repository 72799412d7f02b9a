-------------------------- MODULE PlaySceneProofs ---------------------------
(***************************************************************************)
(* Proofs about the scene as a whole, for boards of every size, any time   *)
(* limit and any number of tries and presented scenes.                     *)
(*                                                                         *)
(* The scene drives its table as CardTable allows, so TableIInv holds of   *)
(* it; the rest of the argument is about what the closure that settles the *)
(* last pair does, and that nothing can happen to the counts afterwards.   *)
(***************************************************************************)
EXTENDS PlayScene, CardTableProofs, SequenceTheorems

(* What a step of the scene does to the table.                             *)
LEMMA SceneStepIsTableStep == [PlayNext]_playVars => [TableNext]_tableVars
<1> SUFFICES ASSUME [PlayNext]_playVars PROVE [TableNext]_tableVars
  OBVIOUS
<1>1. CASE SceneDeal \/ \E i \in Cards : TouchCard(i)
  BY <1>1 DEF SceneDeal, TouchCard, TableNext
<1>2. CASE MatchedPair \/ UnmatchedPair
  BY <1>2 DEF MatchedPair, UnmatchedPair, TableNext
<1>3. CASE SceneFrame \/ SceneLifeCycle
  BY <1>3 DEF SceneFrame, SceneLifeCycle, TableNext
<1>4. CASE TouchBack \/ TouchLabel \/ GyroPause \/ Time \/ TransitionEnds
  BY <1>4 DEF TouchBack, TouchLabel, GyroPause, Time, TransitionEnds
<1>5. CASE \E x \in {"below", "at", "above"} : Accelerometer(x)
  BY <1>5 DEF Accelerometer
<1>6. CASE Trapped \/ UNCHANGED playVars
  BY <1>6 DEF Trapped, playVars
<1>7. QED
  BY <1>1, <1>2, <1>3, <1>4, <1>5, <1>6 DEF PlayNext, Step

(* All that is proved of CardTable holds of the scene.                     *)
THEOREM SceneImplementsCardTable == PlaySpec => ImplementsCardTable
<1>1. PlayInit => TableInit
  BY DEF PlayInit
<1>2. QED
  BY <1>1, SceneStepIsTableStep, PTL DEF PlaySpec, ImplementsCardTable, TableSafety

LEMMA SceneKeepsTable == PlaySpec => []TableIInv
BY SceneImplementsCardTable, TableInvariance, PTL DEF ImplementsCardTable
-----------------------------------------------------------------------------
(* The countdown never grows and stays within its limits.                  *)
LEMMA UpdateCounts ==
  ASSUME ClockTypeOK, Update
  PROVE  timer' \in 0..TimeLimit /\ timer' <= timer
BY ClockAssumption DEF ClockTypeOK, Update, CountDown, Elapsed, Charges

LEMMA ClockStep ==
  ASSUME TableIInv, TableIInv', ClockTypeOK, [PlayNext]_playVars
  PROVE  ClockTypeOK' /\ timer' <= timer
<1> USE ClockAssumption
<1>1. rendering' \in RenderStates /\ timer \in Int
  BY DEF TableIInv, TableTypeOK, ClockTypeOK
<1>2. CASE UNCHANGED clockVars
  BY <1>1, <1>2 DEF ClockTypeOK, clockVars, sceneClockVars
<1>3. CASE Update
  <2>1. UNCHANGED <<now, skew, pauseState, pauseTimer>> /\ lastUpdateTimeInterval' = now
    BY <1>3 DEF Update
  <2>2. firstFrame' \in BOOLEAN /\ pauseShown' \in BOOLEAN /\ pauseState' \in BOOLEAN
    BY <1>3 DEF Update, ClockTypeOK
  <2>3. /\ now' \in BootTime..MaxNow /\ lastUpdateTimeInterval' \in 0..now'
        /\ skew' \in Int /\ pauseTimer' \in Int
    BY <2>1 DEF ClockTypeOK
  <2>4. QED
    BY <1>1, <1>3, <2>2, <2>3, UpdateCounts DEF ClockTypeOK
<1>4. CASE TogglePause
  <2>1. pauseState' \in BOOLEAN
    BY <1>4 DEF TogglePause
  <2>2. QED
    BY <1>1, <1>4, <2>1 DEF ClockTypeOK, TogglePause, Date
<1>5. CASE Tick
  BY <1>1, <1>5 DEF ClockTypeOK, Tick, sceneClockVars
<1>6. \/ UNCHANGED clockVars \/ Update \/ TogglePause \/ Tick
  BY DEF PlayNext, Step, SceneDeal, TouchCard, TouchBack, TouchLabel, MatchedPair,
         UnmatchedPair, SceneFrame, GyroPause, Time, SceneLifeCycle, TransitionEnds,
         Accelerometer, Trapped, playVars
<1>7. QED
  BY <1>2, <1>3, <1>4, <1>5, <1>6
-----------------------------------------------------------------------------
(* Whole seconds follow the countdown.                                     *)
LEMMA DivMonotone ==
  ASSUME NEW a \in Nat, NEW b \in Nat, a <= b, NEW n \in Nat \ {0}
  PROVE  a \div n <= b \div n
OBVIOUS

LEMMA ScoreType ==
  ASSUME NEW m \in Nat, NEW k \in Nat, NEW t \in Nat
  PROVE  ScoreOf(m, k, t) \in Int
BY PlayAssumption DEF ScoreOf

(* A solved table has no closure left, so nothing is counted any more.     *)
LEMMA SolvedIsQuiet ==
  ASSUME TableIInv, Solved
  PROVE  ~MatchClosure /\ ~UnmatchClosure
<1>1. matchClosures \in Nat /\ unmatchClosures \in Nat
  BY DEF TableIInv, TableTypeOK
<1>2. ~(matchClosures + unmatchClosures > 0)
  BY DEF TableIInv, ClosureFindsItsPair, Solved
<1>3. QED
  BY <1>1, <1>2 DEF MatchClosure, UnmatchClosure

(* When all cards are found, matchesCount is the number of pairs.          *)
LEMMA SolvedPaysAllPairs ==
  ASSUME NEW found, NEW matches \in Nat, found = Cards, Cardinality(found) = 2 * matches
  PROVE  matches = NumPairs
<1>1. Cardinality(Cards) = 2 * NumPairs
  BY PairsFact, FS_Interval DEF Cards
<1>2. QED
  BY <1>1, PairsFact

(* The score passed to UpdateRanking: all pairs, the failed tries, and the *)
(* seconds left at some time between then and now.                         *)
EarnedAt(s, tries, time) ==
  \E t \in time..TimeLimit : s = ScoreOf(NumPairs, tries, t)

PlayIInv ==
  /\ PlayTypeOK
  /\ RecordedOnceSolved
  /\ \A i \in DOMAIN recorded : EarnedAt(recorded[i], tryCount, timer)
  /\ Solved /\ Leaderboards = {} => stage = "detached"
  /\ ~Solved => Leaderboards = {}
  /\ \A i, j \in Leaderboards : i = j

LEMMA PlayInitial == PlayInit => PlayIInv
<1> SUFFICES ASSUME PlayInit PROVE PlayIInv
  OBVIOUS
<1>1. TableIInv
  BY TableInitial DEF PlayInit
<1>2. ClockTypeOK
  <2>1. rendering \in RenderStates
    BY <1>1 DEF TableIInv, TableTypeOK
  <2>2. /\ now \in BootTime..MaxNow /\ timer \in 0..TimeLimit
        /\ lastUpdateTimeInterval \in 0..now /\ skew \in Int /\ pauseTimer \in Int
    BY ClockAssumption DEF PlayInit, ClockInit, Date
  <2>3. firstFrame \in BOOLEAN /\ pauseState \in BOOLEAN /\ pauseShown \in BOOLEAN
    BY DEF PlayInit, ClockInit
  <2>4. QED
    BY <2>1, <2>2, <2>3 DEF ClockTypeOK
<1>3. PlayTypeOK
  <2>1. presented \in Seq({"menu", "leaderboard"}) /\ recorded \in Seq(Int)
    BY EmptySeq DEF PlayInit
  <2>2. TableTypeOK
    BY <1>1 DEF TableIInv
  <2>3. /\ score \in Int /\ stage \in {"attached", "leaving", "detached"}
        /\ lastZ \in {"below", "at", "above"}
    BY DEF PlayInit
  <2>4. castTrap \in BOOLEAN
    BY DEF PlayInit
  <2>5. QED
    BY <1>2, <2>1, <2>2, <2>3, <2>4 DEF PlayTypeOK
<1>4. ~Solved
  BY CardsFact DEF PlayInit, TableInit, HandInit, ResetCardsStatus, Solved, Found
<1>5. DOMAIN recorded = {} /\ Len(recorded) = 0 /\ Leaderboards = {}
  BY DEF PlayInit, Leaderboards
<1>6. QED
  BY <1>3, <1>4, <1>5 DEF PlayIInv, RecordedOnceSolved

(* Steps that leave the table's counts, the recorded scores and the scenes *)
(* alone: the frame may only lower the timer.                              *)
LEMMA ScoresStayEarned ==
  ASSUME PlayTypeOK, timer' \in 0..TimeLimit, timer' <= timer,
         UNCHANGED <<recorded, tryCount>>,
         \A i \in DOMAIN recorded : EarnedAt(recorded[i], tryCount, timer)
  PROVE  \A i \in DOMAIN recorded' : EarnedAt(recorded'[i], tryCount', timer')
<1>1. timer \in Nat /\ TimeLimit \in Nat
  BY ClockAssumption DEF PlayTypeOK, ClockTypeOK
<1>2. timer..TimeLimit \subseteq timer'..TimeLimit
  BY <1>1
<1>3. QED
  BY <1>2 DEF EarnedAt

(* The ways in which a step without a closure changes the view.            *)
ViewStep ==
  \/ UNCHANGED <<stage, presented>>
  \/ /\ stage # "detached" /\ stage' = "leaving"
     /\ presented' = Append(presented, "menu")
  \/ stage' = "detached" /\ UNCHANGED presented

LEMMA PresentIsViewStep == GoMenu => ViewStep
BY DEF GoMenu, Present, ViewStep

LEMMA StillTableKeeps ==
  ASSUME PlayIInv, TableIInv', ClockTypeOK', timer' <= timer, score' \in Int,
         lastZ' \in {"below", "at", "above"}, castTrap' \in BOOLEAN,
         UNCHANGED <<cardsStatus, tryCount, recorded>>, ViewStep
  PROVE  PlayIInv'
<1> DEFINE scenes == {"menu", "leaderboard"}
<1>1. presented \in Seq(scenes) /\ recorded \in Seq(Int) /\ PlayTypeOK
  BY DEF PlayIInv, PlayTypeOK
<1>2. Found' = Found /\ (Solved' <=> Solved)
  BY DEF Found, Solved
<1>3. presented' \in Seq(scenes) /\ Leaderboards' = Leaderboards
  <2>1. CASE presented' = presented
    BY <1>1, <2>1 DEF Leaderboards
  <2>2. CASE presented' = Append(presented, "menu")
    <3> DEFINE n == Len(presented)
    <3>1. /\ presented' \in Seq(scenes) /\ n \in Nat
          /\ DOMAIN presented = 1..n /\ DOMAIN presented' = 1..(n + 1)
          /\ presented'[n + 1] = "menu" /\ \A i \in 1..n : presented'[i] = presented[i]
      BY <1>1, <2>2, AppendProperties
    <3> HIDE DEF n
    <3>2. QED
      BY <3>1 DEF Leaderboards
  <2>3. QED
    BY <2>1, <2>2 DEF ViewStep
<1>4. stage' \in {"attached", "leaving", "detached"} /\ (stage = "detached" => stage' = "detached")
  BY <1>1 DEF ViewStep, PlayTypeOK
<1>5. PlayTypeOK'
  BY <1>1, <1>3, <1>4 DEF PlayTypeOK, TableIInv
<1>6. \A i \in DOMAIN recorded' : EarnedAt(recorded'[i], tryCount', timer')
  <2>1. timer' \in 0..TimeLimit
    BY DEF ClockTypeOK
  <2>2. QED
    BY <1>1, <2>1, ScoresStayEarned DEF PlayIInv
<1>7. QED
  BY <1>2, <1>3, <1>4, <1>5, <1>6 DEF PlayIInv, RecordedOnceSolved

(* UpdateScore computes an integer.                                        *)
LEMMA UpdateScoreType ==
  ASSUME TableIInv', ClockTypeOK', UpdateScore
  PROVE  score' \in Int
<1>1. matchesCount' \in Nat /\ tryCount' \in Nat /\ timer' \in Nat
  BY ClockAssumption DEF TableIInv, TableTypeOK, ClockTypeOK
<1>2. score' = ScoreOf(matchesCount', tryCount', timer')
  BY DEF UpdateScore, ScoreOf
<1>3. QED
  BY <1>1, <1>2, ScoreType

(* A failed pair is counted only while the game is not solved, so that the *)
(* recorded score, if any, does not lose its tries.                        *)
LEMMA UnmatchedPairKeepsScene ==
  ASSUME TableIInv, TableIInv', ClockTypeOK', PlayIInv, UnmatchedPair
  PROVE  PlayIInv'
<1>1. UnmatchClosure /\ UNCHANGED <<clockVars, exitVars>> /\ UpdateScore
  BY DEF UnmatchedPair
<1>2. ~Solved /\ Found' = Found /\ ~Solved'
  <2>1. ~Solved
    BY <1>1, SolvedIsQuiet
  <2>2. QED
    BY <1>1, <2>1 DEF UnmatchClosure, Found, Solved
<1>3. recorded \in Seq(Int) /\ Len(recorded) = 0 /\ recorded' = recorded
  BY <1>1, <1>2 DEF PlayIInv, PlayTypeOK, RecordedOnceSolved, exitVars
<1>4. DOMAIN recorded' = {}
  BY <1>3
<1>5. PlayTypeOK'
  BY <1>1, UpdateScoreType DEF PlayIInv, PlayTypeOK, TableIInv, exitVars
<1>6. Leaderboards' = Leaderboards
  BY <1>1 DEF exitVars, Leaderboards
<1>7. QED
  BY <1>2, <1>3, <1>4, <1>5, <1>6 DEF PlayIInv, RecordedOnceSolved

(* The closure of a matched pair: the last one records the score that      *)
(* UpdateScore has just computed, once, and shows the leaderboard if there *)
(* is a view to show it in.                                                *)
LEMMA MatchedPairKeepsScene ==
  ASSUME TableIInv, TableIInv', MatchesCountFoundPairs', ClockTypeOK', PlayIInv, MatchedPair
  PROVE  PlayIInv'
<1> DEFINE scenes == {"menu", "leaderboard"}
<1>1. MatchClosure /\ UNCHANGED <<clockVars, lastZ, castTrap>> /\ UpdateScore
  BY DEF MatchedPair
<1>2. ~Solved /\ score' \in Int
  BY <1>1, SolvedIsQuiet, UpdateScoreType
<1>3. /\ recorded \in Seq(Int) /\ Len(recorded) = 0 /\ presented \in Seq(scenes)
      /\ Leaderboards = {} /\ stage \in {"attached", "leaving", "detached"}
  BY <1>2 DEF PlayIInv, PlayTypeOK, RecordedOnceSolved
<1>4. CheckIfGameOver(cardsStatus') <=> Solved'
  BY DEF CheckIfGameOver, Solved, Found
<1>5. lastZ' \in {"below", "at", "above"} /\ castTrap' \in BOOLEAN
  BY <1>1 DEF PlayIInv, PlayTypeOK
<1>6. CASE ~Solved'
  <2>1. UNCHANGED <<recorded, stage, presented>>
    BY <1>4, <1>6 DEF MatchedPair
  <2>2. PlayTypeOK'
    BY <1>2, <1>3, <1>5, <2>1 DEF PlayTypeOK, TableIInv
  <2>3. DOMAIN recorded' = {} /\ Leaderboards' = {}
    BY <1>3, <2>1 DEF Leaderboards
  <2>4. QED
    BY <1>3, <1>6, <2>1, <2>2, <2>3 DEF PlayIInv, RecordedOnceSolved
<1>7. CASE Solved'
  <2>1. recorded' = Append(recorded, score') /\ GoLeaderBoard
    BY <1>4, <1>7 DEF MatchedPair
  <2>2. /\ recorded' \in Seq(Int) /\ Len(recorded') = 1 /\ DOMAIN recorded' = {1}
        /\ recorded'[1] = score'
    BY <1>2, <1>3, <2>1, AppendProperties
  <2>3. /\ stage' \in {"leaving", "detached"}
        /\ \/ presented' = presented /\ stage' = "detached"
           \/ presented' = Append(presented, "leaderboard")
    BY <1>3, <2>1 DEF GoLeaderBoard, Present
  <2>4. /\ presented' \in Seq(scenes)
        /\ \A i, j \in Leaderboards' : i = j
        /\ Leaderboards' = {} => stage' = "detached"
    <3>1. CASE presented' = presented /\ stage' = "detached"
      BY <1>3, <3>1 DEF Leaderboards
    <3>2. CASE presented' = Append(presented, "leaderboard")
      <4> DEFINE n == Len(presented)
      <4>1. /\ presented' \in Seq(scenes) /\ n \in Nat
            /\ DOMAIN presented = 1..n /\ DOMAIN presented' = 1..(n + 1)
            /\ presented'[n + 1] = "leaderboard"
            /\ \A i \in 1..n : presented'[i] = presented[i]
        BY <1>3, <3>2, AppendProperties
      <4> HIDE DEF n
      <4>2. Leaderboards' = {n + 1}
        BY <1>3, <4>1 DEF Leaderboards
      <4>3. QED
        BY <4>1, <4>2
    <3>3. QED
      BY <2>3, <3>1, <3>2
  <2>5. EarnedAt(score', tryCount', timer')
    <3>1. matchesCount' = NumPairs
      <4>1. /\ Found' = Cards /\ Cardinality(Found') = 2 * matchesCount'
            /\ matchesCount' \in Nat
        BY <1>7 DEF TableIInv, TableTypeOK, MatchesCountFoundPairs, Solved
      <4>2. QED
        BY <4>1, SolvedPaysAllPairs
    <3>2. score' = ScoreOf(NumPairs, tryCount', timer')
      BY <1>1, <3>1 DEF UpdateScore, ScoreOf
    <3>3. timer' \in timer'..TimeLimit
      BY ClockAssumption DEF ClockTypeOK
    <3>4. QED
      BY <3>2, <3>3 DEF EarnedAt
  <2>6. PlayTypeOK'
    BY <1>2, <1>5, <2>2, <2>3, <2>4 DEF PlayTypeOK, TableIInv
  <2>7. QED
    BY <1>7, <2>2, <2>3, <2>4, <2>5, <2>6 DEF PlayIInv, RecordedOnceSolved
<1>8. QED
  BY <1>6, <1>7

LEMMA PlayInductive ==
  ASSUME TableIInv, TableIInv', MatchesCountFoundPairs', PlayIInv, [PlayNext]_playVars
  PROVE  PlayIInv'
<1>1. ClockTypeOK' /\ timer' <= timer
  BY ClockStep DEF PlayIInv, PlayTypeOK
<1>2. score \in Int /\ lastZ \in {"below", "at", "above"} /\ castTrap \in BOOLEAN
  BY DEF PlayIInv, PlayTypeOK
<1> USE DEF exitVars, statusVars
<1>3. CASE MatchedPair \/ UnmatchedPair
  BY <1>1, <1>3, MatchedPairKeepsScene, UnmatchedPairKeepsScene
<1>4. CASE SceneDeal
  BY <1>1, <1>2, <1>4, StillTableKeeps DEF SceneDeal, Deal, handVars, ViewStep
<1>5. ASSUME NEW i \in Cards, TouchCard(i) PROVE PlayIInv'
  <2>1. UNCHANGED <<cardsStatus, tryCount, recorded, stage, presented, score, lastZ, castTrap>>
    BY <1>5 DEF TouchCard, SelectFirst, SelectSecond, SelectSecondEffect
  <2>2. QED
    BY <1>1, <1>2, <2>1, StillTableKeeps DEF ViewStep
<1>6. CASE TouchBack
  <2>1. UNCHANGED <<cardsStatus, tryCount, recorded, score, lastZ, castTrap>>
    BY <1>6 DEF TouchBack, tableVars, handVars
  <2>2. QED
    BY <1>1, <1>2, <1>6, <2>1, StillTableKeeps, PresentIsViewStep DEF TouchBack
<1>7. CASE TouchLabel
  <2>1. UNCHANGED <<cardsStatus, tryCount, recorded, stage, presented, score, lastZ>>
    BY <1>7 DEF TouchLabel, tableVars, handVars
  <2>2. castTrap' \in BOOLEAN
    BY <1>7 DEF TouchLabel
  <2>3. QED
    BY <1>1, <1>2, <2>1, <2>2, StillTableKeeps DEF ViewStep
<1>8. CASE SceneFrame
  <2>1. UNCHANGED <<cardsStatus, tryCount, recorded, stage, presented, lastZ, castTrap>>
    BY <1>8 DEF SceneFrame, Frame
  <2>2. score' \in Int
    BY <1>1, <1>2, <1>8, UpdateScoreType DEF SceneFrame
  <2>3. QED
    BY <1>1, <1>2, <2>1, <2>2, StillTableKeeps DEF ViewStep
<1>9. CASE GyroPause \/ Time
  <2>1. UNCHANGED <<cardsStatus, tryCount, recorded, stage, presented, score, lastZ, castTrap>>
    BY <1>9 DEF GyroPause, Time, tableVars, handVars
  <2>2. QED
    BY <1>1, <1>2, <2>1, StillTableKeeps DEF ViewStep
<1>10. CASE SceneLifeCycle
  <2>1. UNCHANGED <<cardsStatus, tryCount, recorded, stage, presented, score, lastZ, castTrap>>
    BY <1>10 DEF SceneLifeCycle, LifeCycle
  <2>2. QED
    BY <1>1, <1>2, <2>1, StillTableKeeps DEF ViewStep
<1>11. CASE TransitionEnds
  <2>1. UNCHANGED <<cardsStatus, tryCount, recorded, score, lastZ, castTrap>> /\ ViewStep
    BY <1>11 DEF TransitionEnds, tableVars, handVars, ViewStep
  <2>2. QED
    BY <1>1, <1>2, <2>1, StillTableKeeps
<1>12. ASSUME NEW x \in {"below", "at", "above"}, Accelerometer(x) PROVE PlayIInv'
  <2>1. UNCHANGED <<cardsStatus, tryCount, recorded, score, castTrap>> /\ lastZ' = x
    BY <1>12 DEF Accelerometer, tableVars, handVars
  <2>2. ViewStep
    BY <1>12, PresentIsViewStep DEF Accelerometer, ViewStep
  <2>3. QED
    BY <1>1, <1>2, <2>1, <2>2, StillTableKeeps
<1>13. CASE Trapped \/ UNCHANGED playVars
  <2>1. UNCHANGED <<cardsStatus, tryCount, recorded, stage, presented, score, lastZ, castTrap>>
    BY <1>13 DEF Trapped, playVars, tableVars, handVars
  <2>2. QED
    BY <1>1, <1>2, <2>1, StillTableKeeps DEF ViewStep
<1>14. QED
  BY <1>3, <1>4, <1>5, <1>6, <1>7, <1>8, <1>9, <1>10, <1>11, <1>12, <1>13 DEF PlayNext, Step

LEMMA PlayInvariance == PlaySpec => []PlayIInv
<1>1. PlaySpec => []MatchesCountFoundPairs
  BY SceneImplementsCardTable, MatchesAreFoundPairs, PTL DEF ImplementsCardTable
<1>2. TableIInv /\ TableIInv' /\ MatchesCountFoundPairs' /\ PlayIInv /\ [PlayNext]_playVars
        => PlayIInv'
  BY PlayInductive
<1>3. QED
  BY <1>1, <1>2, PlayInitial, SceneKeepsTable, PTL DEF PlaySpec

(* Type correctness of the scene.                                          *)
THEOREM PlayTypeCorrect == PlaySpec => []PlayTypeOK
<1>1. PlayIInv => PlayTypeOK
  BY DEF PlayIInv
<1>2. QED
  BY <1>1, PlayInvariance, PTL

(* A game reaches UpdateRanking exactly once, when its last pair is        *)
(* settled, whatever pauses, exits and losses of the foreground come       *)
(* between.                                                                *)
THEOREM RecordedOnce == PlaySpec => []RecordedOnceSolved
<1>1. PlayIInv => RecordedOnceSolved
  BY DEF PlayIInv
<1>2. QED
  BY <1>1, PlayInvariance, PTL

(* The score that UpdateRanking receives lies between what the game is     *)
(* worth now and what it could be worth at most.                           *)
THEOREM RecordedIsEarned == PlaySpec => []RecordedScoreIsEarned
<1>1. ASSUME PlayIInv PROVE RecordedScoreIsEarned
  <2>1. ASSUME NEW i \in DOMAIN recorded
        PROVE  /\ recorded[i] >= ScoreOf(NumPairs, tryCount, timer)
               /\ recorded[i] <= ScoreOf(NumPairs, tryCount, TimeLimit)
    <3>1. PICK t \in timer..TimeLimit : recorded[i] = ScoreOf(NumPairs, tryCount, t)
      BY <1>1 DEF PlayIInv, EarnedAt
    <3>2. /\ timer \in Nat /\ TimeLimit \in Nat /\ t \in Nat /\ timer <= t /\ t <= TimeLimit
          /\ tryCount \in Nat /\ TicksPerSecond \in Nat \ {0}
      BY <1>1, ClockAssumption, PlayAssumption
         DEF PlayIInv, PlayTypeOK, ClockTypeOK, TableTypeOK
    <3>3. /\ timer \div TicksPerSecond <= t \div TicksPerSecond
          /\ t \div TicksPerSecond <= TimeLimit \div TicksPerSecond
      BY <3>2, DivMonotone
    <3>4. /\ timer \div TicksPerSecond \in Int /\ t \div TicksPerSecond \in Int
          /\ TimeLimit \div TicksPerSecond \in Int
      BY <3>2
    <3> DEFINE pay == NumPairs * (difficulty + 1) * 5 - tryCount
    <3>5. pay \in Int
      BY <3>2, PairsFact, PlayAssumption
    <3>6. /\ ScoreOf(NumPairs, tryCount, timer) = pay + timer \div TicksPerSecond
          /\ recorded[i] = pay + t \div TicksPerSecond
          /\ ScoreOf(NumPairs, tryCount, TimeLimit) = pay + TimeLimit \div TicksPerSecond
      BY <3>1 DEF ScoreOf
    <3> HIDE DEF pay
    <3>7. QED
      BY <3>3, <3>4, <3>5, <3>6
  <2>2. QED
    BY <2>1 DEF RecordedScoreIsEarned
<1>2. PlayIInv => RecordedScoreIsEarned
  BY <1>1
<1>3. QED
  BY <1>2, PlayInvariance, PTL

(* Only a solved game presents the leaderboard, once; one that has its     *)
(* view when it is solved, leaving or not, does present it; and nothing is *)
(* presented any more once the view is gone.                               *)
THEOREM LeaderboardFollowsSolving == PlaySpec => LeaderboardAfterSolving
<1> DEFINE OnlyOnce  == Leaderboards # {} => Solved /\ \A i, j \in Leaderboards : i = j
           Presented == Solved /\ Leaderboards = {} => stage = "detached"
           Viewless  == stage = "detached" => UNCHANGED <<stage, presented>>
<1>1. PlayIInv => OnlyOnce /\ Presented
  BY DEF PlayIInv
<1>2. [PlayNext]_playVars => [Viewless]_playVars
  <2> SUFFICES ASSUME PlayNext, stage = "detached"
               PROVE  UNCHANGED <<stage, presented>>
    OBVIOUS
  <2> USE DEF exitVars
  <2>1. CASE MatchedPair \/ TouchBack
    BY <2>1 DEF MatchedPair, TouchBack, TouchArrives, GoLeaderBoard, Present
  <2>2. CASE \E x \in {"below", "at", "above"} : Accelerometer(x)
    BY <2>2 DEF Accelerometer, GoMenu, Present
  <2>3. CASE SceneDeal \/ (\E i \in Cards : TouchCard(i)) \/ TouchLabel \/ UnmatchedPair
    BY <2>3 DEF SceneDeal, TouchCard, TouchLabel, UnmatchedPair
  <2>4. CASE SceneFrame \/ GyroPause \/ Time \/ SceneLifeCycle \/ TransitionEnds
    BY <2>4 DEF SceneFrame, GyroPause, Time, SceneLifeCycle, TransitionEnds
  <2>5. CASE Trapped
    BY <2>5 DEF Trapped, playVars
  <2>6. QED
    BY <2>1, <2>2, <2>3, <2>4, <2>5 DEF PlayNext, Step
<1>3. QED
  BY <1>1, <1>2, PlayInvariance, PTL DEF PlaySpec, LeaderboardAfterSolving

(* A closure that settles a pair unlocks the table.                        *)
LEMMA ClosureUnlocks ==
  ASSUME TableIInv, MatchClosure \/ UnmatchClosure
  PROVE  lockInteraction /\ ~lockInteraction' /\ Selected' \subseteq Selected
<1>1. /\ matchClosures \in Nat /\ unmatchClosures \in Nat
      /\ matchClosures + unmatchClosures > 0
  BY DEF TableIInv, TableTypeOK, MatchClosure, UnmatchClosure
<1>2. lockInteraction /\ {selectedCardIndex1, selectedCardIndex2} \subseteq Cards
  BY <1>1 DEF TableIInv, LockedWhilePending, ClosureFindsItsPair
<1>3. DeselectCards
  BY <1>2 DEF MatchClosure, HideSelectedCards, UnmatchClosure, ResetSelectedCards
<1>4. QED
  BY <1>2, <1>3, CardsFact DEF DeselectCards, Selected

(* In a paused game no time is charged, no card is opened and the score    *)
(* moves only with the pair that was open when the pause began.            *)
THEOREM PauseFreezes == PlaySpec => PauseFreezesGame
<1> DEFINE Frozen ==
      /\ timer' = timer
      /\ Selected' \subseteq Selected
      /\ score' # score => lockInteraction /\ ~lockInteraction'
<1>1. TableIInv /\ [PlayNext]_playVars => [pauseState => Frozen]_playVars
  <2> SUFFICES ASSUME TableIInv, PlayNext, pauseState PROVE Frozen
    OBVIOUS
  <2> USE DEF clockVars, sceneClockVars, tableVars, handVars, selVars
  <2>1. CASE MatchedPair \/ UnmatchedPair
    <3>1. (MatchClosure \/ UnmatchClosure) /\ timer' = timer
      BY <2>1 DEF MatchedPair, UnmatchedPair
    <3>2. QED
      BY <3>1, ClosureUnlocks
  <2>2. CASE SceneFrame
    BY <2>2 DEF SceneFrame, Frame, Update, Charges, Selected
  <2>3. CASE GyroPause \/ Time
    BY <2>3 DEF GyroPause, TogglePause, Time, Tick, Selected
  <2>4. CASE SceneDeal \/ SceneLifeCycle
    BY <2>4 DEF SceneDeal, Deal, SceneLifeCycle, LifeCycle, Selected
  <2>5. CASE TouchBack \/ TouchLabel \/ TransitionEnds
    BY <2>5 DEF TouchBack, TouchLabel, TransitionEnds, Selected
  <2>6. CASE \E x \in {"below", "at", "above"} : Accelerometer(x)
    BY <2>6 DEF Accelerometer, Selected
  <2>7. CASE Trapped
    BY <2>7 DEF Trapped, playVars, Selected
  <2>8. QED
    BY <2>1, <2>2, <2>3, <2>4, <2>5, <2>6, <2>7 DEF PlayNext, Step, TouchCard
<1>2. QED
  BY <1>1, SceneKeepsTable, PTL DEF PlaySpec, PauseFreezesGame
=============================================================================
