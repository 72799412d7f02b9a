----------------------------- MODULE ClockProofs ----------------------------
(***************************************************************************)
(* Proofs about the countdown, for every time limit, frame rate, debounce  *)
(* and change of the date.                                                 *)
(***************************************************************************)
EXTENDS ClockHistory, TLAPS

(* One frame for each toggle.                                              *)
Slack == toggles * FrameGap

(* Before the first frame nothing has been charged or counted.             *)
NotStarted == timer = TimeLimit /\ played = 0 /\ away = 0 /\ toggles = 0

(* The time since the last frame will be charged if the game runs when the *)
(* next one comes: it is bounded together with what was charged, and for a *)
(* paused game a toggle may still make it count, at the cost of a frame.   *)
UpperBound ==
  /\ Charged <= played + Slack + away
  /\ pauseState  => Charged + Elapsed <= played + Slack + away + FrameGap
  /\ ~pauseState => Charged + Elapsed <= played + Slack + away

(* Conversely for a running game a toggle may still lose that time.        *)
LowerBound ==
  /\ pauseState  => Charged >= played - Slack - away
  /\ ~pauseState => /\ Charged + Elapsed >= played - Slack - away
                    /\ Charged >= played - Slack - FrameGap - away

Started ==
  /\ started <= lastUpdateTimeInterval
  /\ Charged <= lastUpdateTimeInterval - started
  /\ UpperBound
  /\ timer = 0 \/ LowerBound

(* The properties are not inductive: they do not say what the next frame   *)
(* will charge.                                                            *)
ClockIInv ==
  /\ HistoryTypeOK
  /\ firstFrame => NotStarted
  /\ ~firstFrame => Started

(* Arithmetic on a slack that stays opaque elsewhere.                      *)
LEMMA SlackFact ==
  ASSUME HistoryTypeOK
  PROVE  /\ Slack \in Nat
         /\ (toggles + 1) * FrameGap = Slack + FrameGap
         /\ toggles = 0 => Slack = 0
BY ClockAssumption DEF HistoryTypeOK, Slack

LEMMA ClockInitHolds == HistoryInit => ClockIInv
<1> SUFFICES ASSUME HistoryInit PROVE ClockIInv
  OBVIOUS
<1> USE ClockAssumption DEF HistoryInit, ClockInit
<1>1. NotStarted /\ firstFrame = TRUE
  BY DEF NotStarted
<1>2. /\ now \in BootTime..MaxNow /\ timer \in 0..TimeLimit
      /\ lastUpdateTimeInterval \in 0..now
      /\ skew \in Int /\ pauseTimer \in Int
  BY DEF Date
<1>3. /\ pauseState \in BOOLEAN /\ pauseShown \in BOOLEAN /\ firstFrame \in BOOLEAN
      /\ rendering \in RenderStates
  BY DEF RenderStates
<1>4. /\ started \in BootTime..now /\ toggled \in BootTime..now
      /\ played \in Nat /\ away \in Nat /\ toggles \in Nat
  OBVIOUS
<1>5. HistoryTypeOK
  BY <1>2, <1>3, <1>4 DEF HistoryTypeOK, ClockTypeOK
<1>6. QED
  BY <1>1, <1>5 DEF ClockIInv

(* The types, and what nothing changes but the first frame.                *)
LEMMA FrameKeeps ==
  ASSUME ClockIInv, ClockFrame
  PROVE  ClockIInv'
<1> USE ClockAssumption
<1>1. HistoryTypeOK'
  <2>1. now \in Nat /\ lastUpdateTimeInterval \in 0..now /\ timer \in 0..TimeLimit
    BY DEF ClockIInv, HistoryTypeOK, ClockTypeOK
  <2>2. CountDown(timer, Elapsed) \in 0..TimeLimit
    BY <2>1 DEF CountDown, Elapsed
  <2>3. timer' \in 0..TimeLimit
    BY <2>1, <2>2 DEF ClockFrame, Update
  <2>4. firstFrame' \in BOOLEAN /\ pauseState' \in BOOLEAN /\ pauseShown' \in BOOLEAN
    BY DEF ClockIInv, HistoryTypeOK, ClockTypeOK, ClockFrame, Update
  <2>5. rendering' \in RenderStates
    BY DEF ClockFrame, DrawFrame, RenderStates
  <2>6. /\ now' \in BootTime..MaxNow /\ lastUpdateTimeInterval' \in 0..now'
        /\ skew' \in Int /\ pauseTimer' \in Int
    BY <2>1 DEF ClockIInv, HistoryTypeOK, ClockTypeOK, ClockFrame, Update
  <2>7. /\ started' \in BootTime..now' /\ toggled' \in BootTime..now'
        /\ played' \in Nat /\ away' \in Nat /\ toggles' \in Nat
    BY DEF ClockIInv, HistoryTypeOK, ClockTypeOK, ClockFrame, Update
  <2>8. QED
    BY <2>3, <2>4, <2>5, <2>6, <2>7 DEF HistoryTypeOK, ClockTypeOK
<1>2. firstFrame' = FALSE /\ Elapsed' = 0 /\ lastUpdateTimeInterval' = now
  BY <1>1 DEF ClockFrame, Update, Elapsed, HistoryTypeOK, ClockTypeOK
<1>3. Slack' = Slack /\ Slack \in Nat
  BY SlackFact DEF ClockIInv, ClockFrame, Slack
<1>4. UNCHANGED <<pauseState, played, away, toggles>>
  BY DEF ClockFrame, Update
<1>5. CASE firstFrame
  <2>1. Charged' = 0 /\ started' = now /\ played = 0 /\ away = 0 /\ Slack = 0
    BY <1>5, SlackFact
    DEF ClockIInv, NotStarted, ClockFrame, Update, Charges, Charged, HistoryTypeOK,
        ClockTypeOK
  <2>2. Started'
    BY <2>1, <1>1, <1>2, <1>3, <1>4
    DEF Started, UpperBound, LowerBound, HistoryTypeOK, ClockTypeOK
  <2>3. QED
    BY <1>1, <1>2, <2>2 DEF ClockIInv
<1>6. CASE ~firstFrame /\ pauseState
  <2>1. timer' = timer /\ Charged' = Charged /\ started' = started
    BY <1>6 DEF ClockFrame, Update, Charges, Charged
  <2>2. Started'
    BY <1>6, <2>1, <1>1, <1>2, <1>3, <1>4
    DEF ClockIInv, Started, UpperBound, LowerBound, HistoryTypeOK, ClockTypeOK, Charged
  <2>3. QED
    BY <1>1, <1>2, <2>2 DEF ClockIInv
<1>7. CASE ~firstFrame /\ ~pauseState
  <2>1. timer' = CountDown(timer, Elapsed) /\ started' = started
    BY <1>7 DEF ClockFrame, Update, Charges
  <2>2. Elapsed \in Nat /\ timer \in Nat /\ Charged \in Int
    BY DEF ClockIInv, HistoryTypeOK, ClockTypeOK, Elapsed, Charged
  <2>3. Charged' <= Charged + Elapsed /\ (timer' = 0 \/ Charged' = Charged + Elapsed)
    BY <2>1, <2>2 DEF CountDown, Charged
  <2>4. Charged' \in Int
    BY <2>1, <2>2 DEF CountDown, Charged
  <2>5. Charged + Elapsed <= now - started
    BY <1>7, <2>2 DEF ClockIInv, Started, Elapsed, HistoryTypeOK, ClockTypeOK
  <2>6. UpperBound'
    <3>1. Charged + Elapsed <= played + Slack + away /\ played \in Nat /\ away \in Nat
      BY <1>7 DEF ClockIInv, Started, UpperBound, HistoryTypeOK
    <3>2. Charged' <= played + Slack + away
      BY <3>1, <2>2, <2>3, <2>4, <1>3
    <3>3. Charged' + Elapsed' <= played + Slack + away
      BY <3>2, <2>4, <1>2
    <3>4. QED
      BY <3>2, <3>3, <1>3, <1>4, <1>7 DEF UpperBound
  <2>7. timer' = 0 \/ LowerBound'
    <3>1. CASE timer' = 0
      BY <3>1
    <3>2. CASE timer' # 0
      <4>1. timer # 0 /\ Charged' = Charged + Elapsed
        BY <3>2, <2>1, <2>2, <2>3 DEF CountDown
      <4>2. QED
        BY <4>1, <1>7, <2>2, <1>2, <1>3, <1>4
        DEF ClockIInv, Started, LowerBound, HistoryTypeOK
    <3>3. QED
      BY <3>1, <3>2
  <2>8. started' <= lastUpdateTimeInterval'
    BY <2>1, <1>2 DEF ClockIInv, HistoryTypeOK, ClockTypeOK
  <2>9. Charged' <= lastUpdateTimeInterval' - started'
    BY <2>1, <2>2, <2>3, <2>4, <2>5, <1>2 DEF ClockIInv, HistoryTypeOK, ClockTypeOK
  <2>10. QED
    BY <1>1, <1>2, <2>6, <2>7, <2>8, <2>9 DEF ClockIInv, Started
<1>8. QED
  BY <1>5, <1>6, <1>7

LEMMA PauseKeeps ==
  ASSUME ClockIInv, ClockPause
  PROVE  ClockIInv'
<1> USE ClockAssumption
<1>1. HistoryTypeOK'
  BY DEF ClockIInv, HistoryTypeOK, ClockTypeOK, ClockPause, TogglePause, Date, One
<1>2. UNCHANGED <<now, timer, lastUpdateTimeInterval, firstFrame, started, played, away>>
  BY DEF ClockPause, TogglePause
<1>3. pauseState' = ~pauseState
  BY DEF ClockPause, TogglePause
<1>4. CASE firstFrame
  BY <1>1, <1>2, <1>4 DEF ClockIInv, NotStarted, ClockPause, One, HistoryTypeOK
<1>5. CASE ~firstFrame
  <2>1. toggles' = toggles + 1
    BY <1>5 DEF ClockPause, One
  <2>2. Slack' = Slack + FrameGap /\ Slack \in Nat
    BY <2>1, SlackFact DEF ClockIInv, Slack
  <2>3. Charged' = Charged /\ Elapsed' = Elapsed /\ Charged \in Int /\ Elapsed \in Nat
    BY <1>2 DEF Charged, Elapsed, ClockIInv, HistoryTypeOK, ClockTypeOK
  <2>4. UpperBound'
    BY <1>2, <1>3, <1>5, <2>2, <2>3 DEF ClockIInv, Started, UpperBound, HistoryTypeOK
  <2>5. timer' = 0 \/ LowerBound'
    BY <1>2, <1>3, <1>5, <2>2, <2>3 DEF ClockIInv, Started, LowerBound, HistoryTypeOK
  <2>6. QED
    BY <1>1, <1>2, <1>5, <2>3, <2>4, <2>5 DEF ClockIInv, Started
<1>6. QED
  BY <1>4, <1>5

LEMMA TickKeeps ==
  ASSUME ClockIInv, ClockTick
  PROVE  ClockIInv'
<1> USE ClockAssumption
<1>1. HistoryTypeOK'
  BY DEF ClockIInv, HistoryTypeOK, ClockTypeOK, ClockTick, Tick, One, sceneClockVars
<1>2. UNCHANGED <<timer, lastUpdateTimeInterval, firstFrame, pauseState, started, toggles,
                  rendering>>
  BY DEF ClockTick, Tick, sceneClockVars
<1>3. CASE firstFrame
  BY <1>1, <1>2, <1>3 DEF ClockIInv, NotStarted, ClockTick, One, HistoryTypeOK
<1>4. CASE ~firstFrame
  <2>1. Slack' = Slack /\ Slack \in Nat
    BY <1>2, SlackFact DEF ClockIInv, Slack
  <2>2. Charged' = Charged /\ Charged \in Int /\ Elapsed \in Nat
    BY <1>2 DEF Charged, Elapsed, ClockIInv, HistoryTypeOK, ClockTypeOK
  <2>3. Elapsed' = Elapsed + 1
    BY <1>2 DEF ClockTick, Tick, Elapsed, ClockIInv, HistoryTypeOK, ClockTypeOK
  <2>4. \/ away' = away + 1
        \/ away' = away /\ Elapsed < FrameGap
    BY <1>4 DEF ClockTick, Tick, One, ClockIInv, HistoryTypeOK
  <2>5. played' = IF pauseState THEN played ELSE played + 1
    BY <1>4 DEF ClockTick, One, ClockIInv, HistoryTypeOK
  <2>6. played \in Nat /\ away \in Nat /\ FrameGap \in Nat
    BY DEF ClockIInv, HistoryTypeOK
  <2>7. UpperBound'
    BY <1>2, <1>4, <2>1, <2>2, <2>3, <2>4, <2>5, <2>6 DEF ClockIInv, Started, UpperBound
  <2>8. timer' = 0 \/ LowerBound'
    BY <1>2, <1>4, <2>1, <2>2, <2>3, <2>4, <2>5, <2>6 DEF ClockIInv, Started, LowerBound
  <2>9. QED
    BY <1>1, <1>2, <1>4, <2>2, <2>7, <2>8 DEF ClockIInv, Started
<1>5. QED
  BY <1>3, <1>4

(* What leaves the countdown alone: the life cycle and the date.           *)
LEMMA StillKeeps ==
  ASSUME ClockIInv, skew' \in Int, rendering' \in RenderStates,
         UNCHANGED <<now, sceneClockVars, historyVars>>
  PROVE  ClockIInv'
<1>1. HistoryTypeOK'
  BY DEF ClockIInv, HistoryTypeOK, ClockTypeOK, sceneClockVars, historyVars
<1>2. (NotStarted' <=> NotStarted) /\ (Started' <=> Started) /\ firstFrame' = firstFrame
  BY DEF NotStarted, Started, UpperBound, LowerBound, Charged, Elapsed, Slack,
         sceneClockVars, historyVars
<1>3. QED
  BY <1>1, <1>2 DEF ClockIInv

LEMMA ClockStepHolds == ClockIInv /\ [HistoryNext]_allVars => ClockIInv'
<1> SUFFICES ASSUME ClockIInv, [HistoryNext]_allVars PROVE ClockIInv'
  OBVIOUS
<1>1. CASE ClockFrame
  BY <1>1, FrameKeeps
<1>2. CASE ClockPause
  BY <1>2, PauseKeeps
<1>3. CASE ClockTick
  BY <1>3, TickKeeps
<1>4. CASE ClockLifeCycle
  <2>1. skew' \in Int /\ rendering' \in RenderStates
    BY <1>4 DEF ClockLifeCycle, ResignActive, BecomeActive, RenderStates, clockVars,
                ClockIInv, HistoryTypeOK, ClockTypeOK
  <2>2. UNCHANGED <<now, sceneClockVars, historyVars>>
    BY <1>4 DEF ClockLifeCycle, clockVars
  <2>3. QED
    BY <2>1, <2>2, StillKeeps
<1>5. CASE ClockSet
  <2>1. skew' \in Int /\ rendering' \in RenderStates
    BY <1>5, SkewsAssumption DEF ClockSet, SetDate, ClockIInv, HistoryTypeOK, ClockTypeOK
  <2>2. UNCHANGED <<now, sceneClockVars, historyVars>>
    BY <1>5 DEF ClockSet, SetDate
  <2>3. QED
    BY <2>1, <2>2, StillKeeps
<1>6. CASE UNCHANGED allVars
  <2>1. skew' \in Int /\ rendering' \in RenderStates
    BY <1>6 DEF allVars, clockVars, ClockIInv, HistoryTypeOK, ClockTypeOK
  <2>2. UNCHANGED <<now, sceneClockVars, historyVars>>
    BY <1>6 DEF allVars, clockVars
  <2>3. QED
    BY <2>1, <2>2, StillKeeps
<1>7. QED
  BY <1>1, <1>2, <1>3, <1>4, <1>5, <1>6 DEF HistoryNext

LEMMA ClockInvariant == HistorySpec => []ClockIInv
<1>1. QED
  BY ClockInitHolds, ClockStepHolds, PTL DEF HistorySpec

(* Type correctness: the timer never leaves 0..TimeLimit.                  *)
THEOREM ClockTypeCorrect == HistorySpec => []HistoryTypeOK
<1>1. ClockIInv => HistoryTypeOK
  BY DEF ClockIInv
<1>2. QED
  BY <1>1, ClockInvariant, PTL

(* The countdown takes no more than the time between the first frame and   *)
(* the last one.                                                           *)
THEOREM NoOvercharge == HistorySpec => []NeverOvercharges
<1>1. ClockIInv => NeverOvercharges
  BY ClockAssumption
  DEF ClockIInv, NotStarted, Started, NeverOvercharges, Charged
<1>2. QED
  BY <1>1, ClockInvariant, PTL

(* The countdown follows the time played, up to a frame for each toggle    *)
(* and the time the view did not draw, whatever happens to the date.       *)
THEOREM CountdownTracksPlay == HistorySpec => []ClockTracksPlay
<1>1. ASSUME ClockIInv PROVE ClockTracksPlay
  <2> USE ClockAssumption
  <2>1. Slack \in Nat /\ (toggles + 1) * FrameGap = Slack + FrameGap
    BY <1>1, SlackFact DEF ClockIInv
  <2>2. Charged \in Int /\ Elapsed \in Nat /\ played \in Nat /\ away \in Nat /\ FrameGap \in Nat
    BY <1>1 DEF ClockIInv, HistoryTypeOK, ClockTypeOK, Charged, Elapsed
  <2>3. CASE firstFrame
    <3>1. Charged = 0 /\ played = 0 /\ away = 0
      BY <1>1, <2>3 DEF ClockIInv, NotStarted, Charged
    <3>2. QED
      BY <3>1, <2>1, <2>2 DEF ClockTracksPlay, Slack
  <2>4. CASE ~firstFrame
    <3>1. Charged <= played + Slack + away
      BY <1>1, <2>4 DEF ClockIInv, Started, UpperBound
    <3>2. timer = 0 \/ Charged >= played - (Slack + FrameGap) - away
      BY <1>1, <2>1, <2>2, <2>4 DEF ClockIInv, Started, LowerBound
    <3>3. QED
      BY <3>1, <3>2, <2>1, <2>2 DEF ClockTracksPlay, Slack
  <2>5. QED
    BY <2>3, <2>4
<1>2. QED
  BY <1>1, ClockInvariant, PTL
-----------------------------------------------------------------------------
(* The last toggle was dated with the date of its time.                    *)
PauseDated ==
  /\ HistoryTypeOK
  /\ skew \in Skews \cup {0}
  /\ pauseTimer - toggled \in Skews \cup {0}

LEMMA PauseDatedHolds == HistorySpec => []PauseDated
<1>1. HistoryInit => pauseTimer - toggled = 0 /\ skew = 0
  BY ClockAssumption DEF HistoryInit, ClockInit, Date
<1>2. HistoryInit /\ HistoryTypeOK => PauseDated
  BY <1>1 DEF PauseDated
<1>3. ASSUME PauseDated, HistoryTypeOK', [HistoryNext]_allVars
      PROVE  PauseDated'
  <2>1. CASE ClockPause
    <3>1. pauseTimer' = now + skew /\ toggled' = now /\ skew' = skew
      BY <2>1 DEF ClockPause, TogglePause, Date
    <3>2. now \in Int /\ skew \in Int
      BY <1>3, ClockAssumption DEF PauseDated, HistoryTypeOK, ClockTypeOK
    <3>3. pauseTimer' - toggled' = skew
      BY <3>1, <3>2
    <3>4. QED
      BY <1>3, <3>1, <3>3 DEF PauseDated
  <2>2. CASE ClockSet
    BY <1>3, <2>2 DEF PauseDated, ClockSet, SetDate, sceneClockVars, historyVars
  <2>3. CASE ClockFrame \/ ClockTick \/ ClockLifeCycle \/ UNCHANGED allVars
    <3>1. UNCHANGED <<skew, pauseTimer, toggled>>
      BY <2>3 DEF ClockFrame, Update, ClockTick, Tick, ClockLifeCycle, allVars, clockVars,
                  sceneClockVars, historyVars
    <3>2. QED
      BY <1>3, <3>1 DEF PauseDated
  <2>4. QED
    BY <1>3, <2>1, <2>2, <2>3 DEF HistoryNext
<1>4. QED
  BY <1>2, <1>3, ClockTypeCorrect, PTL DEF HistorySpec

(* A rotation after the debounce is answered, up to the time by which the  *)
(* date can have been set back.                                            *)
THEOREM PauseDelay == HistorySpec => []PauseIsDelayedByDate
<1>1. ASSUME PauseDated PROVE PauseIsDelayedByDate
  <2> SUFFICES ASSUME \A a, b \in Skews \cup {0} : now > toggled + Debounce + a - b
               PROVE  MayToggle
    BY DEF PauseIsDelayedByDate
  <2>1. now > toggled + Debounce + (pauseTimer - toggled) - skew
    BY <1>1 DEF PauseDated
  <2>2. now \in Int /\ toggled \in Int /\ pauseTimer \in Int /\ skew \in Int
    BY <1>1, ClockAssumption DEF PauseDated, HistoryTypeOK, ClockTypeOK
  <2>3. QED
    BY <2>1, <2>2, ClockAssumption DEF MayToggle, Date
<1>2. QED
  BY <1>1, PauseDatedHolds, PTL
=============================================================================
