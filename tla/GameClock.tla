----------------------------- MODULE GameClock ------------------------------
(***************************************************************************)
(* The countdown of PlayScene: update(), called once per frame, charges    *)
(* the time since the previous frame to timer unless the game is paused,   *)
(* and the gyroscope's timer toggles the pause.  Frames carry the time     *)
(* since the system was started; the pause is dated with Date, the clock   *)
(* that the user and the network may set.  Time is counted in ticks; the   *)
(* frames that the display link promises come at most FrameGap ticks   *)
(* apart while the view draws.                                             *)
(***************************************************************************)
EXTENDS Integers, AppState

CONSTANTS
  TimeLimit,   (* time and timer as SetDifficulty sets them                *)
  Debounce,    (* the 0.5 s of TogglePause                                 *)
  FrameGap,    (* longest time between two frames of a drawing view        *)
  BootTime,    (* the system's clock when the scene is presented           *)
  MaxNow       (* bound on the system's clock                              *)

ASSUME ClockAssumption ==
  /\ TimeLimit \in Nat /\ Debounce \in Nat /\ FrameGap \in Nat \ {0}
  /\ BootTime \in Nat /\ MaxNow \in Nat /\ BootTime <= MaxNow

VARIABLES
  now,                     (* the system's clock                           *)
  skew,                    (* how far Date is ahead of it                  *)
  timer,                   (* time left                                    *)
  lastUpdateTimeInterval,  (* clock at the previous frame                  *)
  firstFrame,
  pauseState, pauseTimer,  (* paused?  Date at the last toggle             *)
  pauseShown               (* the pause layer is on the screen             *)

sceneClockVars == <<timer, lastUpdateTimeInterval, firstFrame, pauseState,
                    pauseTimer, pauseShown>>
clockVars == <<now, skew, sceneClockVars>>

(* Date.timeIntervalSinceReferenceDate                                     *)
Date == now + skew

(* The action that hides the pause layer runs with the first frame.        *)
ClockInit ==
  /\ now = BootTime /\ skew = 0
  /\ timer = TimeLimit
  /\ lastUpdateTimeInterval = 0
  /\ firstFrame = TRUE
  /\ pauseState = FALSE /\ pauseTimer = Date /\ pauseShown = TRUE
-----------------------------------------------------------------------------
Elapsed == now - lastUpdateTimeInterval

(* Wrong variant: the timer runs below zero.                               *)
CountDownBelowZero(t, delta) == t - delta
(* The timer counts down and stops at zero.                                *)
CountDown(t, delta) == IF t - delta < 0 THEN 0 ELSE t - delta

(* Wrong variants: the first frame charges the whole age of the system;    *)
(* the clock runs on while the game is paused.                             *)
ChargesFirstFrame == ~pauseState
ChargesPauses == ~firstFrame
Charges == ~firstFrame /\ ~pauseState

(* update(), and the action queued on the pause layer, which is always the *)
(* one that pauseState calls for.                                          *)
Update ==
  /\ lastUpdateTimeInterval' = now
  /\ timer' = IF Charges THEN CountDown(timer, Elapsed) ELSE timer
  /\ firstFrame' = FALSE
  /\ pauseShown' = pauseState
  /\ UNCHANGED <<now, skew, pauseState, pauseTimer>>

(* "pauseTimer + 0.5 < Date.timeIntervalSinceReferenceDate"                *)
MayToggle == pauseTimer + Debounce < Date

(* Wrong variant: the half second is added when the toggle is dated, too.  *)
TogglePauseAhead ==
  /\ MayToggle
  /\ pauseState' = ~pauseState
  /\ pauseTimer' = Date + Debounce
  /\ UNCHANGED <<now, skew, timer, lastUpdateTimeInterval, firstFrame, pauseShown>>
(* The gyroscope's timer has read a rotation above the threshold.          *)
TogglePause ==
  /\ MayToggle
  /\ pauseState' = ~pauseState
  /\ pauseTimer' = Date
  /\ UNCHANGED <<now, skew, timer, lastUpdateTimeInterval, firstFrame, pauseShown>>

Tick ==
  /\ now < MaxNow
  /\ rendering = "on" /\ ~firstFrame => Elapsed < FrameGap
  /\ now' = now + 1
  /\ UNCHANGED <<skew, sceneClockVars>>

(* Date is corrected.                                                      *)
SetDate(s) ==
  /\ skew' = s
  /\ UNCHANGED <<now, sceneClockVars>>

ClockTypeOK ==
  /\ now \in BootTime..MaxNow
  /\ timer \in 0..TimeLimit
  /\ lastUpdateTimeInterval \in 0..now
  /\ firstFrame \in BOOLEAN
  /\ pauseState \in BOOLEAN /\ pauseShown \in BOOLEAN
  /\ skew \in Int /\ pauseTimer \in Int
  /\ rendering \in RenderStates
=============================================================================
