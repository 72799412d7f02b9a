---------------------------- MODULE ClockHistory ----------------------------
(***************************************************************************)
(* GameClock on its own, with the history that its properties speak of:    *)
(* how the time since the first frame was spent.                           *)
(***************************************************************************)
EXTENDS GameClock

CONSTANT Skews  (* how far Date may be set ahead of the system's clock     *)

ASSUME SkewsAssumption == Skews \subseteq Int

VARIABLES
  started,  (* clock at the first frame                                    *)
  played,   (* ticks since then in which the game was not paused           *)
  away,     (* ticks since then in which the view did not draw             *)
  toggles,  (* times the pause was toggled since then                      *)
  toggled   (* clock at the last toggle                                    *)

historyVars == <<started, played, away, toggles, toggled>>
allVars     == <<clockVars, rendering, historyVars>>

One(cond) == IF cond THEN 1 ELSE 0

HistoryInit ==
  /\ ClockInit /\ rendering = "on"
  /\ started = BootTime /\ played = 0 /\ away = 0 /\ toggles = 0
  /\ toggled = BootTime

ClockFrame ==
  /\ DrawFrame /\ Update
  /\ started' = IF firstFrame THEN now ELSE started
  /\ UNCHANGED <<played, away, toggles, toggled>>

ClockPause ==
  /\ TogglePause
  /\ toggles' = toggles + One(~firstFrame)
  /\ toggled' = now
  /\ UNCHANGED <<rendering, started, played, away>>

ClockTick ==
  /\ Tick
  /\ played' = played + One(~firstFrame /\ ~pauseState)
  /\ away'   = away + One(~firstFrame /\ rendering # "on")
  /\ UNCHANGED <<rendering, started, toggles, toggled>>

ClockLifeCycle ==
  /\ ResignActive \/ BecomeActive
  /\ UNCHANGED <<clockVars, historyVars>>

ClockSet ==
  /\ \E s \in Skews \ {skew} : SetDate(s)
  /\ UNCHANGED <<rendering, historyVars>>

HistoryNext ==
  ClockFrame \/ ClockPause \/ ClockTick \/ ClockLifeCycle \/ ClockSet

HistorySpec == HistoryInit /\ [][HistoryNext]_allVars
-----------------------------------------------------------------------------
HistoryTypeOK ==
  /\ ClockTypeOK
  /\ started \in BootTime..now
  /\ toggled \in BootTime..now
  /\ played \in Nat /\ away \in Nat /\ toggles \in Nat

Charged == TimeLimit - timer

(* The countdown never takes more than the time between the first frame    *)
(* and the last one, although lastUpdateTimeInterval starts at 0 and the   *)
(* system's clock does not.                                                *)
NeverOvercharges ==
  Charged <= IF firstFrame THEN 0 ELSE lastUpdateTimeInterval - started

(* The countdown follows the time played: pauses are not charged and play  *)
(* is, up to one frame for each toggle of the pause, since a toggle falls  *)
(* between two frames, and up to the time the view did not draw.           *)
ClockTracksPlay ==
  /\ Charged <= played + toggles * FrameGap + away
  /\ \/ timer = 0
     \/ Charged >= played - (toggles + 1) * FrameGap - away

(* What the comment in applicationWillResignActive asks for: "Games should *)
(* use this method to pause the game".                                     *)
InactiveGameIsPaused == Charged <= now - started - away

(* A rotation is answered, unless it comes within the debounce of the last *)
(* one; when the date was set back, it may be ignored for as much longer   *)
(* as the date can have been set back, and no more.                        *)
PauseIsDelayedByDate ==
  (\A a, b \in Skews \cup {0} : now > toggled + Debounce + a - b) => MayToggle
=============================================================================
