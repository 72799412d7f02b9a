------------------------------- MODULE Motion -------------------------------
(***************************************************************************)
(* The accelerometer's handler of PlayScene, statement by statement.       *)
(*                                                                         *)
(* CoreMotion adds one operation per sample to motionQueue, an             *)
(* OperationQueue without a limit on the operations that run at once:      *)
(* the operations start in order but overlap, on threads of their own,     *)
(* while the main thread leaves the scene and drops its last reference.    *)
(* The handler holds the scene weakly and looks it up at every statement.  *)
(***************************************************************************)
EXTENDS Integers, Sequences, FiniteSets

CONSTANTS
  Workers,    (* the threads that run operations of motionQueue            *)
  MaxSamples  (* bound on the samples delivered                            *)

ASSUME MotionAssumption ==
  IsFiniteSet(Workers) /\ MaxSamples \in Nat

(* acceleration.x, and lastZ, against 0.5.                                 *)
Levels == {"below", "at", "above"}

VARIABLES
  isGyroAvailable,  (* of motionManager, on this device                    *)
  samples,  (* the samples delivered so far                                *)
  started,  (* how many of them have been started                          *)
  pc,       (* the statement each worker is at                             *)
  sample,   (* data.acceleration.x of each worker                          *)
  lastZ,
  stage,    (* the scene: "attached"; "leaving", in a transition; without  *)
            (* a view, "detached"; deallocated, "freed"                    *)
  menus,    (* menus presented by the handlers                             *)
  lateMenus,(* those of them presented when the scene had lost its view    *)
  trapped   (* nil was unwrapped and the process is gone                   *)

queueVars  == <<isGyroAvailable, samples, started>>
motionVars == <<queueVars, pc, sample, lastZ, stage, menus, lateMenus, trapped>>

(* "var lastZ = 0.0"                                                       *)
LastZDefault == "below"

MotionInit ==
  /\ isGyroAvailable \in BOOLEAN
  /\ samples = <<>> /\ started = 0
  /\ pc = [w \in Workers |-> "idle"]
  /\ sample = [w \in Workers |-> "below"]
  /\ lastZ = LastZDefault
  /\ stage = "attached"
  /\ menus = 0 /\ lateMenus = 0 /\ trapped = FALSE
-----------------------------------------------------------------------------
(* motionManager belongs to the scene and delivers until it is gone.       *)
Deliver(x) ==
  /\ stage # "freed" /\ Len(samples) < MaxSamples
  /\ samples' = Append(samples, x)
  /\ UNCHANGED <<isGyroAvailable, started, pc, sample, lastZ, stage, menus,
                 lateMenus, trapped>>

Start(w) ==
  /\ pc[w] = "idle" /\ started < Len(samples)
  /\ started' = started + 1
  /\ pc' = [pc EXCEPT ![w] = "test"]
  /\ sample' = [sample EXCEPT ![w] = samples[started + 1]]
  /\ UNCHANGED <<isGyroAvailable, samples, lastZ, stage, menus, lateMenus, trapped>>

(* Wrong variant: the two sides of the comparison are exchanged.           *)
CrossedDown(w) == lastZ = "above" /\ sample[w] = "below"
(* "(self?.lastZ)! < 0.5 && data.acceleration.x > 0.5"                     *)
Crossed(w) == lastZ = "below" /\ sample[w] = "above"

Test(w) ==
  /\ pc[w] = "test"
  /\ IF stage = "freed"
       THEN trapped' = TRUE /\ UNCHANGED pc
       ELSE /\ pc' = [pc EXCEPT ![w] = IF Crossed(w) THEN "go" ELSE "store"]
            /\ UNCHANGED trapped
  /\ UNCHANGED <<queueVars, sample, lastZ, stage, menus, lateMenus>>

(* "self?.GoMenu()" up to "if let view = self.view": from here to the end  *)
(* of GoMenu the worker keeps the scene and the view it has found.         *)
FindView(w) ==
  /\ pc[w] = "go"
  /\ pc' = [pc EXCEPT ![w] =
              IF stage \in {"attached", "leaving"} THEN "present" ELSE "store"]
  /\ UNCHANGED <<queueVars, sample, lastZ, stage, menus, lateMenus, trapped>>

(* "view.presentScene(scene, ...)" with a new menu.                        *)
PresentMenu(w) ==
  /\ pc[w] = "present"
  /\ pc' = [pc EXCEPT ![w] = "store"]
  /\ menus' = menus + 1
  /\ lateMenus' = IF stage = "detached" THEN lateMenus + 1 ELSE lateMenus
  /\ stage' = IF stage = "attached" THEN "leaving" ELSE stage
  /\ UNCHANGED <<queueVars, sample, lastZ, trapped>>

(* Wrong variant: the sample is not remembered.                            *)
StoreForgets(w) ==
  /\ pc[w] = "store"
  /\ pc' = [pc EXCEPT ![w] = "idle"]
  /\ UNCHANGED <<queueVars, sample, lastZ, stage, menus, lateMenus, trapped>>
(* "self?.lastZ = data.acceleration.x"                                     *)
Store(w) ==
  /\ pc[w] = "store"
  /\ pc' = [pc EXCEPT ![w] = "idle"]
  /\ lastZ' = IF stage = "freed" THEN lastZ ELSE sample[w]
  /\ UNCHANGED <<queueVars, sample, stage, menus, lateMenus, trapped>>
-----------------------------------------------------------------------------
(* The main thread: the back button or the end of the game.                *)
Leave ==
  /\ stage = "attached"
  /\ stage' = "leaving"
  /\ UNCHANGED <<queueVars, pc, sample, lastZ, menus, lateMenus, trapped>>

TransitionEnds ==
  /\ stage = "leaving"
  /\ stage' = "detached"
  /\ UNCHANGED <<queueVars, pc, sample, lastZ, menus, lateMenus, trapped>>

(* Wrong variant: a timer whose block holds the scene weakly.              *)
TimerHoldsSceneWeakly == FALSE
(* The block of the gyroscope's timer holds the scene, and nothing         *)
(* invalidates the timer.                                                  *)
TimerHoldsScene == isGyroAvailable

(* The view was the scene's other owner.                                   *)
Free ==
  /\ stage = "detached" /\ ~TimerHoldsScene
  /\ \A w \in Workers : pc[w] # "present"
  /\ stage' = "freed"
  /\ UNCHANGED <<queueVars, pc, sample, lastZ, menus, lateMenus, trapped>>

(* Nothing more can happen: the process is gone, or all samples up to the  *)
(* bound are handled and the scene is as gone as it can be.                *)
MotionDone ==
  /\ \/ trapped
     \/ /\ \A w \in Workers : pc[w] = "idle"
        /\ started = Len(samples) /\ stage \in {"detached", "freed"}
  /\ UNCHANGED motionVars

Handler(w) == Start(w) \/ Test(w) \/ FindView(w) \/ PresentMenu(w) \/ Store(w)

MotionNext ==
  \/ /\ ~trapped
     /\ \/ \E x \in Levels : Deliver(x)
        \/ \E w \in Workers : Handler(w)
        \/ Leave \/ TransitionEnds \/ Free
  \/ MotionDone

MotionSpec == MotionInit /\ [][MotionNext]_motionVars
-----------------------------------------------------------------------------
MotionTypeOK ==
  /\ isGyroAvailable \in BOOLEAN
  /\ samples \in Seq(Levels) /\ started \in 0..Len(samples)
  /\ pc \in [Workers -> {"idle", "test", "go", "present", "store"}]
  /\ sample \in [Workers -> Levels] /\ lastZ \in Levels
  /\ stage \in {"attached", "leaving", "detached", "freed"}
  /\ menus \in Nat /\ lateMenus \in Nat /\ trapped \in BOOLEAN

(* On a device with a gyroscope "(self?.lastZ)!" never unwraps nil, whoever *)
(* leaves and whatever samples are still queued: only because the timer    *)
(* that nobody stops keeps every scene alive.                              *)
TimerSparesTheUnwrap == isGyroAvailable => ~trapped

Lows == Cardinality({i \in 1..started : samples[i] = "below"})

(* However the handlers overlap, a tilt presents at most one menu for each *)
(* thread and each time the device came back below 0.5: handlers that run  *)
(* between the test and the store of another one can present it again, but *)
(* the store of lastZ ends that.  A handler that found the view before the *)
(* transition ended can present its menu over the scene that came after    *)
(* the game: at most one for each thread, whatever samples come later.     *)
MenusAreBounded ==
  /\ menus <= Cardinality(Workers) * (1 + Lows)
  /\ lateMenus <= Cardinality(Workers)

(* A tilt is lost only through a sample of exactly 0.5: when all samples   *)
(* are handled and none was that, a device that has been above 0.5 has     *)
(* left the game, in whatever order the handlers tested and stored.        *)
OnlyHalfLosesTheTilt ==
  /\ started = Len(samples) /\ \A w \in Workers : pc[w] = "idle"
  /\ \E i \in 1..started : samples[i] = "above"
  /\ \A i \in 1..started : samples[i] # "at"
  => stage # "attached"
=============================================================================
