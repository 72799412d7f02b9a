---------------------------- MODULE MotionProofs ----------------------------
(***************************************************************************)
(* Proofs about the accelerometer's handler, for any number of threads and *)
(* of samples.                                                             *)
(***************************************************************************)
EXTENDS Motion, SequenceTheorems, FiniteSetTheorems, TLAPS

(* The unwrap is safe as long as nothing frees the scene: what has to be   *)
(* kept is that the timer outlives every transition.                       *)
KeptAlive == isGyroAvailable => stage # "freed" /\ ~trapped

MotionIInv == MotionTypeOK /\ KeptAlive

LEMMA MotionInitHolds == MotionInit => MotionIInv
<1> SUFFICES ASSUME MotionInit PROVE MotionIInv
  OBVIOUS
<1>1. samples \in Seq(Levels) /\ Len(samples) = 0
  BY DEF MotionInit
<1>2. MotionTypeOK
  <2>1. started \in 0..Len(samples)
    BY <1>1 DEF MotionInit
  <2>2. pc \in [Workers -> {"idle", "test", "go", "present", "store"}]
    BY DEF MotionInit
  <2>3. sample \in [Workers -> Levels] /\ lastZ \in Levels
    BY DEF MotionInit, LastZDefault, Levels
  <2>4. /\ isGyroAvailable \in BOOLEAN /\ lateMenus \in Nat /\ trapped \in BOOLEAN
        /\ menus \in Nat /\ stage \in {"attached", "leaving", "detached", "freed"}
    BY DEF MotionInit
  <2>5. QED
    BY <1>1, <2>1, <2>2, <2>3, <2>4 DEF MotionTypeOK
<1>3. KeptAlive
  BY DEF MotionInit, KeptAlive
<1>4. QED
  BY <1>2, <1>3 DEF MotionIInv

(* What CoreMotion and the handlers do to the types, step by step.         *)
LEMMA DeliverKeeps ==
  ASSUME MotionIInv, NEW x \in Levels, Deliver(x)
  PROVE  MotionIInv'
<1>1. samples' \in Seq(Levels) /\ Len(samples') = Len(samples) + 1
  BY DEF MotionIInv, MotionTypeOK, Deliver
<1>2. started \in 0..(Len(samples) + 1)
  BY DEF MotionIInv, MotionTypeOK
<1>3. QED
  BY <1>1, <1>2 DEF MotionIInv, MotionTypeOK, KeptAlive, Deliver

LEMMA StartKeeps ==
  ASSUME MotionIInv, NEW w \in Workers, Start(w)
  PROVE  MotionIInv'
<1>1. started + 1 \in 1..Len(samples) /\ samples[started + 1] \in Levels
  BY DEF MotionIInv, MotionTypeOK, Start
<1>2. QED
  BY <1>1 DEF MotionIInv, MotionTypeOK, KeptAlive, Start

LEMMA HandlerKeeps ==
  ASSUME MotionIInv, NEW w \in Workers, Handler(w)
  PROVE  MotionIInv'
<1> USE DEF MotionIInv, MotionTypeOK, KeptAlive, queueVars
<1>1. CASE Start(w)
  BY <1>1, StartKeeps
<1>2. CASE Test(w)
  BY <1>2 DEF Test
<1>3. CASE FindView(w)
  BY <1>3 DEF FindView
<1>4. CASE PresentMenu(w)
  BY <1>4 DEF PresentMenu
<1>5. CASE Store(w)
  BY <1>5 DEF Store
<1>6. QED
  BY <1>1, <1>2, <1>3, <1>4, <1>5 DEF Handler

LEMMA MotionStepHolds == MotionIInv /\ [MotionNext]_motionVars => MotionIInv'
<1> SUFFICES ASSUME MotionIInv, [MotionNext]_motionVars PROVE MotionIInv'
  OBVIOUS
<1>1. ASSUME NEW x \in Levels, Deliver(x) PROVE MotionIInv'
  BY <1>1, DeliverKeeps
<1>2. ASSUME NEW w \in Workers, Handler(w) PROVE MotionIInv'
  BY <1>2, HandlerKeeps
<1>3. CASE Leave
  BY <1>3 DEF Leave, MotionIInv, MotionTypeOK, KeptAlive, queueVars
<1>4. CASE TransitionEnds
  BY <1>4 DEF TransitionEnds, MotionIInv, MotionTypeOK, KeptAlive, queueVars
<1>5. CASE Free
  BY <1>5 DEF Free, TimerHoldsScene, MotionIInv, MotionTypeOK, KeptAlive, queueVars
<1>6. CASE UNCHANGED motionVars
  BY <1>6 DEF motionVars, queueVars, MotionIInv, MotionTypeOK, KeptAlive
<1>7. QED
  BY <1>1, <1>2, <1>3, <1>4, <1>5, <1>6 DEF MotionNext, MotionDone

LEMMA MotionInvariant == MotionSpec => []MotionIInv
<1>1. QED
  BY MotionInitHolds, MotionStepHolds, PTL DEF MotionSpec

(* Type correctness, for any number of threads and samples.                *)
THEOREM MotionTypeCorrect == MotionSpec => []MotionTypeOK
<1>1. MotionIInv => MotionTypeOK
  BY DEF MotionIInv
<1>2. QED
  BY <1>1, MotionInvariant, PTL

(* On a device with a gyroscope no handler ever unwraps nil, however many  *)
(* run at once and however late they are.                                  *)
THEOREM UnwrapIsSpared == MotionSpec => []TimerSparesTheUnwrap
<1>1. MotionIInv => TimerSparesTheUnwrap
  BY DEF MotionIInv, KeptAlive, TimerSparesTheUnwrap
<1>2. QED
  BY <1>1, MotionInvariant, PTL
-----------------------------------------------------------------------------
(* A handler on its way to presentScene carries a sample above 0.5, and    *)
(* the scene it has found is not freed.                                    *)
CarriesTilt ==
  \A w \in Workers : /\ pc[w] \in {"go", "present"} => sample[w] = "above"
                     /\ pc[w] = "present" => stage # "freed"

(* A handler that is running carries one of the samples started.           *)
HoldsStarted ==
  \A w \in Workers : pc[w] # "idle" => \E i \in 1..started : samples[i] = sample[w]

(* As long as the scene is on the screen and no sample was 0.5, a sample   *)
(* above is with a handler that has not stored it, and lastZ is below.     *)
TiltIsUnderWay ==
  stage = "attached" /\ (\A i \in 1..started : samples[i] # "at") =>
    /\ lastZ = "below"
    /\ \A w \in Workers : pc[w] = "store" => sample[w] = "below"
    /\ (\E i \in 1..started : samples[i] = "above") =>
         \E w \in Workers : pc[w] \in {"test", "go", "present"} /\ sample[w] = "above"

(* The handlers that have found the view and not presented: once the scene *)
(* has lost the view there will be no more of them.                        *)
Presenters == {w \in Workers : pc[w] = "present"}
LateIsPaid ==
  /\ stage \in {"attached", "leaving"} => lateMenus = 0
  /\ lateMenus + Cardinality(Presenters) <= Cardinality(Workers)

(* The handlers that can present a menu before a sample below 0.5 is       *)
(* stored: with lastZ below, every thread that is not about to store a     *)
(* sample above; with lastZ above, those that have tested it before.  A    *)
(* freed scene presents nothing.                                           *)
Poised ==
  {w \in Workers : /\ stage # "freed"
                   /\ IF lastZ = "below" THEN pc[w] # "store" \/ sample[w] # "above"
                                         ELSE pc[w] \in {"go", "present"}}
(* The handlers that still carry a sample below 0.5.                       *)
LowHolders == {w \in Workers : pc[w] # "idle" /\ sample[w] = "below"}
(* Each sample below 0.5 that is stored pays for a menu of each thread.    *)
Budget == Cardinality(Workers) * (1 + Lows - Cardinality(LowHolders))
MenusArePaid == menus + Cardinality(Poised) <= Budget

TiltIInv == MotionIInv /\ CarriesTilt /\ HoldsStarted /\ TiltIsUnderWay
MenuIInv == TiltIInv /\ LateIsPaid /\ MenusArePaid
-----------------------------------------------------------------------------
LEMMA TiltInitHolds == MotionInit => TiltIInv
<1> SUFFICES ASSUME MotionInit PROVE TiltIInv
  OBVIOUS
<1>1. started = 0 /\ 1..started = {} /\ \A w \in Workers : pc[w] = "idle"
  BY DEF MotionInit
<1>2. CarriesTilt /\ HoldsStarted
  BY <1>1 DEF CarriesTilt, HoldsStarted
<1>3. TiltIsUnderWay
  BY <1>1 DEF TiltIsUnderWay, MotionInit, LastZDefault
<1>4. QED
  BY <1>2, <1>3, MotionInitHolds DEF TiltIInv

(* Deliver leaves the samples that were started where they are.            *)
LEMMA DeliverAppends ==
  ASSUME MotionIInv, NEW x \in Levels, Deliver(x)
  PROVE  /\ started' = started /\ started \in Nat
         /\ \A i \in 1..started : samples'[i] = samples[i]
<1>1. samples \in Seq(Levels) /\ started \in 0..Len(samples) /\ Len(samples) \in Nat
  BY LenProperties DEF MotionIInv, MotionTypeOK
<1>2. \A i \in 1..Len(samples) : Append(samples, x)[i] = samples[i]
  BY <1>1, AppendProperties
<1>3. samples' = Append(samples, x) /\ started' = started
  BY DEF Deliver
<1>4. \A i \in 1..started : i \in 1..Len(samples)
  BY <1>1
<1>5. QED
  BY <1>1, <1>2, <1>3, <1>4

LEMMA DeliverKeepsTilt ==
  ASSUME TiltIInv, NEW x \in Levels, Deliver(x)
  PROVE  TiltIInv'
<1>1. MotionIInv
  BY DEF TiltIInv
<1>2. started' = started /\ \A i \in 1..started : samples'[i] = samples[i]
  BY <1>1, DeliverAppends
<1>3. CarriesTilt' /\ HoldsStarted'
  BY <1>2 DEF TiltIInv, CarriesTilt, HoldsStarted, Deliver
<1>4. TiltIsUnderWay'
  BY <1>2 DEF TiltIInv, TiltIsUnderWay, Deliver
<1>5. QED
  BY <1>1, <1>3, <1>4, DeliverKeeps DEF TiltIInv

LEMMA StartKeepsTilt ==
  ASSUME TiltIInv, NEW w \in Workers, Start(w)
  PROVE  TiltIInv'
<1>1. /\ MotionIInv /\ started \in Nat /\ started' = started + 1
      /\ samples' = samples /\ stage' = stage /\ lastZ' = lastZ
      /\ pc[w] = "idle" /\ pc' = [pc EXCEPT ![w] = "test"]
      /\ sample' = [sample EXCEPT ![w] = samples[started + 1]]
  BY DEF TiltIInv, MotionIInv, MotionTypeOK, Start
<1>2. /\ pc'[w] = "test" /\ sample'[w] = samples[started + 1]
      /\ \A v \in Workers \ {w} : pc'[v] = pc[v] /\ sample'[v] = sample[v]
  BY <1>1 DEF MotionIInv, MotionTypeOK
<1>3. 1..started' = 1..started \cup {started + 1}
  BY <1>1
<1>4. CarriesTilt'
  BY <1>1, <1>2 DEF TiltIInv, CarriesTilt
<1>5. HoldsStarted'
  BY <1>1, <1>2, <1>3 DEF TiltIInv, HoldsStarted
<1>6. TiltIsUnderWay'
  <2> SUFFICES ASSUME stage = "attached", \A i \in 1..started' : samples[i] # "at"
               PROVE  /\ lastZ = "below"
                      /\ \A v \in Workers : pc'[v] = "store" => sample'[v] = "below"
                      /\ (\E i \in 1..started' : samples[i] = "above") =>
                           \E v \in Workers : /\ pc'[v] \in {"test", "go", "present"}
                                             /\ sample'[v] = "above"
    BY <1>1 DEF TiltIsUnderWay
  <2>1. \A i \in 1..started : samples[i] # "at"
    BY <1>3
  <2>2. /\ lastZ = "below"
        /\ \A v \in Workers : pc'[v] = "store" => sample'[v] = "below"
    BY <1>1, <1>2, <2>1 DEF TiltIInv, TiltIsUnderWay
  <2>3. ASSUME NEW i \in 1..started', samples[i] = "above"
        PROVE  \E v \in Workers : /\ pc'[v] \in {"test", "go", "present"}
                                  /\ sample'[v] = "above"
    <3>1. CASE i = started + 1
      BY <1>2, <2>3, <3>1
    <3>2. CASE i \in 1..started
      <4>1. PICK v \in Workers : pc[v] \in {"test", "go", "present"} /\ sample[v] = "above"
        BY <2>1, <2>3, <3>2 DEF TiltIInv, TiltIsUnderWay
      <4>2. v # w
        BY <1>1, <4>1
      <4>3. QED
        BY <1>2, <4>1, <4>2
    <3>3. QED
      BY <1>3, <3>1, <3>2
  <2>4. QED
    BY <2>2, <2>3
<1>7. MotionIInv'
  BY <1>1, StartKeeps
<1>8. QED
  BY <1>4, <1>5, <1>6, <1>7 DEF TiltIInv

(* The statements of a handler: what each one does to the tilt.            *)
LEMMA HandlerKeepsTilt ==
  ASSUME TiltIInv, NEW w \in Workers, Handler(w)
  PROVE  TiltIInv'
<1>0. /\ MotionIInv /\ pc \in [Workers -> {"idle", "test", "go", "present", "store"}]
      /\ sample \in [Workers -> Levels]
  BY DEF TiltIInv, MotionIInv, MotionTypeOK
<1>1. CASE Start(w)
  BY <1>1, StartKeepsTilt
<1>2. ASSUME ~Start(w)
      PROVE  /\ samples' = samples /\ started' = started /\ sample' = sample
             /\ pc[w] # "idle" /\ \A v \in Workers \ {w} : pc'[v] = pc[v]
  BY <1>0, <1>2 DEF Handler, Test, FindView, PresentMenu, Store, queueVars
<1>3. ASSUME ~Start(w)
      PROVE  CarriesTilt' /\ HoldsStarted'
  <2>1. HoldsStarted'
    BY <1>2, <1>3 DEF TiltIInv, HoldsStarted
  <2>2. pc'[w] \in {"go", "present"} => sample[w] = "above"
    BY <1>0, <1>3 DEF Handler, Test, FindView, PresentMenu, Store, Crossed, TiltIInv, CarriesTilt
  <2>3. \A v \in Workers : pc'[v] = "present" => stage' # "freed"
    BY <1>0, <1>3 DEF Handler, Test, FindView, PresentMenu, Store, TiltIInv, CarriesTilt, queueVars
  <2>4. QED
    BY <1>2, <1>3, <2>1, <2>2, <2>3 DEF TiltIInv, CarriesTilt
<1>4. ASSUME ~Start(w), stage' = "attached", \A i \in 1..started : samples[i] # "at"
      PROVE  /\ stage = "attached" /\ lastZ' = "below"
             /\ \A v \in Workers : pc'[v] = "store" => sample[v] = "below"
             /\ \A v \in Workers : /\ pc[v] \in {"test", "go", "present"}
                                   /\ sample[v] = "above"
                                   => pc'[v] \in {"test", "go", "present"}
  <2>1. stage = "attached" /\ ~PresentMenu(w)
    BY <1>4 DEF Handler, Start, Test, FindView, PresentMenu, Store
  <2>2. /\ lastZ = "below"
        /\ \A v \in Workers : pc[v] = "store" => sample[v] = "below"
    BY <1>4, <2>1 DEF TiltIInv, TiltIsUnderWay
  <2>3. sample[w] \in {"below", "above"}
    BY <1>0, <1>2, <1>4 DEF TiltIInv, HoldsStarted, Levels
  <2>4. CASE Test(w)
    <3>1. pc' = [pc EXCEPT ![w] = IF sample[w] = "above" THEN "go" ELSE "store"]
      BY <2>1, <2>2, <2>4 DEF Test, Crossed
    <3>2. lastZ' = lastZ
      BY <2>4 DEF Test
    <3>3. QED
      BY <1>0, <2>1, <2>2, <2>3, <3>1, <3>2
  <2>5. CASE FindView(w)
    <3>1. pc' = [pc EXCEPT ![w] = "present"] /\ lastZ' = lastZ
      BY <2>1, <2>5 DEF FindView
    <3>2. QED
      BY <1>0, <2>1, <2>2, <3>1
  <2>6. CASE Store(w)
    <3>1. /\ pc[w] = "store" /\ pc' = [pc EXCEPT ![w] = "idle"]
          /\ lastZ' = sample[w]
      BY <2>1, <2>6 DEF Store
    <3>2. QED
      BY <1>0, <2>1, <2>2, <3>1
  <2>7. QED
    BY <1>4, <2>1, <2>4, <2>5, <2>6 DEF Handler
<1>5. ASSUME ~Start(w) PROVE TiltIsUnderWay'
  BY <1>2, <1>4, <1>5 DEF TiltIInv, TiltIsUnderWay
<1>6. MotionIInv'
  BY <1>0, HandlerKeeps
<1>7. QED
  BY <1>1, <1>3, <1>5, <1>6 DEF TiltIInv

LEMMA TiltStepHolds == TiltIInv /\ [MotionNext]_motionVars => TiltIInv'
<1> SUFFICES ASSUME TiltIInv, [MotionNext]_motionVars PROVE TiltIInv'
  OBVIOUS
<1>0. MotionIInv'
  BY MotionStepHolds DEF TiltIInv
<1>1. ASSUME NEW x \in Levels, Deliver(x) PROVE TiltIInv'
  BY <1>1, DeliverKeepsTilt
<1>2. ASSUME NEW w \in Workers, Handler(w) PROVE TiltIInv'
  BY <1>2, HandlerKeepsTilt
<1>3. ASSUME UNCHANGED <<queueVars, pc, sample, lastZ>>,
             stage' = "attached" => stage = "attached",
             stage' = "freed" => stage = "freed" \/ \A w \in Workers : pc[w] # "present"
      PROVE  TiltIInv'
  <2>1. CarriesTilt' /\ HoldsStarted'
    BY <1>3 DEF TiltIInv, CarriesTilt, HoldsStarted, queueVars
  <2>2. TiltIsUnderWay'
    BY <1>3 DEF TiltIInv, TiltIsUnderWay, queueVars
  <2>3. QED
    BY <1>0, <2>1, <2>2 DEF TiltIInv
<1>4. CASE Leave
  BY <1>3, <1>4 DEF Leave
<1>5. CASE TransitionEnds
  BY <1>3, <1>5 DEF TransitionEnds
<1>6. CASE Free
  BY <1>3, <1>6 DEF Free
<1>7. CASE UNCHANGED motionVars
  BY <1>3, <1>7 DEF motionVars
<1>8. QED
  BY <1>1, <1>2, <1>4, <1>5, <1>6, <1>7 DEF MotionNext, MotionDone

LEMMA TiltInvariant == MotionSpec => []TiltIInv
<1>1. QED
  BY TiltInitHolds, TiltStepHolds, PTL DEF MotionSpec

(* Unless a sample was exactly 0.5, a tilt is never lost, however the      *)
(* handlers of any number of samples overlap on any number of threads.     *)
THEOREM TiltIsNotLost == MotionSpec => []OnlyHalfLosesTheTilt
<1>1. TiltIInv => OnlyHalfLosesTheTilt
  BY DEF TiltIInv, TiltIsUnderWay, OnlyHalfLosesTheTilt
<1>2. QED
  BY <1>1, TiltInvariant, PTL
-----------------------------------------------------------------------------
(* Counting threads.                                                       *)
LEMMA ThreadsAreCounted ==
  ASSUME NEW S \in SUBSET Workers
  PROVE  /\ IsFiniteSet(S) /\ Cardinality(S) \in Nat
         /\ Cardinality(S) <= Cardinality(Workers) /\ Cardinality(Workers) \in Nat
BY MotionAssumption, FS_Subset, FS_CardinalityType

LEMMA FewerThreads ==
  ASSUME NEW T \in SUBSET Workers, NEW S \in SUBSET T
  PROVE  Cardinality(S) <= Cardinality(T)
BY ThreadsAreCounted, FS_Subset

LEMMA OneThreadLess ==
  ASSUME NEW T \in SUBSET Workers, NEW w \in T, NEW S \in SUBSET (T \ {w})
  PROVE  Cardinality(S) + 1 <= Cardinality(T)
<1>1. IsFiniteSet(T) /\ Cardinality(T) \in Nat /\ Cardinality(S) \in Nat
  BY ThreadsAreCounted
<1>2. IsFiniteSet(T \ {w}) /\ Cardinality(T \ {w}) = Cardinality(T) - 1
  BY <1>1, FS_RemoveElement
<1>3. Cardinality(S) <= Cardinality(T \ {w})
  BY <1>2, FS_Subset
<1>4. QED
  BY <1>1, <1>2, <1>3

(* The counts of the invariant are numbers.                                *)
LEMMA CountsAreNumbers ==
  ASSUME MotionIInv
  PROVE  /\ Cardinality(Presenters) \in Nat /\ Cardinality(Poised) \in Nat
         /\ Cardinality(LowHolders) \in Nat /\ Cardinality(Workers) \in Nat
         /\ Lows \in Nat /\ IsFiniteSet({i \in 1..started : samples[i] = "below"})
         /\ Budget \in Int /\ menus \in Nat /\ lateMenus \in Nat
<1>1. Presenters \in SUBSET Workers /\ Poised \in SUBSET Workers
  BY DEF Presenters, Poised
<1>2. LowHolders \in SUBSET Workers
  BY DEF LowHolders
<1>3. /\ Cardinality(Presenters) \in Nat /\ Cardinality(Poised) \in Nat
      /\ Cardinality(LowHolders) \in Nat /\ Cardinality(Workers) \in Nat
  BY <1>1, <1>2, ThreadsAreCounted
<1>4. Lows \in Nat /\ IsFiniteSet({i \in 1..started : samples[i] = "below"})
  <2>1. started \in Int
    BY DEF MotionIInv, MotionTypeOK
  <2>2. IsFiniteSet(1..started)
    BY <2>1, FS_Interval
  <2>3. {i \in 1..started : samples[i] = "below"} \in SUBSET (1..started)
    OBVIOUS
  <2>4. QED
    BY <2>2, <2>3, FS_Subset, FS_CardinalityType DEF Lows
<1>5. Budget \in Int
  BY <1>3, <1>4 DEF Budget
<1>6. QED
  BY <1>3, <1>4, <1>5 DEF MotionIInv, MotionTypeOK

LEMMA MenuInitHolds == MotionInit => MenuIInv
<1> SUFFICES ASSUME MotionInit PROVE MenuIInv
  OBVIOUS
<1>1. TiltIInv /\ MotionIInv
  BY TiltInitHolds DEF TiltIInv
<1>2. Presenters \in SUBSET Workers /\ Poised \in SUBSET Workers
  BY DEF Presenters, Poised
<1>3. /\ Cardinality(Presenters) <= Cardinality(Workers)
      /\ Cardinality(Poised) <= Cardinality(Workers)
  BY <1>2, ThreadsAreCounted
<1>4. LateIsPaid
  BY <1>1, <1>3, CountsAreNumbers DEF MotionInit, LateIsPaid
<1>5. LowHolders = {} /\ {i \in 1..started : samples[i] = "below"} = {}
  BY DEF MotionInit, LowHolders
<1>6. Cardinality(LowHolders) = 0 /\ Lows = 0
  BY <1>5, FS_EmptySet DEF Lows
<1>7. Budget = Cardinality(Workers)
  BY <1>1, <1>6, CountsAreNumbers DEF Budget
<1>8. MenusArePaid
  BY <1>1, <1>3, <1>7, CountsAreNumbers DEF MotionInit, MenusArePaid
<1>9. QED
  BY <1>1, <1>4, <1>8 DEF MenuIInv

(* Whoever presents late has found the view in time.                       *)
LEMMA LateStep ==
  ASSUME MenuIInv, MotionIInv', [MotionNext]_motionVars
  PROVE  LateIsPaid'
<1>0. /\ MotionIInv /\ LateIsPaid /\ CarriesTilt
      /\ pc \in [Workers -> {"idle", "test", "go", "present", "store"}]
      /\ stage \in {"attached", "leaving", "detached", "freed"}
  BY DEF MenuIInv, TiltIInv, MotionIInv, MotionTypeOK
<1>1. /\ Cardinality(Presenters) \in Nat /\ Cardinality(Presenters') \in Nat
      /\ Cardinality(Workers) \in Nat /\ lateMenus \in Nat /\ lateMenus' \in Nat
      /\ Presenters \in SUBSET Workers /\ Presenters' \in SUBSET Workers
  <2>1. Presenters \in SUBSET Workers /\ Presenters' \in SUBSET Workers
    BY DEF Presenters
  <2>2. lateMenus \in Nat /\ lateMenus' \in Nat
    BY <1>0 DEF MotionIInv, MotionTypeOK
  <2>3. QED
    BY <2>1, <2>2, ThreadsAreCounted
(* Steps that let nobody find the view.                                    *)
<1>2. ASSUME lateMenus' = lateMenus, Presenters' \in SUBSET Presenters,
             stage' \in {"attached", "leaving"} => stage \in {"attached", "leaving"}
      PROVE  LateIsPaid'
  <2>1. Cardinality(Presenters') <= Cardinality(Presenters)
    BY <1>1, <1>2, FewerThreads
  <2>2. QED
    BY <1>0, <1>1, <1>2, <2>1 DEF LateIsPaid
<1>3. ASSUME NEW x \in Levels, Deliver(x) PROVE LateIsPaid'
  BY <1>2, <1>3 DEF Deliver, Presenters
<1>4. ASSUME NEW w \in Workers, Handler(w) PROVE LateIsPaid'
  <2>1. CASE Start(w)
    <3>1. Presenters' \in SUBSET Presenters
      BY <1>0, <2>1 DEF Start, Presenters
    <3>2. QED
      BY <1>2, <2>1, <3>1 DEF Start
  <2>2. CASE Test(w)
    <3>1. Presenters' \in SUBSET Presenters
      BY <1>0, <2>2 DEF Test, Presenters
    <3>2. QED
      BY <1>2, <2>2, <3>1 DEF Test
  <2>3. CASE FindView(w) /\ stage \in {"attached", "leaving"}
    <3>1. Cardinality(Presenters') <= Cardinality(Workers)
      BY <1>1, ThreadsAreCounted
    <3>2. lateMenus' = 0
      BY <1>0, <2>3 DEF FindView, LateIsPaid
    <3>3. QED
      BY <1>1, <3>1, <3>2 DEF LateIsPaid
  <2>4. CASE FindView(w) /\ stage \notin {"attached", "leaving"}
    <3>1. Presenters' \in SUBSET Presenters
      BY <1>0, <2>4 DEF FindView, Presenters
    <3>2. QED
      BY <1>2, <2>4, <3>1 DEF FindView
  <2>5. CASE PresentMenu(w)
    <3>1. w \in Presenters /\ Presenters' \in SUBSET (Presenters \ {w})
      BY <1>0, <2>5 DEF PresentMenu, Presenters
    <3>2. Cardinality(Presenters') + 1 <= Cardinality(Presenters)
      BY <1>1, <3>1, OneThreadLess
    <3>3. /\ lateMenus' <= lateMenus + 1
          /\ stage' \in {"attached", "leaving"} => lateMenus' = 0
      BY <1>0, <1>1, <2>5 DEF PresentMenu, LateIsPaid
    <3>4. QED
      BY <1>0, <1>1, <3>2, <3>3 DEF LateIsPaid
  <2>6. CASE Store(w)
    <3>1. Presenters' \in SUBSET Presenters
      BY <1>0, <2>6 DEF Store, Presenters
    <3>2. QED
      BY <1>2, <2>6, <3>1 DEF Store
  <2>7. QED
    BY <1>4, <2>1, <2>2, <2>3, <2>4, <2>5, <2>6 DEF Handler
<1>5. CASE Leave
  BY <1>2, <1>5 DEF Leave, Presenters
<1>6. CASE TransitionEnds
  BY <1>2, <1>6 DEF TransitionEnds, Presenters
<1>7. CASE Free
  BY <1>2, <1>7 DEF Free, Presenters
<1>8. CASE UNCHANGED motionVars
  BY <1>2, <1>8 DEF motionVars, Presenters
<1>9. QED
  BY <1>3, <1>4, <1>5, <1>6, <1>7, <1>8 DEF MotionNext, MotionDone

(* What a step does to the samples below 0.5 that are not stored yet.      *)
LEMMA StartKeepsBudget ==
  ASSUME MotionIInv, NEW w \in Workers, Start(w)
  PROVE  Budget' = Budget
<1> DEFINE low == {i \in 1..started : samples[i] = "below"}
<1>1. /\ started \in Nat /\ started' = started + 1 /\ samples' = samples
      /\ pc[w] = "idle" /\ pc' = [pc EXCEPT ![w] = "test"]
      /\ sample' = [sample EXCEPT ![w] = samples[started + 1]]
  BY DEF MotionIInv, MotionTypeOK, Start
<1>2. /\ pc'[w] = "test" /\ sample'[w] = samples[started + 1]
      /\ \A v \in Workers \ {w} : pc'[v] = pc[v] /\ sample'[v] = sample[v]
  BY <1>1 DEF MotionIInv, MotionTypeOK
<1>3. /\ 1..started' = 1..started \cup {started + 1} /\ started + 1 \notin 1..started
      /\ w \notin LowHolders
  BY <1>1 DEF LowHolders
<1>4. IsFiniteSet(low) /\ IsFiniteSet(LowHolders)
  BY CountsAreNumbers, ThreadsAreCounted DEF LowHolders
<1>5. CASE samples[started + 1] = "below"
  <2>1. low' = low \cup {started + 1} /\ LowHolders' = LowHolders \cup {w}
    BY <1>1, <1>2, <1>3, <1>5 DEF LowHolders
  <2>2. /\ Cardinality(low') = Cardinality(low) + 1
        /\ Cardinality(LowHolders') = Cardinality(LowHolders) + 1
    BY <1>3, <1>4, <2>1, FS_AddElement
  <2>3. Lows' = Lows + 1
    BY <2>2 DEF Lows
  <2>4. QED
    BY <2>2, <2>3, CountsAreNumbers DEF Budget
<1>6. CASE samples[started + 1] # "below"
  <2>1. low' = low /\ LowHolders' = LowHolders
    BY <1>1, <1>2, <1>3, <1>6 DEF LowHolders
  <2>2. QED
    BY <2>1 DEF Budget, Lows
<1>7. QED
  BY <1>5, <1>6

LEMMA StoreRaisesBudget ==
  ASSUME MotionIInv, NEW w \in Workers, Store(w)
  PROVE  IF sample[w] = "below" THEN Budget' = Budget + Cardinality(Workers)
                                ELSE Budget' = Budget
<1>1. /\ pc[w] = "store" /\ pc' = [pc EXCEPT ![w] = "idle"] /\ sample' = sample
      /\ samples' = samples /\ started' = started
      /\ pc \in [Workers -> {"idle", "test", "go", "present", "store"}]
  BY DEF MotionIInv, MotionTypeOK, Store, queueVars
<1>2. Lows' = Lows
  BY <1>1 DEF Lows
<1>3. LowHolders' = LowHolders \ {w}
  BY <1>1 DEF LowHolders
<1>4. CASE sample[w] = "below"
  <2>1. w \in LowHolders /\ IsFiniteSet(LowHolders)
    BY <1>1, <1>4, ThreadsAreCounted DEF LowHolders
  <2>2. Cardinality(LowHolders') = Cardinality(LowHolders) - 1
    BY <1>3, <2>1, FS_RemoveElement
  <2>3. QED
    BY <1>2, <1>4, <2>2, CountsAreNumbers DEF Budget
<1>5. CASE sample[w] # "below"
  <2>1. LowHolders' = LowHolders
    BY <1>3, <1>5 DEF LowHolders
  <2>2. QED
    BY <1>2, <1>5, <2>1 DEF Budget
<1>6. QED
  BY <1>4, <1>5

LEMMA BudgetStays ==
  ASSUME UNCHANGED <<samples, started, sample>>,
         \A w \in Workers : pc'[w] = "idle" <=> pc[w] = "idle"
  PROVE  Budget' = Budget
<1>1. Lows' = Lows /\ LowHolders' = LowHolders
  BY DEF Lows, LowHolders
<1>2. QED
  BY <1>1 DEF Budget

(* A menu is presented by a thread that was poised; only a sample below    *)
(* 0.5 that is stored lets more threads be poised, and it pays for all.    *)
LEMMA MenuStep ==
  ASSUME MenuIInv, MotionIInv', [MotionNext]_motionVars
  PROVE  MenusArePaid'
<1>0. /\ MotionIInv /\ CarriesTilt /\ MenusArePaid
      /\ pc \in [Workers -> {"idle", "test", "go", "present", "store"}]
      /\ sample \in [Workers -> Levels]
      /\ stage \in {"attached", "leaving", "detached", "freed"}
  BY DEF MenuIInv, TiltIInv, MotionIInv, MotionTypeOK
<1>1. /\ Cardinality(Poised) \in Nat /\ Cardinality(Poised') \in Nat
      /\ Cardinality(Workers) \in Nat /\ Budget \in Int /\ menus \in Nat
      /\ Poised \in SUBSET Workers /\ Poised' \in SUBSET Workers
  <2>1. Poised \in SUBSET Workers /\ Poised' \in SUBSET Workers
    BY DEF Poised
  <2>2. QED
    BY <1>0, <2>1, CountsAreNumbers, ThreadsAreCounted
<1>2. ASSUME menus' = menus, Budget' = Budget, Poised' \in SUBSET Poised
      PROVE  MenusArePaid'
  <2>1. Cardinality(Poised') <= Cardinality(Poised)
    BY <1>1, <1>2, FewerThreads
  <2>2. QED
    BY <1>0, <1>1, <1>2, <2>1 DEF MenusArePaid
<1>3. ASSUME NEW x \in Levels, Deliver(x) PROVE MenusArePaid'
  <2>1. started' = started /\ \A i \in 1..started : samples'[i] = samples[i]
    BY <1>0, <1>3, DeliverAppends
  <2>2. Lows' = Lows
    BY <2>1 DEF Lows
  <2>3. LowHolders' = LowHolders /\ Poised' = Poised
    BY <1>3 DEF Deliver, LowHolders, Poised
  <2>4. QED
    BY <1>2, <1>3, <2>2, <2>3 DEF Deliver, Budget
<1>4. ASSUME NEW w \in Workers, Start(w) PROVE MenusArePaid'
  <2>1. Poised' \in SUBSET Poised
    BY <1>0, <1>4 DEF Start, Poised
  <2>2. QED
    BY <1>0, <1>2, <1>4, <2>1, StartKeepsBudget DEF Start
<1>5. ASSUME NEW w \in Workers, Test(w) PROVE MenusArePaid'
  <2>1. Poised' \in SUBSET Poised
    <3>1. CASE stage = "freed"
      BY <1>5, <3>1 DEF Test, Poised
    <3>2. CASE stage # "freed"
      BY <1>0, <1>5, <3>2 DEF Test, Crossed, Poised
    <3>3. QED
      BY <3>1, <3>2
  <2>2. Budget' = Budget
    BY <1>0, <1>5, BudgetStays DEF Test, queueVars
  <2>3. QED
    BY <1>2, <1>5, <2>1, <2>2 DEF Test
<1>6. ASSUME NEW w \in Workers, FindView(w) PROVE MenusArePaid'
  <2>1. Poised' \in SUBSET Poised
    BY <1>0, <1>6 DEF FindView, Poised
  <2>2. Budget' = Budget
    BY <1>0, <1>6, BudgetStays DEF FindView, queueVars
  <2>3. QED
    BY <1>2, <1>6, <2>1, <2>2 DEF FindView
<1>7. ASSUME NEW w \in Workers, PresentMenu(w) PROVE MenusArePaid'
  <2>1. pc[w] = "present" /\ sample[w] = "above" /\ stage # "freed"
    BY <1>0, <1>7 DEF PresentMenu, CarriesTilt
  <2>2. w \in Poised /\ Poised' \in SUBSET (Poised \ {w})
    BY <1>0, <1>7, <2>1 DEF PresentMenu, Poised
  <2>3. Cardinality(Poised') + 1 <= Cardinality(Poised)
    BY <1>1, <2>2, OneThreadLess
  <2>4. Budget' = Budget
    BY <1>0, <1>7, BudgetStays DEF PresentMenu, queueVars
  <2>5. menus' = menus + 1
    BY <1>7 DEF PresentMenu
  <2>6. QED
    BY <1>0, <1>1, <2>3, <2>4, <2>5 DEF MenusArePaid
<1>8. ASSUME NEW w \in Workers, Store(w) PROVE MenusArePaid'
  <2>1. menus' = menus
    BY <1>8 DEF Store
  <2>2. CASE sample[w] = "below"
    <3>1. Budget' = Budget + Cardinality(Workers)
      BY <1>0, <1>8, <2>2, StoreRaisesBudget
    <3>2. Cardinality(Poised') <= Cardinality(Workers)
      BY <1>1, ThreadsAreCounted
    <3>3. QED
      BY <1>0, <1>1, <2>1, <3>1, <3>2 DEF MenusArePaid
  <2>3. CASE sample[w] # "below"
    <3>1. Budget' = Budget
      BY <1>0, <1>8, <2>3, StoreRaisesBudget
    <3>2. Poised' \in SUBSET Poised
      BY <1>0, <1>8, <2>3 DEF Store, Poised
    <3>3. QED
      BY <1>2, <2>1, <3>1, <3>2
  <2>4. QED
    BY <2>2, <2>3
<1>9. ASSUME UNCHANGED <<queueVars, pc, sample, lastZ, menus>>,
             stage' # "freed" => stage # "freed"
      PROVE  MenusArePaid'
  <2>1. Poised' \in SUBSET Poised
    BY <1>9 DEF Poised
  <2>2. Budget' = Budget
    BY <1>9, BudgetStays DEF queueVars
  <2>3. QED
    BY <1>2, <1>9, <2>1, <2>2
<1>10. CASE Leave \/ TransitionEnds \/ Free
  BY <1>9, <1>10 DEF Leave, TransitionEnds, Free
<1>11. CASE UNCHANGED motionVars
  BY <1>9, <1>11 DEF motionVars
<1>12. QED
  BY <1>3, <1>4, <1>5, <1>6, <1>7, <1>8, <1>10, <1>11 DEF MotionNext, MotionDone, Handler

LEMMA MenuInvariant == MotionSpec => []MenuIInv
<1>1. MenuIInv /\ [MotionNext]_motionVars => MenuIInv'
  <2> SUFFICES ASSUME MenuIInv, [MotionNext]_motionVars PROVE MenuIInv'
    OBVIOUS
  <2>1. TiltIInv' /\ MotionIInv'
    BY TiltStepHolds DEF MenuIInv, TiltIInv
  <2>2. QED
    BY <2>1, LateStep, MenuStep DEF MenuIInv
<1>2. QED
  BY <1>1, MenuInitHolds, PTL DEF MotionSpec

(* A tilt presents at most one menu for each thread and each time the      *)
(* device came back below 0.5, and at most one for each thread over the    *)
(* scene that came after the game, for any number of threads and samples.  *)
THEOREM MenusStayBounded == MotionSpec => []MenusAreBounded
<1>1. ASSUME MenuIInv PROVE MenusAreBounded
  <2>0. MotionIInv /\ LateIsPaid /\ MenusArePaid
    BY <1>1 DEF MenuIInv, TiltIInv
  <2>1. lateMenus <= Cardinality(Workers)
    BY <2>0, CountsAreNumbers DEF LateIsPaid
  <2> DEFINE n == Cardinality(Workers)
             h == Cardinality(LowHolders)
  <2>2. n \in Nat /\ h \in Nat /\ Lows \in Nat
    BY <2>0, CountsAreNumbers
  <2>3. menus <= n * (1 + Lows - h)
    BY <2>0, CountsAreNumbers DEF MenusArePaid, Budget
  <2>4. menus \in Nat
    BY <2>0, CountsAreNumbers
  <2> HIDE DEF n, h
  <2>5. n * h \in Nat /\ n * (1 + Lows) = n * (1 + Lows - h) + n * h
    BY <2>2
  <2>6. menus <= n * (1 + Lows)
    BY <2>2, <2>3, <2>4, <2>5
  <2>7. QED
    BY <2>1, <2>6 DEF MenusAreBounded, n
<1>2. MenuIInv => MenusAreBounded
  BY <1>1
<1>3. QED
  BY <1>2, MenuInvariant, PTL
=============================================================================
