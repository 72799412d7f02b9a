--------------------------- MODULE SceneFlowProofs --------------------------
(***************************************************************************)
(* Proofs about the scenes of the application, for any number of scenes.   *)
(***************************************************************************)
EXTENDS SceneFlow, SequenceTheorems, FiniteSetTheorems, TLAPS

(* What a scene may be when it is presented: whatever it refers to exists  *)
(* already, and a returnScene is a menu.                                   *)
SceneRecord == [kind : Kinds, returnScene : Nat, presenter : Nat, shows : SUBSET Nat]
Menus == {s \in Ids : Kind(s) = "menu"}

(* A chain of returnScenes has one link: it leads from a game or from the  *)
(* options to a menu, and a menu returns to nothing.  Without this a chain *)
(* of scenes of any length could be held by one timer.                     *)
ReturnsEndAtMenus ==
  \A s \in Ids :
    /\ scenes[s].returnScene \in {NoScene} \cup Menus
    /\ Kind(s) \in {"menu", "leaderboard"} => scenes[s].returnScene = NoScene

(* A closure is the last one of its game or comes before it, so no closure *)
(* is pending in a game that is ranked, and a game that has presented a    *)
(* leaderboard is ranked.                                                  *)
RankedWhenSolved ==
  /\ pending \cap ranked = {}
  /\ \A s \in Ids : Kind(s) = "leaderboard" /\ scenes[s].presenter \in Games
                      => scenes[s].presenter \in ranked

(* BackIsOvertakenOnlyBySolving as it holds during the transition, too.    *)
BackLeadsToMenu ==
  asked => \/ Kind(current) = "menu"
           \/ Kind(current) = "leaderboard" /\ scenes[current].presenter \in ranked

FlowIInv ==
  /\ FlowTypeOK /\ scenes \in Seq(SceneRecord)
  /\ ReturnsEndAtMenus /\ RankedWhenSolved
  /\ LeaderboardShowsItsGame /\ BackLeadsToMenu
-----------------------------------------------------------------------------
(* What presentScene does to the scenes: a new one, the old ones untouched.*)
LEMMA PresentEffect ==
  ASSUME scenes \in Seq(SceneRecord), NEW scene \in SceneRecord, Present(scene)
  PROVE  /\ scenes' \in Seq(SceneRecord) /\ Len(scenes') = Len(scenes) + 1
         /\ Ids' = Ids \cup {Len(scenes) + 1} /\ Len(scenes) \in Nat
         /\ \A s \in Ids : scenes'[s] = scenes[s]
         /\ scenes'[Len(scenes) + 1] = scene
<1>1. scenes' = Append(scenes, scene)
  BY DEF Present
<1>2. Len(scenes) \in Nat
  BY LenProperties
<1>3. scenes' \in Seq(SceneRecord)
  BY <1>1, AppendProperties
<1>4. Len(scenes') = Len(scenes) + 1
  BY <1>1, AppendProperties
<1>5. /\ \A s \in 1..Len(scenes) : scenes'[s] = scenes[s]
      /\ scenes'[Len(scenes) + 1] = scene
  BY <1>1, AppendProperties
<1>6. Ids' = Ids \cup {Len(scenes) + 1}
  BY <1>2, <1>4 DEF Ids
<1>7. QED
  BY <1>2, <1>3, <1>4, <1>5, <1>6 DEF Ids

(* The bound leaves room for a scene that is presented now, beside those   *)
(* that the handlers of the accelerometer will present.                    *)
Reserved ==
  tilting' \in SUBSET tilting /\ Len(scenes) + 1 + Cardinality(tilting') <= MaxScenes

LEMMA TiltingIsFinite ==
  ASSUME FlowTypeOK
  PROVE  IsFiniteSet(tilting) /\ Cardinality(tilting) \in Nat
<1>1. tilting \in SUBSET (1..Len(scenes)) /\ Len(scenes) \in Int
  BY DEF FlowTypeOK, Games, Ids
<1>2. IsFiniteSet(1..Len(scenes))
  BY <1>1, FS_Interval
<1>3. QED
  BY <1>1, <1>2, FS_Subset, FS_CardinalityType

LEMMA RoomIsReserved ==
  ASSUME FlowTypeOK, Room, tilting' = tilting
  PROVE  Reserved
<1>1. Len(scenes) \in Nat /\ Cardinality(tilting) \in Nat /\ MaxScenes \in Nat
  BY TiltingIsFinite, FlowAssumption DEF FlowTypeOK
<1>2. Len(scenes) + Cardinality(tilting) < MaxScenes
  BY DEF Room
<1>3. Len(scenes) + 1 + Cardinality(tilting) <= MaxScenes
  BY <1>1, <1>2
<1>4. QED
  BY <1>3 DEF Reserved

LEMMA TiltIsReserved ==
  ASSUME FlowTypeOK, NEW s \in tilting, tilting' = tilting \ {s}
  PROVE  Reserved
<1>1. Len(scenes) \in Nat /\ Cardinality(tilting) \in Nat /\ MaxScenes \in Nat
  BY TiltingIsFinite, FlowAssumption DEF FlowTypeOK
<1>2. Cardinality(tilting \ {s}) = Cardinality(tilting) - 1
  BY TiltingIsFinite, FS_RemoveElement
<1>3. Len(scenes) + Cardinality(tilting) <= MaxScenes
  BY DEF FlowTypeOK
<1>4. Len(scenes) + 1 + Cardinality(tilting \ {s}) <= MaxScenes
  BY <1>1, <1>2, <1>3
<1>5. QED
  BY <1>4 DEF Reserved

(* What each way to a new scene has to respect for the invariant to hold   *)
(* of the new scene, too.                                                  *)
Fits(scene) ==
  /\ scene.kind \in Kinds
  /\ scene.returnScene \in {NoScene} \cup Menus
  /\ scene.kind \in {"menu", "leaderboard"} => scene.returnScene = NoScene
  /\ scene.presenter \in Ids /\ scene.shows \in SUBSET Ids
  /\ scene = Scene(scene.kind, scene.returnScene, scene.presenter, scene.shows)

LEMMA FittingIsRecord ==
  ASSUME FlowTypeOK, NEW scene, Fits(scene)
  PROVE  scene \in SceneRecord
<1>1. Ids \subseteq Nat /\ 0 \in Nat
  BY DEF Ids, FlowTypeOK
<1>2. /\ scene.kind \in Kinds /\ scene.returnScene \in Nat
      /\ scene.presenter \in Nat /\ scene.shows \in SUBSET Nat
  <2>1. scene.kind \in Kinds /\ scene.presenter \in Ids /\ scene.shows \in SUBSET Ids
    BY DEF Fits
  <2>2. scene.returnScene \in {0} \cup Ids
    BY DEF Fits, Menus, NoScene
  <2>3. scene.returnScene \in Nat
    BY <1>1, <2>2, Zenon
  <2>4. scene.presenter \in Nat
    BY <1>1, <2>1, Zenon
  <2>5. scene.shows \in SUBSET Nat
    BY <1>1, <2>1, Zenon
  <2>6. QED
    BY <2>1, <2>3, <2>4, <2>5
<1>3. scene = Scene(scene.kind, scene.returnScene, scene.presenter, scene.shows)
  BY DEF Fits
<1>4. QED
  BY <1>2, <1>3 DEF Scene, SceneRecord

(* presentScene keeps the types, whatever else the handler does to the     *)
(* closures and to the ranking.                                            *)
LEMMA PresentKeepsTypes ==
  ASSUME FlowIInv, NEW scene, Fits(scene), Present(scene),
         Reserved, pending' \in SUBSET pending, ranked' \in SUBSET Games,
         asked' \in BOOLEAN, UNCHANGED <<isGyroAvailable, trapped>>
  PROVE  FlowTypeOK' /\ Games \subseteq Games'
<1> DEFINE n == Len(scenes) + 1
<1>0. FlowTypeOK /\ scenes \in Seq(SceneRecord)
  BY DEF FlowIInv
<1>1. scene \in SceneRecord
  BY <1>0, FittingIsRecord
<1>2. /\ scenes' \in Seq(SceneRecord) /\ Len(scenes') = n
      /\ Ids' = Ids \cup {n} /\ Len(scenes) \in Nat
      /\ \A s \in Ids : scenes'[s] = scenes[s]
      /\ scenes'[n] = scene
  BY <1>0, <1>1, PresentEffect
<1>3. Len(scenes') \in 1..MaxScenes /\ Len(scenes') + Cardinality(tilting') <= MaxScenes
  <2>1. IsFiniteSet(tilting') /\ Cardinality(tilting') \in Nat
    BY <1>0, TiltingIsFinite, FS_Subset, FS_CardinalityType DEF Reserved
  <2>2. QED
    BY <1>2, <2>1, FlowAssumption DEF Reserved
<1>4. Ids = 1..(n - 1) /\ n \notin Ids
  BY <1>2 DEF Ids
<1>5. \A s \in Ids' : scenes'[s] \in
        [kind : Kinds, returnScene : 0..(s - 1), presenter : 0..(s - 1),
         shows : SUBSET (1..(s - 1))]
  <2>1. \A s \in Ids : scenes'[s] \in
          [kind : Kinds, returnScene : 0..(s - 1), presenter : 0..(s - 1),
           shows : SUBSET (1..(s - 1))]
    BY <1>0, <1>2 DEF FlowTypeOK
  <2>2. /\ scene.kind \in Kinds /\ scene.returnScene \in 0..(n - 1)
        /\ scene.presenter \in 0..(n - 1) /\ scene.shows \in SUBSET (1..(n - 1))
    BY <1>2, <1>4 DEF Fits, Menus, NoScene
  <2>3. scene \in [kind : Kinds, returnScene : 0..(n - 1),
                   presenter : 0..(n - 1), shows : SUBSET (1..(n - 1))]
    BY <2>2 DEF Fits, Scene
  <2>4. QED
    BY <1>2, <2>1, <2>3
<1>6. Games' = Games \cup (IF scene.kind = "play" THEN {n} ELSE {})
  BY <1>2, <1>4 DEF Games, Kind
<1>7. Menus' = Menus \cup (IF scene.kind = "menu" THEN {n} ELSE {})
  BY <1>2, <1>4 DEF Menus, Kind
<1>8. current' \in Ids' /\ leaving' \in SUBSET (Ids' \ {current'})
  <2>1. current' = n /\ leaving' = leaving \cup {current}
    BY DEF Present
  <2>2. current \in Ids /\ leaving \in SUBSET Ids
    BY <1>0 DEF FlowTypeOK
  <2>3. QED
    BY <1>2, <1>4, <2>1, <2>2
<1>9. timers' \in SUBSET Games'
  <2>1. timers \in SUBSET Games
    BY <1>0 DEF FlowTypeOK
  <2>2. timers' = timers \/ (timers' = timers \cup {n} /\ scene.kind = "play")
    BY DEF Present, StartsGyros
  <2>3. QED
    BY <1>6, <2>1, <2>2
<1>10. playing' \in SUBSET Menus'
  <2>1. playing \in SUBSET Menus
    BY <1>0 DEF FlowTypeOK, Menus
  <2>2. playing' = playing \/ (playing' = playing \cup {n} /\ scene.kind = "menu")
    BY DEF Present
  <2>3. QED
    BY <1>7, <2>1, <2>2
<1>11. /\ pending' \in SUBSET Games' /\ ranked' \in SUBSET Games'
       /\ tilting' \in SUBSET Games'
  BY <1>0, <1>6 DEF FlowTypeOK, Reserved
<1>12. isGyroAvailable' \in BOOLEAN /\ trapped' \in BOOLEAN
  BY <1>0 DEF FlowTypeOK
<1>13. QED
  BY <1>3, <1>5, <1>6, <1>8, <1>9, <1>10, <1>11, <1>12 DEF FlowTypeOK, Menus

(* ... and the rest of the invariant, when a new leaderboard has read the  *)
(* ranking, and the scene that takes the screen after "back" is a menu or  *)
(* the leaderboard of a ranked game.                                       *)
LEMMA PresentKeeps ==
  ASSUME FlowIInv, NEW scene, Fits(scene), Present(scene),
         Reserved, pending' \in SUBSET pending, ranked' \in SUBSET Games,
         ranked \in SUBSET ranked', pending' \cap ranked' = {},
         asked' \in BOOLEAN, UNCHANGED <<isGyroAvailable, trapped>>,
         scene.kind = "leaderboard" => scene.shows = ranked',
         scene.kind = "leaderboard" /\ scene.presenter \in Games
           => scene.presenter \in ranked',
         asked' => \/ scene.kind = "menu"
                   \/ scene.kind = "leaderboard" /\ scene.presenter \in ranked'
  PROVE  FlowIInv'
<1> DEFINE n == Len(scenes) + 1
<1>0. FlowTypeOK /\ scenes \in Seq(SceneRecord)
  BY DEF FlowIInv
<1>1. scene \in SceneRecord
  BY <1>0, FittingIsRecord
<1>2. /\ scenes' \in Seq(SceneRecord) /\ Len(scenes') = n
      /\ Ids' = Ids \cup {n} /\ Len(scenes) \in Nat
      /\ \A s \in Ids : scenes'[s] = scenes[s]
      /\ scenes'[n] = scene
  BY <1>0, <1>1, PresentEffect
<1>3. n \notin Ids /\ current' = n
  BY <1>2 DEF Ids, Present
<1>4. Games' = Games \cup (IF scene.kind = "play" THEN {n} ELSE {})
  BY <1>2, <1>3 DEF Games, Kind
<1>5. Menus' = Menus \cup (IF scene.kind = "menu" THEN {n} ELSE {})
  BY <1>2, <1>3 DEF Menus, Kind
<1>6. \A s \in Ids : scenes[s].presenter # n
  <2>1. \A s \in Ids : scenes[s].presenter \in 0..(s - 1) /\ s < n
    BY <1>0, <1>2 DEF FlowTypeOK, Ids
  <2>2. QED
    BY <1>2, <2>1 DEF Ids
<1>7. scene.presenter # n
  BY <1>3 DEF Fits
<1>8. FlowTypeOK'
  BY PresentKeepsTypes
<1>9. ReturnsEndAtMenus'
  BY <1>2, <1>5 DEF FlowIInv, ReturnsEndAtMenus, Kind, Fits
<1>10. RankedWhenSolved'
  BY <1>2, <1>4, <1>6, <1>7 DEF FlowIInv, RankedWhenSolved, Kind
<1>11. LeaderboardShowsItsGame'
  <2>1. \A s \in Ids' :
          Kind(s)' = "leaderboard" /\ scenes'[s].presenter \in Games'
            => scenes'[s].presenter \in scenes'[s].shows
    BY <1>2, <1>4, <1>6, <1>7 DEF FlowIInv, LeaderboardShowsItsGame, Kind
  <2>2. Kind(current)' = "leaderboard" => ranked' \ scenes'[current'].shows = {}
    BY <1>2, <1>3 DEF Kind
  <2>3. QED
    BY <2>1, <2>2 DEF LeaderboardShowsItsGame
<1>12. BackLeadsToMenu'
  BY <1>2, <1>3 DEF BackLeadsToMenu, Kind
<1>13. QED
  BY <1>2, <1>8, <1>9, <1>10, <1>11, <1>12 DEF FlowIInv
-----------------------------------------------------------------------------
LEMMA FlowInitHolds == FlowInit => FlowIInv
<1> SUFFICES ASSUME FlowInit PROVE FlowIInv
  OBVIOUS
<1> DEFINE first == Menu(NoScene)
<1>1. scenes = <<first>> /\ current = 1 /\ Len(scenes) = 1 /\ scenes[1] = first
  BY DEF FlowInit
<1>2. /\ first \in SceneRecord /\ first.kind = "menu" /\ first.returnScene = 0
      /\ first.presenter = 0 /\ first.shows = {}
  BY DEF Menu, Scene, SceneRecord, NoScene, Kinds
<1> HIDE DEF first
<1>3. scenes \in Seq(SceneRecord)
  BY <1>1, <1>2
<1>4. Ids = {1} /\ Kind(1) = "menu" /\ Games = {} /\ Menus = {1}
  BY <1>1, <1>2 DEF Ids, Kind, Games, Menus
<1>5. FlowTypeOK
  <2>1. Len(scenes) \in 1..MaxScenes /\ Len(scenes) + Cardinality(tilting) <= MaxScenes
    BY <1>1, FlowAssumption, FS_EmptySet DEF FlowInit
  <2>2. \A s \in Ids : scenes[s] \in
          [kind : Kinds, returnScene : 0..(s - 1), presenter : 0..(s - 1),
           shows : SUBSET (1..(s - 1))]
    BY <1>1, <1>4 DEF first, Menu, Scene, NoScene, Kinds
  <2>3. current \in Ids /\ leaving \in SUBSET (Ids \ {current})
    BY <1>1, <1>4 DEF FlowInit
  <2>4. playing \in SUBSET Menus
    BY <1>4 DEF FlowInit
  <2>5. /\ timers \in SUBSET Games /\ pending \in SUBSET Games
        /\ ranked \in SUBSET Games /\ tilting \in SUBSET Games
    BY DEF FlowInit
  <2>6. isGyroAvailable \in BOOLEAN /\ asked \in BOOLEAN /\ trapped \in BOOLEAN
    BY DEF FlowInit
  <2>7. QED
    BY <2>1, <2>2, <2>3, <2>4, <2>5, <2>6 DEF FlowTypeOK, Menus
<1>6. ReturnsEndAtMenus /\ BackLeadsToMenu
  BY <1>1, <1>2, <1>4 DEF ReturnsEndAtMenus, BackLeadsToMenu, NoScene
<1>7. RankedWhenSolved /\ LeaderboardShowsItsGame
  BY <1>1, <1>4 DEF RankedWhenSolved, LeaderboardShowsItsGame, FlowInit
<1>8. QED
  BY <1>3, <1>5, <1>6, <1>7 DEF FlowIInv

(* The scenes that the handlers create fit: a menu from any scene, and a   *)
(* leaderboard from any scene with what the ranking holds.                 *)
LEMMA MenuFits ==
  ASSUME NEW s \in Ids
  PROVE  Fits(Menu(s)) /\ Menu(s).kind = "menu"
<1>1. QED
  BY DEF Fits, Menu, Scene, NoScene, Kinds

LEMMA LeaderboardFits ==
  ASSUME NEW s \in Ids, NEW ranking \in SUBSET Ids
  PROVE  /\ Fits(Leaderboard(s, ranking))
         /\ Leaderboard(s, ranking).kind = "leaderboard"
         /\ Leaderboard(s, ranking).presenter = s
         /\ Leaderboard(s, ranking).shows = ranking
<1>1. QED
  BY DEF Fits, Leaderboard, Scene, NoScene, Kinds

LEMMA MenuKidFits ==
  ASSUME NEW s \in Menus, NEW kind \in {"play", "options"}
  PROVE  Fits(Scene(kind, s, s, {})) /\ Scene(kind, s, s, {}).kind = kind
<1>1. QED
  BY DEF Fits, Menus, Scene, NoScene, Kinds

(* Facts of the invariant that every handler starts from.                  *)
LEMMA FlowFacts ==
  ASSUME FlowIInv
  PROVE  /\ FlowTypeOK
         /\ current \in Ids /\ Games \in SUBSET Ids /\ asked \in BOOLEAN
         /\ ranked \in SUBSET Games /\ pending \in SUBSET Games
         /\ pending \cap ranked = {}
<1>1. QED
  BY DEF FlowIInv, FlowTypeOK, RankedWhenSolved, Games

(* A new menu, whoever presents it: the other scenes, a game that is left  *)
(* by its button, or one that is tilted.                                   *)
LEMMA NewMenuKeeps ==
  ASSUME FlowIInv, NEW s \in Ids, Present(Menu(s)), Reserved, asked' \in BOOLEAN,
         UNCHANGED <<isGyroAvailable, pending, ranked, trapped>>
  PROVE  FlowIInv'
<1>1. PICK scene : scene = Menu(s)
  OBVIOUS
<1>2. Fits(scene) /\ scene.kind = "menu" /\ Present(scene)
  BY <1>1, MenuFits
<1>3. /\ pending' = pending /\ ranked' = ranked
      /\ UNCHANGED <<isGyroAvailable, trapped>>
  OBVIOUS
<1>4. QED
  BY <1>2, <1>3, FlowFacts, PresentKeeps

(* A new game or the options, from the menu.                               *)
LEMMA MenuKidKeeps ==
  ASSUME FlowIInv, NEW kind \in {"play", "options"}, NEW s \in Ids, Kind(s) = "menu",
         Present(Scene(kind, s, s, {})), Reserved, asked' = FALSE,
         UNCHANGED <<isGyroAvailable, pending, ranked, trapped>>
  PROVE  FlowIInv'
<1>1. PICK scene : scene = Scene(kind, s, s, {})
  OBVIOUS
<1>2. s \in Menus
  BY DEF Menus
<1>3. Fits(scene) /\ scene.kind = kind /\ Present(scene)
  BY <1>1, <1>2, MenuKidFits
<1>4. /\ pending' = pending /\ ranked' = ranked
      /\ UNCHANGED <<isGyroAvailable, trapped>>
  OBVIOUS
<1>5. QED
  BY <1>3, <1>4, FlowFacts, PresentKeeps

(* A new leaderboard, from the menu or from a game that is ranked.         *)
LEMMA NewLeaderboardKeeps ==
  ASSUME FlowIInv, NEW s \in Ids, Present(Leaderboard(s, ranked')), Reserved,
         asked' \in BOOLEAN, asked' => s \in ranked', s \in Games => s \in ranked',
         pending' \in SUBSET pending, ranked \in SUBSET ranked',
         ranked' \in SUBSET Games, pending' \cap ranked' = {},
         UNCHANGED <<isGyroAvailable, trapped>>
  PROVE  FlowIInv'
<1>1. PICK scene : scene = Leaderboard(s, ranked')
  OBVIOUS
<1>2. ranked' \in SUBSET Ids
  BY FlowFacts
<1>3. Fits(scene) /\ scene.kind = "leaderboard" /\ scene.presenter = s
  BY <1>1, <1>2, LeaderboardFits
<1>4. scene.shows = ranked' /\ Present(scene)
  BY <1>1, <1>2, LeaderboardFits
<1>5. QED
  BY <1>3, <1>4, PresentKeeps

(* A closure without a view to present on: the game may become ranked, but *)
(* has no leaderboard on which it would have to be.                        *)
LEMMA SettledUnseenKeeps ==
  ASSUME FlowIInv, NEW s \in pending, pending' = pending \ {s},
         ranked' = ranked \/ ranked' = ranked \cup {s},
         UNCHANGED <<isGyroAvailable, scenes, current, leaving, timers,
                     tilting, playing, asked, trapped>>
  PROVE  FlowIInv'
<1>1. /\ Ids' = Ids /\ Games' = Games /\ Menus' = Menus
      /\ \A i \in Ids : Kind(i)' = Kind(i)
  BY DEF Ids, Games, Menus, Kind
<1>2. /\ s \in Games /\ pending' \in SUBSET Games /\ ranked' \in SUBSET Games
      /\ pending' \cap ranked' = {} /\ ranked \in SUBSET ranked' /\ current \in Ids
  BY FlowFacts
<1>3. FlowTypeOK'
  BY <1>1, <1>2 DEF FlowIInv, FlowTypeOK, Ids, Kind
<1>4. ReturnsEndAtMenus'
  BY <1>1 DEF FlowIInv, ReturnsEndAtMenus
<1>5. RankedWhenSolved'
  BY <1>1, <1>2 DEF FlowIInv, RankedWhenSolved
<1>6. \A i \in Ids : Kind(i) = "leaderboard" => scenes[i].presenter # s
  BY <1>2, FlowFacts DEF FlowIInv, RankedWhenSolved
<1>7. LeaderboardShowsItsGame'
  BY <1>1, <1>2, <1>6 DEF FlowIInv, LeaderboardShowsItsGame
<1>8. BackLeadsToMenu'
  BY <1>1, <1>2 DEF FlowIInv, BackLeadsToMenu
<1>9. QED
  BY <1>3, <1>4, <1>5, <1>7, <1>8 DEF FlowIInv

(* Steps that present nothing and touch neither closures nor ranking.      *)
LEMMA QuietKeeps ==
  ASSUME FlowIInv, UNCHANGED <<isGyroAvailable, scenes, current, timers, ranked>>,
         leaving' \in SUBSET leaving, playing' \in SUBSET playing,
         pending' \in SUBSET Games, pending' \cap ranked = {},
         tilting' \in SUBSET Games, Len(scenes) + Cardinality(tilting') <= MaxScenes,
         asked' \in BOOLEAN, asked' => asked, trapped' \in BOOLEAN
  PROVE  FlowIInv'
<1>1. /\ Ids' = Ids /\ Games' = Games /\ Menus' = Menus
      /\ \A i \in Ids : Kind(i)' = Kind(i)
  BY DEF Ids, Games, Menus, Kind
<1>2. FlowTypeOK'
  BY <1>1 DEF FlowIInv, FlowTypeOK, Ids, Kind
<1>3. ReturnsEndAtMenus' /\ RankedWhenSolved'
  BY <1>1 DEF FlowIInv, ReturnsEndAtMenus, RankedWhenSolved
<1>4. LeaderboardShowsItsGame' /\ BackLeadsToMenu'
  BY <1>1, FlowFacts DEF FlowIInv, LeaderboardShowsItsGame, BackLeadsToMenu
<1>5. QED
  BY <1>2, <1>3, <1>4 DEF FlowIInv

LEMMA FlowStepHolds == FlowIInv /\ [FlowNext]_flowVars => FlowIInv'
<1> SUFFICES ASSUME FlowIInv, [FlowNext]_flowVars PROVE FlowIInv'
  OBVIOUS
<1>0. /\ FlowTypeOK
      /\ current \in Ids /\ Games \in SUBSET Ids /\ asked \in BOOLEAN
      /\ ranked \in SUBSET Games /\ pending \in SUBSET Games
      /\ pending \cap ranked = {} /\ trapped \in BOOLEAN
      /\ tilting \in SUBSET Games /\ Len(scenes) + Cardinality(tilting) <= MaxScenes
  BY FlowFacts DEF FlowIInv, FlowTypeOK
<1>1. ASSUME NEW s \in Ids, PlayGame(s) PROVE FlowIInv'
  BY <1>0, <1>1, RoomIsReserved, MenuKidKeeps DEF PlayGame, Touched
<1>2. ASSUME NEW s \in Ids, GoOptions(s) PROVE FlowIInv'
  BY <1>0, <1>2, RoomIsReserved, MenuKidKeeps DEF GoOptions, Touched
<1>3. ASSUME NEW s \in Ids, GoLeaderBoard(s) PROVE FlowIInv'
  <2>1. s \notin Games
    BY <1>3 DEF GoLeaderBoard, Touched, Games
  <2>2. ranked' = ranked /\ pending' = pending /\ asked' = FALSE
    BY <1>3 DEF GoLeaderBoard
  <2>3. /\ Present(Leaderboard(s, ranked')) /\ Reserved
        /\ UNCHANGED <<isGyroAvailable, trapped>>
    BY <1>0, <1>3, <2>2, RoomIsReserved DEF GoLeaderBoard
  <2>4. QED
    BY <1>0, <2>1, <2>2, <2>3, NewLeaderboardKeeps
<1>4. ASSUME NEW s \in Ids, Back(s) \/ BackFromGame(s) PROVE FlowIInv'
  <2>1. Present(Menu(s)) /\ Reserved /\ asked' \in BOOLEAN
    BY <1>0, <1>4, RoomIsReserved DEF Back, BackFromGame
  <2>2. QED
    BY <1>4, <2>1, NewMenuKeeps DEF Back, BackFromGame
<1>5. ASSUME NEW s \in Ids, TouchLabel(s) PROVE FlowIInv'
  BY <1>0, <1>5, QuietKeeps DEF TouchLabel
<1>6. ASSUME NEW s \in Ids, TouchPair(s) PROVE FlowIInv'
  <2>1. s \in Games
    BY <1>6 DEF TouchPair, Touched, Games
  <2>2. pending' \in SUBSET Games /\ pending' \cap ranked = {}
    BY <1>0, <1>6, <2>1 DEF TouchPair
  <2>3. QED
    BY <1>0, <1>6, <2>2, QuietKeeps DEF TouchPair
<1>7. ASSUME NEW s \in Ids, FindView(s) PROVE FlowIInv'
  <2>1. s \in Games /\ s \notin tilting /\ tilting' = tilting \cup {s} /\ Room
    BY <1>7 DEF FindView
  <2>2. Cardinality(tilting') = Cardinality(tilting) + 1 /\ Cardinality(tilting) \in Nat
    BY <1>0, <2>1, TiltingIsFinite, FS_AddElement
  <2>3. tilting' \in SUBSET Games /\ Len(scenes) + Cardinality(tilting') <= MaxScenes
    <3>1. Len(scenes) \in Nat /\ MaxScenes \in Nat
      BY <1>0, FlowAssumption DEF FlowTypeOK
    <3>2. QED
      BY <1>0, <2>1, <2>2, <3>1 DEF Room
  <2>4. QED
    BY <1>0, <1>7, <2>3, QuietKeeps DEF FindView
<1>8. ASSUME NEW s \in Ids, Tilt(s) PROVE FlowIInv'
  <2>1. Present(Menu(s)) /\ Reserved
    BY <1>0, <1>8, TiltIsReserved DEF Tilt
  <2>2. QED
    BY <1>0, <1>8, <2>1, NewMenuKeeps DEF Tilt
<1>9. ASSUME NEW s \in Ids, SettlePair(s) PROVE FlowIInv'
  BY <1>9, SettledUnseenKeeps DEF SettlePair
<1>10. ASSUME NEW s \in Ids, SettleLast(s) PROVE FlowIInv'
  <2>1. /\ s \in pending /\ s \in Games /\ pending' = pending \ {s}
        /\ ranked' = ranked \cup {s}
    BY <1>0, <1>10 DEF SettleLast
  <2>2. /\ pending' \in SUBSET pending /\ ranked' \in SUBSET Games
        /\ ranked \in SUBSET ranked' /\ pending' \cap ranked' = {} /\ s \in ranked'
    BY <1>0, <2>1
  <2>3. UNCHANGED <<isGyroAvailable, tilting, trapped, asked>>
    BY <1>10 DEF SettleLast
  <2>4. CASE HasView(s)
    <3>1. Present(Leaderboard(s, ranked')) /\ Reserved
      BY <1>0, <1>10, <2>3, <2>4, RoomIsReserved DEF SettleLast
    <3>2. QED
      BY <1>0, <2>2, <2>3, <3>1, NewLeaderboardKeeps
  <2>5. CASE ~HasView(s)
    <3>1. UNCHANGED <<scenes, current, leaving, timers, playing>>
      BY <1>10, <2>5 DEF SettleLast
    <3>2. QED
      BY <2>1, <2>3, <3>1, SettledUnseenKeeps
  <2>6. QED
    BY <2>4, <2>5
<1>11. ASSUME NEW s \in Ids, TrackEnds(s) PROVE FlowIInv'
  BY <1>0, <1>11, QuietKeeps DEF TrackEnds
<1>12. CASE TransitionEnds
  BY <1>0, <1>12, QuietKeeps DEF TransitionEnds
<1>13. CASE UNCHANGED flowVars
  BY <1>0, <1>13, QuietKeeps DEF flowVars
<1>14. QED
  BY <1>1, <1>2, <1>3, <1>4, <1>5, <1>6, <1>7, <1>8, <1>9, <1>10, <1>11,
     <1>12, <1>13 DEF FlowNext, FlowDone

LEMMA FlowInvariant == FlowSpec => []FlowIInv
<1>1. QED
  BY FlowInitHolds, FlowStepHolds, PTL DEF FlowSpec
-----------------------------------------------------------------------------
(* Type correctness: every reference between scenes leads to an older one. *)
THEOREM FlowTypeCorrect == FlowSpec => []FlowTypeOK
<1>1. FlowIInv => FlowTypeOK
  BY DEF FlowIInv
<1>2. QED
  BY <1>1, FlowInvariant, PTL

(* However closures, transitions and touches interleave, the leaderboard   *)
(* that GoLeaderBoard of a game presents shows the game it comes from.     *)
THEOREM LeaderboardIsCurrent == FlowSpec => []LeaderboardShowsItsGame
<1>1. FlowIInv => LeaderboardShowsItsGame
  BY DEF FlowIInv
<1>2. QED
  BY <1>1, FlowInvariant, PTL

(* Only the closure that solves the game can take the screen from a player *)
(* who has touched "back".                                                 *)
THEOREM BackIsOvertakenOnce == FlowSpec => []BackIsOvertakenOnlyBySolving
<1>1. FlowIInv => BackIsOvertakenOnlyBySolving
  BY DEF FlowIInv, BackLeadsToMenu, BackIsOvertakenOnlyBySolving
<1>2. QED
  BY <1>1, FlowInvariant, PTL
-----------------------------------------------------------------------------
(* The image of a finite set under a function is no larger.                *)
LEMMA ImageIsNoLarger ==
  ASSUME NEW S, IsFiniteSet(S), NEW f, f \in [S -> {f[x] : x \in S}]
  PROVE  /\ IsFiniteSet({f[x] : x \in S})
         /\ Cardinality({f[x] : x \in S}) <= Cardinality(S)
<1>1. f \in Surjection(S, {f[x] : x \in S})
  BY DEF Surjection
<1>2. QED
  BY <1>1, FS_Surjection

(* When nothing is under way, the scene on the screen and the games with a *)
(* timer hold the rest, and they hold it through a single returnScene.     *)
LEMMA AliveThroughOneLink ==
  ASSUME FlowIInv, leaving = {}, pending = {}, tilting = {}
  PROVE  Alive \subseteq Roots \cup ReturnScenes(Roots)
<1> DEFINE K == ReturnScenes(Roots) \ Roots
<1>1. Roots = {current} \cup timers /\ Roots \in SUBSET Ids
  BY DEF Roots, FlowIInv, FlowTypeOK, Games
<1>2. \A s \in Ids : scenes[s].returnScene \in {NoScene} \cup Menus
  BY DEF FlowIInv, ReturnsEndAtMenus
<1>3. ReturnScenes(Roots) \in SUBSET Menus
  BY <1>1, <1>2 DEF ReturnScenes
<1>4. K \in SUBSET (Ids \ Roots)
  BY <1>3 DEF Menus
<1>5. \A s \in K : scenes[s].returnScene = NoScene
  BY <1>3 DEF FlowIInv, ReturnsEndAtMenus, Menus
<1>6. Closed(K)
  BY <1>5 DEF Closed, ReturnScenes
<1>7. QED
  BY <1>4, <1>6 DEF Alive

(* So the menus that can be heard are the one that is on the screen, or    *)
(* that the scene on the screen returns to, and those that the games with  *)
(* a timer return to.                                                      *)
LEMMA AudibleMenus ==
  ASSUME FlowIInv, leaving = {}, pending = {}, tilting = {}
  PROVE  \E m : Audible \subseteq {scenes[t].returnScene : t \in timers} \cup {m}
<1> DEFINE m == IF Kind(current) = "menu" THEN current ELSE scenes[current].returnScene
           held == {scenes[t].returnScene : t \in timers}
<1>1. Roots = {current} \cup timers /\ timers \in SUBSET Games /\ current \in Ids
  BY DEF Roots, FlowIInv, FlowTypeOK
<1>2. Audible \subseteq Menus
  BY DEF Audible, FlowIInv, FlowTypeOK, Menus
<1>3. Menus \cap timers = {}
  BY <1>1 DEF Menus, Games
<1>4. Kind(current) = "menu" => scenes[current].returnScene = NoScene
  BY <1>1 DEF FlowIInv, ReturnsEndAtMenus
<1>5. ASSUME NEW a \in Audible PROVE a \in held \cup {m}
  <2>1. a \in Roots \cup ReturnScenes(Roots) /\ a \in Menus
    BY <1>2, <1>5, AliveThroughOneLink DEF Audible
  <2>2. CASE a \in Roots
    <3>1. a = current /\ Kind(current) = "menu"
      BY <1>1, <1>3, <2>1, <2>2 DEF Menus
    <3>2. QED
      BY <3>1
  <2>3. CASE a \in ReturnScenes(Roots)
    <3>1. PICK r \in Roots : a = scenes[r].returnScene /\ a # NoScene
      BY <2>3 DEF ReturnScenes
    <3>2. r = current => Kind(current) # "menu"
      BY <1>4, <3>1
    <3>3. QED
      BY <1>1, <3>1, <3>2
  <2>4. QED
    BY <2>1, <2>2, <2>3
<1>6. QED
  BY <1>5

(* When no transition, closure or handler is under way, the menus that are *)
(* heard are at most one more than the gyroscope timers that nobody has    *)
(* stopped, whatever number of scenes has been presented.                  *)
THEOREM TracksAreBounded == FlowSpec => []OneTrackPerTimer
<1>1. ASSUME FlowIInv PROVE OneTrackPerTimer
  <2> SUFFICES ASSUME leaving = {}, pending = {}, tilting = {}
               PROVE  Cardinality(Audible) <= 1 + Cardinality(timers)
    BY DEF OneTrackPerTimer
  <2> DEFINE f == [t \in timers |-> scenes[t].returnScene]
             held == {f[t] : t \in timers}
  <2>1. IsFiniteSet(timers) /\ Cardinality(timers) \in Nat
    <3>1. timers \in SUBSET (1..Len(scenes)) /\ Len(scenes) \in Int
      BY <1>1 DEF FlowIInv, FlowTypeOK, Games, Ids
    <3>2. IsFiniteSet(1..Len(scenes))
      BY <3>1, FS_Interval
    <3>3. QED
      BY <3>1, <3>2, FS_Subset, FS_CardinalityType
  <2>2. f \in [timers -> held]
    OBVIOUS
  <2>3. IsFiniteSet(held) /\ Cardinality(held) <= Cardinality(timers)
    <3> HIDE DEF f
    <3>1. QED
      BY <2>1, <2>2, ImageIsNoLarger
  <2>4. held = {scenes[t].returnScene : t \in timers}
    OBVIOUS
  <2> HIDE DEF held
  <2>5. PICK m : Audible \subseteq held \cup {m}
    BY <1>1, <2>4, AudibleMenus
  <2>6. /\ IsFiniteSet(held \cup {m})
        /\ Cardinality(held \cup {m}) = Cardinality(held)
             \/ Cardinality(held \cup {m}) = Cardinality(held) + 1
    BY <2>3, FS_AddElement
  <2>7. Cardinality(Audible) <= Cardinality(held \cup {m})
    BY <2>5, <2>6, FS_Subset
  <2>8. Cardinality(held) \in Nat /\ Cardinality(Audible) \in Nat
    BY <2>3, <2>5, <2>6, FS_Subset, FS_CardinalityType
  <2>9. QED
    BY <2>1, <2>3, <2>6, <2>7, <2>8
<1>2. FlowIInv => OneTrackPerTimer
  BY <1>1
<1>3. QED
  BY <1>2, FlowInvariant, PTL
=============================================================================
