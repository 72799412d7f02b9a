---------------------------- MODULE VolumeProofs ----------------------------
(***************************************************************************)
(* Proofs about the volume, for a slider of every width.                   *)
(***************************************************************************)
EXTENDS Volume, TLAPS

(* A player that nobody has overtaken has the volume of the key.           *)
FreshAtStored == \A p \in heard : ~p.stale => p.volume = StoredVolume

(* The music of the last menu, while that menu or its game is on the       *)
(* screen, was only overtaken by an old slider; and without a gyroscope no *)
(* timer holds a menu.                                                     *)
StaleIsLate ==
  \A p \in heard : /\ p.stale /\ p.holder \in {"menu", "game"} => late
                   /\ p.holder = "timer" => isGyroAvailable

(* What holds a menu on the screen is the scene on the screen.             *)
OnScreen == \A p \in heard : p.holder \in {"menu", "options", "game"} => p.holder = screen

(* Where the next slider opens: the menu has read the key, and nothing has *)
(* set it since, or it has no player.                                      *)
MenuVolume ==
  /\ read /\ ~late /\ (screen = "menu" \/ (screen = "options" /\ ~dragged))
       => volume = StoredVolume
  /\ ~read => volume = Width \div 2

(* The properties are not inductive: where the slider opens depends on the *)
(* menu's volume, and what is heard later on who holds a player now.       *)
VolumeIInv ==
  /\ VolumeTypeOK /\ SliderShowsStored
  /\ FreshAtStored /\ StaleIsLate /\ OnScreen /\ MenuVolume

(* A volume that was converted to Float is a Float on the track.           *)
LEMMA ToFloatFact == \A v \in Track : ToFloat(v) \in Floats
BY WidthAssumption DEF ToFloat, Floats, Track

LEMMA StoredFact ==
  ASSUME stored \in Track \cup {NoKey}
  PROVE  StoredVolume \in Floats
<1>1. Width \in Floats
  BY WidthAssumption DEF Floats, Track
<1>2. QED
  BY <1>1, ToFloatFact DEF StoredVolume, NoKey

(* 0.5 is a Float and no volume is the mark of a missing player or key.    *)
LEMMA ConstantFacts ==
  /\ Width \div 2 \in Floats /\ Floats \subseteq Track /\ 0 \in Track
  /\ NoKey \notin Track
BY WidthAssumption DEF Floats, Track, NoKey

(* The clamp of touchesMoved.                                              *)
LEMMA PosFact == \A x \in (-1)..(Width + 1) : Pos(x) \in Track
BY WidthAssumption DEF Pos, Track

(* What becomes of the players when their menus change hands.              *)
LEMMA HandFact ==
  ASSUME heard \in SUBSET Players, NEW from, NEW to \in Holders
  PROVE  /\ Hand(from, to) \in SUBSET Players
         /\ \A q \in Hand(from, to) : \E p \in heard :
              /\ q.volume = p.volume /\ q.stale = p.stale
              /\ q.holder = IF p.holder \in from THEN to ELSE p.holder
<1>1. ASSUME NEW q \in Hand(from, to)
      PROVE  /\ q \in Players
             /\ \E p \in heard :
                  /\ q.volume = p.volume /\ q.stale = p.stale
                  /\ q.holder = IF p.holder \in from THEN to ELSE p.holder
  <2>1. PICK p \in heard :
          q = [p EXCEPT !.holder = IF p.holder \in from THEN to ELSE p.holder]
    BY <1>1 DEF Hand
  <2>2. p \in Players
    OBVIOUS
  <2>3. QED
    BY <2>1, <2>2 DEF Players
<1>2. QED
  BY <1>1

LEMMA VolumeInitHolds == VolumeInit => VolumeIInv
<1> SUFFICES ASSUME VolumeInit PROVE VolumeIInv
  OBVIOUS
<1>1. StoredVolume \in Floats
  BY StoredFact DEF VolumeInit
<1>2. heard \in SUBSET {MenuPlayer} /\ MenuPlayer \in Players
  BY <1>1 DEF VolumeInit, MenuPlayer, Players, Holders
<1>3. VolumeTypeOK
  <2>1. isGyroAvailable \in BOOLEAN /\ tilting \in BOOLEAN /\ read \in BOOLEAN
    BY DEF VolumeInit
  <2>2. dragged \in BOOLEAN /\ late \in BOOLEAN
    BY DEF VolumeInit
  <2>3. QED
    BY <1>1, <1>2, <2>1, <2>2, ConstantFacts DEF VolumeInit, VolumeTypeOK, Screens
<1>4. FreshAtStored /\ StaleIsLate /\ OnScreen
  BY <1>2 DEF FreshAtStored, StaleIsLate, OnScreen, MenuPlayer, VolumeInit
<1>5. SliderShowsStored /\ MenuVolume
  BY DEF VolumeInit, SliderShowsStored, MenuVolume
<1>6. QED
  BY <1>3, <1>4, <1>5 DEF VolumeIInv

(* presentScene keeps the types of what it changes.                        *)
LEMMA PresentFact ==
  ASSUME VolumeTypeOK, NEW kind \in Screens, Present(kind)
  PROVE  /\ screen' \in Screens /\ leaving' \in SUBSET (Screens \ {"leaderboard"})
         /\ held' \in SUBSET {"shown", "left"} /\ screen' = kind
BY DEF VolumeTypeOK, Present

(* A menu that is created while the key is left alone: the music that was  *)
(* on the screen is about to stop.                                         *)
LEMMA CreateMenuKeeps ==
  ASSUME VolumeIInv, CreateMenu, tilting' \in BOOLEAN,
         UNCHANGED <<isGyroAvailable, stored, value, dragged>>
  PROVE  VolumeIInv'
<1>1. StoredVolume' = StoredVolume /\ StoredVolume \in Floats
  BY StoredFact DEF StoredVolume, VolumeIInv, VolumeTypeOK
<1>2. heard \in SUBSET Players /\ "leaving" \in Holders
  BY DEF VolumeIInv, VolumeTypeOK, Holders
<1>3. /\ LetGo \in SUBSET Players
      /\ \A q \in LetGo : \E p \in heard :
           /\ q.volume = p.volume /\ q.stale = p.stale
           /\ q.holder = IF p.holder \in {"menu", "options", "game"}
                           THEN "leaving" ELSE p.holder
  BY <1>2, HandFact DEF LetGo
<1>4. heard' \in SUBSET (LetGo \cup {MenuPlayer}) /\ late' = FALSE
  BY DEF CreateMenu
<1>5. MenuPlayer \in Players
  BY <1>1 DEF MenuPlayer, Players, Holders
<1>6. VolumeTypeOK'
  <2>1. /\ screen' \in Screens /\ leaving' \in SUBSET (Screens \ {"leaderboard"})
        /\ held' \in SUBSET {"shown", "left"}
    BY PresentFact DEF CreateMenu, VolumeIInv, Screens
  <2>2. volume' \in Floats /\ heard' \in SUBSET Players
    BY <1>1, <1>3, <1>4, <1>5, ConstantFacts DEF CreateMenu
  <2>3. read' \in BOOLEAN /\ late' \in BOOLEAN
    BY DEF CreateMenu
  <2>4. isGyroAvailable' \in BOOLEAN /\ dragged' \in BOOLEAN
    BY DEF VolumeIInv, VolumeTypeOK
  <2>5. stored' \in Track \cup {NoKey} /\ value' \in Track
    BY DEF VolumeIInv, VolumeTypeOK
  <2>6. QED
    BY <2>1, <2>2, <2>3, <2>4, <2>5 DEF VolumeTypeOK
<1>7. FreshAtStored'
  BY <1>1, <1>3, <1>4 DEF VolumeIInv, FreshAtStored, MenuPlayer
<1>8. StaleIsLate'
  BY <1>3, <1>4 DEF VolumeIInv, StaleIsLate, MenuPlayer
<1>9. screen' = "menu"
  BY DEF CreateMenu, Present
<1>10. OnScreen'
  BY <1>3, <1>4, <1>9 DEF OnScreen, MenuPlayer
<1>11. SliderShowsStored' /\ MenuVolume'
  BY <1>1, <1>9 DEF CreateMenu, SliderShowsStored, MenuVolume
<1>12. QED
  BY <1>6, <1>7, <1>8, <1>10, <1>11 DEF VolumeIInv

(* Steps that present nothing and leave the key alone: players may stop.   *)
LEMMA QuietKeeps ==
  ASSUME VolumeIInv, heard' \in SUBSET heard, tilting' \in BOOLEAN,
         held' \in SUBSET {"shown", "left"}, leaving' \in SUBSET leaving,
         UNCHANGED <<isGyroAvailable, stored, screen, volume, read, value, dragged, late>>
  PROVE  VolumeIInv'
<1>1. StoredVolume' = StoredVolume
  BY DEF StoredVolume
<1>2. VolumeTypeOK'
  BY DEF VolumeIInv, VolumeTypeOK
<1>3. FreshAtStored' /\ StaleIsLate' /\ OnScreen'
  BY <1>1 DEF VolumeIInv, FreshAtStored, StaleIsLate, OnScreen
<1>4. SliderShowsStored' /\ MenuVolume'
  BY <1>1 DEF VolumeIInv, SliderShowsStored, MenuVolume
<1>5. QED
  BY <1>2, <1>3, <1>4 DEF VolumeIInv

(* The ways to a scene that is no menu: the players change hands.          *)
LEMMA LeaveKeeps ==
  ASSUME VolumeIInv, NEW kind \in Screens, Present(kind), kind # "menu",
         NEW from, NEW to \in Holders, heard' = Hand(from, to),
         from \in SUBSET {"menu", "options", "game"},
         screen \in {"menu", "options", "game"} => screen \in from,
         to \in {kind, "timer", "leaving"}, to = "timer" => isGyroAvailable,
         to = "game" => from = {"menu"}, value' \in Track, dragged' \in BOOLEAN,
         kind = "options" => screen = "menu" /\ value' = volume /\ dragged' = FALSE,
         UNCHANGED <<isGyroAvailable, stored, tilting, volume, read, late>>
  PROVE  VolumeIInv'
<1>1. StoredVolume' = StoredVolume
  BY DEF StoredVolume
<1>2. heard \in SUBSET Players
  BY DEF VolumeIInv, VolumeTypeOK
<1>3. /\ heard' \in SUBSET Players
      /\ \A q \in heard' : \E p \in heard :
           /\ q.volume = p.volume /\ q.stale = p.stale
           /\ q.holder = IF p.holder \in from THEN to ELSE p.holder
  BY <1>2, HandFact
<1>4. VolumeTypeOK'
  <2>1. /\ screen' \in Screens /\ leaving' \in SUBSET (Screens \ {"leaderboard"})
        /\ held' \in SUBSET {"shown", "left"}
    BY PresentFact DEF VolumeIInv
  <2>2. QED
    BY <1>3, <2>1 DEF VolumeIInv, VolumeTypeOK
<1>5. FreshAtStored'
  BY <1>1, <1>3 DEF VolumeIInv, FreshAtStored
<1>6. StaleIsLate'
  BY <1>3 DEF VolumeIInv, StaleIsLate
<1>7. screen' = kind
  BY DEF Present
<1>8. OnScreen'
  BY <1>3, <1>7 DEF VolumeIInv, OnScreen
<1>9. SliderShowsStored' /\ MenuVolume'
  BY <1>1, <1>7 DEF VolumeIInv, VolumeTypeOK, SliderShowsStored, MenuVolume
<1>10. QED
  BY <1>4, <1>5, <1>6, <1>8, <1>9 DEF VolumeIInv

(* The key is set: every player has read an older one.                     *)
LEMMA StoreKeeps ==
  ASSUME VolumeIInv, NEW v \in Track, Store(v),
         \/ screen = "options" /\ dragged' = TRUE /\ value' = v /\ late' = late
         \/ late' = TRUE /\ UNCHANGED <<dragged, value>>,
         UNCHANGED <<isGyroAvailable, screen, leaving, tilting, volume, read, held>>
  PROVE  VolumeIInv'
<1>1. ASSUME NEW q \in heard'
      PROVE  /\ q \in Players /\ q.stale = TRUE
             /\ \E p \in heard : q.holder = p.holder
  <2>1. PICK p \in heard : q = [p EXCEPT !.stale = TRUE]
    BY <1>1 DEF Store
  <2>2. p \in Players
    BY DEF VolumeIInv, VolumeTypeOK
  <2>3. QED
    BY <2>1, <2>2 DEF Players
<1>2. VolumeTypeOK'
  <2>1. stored' \in Track \cup {NoKey} /\ value' \in Track
    BY DEF Store, VolumeIInv, VolumeTypeOK
  <2>2. dragged' \in BOOLEAN /\ late' \in BOOLEAN
    BY DEF VolumeIInv, VolumeTypeOK
  <2>3. QED
    BY <1>1, <2>1, <2>2 DEF VolumeIInv, VolumeTypeOK
<1>3. FreshAtStored' /\ StaleIsLate' /\ OnScreen'
  BY <1>1 DEF VolumeIInv, FreshAtStored, StaleIsLate, OnScreen
<1>4. SliderShowsStored' /\ MenuVolume'
  BY DEF Store, VolumeIInv, SliderShowsStored, MenuVolume
<1>5. QED
  BY <1>2, <1>3, <1>4 DEF VolumeIInv

(* One case for each operation.                                            *)
LEMMA VolumeStepHolds == VolumeIInv /\ [VolumeNext]_volumeVars => VolumeIInv'
<1> SUFFICES ASSUME VolumeIInv, [VolumeNext]_volumeVars PROVE VolumeIInv'
  OBVIOUS
<1>0. /\ isGyroAvailable \in BOOLEAN /\ tilting \in BOOLEAN /\ dragged \in BOOLEAN
      /\ value \in Track /\ volume \in Track /\ held \in SUBSET {"shown", "left"}
  BY ConstantFacts DEF VolumeIInv, VolumeTypeOK
<1>1. CASE GoOptions
  <2>1. /\ Present("options") /\ screen = "menu" /\ heard' = Hand({"menu"}, "options")
        /\ value' = volume /\ dragged' = FALSE
        /\ UNCHANGED <<isGyroAvailable, stored, tilting, volume, read, late>>
    BY <1>1 DEF GoOptions
  <2>2. "options" \in Screens /\ "options" \in Holders
    BY DEF Screens, Holders
  <2>3. QED
    BY <1>0, <2>1, <2>2, LeaveKeeps
<1>2. CASE PlayGame
  <2>1. PICK to : to = IF isGyroAvailable THEN "timer" ELSE "game"
    OBVIOUS
  <2>2. /\ Present("game") /\ screen = "menu" /\ heard' = Hand({"menu"}, to)
        /\ UNCHANGED <<isGyroAvailable, stored, tilting, volume, read, late, value, dragged>>
    BY <1>2, <2>1 DEF PlayGame
  <2>3. "game" \in Screens /\ to \in Holders /\ to \in {"game", "timer", "leaving"}
    BY <2>1 DEF Screens, Holders
  <2>4. to = "timer" => isGyroAvailable
    BY <2>1
  <2>5. QED
    BY <1>0, <2>2, <2>3, <2>4, LeaveKeeps
<1>3. CASE GoLeaderBoard
  <2>1. /\ Present("leaderboard") /\ heard' = Hand({"menu", "options", "game"}, "leaving")
        /\ UNCHANGED <<isGyroAvailable, stored, tilting, volume, read, late, value, dragged>>
    BY <1>3 DEF GoLeaderBoard, LetGo
  <2>2. "leaderboard" \in Screens /\ "leaving" \in Holders
    BY DEF Screens, Holders
  <2>3. QED
    BY <1>0, <2>1, <2>2, LeaveKeeps
<1>4. CASE GoMenu \/ Back \/ Tilt
  <2>1. tilting' \in BOOLEAN
    BY <1>0, <1>4 DEF GoMenu, Back, Tilt
  <2>2. QED
    BY <1>4, <2>1, CreateMenuKeeps DEF GoMenu, Back, Tilt
<1>5. CASE FindView
  BY <1>0, <1>5, QuietKeeps DEF FindView
<1>6. CASE TransitionEnds
  BY <1>0, <1>6, QuietKeeps DEF TransitionEnds
<1>7. CASE Free
  BY <1>0, <1>7, QuietKeeps DEF Free
<1>8. CASE Hold
  BY <1>0, <1>8, QuietKeeps DEF Hold
<1>9. ASSUME NEW p \in heard, TrackEnds(p) PROVE VolumeIInv'
  BY <1>0, <1>9, QuietKeeps DEF TrackEnds
<1>10. ASSUME NEW which \in held, Release(which) PROVE VolumeIInv'
  BY <1>0, <1>10, QuietKeeps DEF Release
<1>11. ASSUME NEW x \in (-1)..(Width + 1), Drag(x) PROVE VolumeIInv'
  <2>1. Pos(x) \in Track /\ Store(Pos(x)) /\ value' = Pos(x)
    BY <1>11, PosFact DEF Drag, Store
  <2>2. QED
    BY <1>11, <2>1, StoreKeeps DEF Drag
<1>12. ASSUME NEW x \in (-1)..(Width + 1), DragLeft(x) PROVE VolumeIInv'
  <2>1. Pos(x) \in Track /\ Store(Pos(x))
    BY <1>12, PosFact DEF DragLeft
  <2>2. QED
    BY <1>12, <2>1, StoreKeeps DEF DragLeft
<1>13. CASE UNCHANGED volumeVars
  BY <1>0, <1>13, QuietKeeps DEF volumeVars
<1>14. QED
  BY <1>1, <1>2, <1>3, <1>4, <1>5, <1>6, <1>7, <1>8, <1>9, <1>10, <1>11, <1>12,
     <1>13 DEF VolumeNext

LEMMA VolumeInvariant == VolumeSpec => []VolumeIInv
<1>1. QED
  BY VolumeInitHolds, VolumeStepHolds, PTL DEF VolumeSpec

(* The slider and the key stay on the track.                               *)
THEOREM VolumeTypeCorrect == VolumeSpec => []VolumeTypeOK
<1>1. VolumeIInv => VolumeTypeOK
  BY DEF VolumeIInv
<1>2. QED
  BY <1>1, VolumeInvariant, PTL

(* Whatever order menus, games, options and drags come in, what is heard   *)
(* at a volume that is not the key's has read the key before it was set,   *)
(* and is under the open options, about to stop, overtaken by a drag of an *)
(* old slider, or held by the timer of a game on a device with gyroscope.  *)
THEOREM MusicFollowsTheKey == VolumeSpec => []MusicAtStoredVolume
<1>1. ASSUME VolumeIInv PROVE MusicAtStoredVolume
  <2> SUFFICES ASSUME NEW p \in heard, p.volume # StoredVolume
               PROVE  /\ p.stale
                      /\ \/ p.holder \in {"options", "leaving"}
                         \/ p.holder = "timer" /\ isGyroAvailable
                         \/ late
    BY DEF MusicAtStoredVolume
  <2>1. p.stale
    BY <1>1 DEF VolumeIInv, FreshAtStored
  <2>2. p.holder \in Holders
    BY <1>1 DEF VolumeIInv, VolumeTypeOK, Players
  <2>3. p.holder \in {"menu", "game"} => late
    BY <1>1, <2>1 DEF VolumeIInv, StaleIsLate
  <2>4. p.holder = "timer" => isGyroAvailable
    BY <1>1 DEF VolumeIInv, StaleIsLate
  <2>5. QED
    BY <2>1, <2>2, <2>3, <2>4 DEF Holders
<1>2. VolumeIInv => MusicAtStoredVolume
  BY <1>1
<1>3. QED
  BY <1>2, VolumeInvariant, PTL

(* The slider shows the key, up to one conversion to Float.                *)
THEOREM SliderFollowsTheKey == VolumeSpec => []SliderShowsStored
<1>1. VolumeIInv => SliderShowsStored
  BY DEF VolumeIInv
<1>2. QED
  BY <1>1, VolumeInvariant, PTL

(* Opening the options stores nothing.                                     *)
THEOREM VisitsStoreNothing == VolumeSpec => OnlyFingersStore
<1>1. [VolumeNext]_volumeVars => [stored' # stored => held # {}]_volumeVars
  BY DEF VolumeNext, volumeVars, GoOptions, PlayGame, GoLeaderBoard, GoMenu,
         Back, FindView, Tilt, TransitionEnds, Free, TrackEnds, Hold, Release,
         Drag, DragLeft
<1>2. QED
  BY <1>1, PTL DEF VolumeSpec, OnlyFingersStore
=============================================================================
