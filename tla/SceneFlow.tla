----------------------------- MODULE SceneFlow ------------------------------
(***************************************************************************)
(* The scenes of the application over several games: which one is on the   *)
(* screen, which ones are still alive, whose music is heard.               *)
(*                                                                         *)
(* Every way from one scene to another creates the other scene; none comes *)
(* back.  presentScene calls didMove of the new scene at once and leaves   *)
(* its view to the old one until the transition has ended, so a second     *)
(* finger, the delayed closures and the accelerometer of a scene that is   *)
(* being left can still present a scene of their own; the handler of the   *)
(* accelerometer, which is not on the main thread, even later.             *)
(*                                                                         *)
(* A scene lives as long as something holds it: the view, a pending        *)
(* closure, a running handler, the repeating timer of the gyroscope, or    *)
(* the returnScene of a scene that lives.  A menu's music is heard as long *)
(* as the menu lives, or until the track ends.                             *)
(***************************************************************************)
EXTENDS Integers, Sequences, FiniteSets

CONSTANT MaxScenes  (* bound on the scenes created                         *)

ASSUME FlowAssumption == MaxScenes \in Nat \ {0}

VARIABLES
  isGyroAvailable,  (* of motionManager, on this device                    *)
  scenes,   (* every scene created so far, in order                        *)
  current,  (* the scene that the view presents                            *)
  leaving,  (* scenes that keep their view until the transition ends       *)
  timers,   (* games whose gyroscope timer repeats                         *)
  pending,  (* games with a closure on the main queue; it holds the game   *)
  tilting,  (* games whose handler has found the view and not presented yet*)
  playing,  (* menus whose player was started and has not ended            *)
  ranked,   (* games whose score UpdateRanking has received                *)
  asked,    (* history: the last thing the player did was to touch "back"  *)
            (* in a game                                                   *)
  trapped   (* as! SKSpriteNode has failed and the process is gone         *)

flowVars == <<isGyroAvailable, scenes, current, leaving, timers, pending,
              tilting, playing, ranked, asked, trapped>>

Kinds == {"menu", "play", "options", "leaderboard"}
NoScene == 0
Ids  == 1..Len(scenes)
Kind(s) == scenes[s].kind
Games == {s \in Ids : Kind(s) = "play"}
HasView(s) == s = current \/ s \in leaving

(* presenter: the scene that created this one; shows: the games whose      *)
(* scores were in the ranking when a leaderboard read it.                  *)
Scene(kind, returnScene, presenter, shows) ==
  [kind |-> kind, returnScene |-> returnScene, presenter |-> presenter,
   shows |-> shows]
-----------------------------------------------------------------------------
(* What is alive: what the roots hold, directly or through returnScene,    *)
(* which is in every set that has, with the roots, all that it refers to.  *)
Roots == {current} \cup leaving \cup timers \cup pending \cup tilting
ReturnScenes(S) == {scenes[s].returnScene : s \in S} \ {NoScene}
Closed(S) == ReturnScenes(Roots \cup S) \subseteq Roots \cup S
Alive ==
  LET others == Ids \ Roots
      closed == {S \in SUBSET others : Closed(S)}
  IN  Roots \cup {s \in others : \A S \in closed : s \in S}
Audible == playing \cap Alive

(* Wrong variant: didMove of the menu starts the gyroscope too.            *)
StartsGyrosInMenu(kind) == kind \in {"play", "menu"} /\ isGyroAvailable
(* Whether didMove of the new scene starts the repeating timer.            *)
StartsGyros(kind) == kind = "play" /\ isGyroAvailable

(* There is room for a scene beside those that the handlers will present.  *)
Room == Len(scenes) + Cardinality(tilting) < MaxScenes

(* view.presentScene(scene, transition: ...), with what didMove of the new *)
(* scene does: CreateMenu starts the music, if the file can be played, and *)
(* startGyros starts the timer.                                            *)
Present(scene) ==
  LET new == Len(scenes) + 1
  IN /\ scenes' = Append(scenes, scene)
     /\ current' = new
     /\ leaving' = leaving \cup {current}
     /\ timers' = IF StartsGyros(scene.kind) THEN timers \cup {new} ELSE timers
     /\ \/ scene.kind = "menu" /\ playing' = playing \cup {new}
        \/ playing' = playing

(* Wrong variant: the new menu keeps the game as its returnScene.          *)
MenuKeepsPresenter(s) == Scene("menu", s, s, {})
(* GoMenu of PlayScene, OptionsScene and LeaderboardsScene, from scene s.  *)
Menu(s) == Scene("menu", NoScene, s, {})
(* GoLeaderBoard of GameScene and PlayScene; didMove reads the ranking.    *)
Leaderboard(s, ranking) == Scene("leaderboard", NoScene, s, ranking)
-----------------------------------------------------------------------------
(* A touch ends in the scene in which it began, which has its view: it is  *)
(* on the screen, or another finger has just left it.                      *)
Touched(s, kind) == ~trapped /\ HasView(s) /\ Kind(s) = kind

(* One of the three difficulty buttons of the menu, and PlayGame.          *)
PlayGame(s) ==
  /\ Touched(s, "menu") /\ Room
  /\ Present(Scene("play", s, s, {}))
  /\ asked' = FALSE
  /\ UNCHANGED <<isGyroAvailable, pending, tilting, ranked, trapped>>

GoOptions(s) ==
  /\ Touched(s, "menu") /\ Room
  /\ Present(Scene("options", s, s, {}))
  /\ asked' = FALSE
  /\ UNCHANGED <<isGyroAvailable, pending, tilting, ranked, trapped>>

GoLeaderBoard(s) ==
  /\ Touched(s, "menu") /\ Room
  /\ Present(Leaderboard(s, ranked))
  /\ asked' = FALSE
  /\ UNCHANGED <<isGyroAvailable, pending, tilting, ranked, trapped>>

(* "GameBack" in the options and in the leaderboard.                       *)
Back(s) ==
  /\ Touched(s, "options") \/ Touched(s, "leaderboard")
  /\ Room /\ Present(Menu(s))
  /\ asked' = FALSE
  /\ UNCHANGED <<isGyroAvailable, pending, tilting, ranked, trapped>>

(* "GameBack" in a game.                                                   *)
BackFromGame(s) ==
  /\ Touched(s, "play") /\ Room
  /\ Present(Menu(s))
  /\ asked' = TRUE
  /\ UNCHANGED <<isGyroAvailable, pending, tilting, ranked, trapped>>

(* A touch that ends on a label of a game or of the leaderboard, or that   *)
(* began beside the slider of the options and ends on its label or knob.   *)
TouchLabel(s) ==
  /\ \E kind \in {"play", "leaderboard", "options"} : Touched(s, kind)
  /\ trapped' = TRUE
  /\ UNCHANGED <<isGyroAvailable, scenes, current, leaving, timers,
                 pending, tilting, playing, ranked, asked>>

(* The second card of a pair: a closure is scheduled, one at a time.       *)
TouchPair(s) ==
  /\ Touched(s, "play") /\ s \notin pending \cup ranked
  /\ pending' = pending \cup {s}
  /\ asked' = FALSE
  /\ UNCHANGED <<isGyroAvailable, scenes, current, leaving, timers,
                 tilting, playing, ranked, trapped>>
-----------------------------------------------------------------------------
(* The accelerometer of game s, on motionQueue: GoMenu finds the view ...  *)
FindView(s) ==
  /\ ~trapped /\ s \in Games \ tilting /\ HasView(s) /\ Room
  /\ tilting' = tilting \cup {s}
  /\ UNCHANGED <<isGyroAvailable, scenes, current, leaving, timers,
                 pending, playing, ranked, asked, trapped>>

(* ... and presents a menu in it, whatever the view shows by then.         *)
Tilt(s) ==
  /\ ~trapped /\ s \in tilting
  /\ tilting' = tilting \ {s}
  /\ Present(Menu(s))
  /\ UNCHANGED <<isGyroAvailable, pending, ranked, asked, trapped>>

(* Wrong variant: every closure presents the leaderboard.                  *)
SettlePairPresents(s) ==
  /\ ~trapped /\ s \in pending
  /\ pending' = pending \ {s}
  /\ IF HasView(s) THEN Room /\ Present(Leaderboard(s, ranked))
                   ELSE UNCHANGED <<scenes, current, leaving, timers, playing>>
  /\ UNCHANGED <<isGyroAvailable, tilting, ranked, asked, trapped>>
(* The closure of game s does not end the game.                            *)
SettlePair(s) ==
  /\ ~trapped /\ s \in pending
  /\ pending' = pending \ {s}
  /\ UNCHANGED <<isGyroAvailable, scenes, current, leaving, timers,
                 tilting, playing, ranked, asked, trapped>>

(* Wrong variant: the leaderboard is presented before UpdateRanking.       *)
SettleLastUnranked(s) ==
  /\ ~trapped /\ s \in pending
  /\ pending' = pending \ {s}
  /\ ranked' = ranked \cup {s}
  /\ IF HasView(s) THEN Room /\ Present(Leaderboard(s, ranked))
                   ELSE UNCHANGED <<scenes, current, leaving, timers, playing>>
  /\ UNCHANGED <<isGyroAvailable, tilting, asked, trapped>>
(* It does: UpdateRanking, then GoLeaderBoard if the game has a view.      *)
SettleLast(s) ==
  /\ ~trapped /\ s \in pending
  /\ pending' = pending \ {s}
  /\ ranked' = ranked \cup {s}
  /\ IF HasView(s) THEN Room /\ Present(Leaderboard(s, ranked'))
                   ELSE UNCHANGED <<scenes, current, leaving, timers, playing>>
  /\ UNCHANGED <<isGyroAvailable, tilting, asked, trapped>>

TransitionEnds ==
  /\ ~trapped /\ leaving # {}
  /\ leaving' = {}
  /\ UNCHANGED <<isGyroAvailable, scenes, current, timers, pending,
                 tilting, playing, ranked, asked, trapped>>

TrackEnds(m) ==
  /\ ~trapped /\ m \in Audible
  /\ playing' = playing \ {m}
  /\ UNCHANGED <<isGyroAvailable, scenes, current, leaving, timers,
                 pending, tilting, ranked, asked, trapped>>

(* viewDidLoad presents the first menu, without a transition.              *)
FlowInit ==
  /\ isGyroAvailable \in BOOLEAN
  /\ scenes = <<Menu(NoScene)>> /\ current = 1 /\ leaving = {}
  /\ timers = {} /\ pending = {} /\ tilting = {} /\ ranked = {}
  /\ playing \in {{}, {1}}
  /\ asked = FALSE /\ trapped = FALSE

(* The process is gone, or the bound on the scenes is reached.             *)
FlowDone == (trapped \/ ~Room) /\ UNCHANGED flowVars

FlowNext ==
  \/ \E s \in Ids :
       \/ PlayGame(s) \/ GoOptions(s) \/ GoLeaderBoard(s)
       \/ Back(s) \/ BackFromGame(s) \/ TouchLabel(s) \/ TouchPair(s)
       \/ FindView(s) \/ Tilt(s) \/ SettlePair(s) \/ SettleLast(s)
       \/ TrackEnds(s)
  \/ TransitionEnds \/ FlowDone

(* Transitions take 0.2 s, the main queue runs its closures, and a handler *)
(* that has found the view goes on.                                        *)
FlowFairness ==
  /\ WF_flowVars(TransitionEnds)
  /\ \A s \in 1..MaxScenes : /\ WF_flowVars(SettlePair(s) \/ SettleLast(s))
                             /\ WF_flowVars(Tilt(s))

FlowSpec == FlowInit /\ [][FlowNext]_flowVars /\ FlowFairness
-----------------------------------------------------------------------------
FlowTypeOK ==
  /\ isGyroAvailable \in BOOLEAN
  /\ Len(scenes) \in 1..MaxScenes /\ Len(scenes) + Cardinality(tilting) <= MaxScenes
  /\ \A s \in Ids : scenes[s] \in
       [kind : Kinds, returnScene : 0..(s - 1), presenter : 0..(s - 1),
        shows : SUBSET (1..(s - 1))]
  /\ current \in Ids /\ leaving \in SUBSET (Ids \ {current})
  /\ timers \in SUBSET Games /\ pending \in SUBSET Games
  /\ ranked \in SUBSET Games /\ tilting \in SUBSET Games
  /\ playing \in SUBSET {s \in Ids : Kind(s) = "menu"}
  /\ asked \in BOOLEAN /\ trapped \in BOOLEAN

(* When no transition, closure or handler is under way, one track is heard *)
(* and one more for every game whose gyroscope timer was never stopped:    *)
(* such a game keeps, through returnScene, the menu that started it and    *)
(* its music.                                                              *)
OneTrackPerTimer ==
  leaving = {} /\ pending = {} /\ tilting = {} =>
    Cardinality(Audible) <= 1 + Cardinality(timers)

(* The leaderboard that a solved game presents shows that game, and a game *)
(* is missing on the leaderboard on the screen only when it was solved     *)
(* after it had lost its view, by a closure that outlived it.              *)
LeaderboardShowsItsGame ==
  /\ \A s \in Ids : Kind(s) = "leaderboard" /\ scenes[s].presenter \in Games
                      => scenes[s].presenter \in scenes[s].shows
  /\ Kind(current) = "leaderboard" =>
       \A g \in ranked \ scenes[current].shows :
         \A s \in Ids : Kind(s) = "leaderboard" => scenes[s].presenter # g

(* On a device without a gyroscope, where no timer holds it, a game that   *)
(* was left is deallocated in the end, whatever closures and transitions   *)
(* were under way.                                                         *)
LeftGamesAreFreed ==
  \A g \in 1..MaxScenes :
    (g \in Games /\ g # current /\ ~isGyroAvailable) ~> (g \notin Alive \/ trapped)

(* A player who touched back in a game, and nothing since, is at the menu  *)
(* when the transition has ended, with one exception: the closure that     *)
(* settled the last pair ran during the transition and has put the         *)
(* leaderboard of that game in the menu's place.                           *)
BackIsOvertakenOnlyBySolving ==
  asked /\ leaving = {} /\ Kind(current) # "menu" =>
    Kind(current) = "leaderboard" /\ scenes[current].presenter \in ranked
=============================================================================
