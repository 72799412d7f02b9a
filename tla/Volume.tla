------------------------------- MODULE Volume -------------------------------
(***************************************************************************)
(* The volume of the music: the slider of the options, the key             *)
(* MUSIC_VOLUME of UserDefaults, and the players that the menus create.    *)
(*                                                                         *)
(* A volume is a position on the slider's track, so 0 is silence and Width *)
(* is 1.0.  The slider and the key hold a Double, the menu and its player  *)
(* a Float: the even positions stand for the volumes that a Float holds    *)
(* exactly, 0.0, 0.5 and 1.0 among them.                                   *)
(*                                                                         *)
(* A player reads the key once, when its menu is created, and is heard as  *)
(* long as something holds that menu: the view, the options or the game    *)
(* that it was left for, or the gyroscope's timer of such a game, which    *)
(* nobody stops.                                                           *)
(*                                                                         *)
(* The view takes several touches at once, so one finger may hold the      *)
(* slider while another one touches "back"; it then drags the slider of    *)
(* the old scene until the transition has ended.                           *)
(***************************************************************************)
EXTENDS Integers

CONSTANT Width  (* length of the slider's track                            *)

ASSUME WidthAssumption == Width \in Nat \ {0} /\ Width % 4 = 0

NoKey  == -1   (* MUSIC_VOLUME has never been set                          *)
Track  == 0..Width
Floats == {v \in Track : v % 2 = 0}
Screens == {"menu", "options", "game", "leaderboard"}

(* A player: its volume, what holds its menu, and, as history, whether the *)
(* key was set since the player has read it.                               *)
Holders == {"menu", "options", "game", "timer", "leaving"}
Players == [volume : Floats, holder : Holders, stale : BOOLEAN]

VARIABLES
  isGyroAvailable,  (* of motionManager, on this device                    *)
  stored,   (* the key MUSIC_VOLUME                                        *)
  screen,   (* the kind of the scene that the view presents                *)
  leaving,  (* kinds of the scenes that still have the view, the           *)
            (* leaderboards aside, which hold no music                     *)
  tilting,  (* the accelerometer's handler of a game has found the view    *)
  volume,   (* volume of the last menu created                             *)
  read,     (* that menu has a player, and has read the key                *)
  heard,    (* the players that play, those that are alike as one          *)
  value,    (* value of the slider of the last options scene               *)
  held,     (* the sliders under a finger: of the "shown", of a "left" one *)
  dragged,  (* history: the shown slider was dragged                       *)
  late      (* history: a left one was dragged since the menu was created  *)

volumeVars == <<isGyroAvailable, stored, screen, leaving, tilting, volume,
                read, heard, value, held, dragged, late>>
-----------------------------------------------------------------------------
(* float(forKey:) of what a CGFloat has left there.                        *)
ToFloat(v) == IF v % 2 = 0 THEN v ELSE v - 1

StoredVolume == IF stored = NoKey THEN Width ELSE ToFloat(stored)

(* The menus that were held by from are held by to.                        *)
Hand(from, to) ==
  {[p EXCEPT !.holder = IF @ \in from THEN to ELSE @] : p \in heard}

(* The scene on the screen lets go what only it held, when it is gone.     *)
LetGo == Hand({"menu", "options", "game"}, "leaving")

(* presentScene: the old scene and a finger on its slider stay for the     *)
(* transition.                                                             *)
Present(kind) ==
  /\ screen' = kind
  /\ leaving' = (leaving \cup {screen}) \ {"leaderboard"}
  /\ held' = IF held = {} THEN {} ELSE {"left"}

(* CreateMenu: the key is read once the file is found and can be played;   *)
(* otherwise volume keeps its initial value 0.5.                           *)
MenuPlayer == [volume |-> StoredVolume, holder |-> "menu", stale |-> FALSE]
CreateMenu ==
  /\ Present("menu")
  /\ \/ volume' = StoredVolume /\ read' = TRUE /\ heard' = LetGo \cup {MenuPlayer}
     \/ volume' = Width \div 2 /\ read' = FALSE /\ heard' = LetGo
  /\ late' = FALSE
-----------------------------------------------------------------------------
(* Wrong variant: the new slider is left at its initial value.             *)
GoOptionsUnset ==
  /\ screen = "menu"
  /\ Present("options")
  /\ heard' = Hand({"menu"}, "options")
  /\ value' = 0
  /\ dragged' = FALSE
  /\ UNCHANGED <<isGyroAvailable, stored, tilting, volume, read, late>>
(* The options hold the menu as their returnScene: its music plays on.     *)
GoOptions ==
  /\ screen = "menu"
  /\ Present("options")
  /\ heard' = Hand({"menu"}, "options")
  /\ value' = volume
  /\ dragged' = FALSE
  /\ UNCHANGED <<isGyroAvailable, stored, tilting, volume, read, late>>

(* So does the game, and with a gyroscope the timer holds the game.        *)
PlayGame ==
  /\ screen = "menu"
  /\ Present("game")
  /\ heard' = Hand({"menu"}, IF isGyroAvailable THEN "timer" ELSE "game")
  /\ UNCHANGED <<isGyroAvailable, stored, tilting, volume, read, value, dragged, late>>

(* GoLeaderBoard of the menu, and of a solved game that has its view.      *)
GoLeaderBoard ==
  /\ screen \in {"menu", "game"} \/ "game" \in leaving
  /\ Present("leaderboard")
  /\ heard' = LetGo
  /\ UNCHANGED <<isGyroAvailable, stored, tilting, volume, read, value, dragged, late>>

(* Wrong variant: the old menu is presented again, as the code that is     *)
(* commented out in GoMenu does.                                           *)
GoMenuReturns ==
  /\ screen = "options"
  /\ Present("menu")
  /\ heard' = Hand({"options"}, "menu")
  /\ UNCHANGED <<isGyroAvailable, stored, tilting, volume, read, value, dragged, late>>
(* GoMenu of the options.                                                  *)
GoMenu ==
  /\ screen = "options"
  /\ CreateMenu
  /\ UNCHANGED <<isGyroAvailable, stored, tilting, value, dragged>>

(* "GameBack" in a game or in the leaderboard.                             *)
Back ==
  /\ screen \in {"game", "leaderboard"}
  /\ CreateMenu
  /\ UNCHANGED <<isGyroAvailable, stored, tilting, value, dragged>>

(* GoMenu of the accelerometer's handler: it finds the view of its game,   *)
(* and presents the menu whatever the view shows by then.                  *)
FindView ==
  /\ screen = "game" \/ "game" \in leaving
  /\ tilting' = TRUE
  /\ UNCHANGED <<isGyroAvailable, stored, screen, leaving, volume, read,
                 heard, value, held, dragged, late>>

Tilt ==
  /\ tilting
  /\ CreateMenu
  /\ tilting' = FALSE
  /\ UNCHANGED <<isGyroAvailable, stored, value, dragged>>

(* When its scene is gone the slider, held or not, has no delegate.        *)
TransitionEnds ==
  /\ leaving # {}
  /\ leaving' = {}
  /\ held' = held \ {"left"}
  /\ UNCHANGED <<isGyroAvailable, stored, screen, tilting, volume, read,
                 heard, value, dragged, late>>

(* A menu that nothing holds is freed, after the transition and after the  *)
(* closures of its game; its player stops.                                 *)
Free ==
  /\ leaving = {}
  /\ heard' = {p \in heard : p.holder # "leaving"}
  /\ UNCHANGED <<isGyroAvailable, stored, screen, leaving, tilting, volume,
                 read, value, held, dragged, late>>

TrackEnds(p) ==
  /\ heard' = heard \ {p}
  /\ UNCHANGED <<isGyroAvailable, stored, screen, leaving, tilting, volume,
                 read, value, held, dragged, late>>
-----------------------------------------------------------------------------
(* A finger comes down on the slider.                                      *)
Hold ==
  /\ screen = "options"
  /\ held' = held \cup {"shown"}
  /\ UNCHANGED <<isGyroAvailable, stored, screen, leaving, tilting, volume,
                 read, heard, value, dragged, late>>

Release(which) ==
  /\ which \in held
  /\ held' = held \ {which}
  /\ UNCHANGED <<isGyroAvailable, stored, screen, leaving, tilting, volume,
                 read, heard, value, dragged, late>>

(* Wrong variant: the knob is stopped at the left end only.                *)
PosOpenEnd(x) == IF x < 0 THEN 0 ELSE x
(* "max(fmin(x, width), 0.0)"                                              *)
Pos(x) == IF x < 0 THEN 0 ELSE IF x > Width THEN Width ELSE x

(* sliderValueChanged: the key is set, no player is told.                  *)
Store(v) ==
  /\ stored' = v
  /\ heard' = {[p EXCEPT !.stale = TRUE] : p \in heard}

(* touchesMoved of the slider, and sliderValueChanged of its delegate.     *)
Drag(x) ==
  /\ screen = "options" /\ "shown" \in held
  /\ value' = Pos(x)
  /\ Store(value')
  /\ dragged' = TRUE
  /\ UNCHANGED <<isGyroAvailable, screen, leaving, tilting, volume, read, held, late>>

(* The same for a slider whose scene is leaving.                           *)
DragLeft(x) ==
  /\ "options" \in leaving /\ "left" \in held
  /\ Store(Pos(x))
  /\ late' = TRUE
  /\ UNCHANGED <<isGyroAvailable, screen, leaving, tilting, volume, read,
                 value, held, dragged>>
-----------------------------------------------------------------------------
(* The key may have been set by an earlier launch.                         *)
VolumeInit ==
  /\ isGyroAvailable \in BOOLEAN
  /\ stored \in Track \cup {NoKey}
  /\ screen = "menu" /\ leaving = {} /\ tilting = FALSE
  /\ \/ volume = StoredVolume /\ read = TRUE /\ heard = {MenuPlayer}
     \/ volume = Width \div 2 /\ read = FALSE /\ heard = {}
  /\ value = 0 /\ held = {} /\ dragged = FALSE /\ late = FALSE

(* A finger may be before the track, on it, or beyond it.                  *)
VolumeNext ==
  \/ GoOptions \/ PlayGame \/ GoLeaderBoard \/ GoMenu \/ Back
  \/ FindView \/ Tilt \/ TransitionEnds \/ Free \/ Hold
  \/ \E p \in heard : TrackEnds(p)
  \/ \E which \in held : Release(which)
  \/ \E x \in (-1)..(Width + 1) : Drag(x) \/ DragLeft(x)

VolumeSpec == VolumeInit /\ [][VolumeNext]_volumeVars
-----------------------------------------------------------------------------
(* The slider and the key stay on the track, wherever the finger is.       *)
VolumeTypeOK ==
  /\ isGyroAvailable \in BOOLEAN /\ tilting \in BOOLEAN
  /\ stored \in Track \cup {NoKey}
  /\ screen \in Screens /\ leaving \in SUBSET (Screens \ {"leaderboard"})
  /\ volume \in Floats /\ read \in BOOLEAN
  /\ heard \in SUBSET Players
  /\ value \in Track
  /\ held \in SUBSET {"shown", "left"}
  /\ dragged \in BOOLEAN /\ late \in BOOLEAN

(* All the music that is heard plays at the volume that the key holds, as  *)
(* a Float, or at 1.0, unless the key was set after the player had read it *)
(* and one of these is true: the options are open over the player's menu;  *)
(* the menu is about to be freed; an old slider was dragged during the     *)
(* transition, past the new menu; or, with a gyroscope only, the timer of  *)
(* a game holds the menu, and this music goes on at its old volume         *)
(* whatever the player sets.                                               *)
MusicAtStoredVolume ==
  \A p \in heard :
    p.volume # StoredVolume =>
      /\ p.stale
      /\ \/ p.holder \in {"options", "leaving"}
         \/ p.holder = "timer" /\ isGyroAvailable
         \/ late

(* The slider shows the key: exactly once it was dragged, otherwise up to  *)
(* one conversion to Float, however often the options were opened before.  *)
(* Without a player it opens at 0.5, whatever the key holds.               *)
SliderShowsStored ==
  screen = "options" /\ ~late =>
    /\ dragged => value = stored
    /\ ~dragged => value = IF read THEN StoredVolume ELSE Width \div 2

(* A visit to the options without a finger on a slider leaves the key      *)
(* alone, also when the slider opened at a volume that is not the key's.   *)
OnlyFingersStore == [][stored' # stored => held # {}]_volumeVars
=============================================================================
