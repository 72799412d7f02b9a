# CardsGame: a TLA+ model of the memory card game

The repository is an iOS game: pairs of cards lie face down, the player turns
two at a time, equal cards are removed, a countdown and the failed tries decide
the score, and the three best scores are kept. The program's own code is the
seven Swift files of `src/CardsGame/CardsGame`; everything under
`src/CardsGame/Pods` is third-party code. There are no tests in the repository.

## Inventory

| Part | State | Operations | What makes it correct |
|---|---|---|---|
| Card deck (`PlayScene.swift` 213-292) | `cardsSequence` | `FillCardSequence`, `ShuffleArray`, `CreateCardboard`, `CreateCard` | two cards of each number in every deal, each on the board once |
| Card table (`PlayScene.swift` 126-195, 294-338, 420-430) | selection, lock, `cardsStatus`, counters, hidden sprites, pending closures | touch of a card, match closure, unmatch closure, frame | a closure finds the pair it was scheduled for; the lock is released; found cards stay found; the counters agree with the board |
| Clock and pause (96-115, 354-401) | `timer`, `lastUpdateTimeInterval`, `firstFrame`, `pauseState`, `pauseTimer` | `update`, `TogglePause` | time played is charged, paused time is not |
| Play scene (`PlayScene.swift`) | the above, `score`, the view, `lastZ` | touches, frames, closures, gyroscope timer, accelerometer handler, `GoMenu`, `GoLeaderBoard` | a solved game is recorded once with the right score; a pause freezes the game; the handler finds a scene that is alive |
| Ranking (`PlayScene.swift` 197-211, `LeaderboardsScene.swift`) | three keys of `UserDefaults`, three labels | `UpdateRanking`, `LeaderboardsScene.didMove` | the three best scores, best first, also after a crash |
| Menu (`GameScene.swift`) | `difficulty`, `volume`, music player | difficulty buttons, `GoOptions`, `GoLeaderBoard` | the scene asked for is reached; scenes that were left are freed; one track is heard |
| Options (`OptionsScene.swift`, `Slider.swift`) | slider value, key `MUSIC_VOLUME` | drag, back | what the slider shows is what is stored and what the music plays with |
| Application (`AppDelegate.swift`, `GameViewController.swift`) | none of its own | empty life-cycle handlers, first scene, notification setup | the game survives the loss of the foreground |

How the parts interact. Touches, `update`, the closures of
`DispatchQueue.main.asyncAfter` and the gyroscope's `Timer` all run on the main
thread, one at a time, in any order. `SKAction.hide()` and `unhide()` take
effect when the next frame evaluates them, so what can be touched lags behind
what the code has decided. The accelerometer's handler runs on a concurrent
queue of its own and holds the scene weakly. `presentScene`
keeps the old scene's view until the transition has ended.
The closures hold the scene, so they run even after it has left the screen and
may then still write the ranking. `UserDefaults` is changed in memory and saved
later. The scenes never return to each other: every way back creates a new menu,
with a music player of its own that reads the volume from `UserDefaults`. A
scene is freed when the view, the closures, the gyroscope's timer and the
`returnScene` of other scenes have all let it go; the timer never does.

Hard behaviours: closures that read shared state 0.75 s or 1.5 s after they
were scheduled; frames that stop while the application is inactive; a pause
between two frames; leaving the scene with a closure pending, or a sample on its
way; a second way out taken during a transition; a process that dies inside
`UpdateRanking`; a date that is set back; a second finger in a scene that is
leaving, on its slider or on a button; players that nothing tells of a new
volume. `PROJECT.json` lists them with their lines.

Dead code: `ResetGame`, `ResetStats` and `stopGyros` are never called, and
`returnScene` is set but never presented. They are not modelled.

## Modules

| Module | Models | Correspondence |
|---|---|---|
| `CardDeck` | filling, shuffling and laying out the cards | `index` is the loop variable of `ShuffleArray`, one `ShuffleStep` is one turn of its loop; the arrays are functions on `0..count-1` |
| `AppState` | whether the view draws | `rendering`: "on", "off" (inactive), "resuming" (active again, before the first frame) |
| `CardTable` | selection, closures, sprites | `EXTENDS CardDeck, AppState`; `SelectFirst`/`SelectSecond` are the two branches of the card loop of `ProcessItemTouch`; the pending closures are counters, since a closure captures nothing but the scene; `backsQueued`/`frontsQueued` are the hidden sprites after the queued actions, `backsHidden`/`frontsHidden` those of the last frame |
| `GameClock` | `update` and `TogglePause` | time in ticks; `now` is the clock of the frames, `Date == now + skew` the one of the debounce |
| `ClockHistory` | `GameClock` on its own with history variables | `started`, `played`, `away`, `toggles`, `toggled` say how the time was spent; here the date may be set |
| `PlayScene` | the scene | composes `CardTable` and `GameClock`; an action is the whole handler: `MatchedPair` is the closure with `UpdateScore`, `CheckIfGameOver`, `UpdateRanking` (the score is appended to `recorded`) and `GoLeaderBoard` |
| `TopThree` | abstract: the table of the three best scores | what the ranking promises |
| `Ranking`, `MCRanking` | `UpdateRanking` call by call, saving, crash, labels | `target` is the branch taken, `next` the key written next; refines `TopThree` |
| `Motion` | the accelerometer's handler | one action per statement (`Test`, `FindView`, `PresentMenu`, `Store`), each worker is a thread of `motionQueue`; `stage` is the scene object, down to "freed" |
| `SceneFlow` | all scenes over several games | `scenes` are the objects created, `current` and `leaving` those with a view, `tilting` the games whose accelerometer handler has found the view, `Alive` those that something holds (the smallest set with the roots that is closed under `returnScene`); a game is reduced to "a pair is open" and "the last pair was settled" |
| `Volume` | slider, key, menu volume and all players that are heard | a volume is a position on the track; a player has its volume and what holds its menu; `stale`, `late` and `dragged` are history |
| `CardDeckProofs`, `CardTableProofs`, `ClockProofs`, `PlaySceneProofs`, `RankingProofs`, `MotionProofs`, `SceneFlowProofs`, `VolumeProofs` | theorems | each extends the module it is about; see "Proofs" |

Definitions called a "wrong variant" are plausible mistakes of the same code;
each shows that one property notices it. They are in no specification.

What is assumed of the platform, from the way the code uses it:

* `arc4random_uniform(n)` returns every value below `n`, and 0 for bounds 0 and 1;
* a hidden node is not found by `atPoint` (otherwise the pause layer would take
  every touch), and queued actions are evaluated by the next frame in order;
  the pause layer is therefore on the screen until the first frame;
* touches reach an application that is active and whose view has drawn since;
* a closure is due long after the frame that follows its touch, provided the
  view draws; while it does not, a closure may run before that frame;
* main-queue closures are all run; they are not bound to the scene's view;
* a leaving scene may still draw, then stops for good, then loses its view;
* `UserDefaults` saves its changes in the order of the calls;
* `presentScene` calls `didMove` of the new scene at once, and touches that
  begin afterwards go to the new scene; a touch that began before stays with its
  scene or slider (the storyboard enables several touches at once) and may end
  while the transition lasts;
* operations of `motionQueue` start in the order of the samples and overlap;
  CoreMotion adds one per sample until the motion manager is gone;
* an `AVAudioPlayer` stops when it is freed, and plays its track once.

Abstractions: numbers stand for the names of the cards and 0 for the empty
string; layout, textures, label texts and printing are left out; samples are
"below", "at" or "above" 0.5. In `PlayScene` the accelerometer's handler is one
atomic step and the date is not set: `Motion` and `ClockHistory` are about
those, and in `SceneFlow` and `Volume` it is two steps, `FindView` and `Tilt`,
one handler at a time for each game. A touch that ends in a scene that is leaving finds
`rendering` "on" in `PlayScene` although that scene may draw no more: between
two touches no frame has to come, and 0.2 s are too short for a closure that
such a touch schedules. In `Volume` the buttons of the menu are touched one at
a time. The gravity that the handler sets acts on no physics body. In
`Volume` the even positions are the volumes that a `Float` holds exactly.

## Runs

| Run | Bounds | Checks |
|---|---|---|
| `CardDeck` | 2x4 cards, 4 pairs, all draws | `PairedDeck`, `BoardHoldsPairs` (the board is not square, so a wrong stride shows), `LastCardNeverHighest` (a bias of the shuffle) |
| `CardDeckComment` | 2x3 | violated: the comment "Random int from 0 to index-1" above the draw; the draw stops at `index-2` |
| `CardTable` | 2x3 cards, 2 failed tries | `LockedWhilePending`, `ClosureFindsItsPair`, `BoardMirrorsState`, `MatchesCountFoundPairs`, `OnlyPairsAreFound`, `LockIsReleased` |
| `ClockHistory` | 8 ticks after start, limit 4, frame gap 2, date up to 2 ahead | `NeverOvercharges`, `ClockTracksPlay`, `PauseIsDelayedByDate` |
| `ClockInactive` | the same | violated: "Games should use this method to pause the game" in `applicationWillResignActive` |
| `RankingCrash` | 3 games, scores -1, 1, 2, 3, crashes | `SavedRankingIsSorted`, `SavedRankingOnlyGrows`, `SavedScoresWereEarned`, `LabelsNeverOverstate` |
| `RankingTopThree` | 4 games, no crash | `HoldsBestGames`, `ImplementsTopThree` |
| `PlayScene` | 2x2 cards, 1 failed try, 3 clock values, 2 menus by touch or accelerometer | `RecordedOnceSolved`, `RecordedScoreIsEarned`, `LeaderboardAfterSolving`, `PauseFreezesGame`, `PairIsSettled`, `ImplementsCardTable` |
| `PlaySceneCast` | the same | violated: the forced cast `as! SKSpriteNode` of `touchesEnded`, by a touch on a label |
| `Motion` | 2 threads, 4 samples | `TimerSparesTheUnwrap`, `MenusAreBounded`, `OnlyHalfLosesTheTilt` |
| `SceneFlow` | 5 scenes, with and without gyroscope | `OneTrackPerTimer`, `LeaderboardShowsItsGame`, `BackIsOvertakenOnlyBySolving`, `LeftGamesAreFreed` |
| `Volume` | track of 5 positions, with and without gyroscope | `MusicAtStoredVolume`, `SliderShowsStored` |

Why the bounds are enough. Three pairs with two failures let a pair be settled
before, between and after failures and let the game be solved; the table is
proved for every board as well. The clock passes the limit, and gives room for
a first frame, several toggles and an absence. Three keys are shifted in all
three branches within three games; the fourth game pushes a score out. In the
scene two pairs let the closure that ends the game be pending while the player
pauses, leaves or loses the foreground. Two threads and four samples let two
handlers overlap, come back below 0.5 and overlap again. Five scenes hold two
whole games with the menus around them, or a game with two menus and a leaderboard
presented during one transition. Five positions hold volumes that a `Float` has and volumes it has not, on both
sides of 0.5. `MaxTries`, `MaxNow`, `MaxGames`, `MaxPresented`, `MaxSamples` and
`MaxScenes` are the only bounds; deadlock is checked everywhere.

Fairness. The turns of the shuffle (`Deal`, `SceneDeal`: a loop on the main
thread), the frames (`Frame`, `SceneFrame`: the display link), the closures (the main queue runs what was
submitted) and, in `SceneFlow`, the end of a transition (it takes 0.2 s) are
weakly fair, and so is the handler that has found the view. Nothing is assumed of the player, the sensors, the clock, or of the
application's return to the foreground.

What the violated runs mean for a player: the last card of the board never has
the highest number; a phone call costs the time it lasts; a tap on the score
ends the application.

What the passing runs say that is not good news, each as the exact limit of what
can go wrong:

* `OneTrackPerTimer` allows one more track for each game played, and that many
  are heard, because the gyroscope's timer holds the game and the game its menu;
  `LeftGamesAreFreed` holds only without a gyroscope.
* `TimerSparesTheUnwrap`: with a gyroscope that same timer is all that keeps
  `(self?.lastZ)!` (`PlayScene.swift` line 82) from unwrapping nil. Without one
  the trap is reached: a game is left while a sample is queued. Stopping the
  timer without changing line 82 would make it reachable on every device.
* `OnlyHalfLosesTheTilt`: threads do not lose a tilt, a sample of exactly 0.5
  does.
* `MenusAreBounded`: a handler that was overtaken by a transition throws the
  player out of the next scene, at most once for each thread.
* `BackIsOvertakenOnlyBySolving`: back, touched with the last pair open, can
  lead to the leaderboard instead of the menu.
* `PauseIsDelayedByDate`: after the date was set back the game cannot be paused,
  or resumed, until that time has passed.
* `LeaderboardAfterSolving`: a tilt, or a second finger on back, covers the
  leaderboard with a menu as long as the transition to it lasts, and a game that
  was left before its last pair was settled shows none.
* `MusicAtStoredVolume`: with a gyroscope the music of every menu that a game was
  started from goes on at the volume of that time, whatever the slider is set to
  later. On every device a drag during the transition is heard from the next
  menu on only. `SliderShowsStored` excepts a missing player, where the slider
  opens at 0.5.

## Proofs

`CardDeckProofs` proves that the boards of the three difficulties are even, have
at least four cards and have their pictures (`EveryDifficultyIsDealt`), and, for
every even board of at least four cards,
`DeckTypeCorrect`, `EveryDealIsPaired` (the swaps keep two cards of each number: the permuted
places of a number's two cards are named explicitly) and `LastCardBias`. The
latter needs that the first turn draws below `LastIndex - 1`, where only lower
numbers lie, and that later turns do not touch the last place.
`BoardShowsEveryPair` adds the layout: `GridIsDeck` shows that the index
`row * cardsPerColumn + column` maps the places of the grid one to one onto the
cards, for every shape of the board, so that the two cards of a number lie on
two places.

`CardTableProofs` proves `TableTypeCorrect`, `LockDiscipline`,
`ClosuresAreSafe`, `BoardIsFaithful`, `FoundInPairs` and
`MatchesAreFoundPairs` from one inductive invariant, `TableIInv`. The
properties alone are not inductive: `SelectionShape` says which selections can
occur (a second card only together with the lock, values that belong to the
selected cards), and `FoundBacksHidden` says that the back of a found card is
hidden now and not only after the next frame. The second is what keeps a found
card from being selected again, and it holds because a match closure is due
after the frame that hid both backs, or touches are not delivered until a frame
was drawn. Each action has its own lemma. The assumptions are those on the
constants (`GridAssumption`, `MaxTriesAssumption`).

`ClockProofs` proves `ClockTypeCorrect`, `NoOvercharge`,
`CountdownTracksPlay` and `PauseDelay` for every time limit, frame gap, debounce
and set of dates. The properties do not say what the next frame will charge, so the
invariant `ClockIInv` bounds the charge together with the time since the last
frame: in a running game that time will be charged and a toggle may lose it, in
a paused one it will not and a toggle may make it count; either costs at most a
frame, or time the view did not draw. The product of toggles and frame gap is
kept opaque as `Slack`. `PauseDelay` needs that the last toggle was dated with
one of the dates that the clock can show (`PauseDated`).

`PlaySceneProofs` proves `SceneImplementsCardTable`: the scene starts as the
table does, and each of its steps is a step of the table or leaves it alone.
So `TableIInv` and the theorems of the table hold of the scene, and the further
invariant `PlayIInv` builds on them: `PlayTypeCorrect`, `RecordedOnce`,
`RecordedIsEarned`, `LeaderboardFollowsSolving` and the action property
`PauseFreezes`. What it adds to the properties is that a recorded score was
computed with a time between the present countdown and the limit (`EarnedAt`);
the countdown never grows, so that stays true of the bounds.
`LeaderboardFollowsSolving` also needs that a scene does not get its view back:
a solved game without a leaderboard was solved without a view. A game is recorded
once because the closure that records it finds all cards found, and a solved
table has no closure left (`SolvedIsQuiet`); that all pairs are paid for is
`MatchesAreFoundPairs`.

`RankingProofs` proves, for any set of scores and any number of games and
crashes, `RankingTypeCorrect`, `SavedRankingStaysSorted`, `SavedScoresAreEarned`,
`LabelsAreModest` and the action property `SavedRankingGrows`. The disk holds
what was once in memory, so the invariant `RankingIInv` is about every state on
the way to it: all of them are in order and earned, and disk, unsaved states and
keys are ordered oldest first (`Ordered`). In the middle of `UpdateRanking` it
says which places have moved down and that the score fits where it will go
(`Shifting`); without it the next call of `set` could break the order.
`RankingImplementsTopThree` and `KeysHoldBestGames` assume `~MayCrash`: a crash
loses unsaved games, and then the three best of all games are not kept. The
abstract table is the ranking that `UpdateRanking` found until its last call of
`set`, which is the step that inserts the score.

`MotionProofs` proves, for any number of threads and samples,
`MotionTypeCorrect` and `UnwrapIsSpared`, where what is kept is that the scene
is never freed, and two theorems that count.

* `TiltIsNotLost`: as long as the scene is on the screen and no sample was 0.5,
  `lastZ` is below and no handler is about to store a sample above, so a sample
  above is with a handler that will present (`TiltIsUnderWay`).
* `MenusStayBounded`: the bound is not inductive, because it does not say which
  threads can still present. `Poised` are those that can before a sample below
  0.5 is stored: all that are not about to store a sample above while `lastZ` is
  below, and else those that have passed the test. The menus and the poised
  threads together stay within `Budget`, a menu per thread for the start and for
  each sample below 0.5 that was stored (`MenusArePaid`). For the late menus it
  is the handlers that have found the view (`LateIsPaid`).

`SceneFlowProofs` proves `FlowTypeCorrect`, `TracksAreBounded`,
`LeaderboardIsCurrent` and `BackIsOvertakenOnce` for any number of scenes, from
the invariant `FlowIInv`. `TracksAreBounded` rests on `ReturnsEndAtMenus`: a
`returnScene` is a menu and a menu has none, so what lives are the roots and
what they refer to directly (`AliveThroughOneLink`), and the menus among these
are counted by the timers and the scene on the screen. The leaderboards need
that no closure is pending in a game that is ranked, and that a game with a
leaderboard is ranked (`RankedWhenSolved`). One lemma, `PresentKeeps`, says what
a scene must satisfy when it is presented; each handler is shown to present such
a scene.

`VolumeProofs` proves `VolumeTypeCorrect`, `MusicFollowsTheKey`,
`SliderFollowsTheKey` and the action property `VisitsStoreNothing` for every
width of the slider. `MusicFollowsTheKey` needs to know who can overtake a
player: one that nobody has overtaken has the volume of the key
(`FreshAtStored`), what a scene holds is held by the scene on the screen
(`OnScreen`), so a drag in the options reaches no player of a menu or a game on
the screen, and such a player is overtaken by an old slider only
(`StaleIsLate`). `MenuVolume` says where the next slider will open.

The further assumptions, all on constants, are `ClockAssumption`,
`SkewsAssumption`, `PlayAssumption`, `RankingAssumption`, `MotionAssumption`
(finitely many threads), `FlowAssumption` and `WidthAssumption`. The inductive
invariants have been checked with TLC on small instances, too.

`NoIndexTrap`, `FoundNeverSelected`, `MotionTypeOK` and `OnlyFingersStore` are
established by proof alone and belong to no run.

Only model-checked: the liveness properties `LockIsReleased`, `PairIsSettled`
and `LeftGamesAreFreed`, because fairness is beyond the prover. Every invariant,
every action property and both refinements that a passing run checks are proved
as well.

## Not modelled

* `src/CardsGame/Pods`: BoringSSL, gRPC, Firebase, leveldb, nanopb, Protobuf and
  others. This is nearly all of the repository's text, but it is third-party
  code in fixed versions; the program calls `FirebaseApp.configure()` and sets
  the delegate of `Messaging`, and none of its behaviour depends on them. The
  project is about the 1100 lines of Swift that are the program.
* Notification and Firebase setup in `AppDelegate`: configuration of services,
  no state of the program; the notification handlers only print and complete.
* Drawing and layout, texts, printing.
* Dead code: `ResetGame`, `ResetStats`, `stopGyros`, the slider of
  `LeaderboardsScene`, the code that is commented out.

## Plan

1. *Done*: all parts of the program that keep state are modelled.
2. *Done*: every safety property of the passing runs is proved, with the
   refinement of `TopThree` by the ranking and of `CardTable` by the scene.
3. Open: the liveness properties stay with TLC. Worth stating next is how the
   separate models meet: that the games of `SceneFlow` behave as `PlayScene`
   does seen from outside.
