------------------------------ MODULE Ranking -------------------------------
(***************************************************************************)
(* The ranking: UpdateRanking of PlayScene keeps the three best scores     *)
(* under three keys of UserDefaults, LeaderboardsScene copies them into    *)
(* its labels when it appears.  Position 1 stands for "rankingFirst", 2    *)
(* for "rankingSecond", 3 for "rankingThird"; a key that was never set     *)
(* reads 0.                                                                *)
(*                                                                         *)
(* UserDefaults changes in memory at once and is saved, in the order of    *)
(* the calls, some time later; the process may die at any time.            *)
(***************************************************************************)
EXTENDS Integers, Sequences, FiniteSets

CONSTANTS
  Scores,    (* the scores games end with; they may be negative            *)
  MaxGames,  (* bound on the games finished                                *)
  MayCrash   (* whether the process may die                                *)

ASSUME RankingAssumption ==
  Scores \subseteq Int /\ MaxGames \in Nat /\ MayCrash \in BOOLEAN

VARIABLES
  defaults,  (* the three keys, as this process reads them                 *)
  unsaved,   (* the states of the keys on their way to the disk            *)
  disk,      (* the three keys, as the next process will read them         *)
  score,     (* score of the game that ended last                          *)
  target,    (* the position UpdateRanking gives to score; 0 when idle     *)
  next,      (* the position it writes next                                *)
  labels,    (* rank1, rank2, rank3 of the last leaderboard shown          *)
  entry,     (* history: defaults when UpdateRanking was called            *)
  games      (* history: scores of the finished games, in order            *)

rankVars == <<defaults, unsaved, disk, score, target, next, labels, entry, games>>

Positions == 1..3
Empty == [p \in Positions |-> 0]

RankingInit ==
  /\ defaults = Empty /\ unsaved = <<>> /\ disk = Empty
  /\ score = 0 /\ target = 0 /\ next = 0
  /\ labels = Empty /\ entry = Empty /\ games = <<>>
-----------------------------------------------------------------------------
(* The branches of UpdateRanking: the first position that score beats.     *)
Beats(s, p) == defaults[p] < s
(* Wrong variant: the comparisons are the wrong way round.                 *)
TargetReversed(s) ==
  IF ~Beats(s, 3) THEN 3 ELSE IF ~Beats(s, 2) THEN 2 ELSE IF ~Beats(s, 1) THEN 1 ELSE 0
(* Wrong variant: the middle branch is missing.                            *)
TargetNoMiddle(s) ==
  IF Beats(s, 1) THEN 1 ELSE IF Beats(s, 3) THEN 3 ELSE 0
Target(s) ==
  IF Beats(s, 1) THEN 1 ELSE IF Beats(s, 2) THEN 2 ELSE IF Beats(s, 3) THEN 3 ELSE 0

(* Wrong variant: the third key is not moved.                              *)
FinishGameSkipsThird(s) ==
  /\ target = 0 /\ Len(games) < MaxGames
  /\ score' = s
  /\ target' = Target(s)
  /\ next' = IF Target(s) = 0 THEN 0 ELSE 2
  /\ entry' = defaults
  /\ games' = IF Target(s) = 0 THEN Append(games, s) ELSE games
  /\ UNCHANGED <<defaults, unsaved, disk, labels>>
(* A game ends: UpdateRanking is called and picks its branch.              *)
FinishGame(s) ==
  /\ target = 0 /\ Len(games) < MaxGames
  /\ score' = s
  /\ target' = Target(s)
  /\ next' = IF Target(s) = 0 THEN 0 ELSE 3
  /\ entry' = defaults
  /\ games' = IF Target(s) = 0 THEN Append(games, s) ELSE games
  /\ UNCHANGED <<defaults, unsaved, disk, labels>>

(* Wrong variant: the score is written before the others move down.        *)
WrittenTopDown ==
  LET p == target + 3 - next
  IN [defaults EXCEPT ![p] = IF p = target THEN score ELSE defaults[p - 1]]
(* Wrong variant: the score is added to the entry it replaces.             *)
WrittenAdding ==
  [defaults EXCEPT ![next] = IF next = target THEN @ + score ELSE defaults[next - 1]]
(* One call of set: from the third key up to the target, each takes the    *)
(* value above it and the target takes the score.                          *)
Written ==
  [defaults EXCEPT ![next] = IF next = target THEN score ELSE defaults[next - 1]]

SetDefault ==
  /\ target # 0
  /\ defaults' = Written
  /\ unsaved' = Append(unsaved, defaults')
  /\ IF next = target
       THEN target' = 0 /\ next' = 0 /\ games' = Append(games, score)
       ELSE next' = next - 1 /\ UNCHANGED <<target, games>>
  /\ UNCHANGED <<disk, score, labels, entry>>

Save ==
  /\ unsaved # <<>>
  /\ disk' = Head(unsaved)
  /\ unsaved' = Tail(unsaved)
  /\ UNCHANGED <<defaults, score, target, next, labels, entry, games>>

(* LeaderboardsScene.didMove, on the main queue like UpdateRanking.        *)
ShowRanking ==
  /\ target = 0
  /\ labels' = defaults
  /\ UNCHANGED <<defaults, unsaved, disk, score, target, next, entry, games>>

(* The process dies and is started again.                                  *)
Crash ==
  /\ MayCrash
  /\ defaults' = disk
  /\ unsaved' = <<>>
  /\ target' = 0 /\ next' = 0 /\ labels' = Empty
  /\ UNCHANGED <<disk, score, entry, games>>

RankingNext ==
  \/ \E s \in Scores : FinishGame(s)
  \/ SetDefault \/ Save \/ ShowRanking \/ Crash

RankingSpec == RankingInit /\ [][RankingNext]_rankVars
-----------------------------------------------------------------------------
RankTable == [Positions -> Int]

RankingTypeOK ==
  /\ defaults \in RankTable /\ disk \in RankTable
  /\ labels \in RankTable /\ entry \in RankTable
  /\ unsaved \in Seq(RankTable)
  /\ score \in Int /\ games \in Seq(Int)
  /\ target \in 0..3 /\ next \in 0..3
  /\ target = 0 <=> next = 0
  /\ target <= next

Sorted(r) == r[1] >= r[2] /\ r[2] >= r[3]
Below(r, q) == \A p \in Positions : r[p] <= q[p]

(* Whatever the moment of a crash between the calls of set, the ranking    *)
(* that the next process reads is in order, best first.                    *)
SavedRankingIsSorted == Sorted(disk)

(* A crash between the calls of set never costs a place that was already   *)
(* saved: the order of the calls makes every saved position only grow.     *)
SavedRankingOnlyGrows == [][Below(disk, disk')]_rankVars

(* Every saved entry is the score of a game that ended, even after a torn  *)
(* update (which may repeat one).                                          *)
SavedScoresWereEarned ==
  \A p \in Positions :
    disk[p] = 0 \/ \E i \in DOMAIN games : games[i] = disk[p]

(* A leaderboard on the screen may be out of date but never shows a better *)
(* score than the ranking holds, and is in order.                          *)
LabelsNeverOverstate == Sorted(labels) /\ Below(labels, defaults)

(* Without crashes UpdateRanking implements the table of the three best    *)
(* scores; the table changes when the last key has been set.               *)
Top == INSTANCE TopThree WITH ranks <- IF target = 0 THEN defaults ELSE entry
ImplementsTopThree == Top!TopSpec

(* Without crashes, between two updates the keys hold the three best       *)
(* positive scores of all the games played, ties included.                 *)
HoldsBestGames == target = 0 => Top!HoldsBestGames(defaults, games)
=============================================================================
