------------------------------ MODULE TopThree ------------------------------
(***************************************************************************)
(* What the ranking promises: after every finished game it holds the three *)
(* best positive scores of all games, best first, and zeros where there    *)
(* are fewer.                                                              *)
(***************************************************************************)
EXTENDS Integers, Sequences, FiniteSets

CONSTANT Scores  (* the scores games end with                              *)

VARIABLES
  ranks,  (* ranks[1] is the best score                                    *)
  games   (* the scores of the games finished so far                       *)

Larger(a, b)  == IF a < b THEN b ELSE a
Smaller(a, b) == IF a < b THEN a ELSE b

Record(s) ==
  /\ games' = Append(games, s)
  /\ ranks' = [p \in 1..3 |->
                 IF p = 1 THEN Larger(ranks[1], s)
                          ELSE Larger(ranks[p], Smaller(ranks[p - 1], s))]

TopInit == ranks = [p \in 1..3 |-> 0] /\ games = <<>>
TopNext == \E s \in Scores : Record(s)
TopSpec == TopInit /\ [][TopNext]_<<ranks, games>>

AtLeast(f, v) == Cardinality({i \in DOMAIN f : f[i] >= v})

(* For every positive score v, the ranking holds as many entries of v or   *)
(* more as there were games with v or more, up to three.                   *)
HoldsBestGames(r, scores) ==
  \A v \in {scores[i] : i \in DOMAIN scores} \cup {r[p] : p \in 1..3} :
    v > 0 => AtLeast(r, v) = Smaller(3, AtLeast(scores, v))
=============================================================================
