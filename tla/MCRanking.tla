----------------------------- MODULE MCRanking ------------------------------
(* Instances of Ranking for TLC: a negative score, and scores that tie.    *)
EXTENDS Ranking

MCScores == {-1, 1, 2, 3}
=============================================================================
