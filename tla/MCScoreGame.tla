---------------------------- MODULE MCScoreGame ----------------------------
(* The scoring screen for TLC. *)
EXTENDS ScoreGame
=============================================================================
