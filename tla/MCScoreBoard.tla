--------------------------- MODULE MCScoreBoard ---------------------------
(***************************************************************************)
(* The instance of ScoreBoard for TLC is given by its configuration.       *)
(***************************************************************************)
EXTENDS ScoreBoard
=============================================================================
