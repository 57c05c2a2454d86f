-------------------------- MODULE MCBoardAccessory --------------------------
(* The accessory on the board, for TLC. *)
EXTENDS BoardAccessory
=============================================================================
