-------------------------- MODULE MCKTGameHistory ---------------------------
(* The instances of MCKTGame, with the history variable. *)
EXTENDS MCKTGame, KTGameHistory
=============================================================================
