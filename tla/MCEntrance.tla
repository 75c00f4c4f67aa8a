------------------------------ MODULE MCEntrance ------------------------------
(* One entrance and one car for TLC. *)
EXTENDS Entrance
=============================================================================
