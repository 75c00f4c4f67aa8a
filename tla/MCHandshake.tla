----------------------------- MODULE MCHandshake -----------------------------
(* A few runs of the simulator for TLC. *)
EXTENDS Handshake
=============================================================================
