----------------------------- MODULE MCFireAlarm -----------------------------
(* One hot level and one gate for TLC. *)
EXTENDS FireAlarm
=============================================================================
