------------------------------ MODULE MCBeacon ------------------------------
(* The instance of Beacon for TLC. *)
EXTENDS MCHorst, Beacon
=============================================================================
