----------------------------- MODULE MCLeKiwiHost -----------------------------
(* The host of the mobile base with its camera, for TLC. *)
EXTENDS LeKiwiHost
=============================================================================
