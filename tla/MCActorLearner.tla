--------------------------- MODULE MCActorLearner ---------------------------
(* ActorLearner for TLC. *)
EXTENDS ActorLearner
=============================================================================
