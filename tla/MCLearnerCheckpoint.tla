------------------------ MODULE MCLearnerCheckpoint ------------------------
(* LearnerCheckpoint for TLC. *)
EXTENDS LearnerCheckpoint
=============================================================================
