------------------------- MODULE MCRecordingSession -------------------------
(* RecordingSession for TLC: every configuration of cameras and controllers. *)
EXTENDS RecordingSession
=============================================================================
