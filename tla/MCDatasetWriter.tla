--------------------------- MODULE MCDatasetWriter ---------------------------
(* DatasetWriter for TLC: both ways to make videos. *)
EXTENDS DatasetWriter
=============================================================================
