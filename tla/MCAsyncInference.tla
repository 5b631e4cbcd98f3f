-------------------------- MODULE MCAsyncInference --------------------------
(* AsyncInference for TLC. *)
EXTENDS AsyncInference, TLC

CONSTANTS w1, w2

TwoWorkers == {w1, w2}
WorkerSymmetry == Permutations(Workers)
=============================================================================
