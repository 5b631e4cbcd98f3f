--------------------------- MODULE MCPolicyServer ---------------------------
(* PolicyServer for TLC: any number of clients, so any calls in any order. *)
EXTENDS PolicyServer, TLC

CONSTANTS w1, w2, w3

MCWorkers == {w1, w2, w3}
WorkerSymmetry == Permutations(Workers)
=============================================================================
