--------------------------- MODULE MCReplayBuffer ---------------------------
(* ReplayBuffer for TLC: both kinds of storage and both iterators. *)
EXTENDS ReplayBuffer
=============================================================================
