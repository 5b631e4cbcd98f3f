---------------------------- MODULE ActionChunk -----------------------------
(* A chunk of actions, of the length client and server agree on in          *)
(* SendPolicyInstructions.  An action is its timestep.                      *)
EXTENDS Integers

CONSTANT ActionsPerChunk  \* actions in a chunk

ASSUME ChunkAssumption == ActionsPerChunk \in Nat \ {0}

\* The timesteps of the chunk predicted from an observation of timestep t.
ChunkFrom(t) == [i \in 1..ActionsPerChunk |-> t + i - 1]
=============================================================================
