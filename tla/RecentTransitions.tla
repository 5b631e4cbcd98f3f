-------------------------- MODULE RecentTransitions --------------------------
(***************************************************************************)
(* What a replay buffer promises: of the transitions that arrive it holds  *)
(* the last Capacity that were usable, in their order.                     *)
(***************************************************************************)
EXTENDS Naturals, Sequences

CONSTANTS
  Capacity,   \* how many transitions are kept
  Transition  \* the transitions that may arrive, each with its number id and how it ends

VARIABLES
  window,     \* those that are kept
  arrived     \* how many have arrived

Init == window = <<>> /\ arrived = 0

(* The oldest goes when there is no room. *)
Add(t) ==
  /\ t.id = arrived + 1 /\ arrived' = t.id
  /\ window' = Append(IF Len(window) = Capacity THEN Tail(window) ELSE window, t)

Skip == arrived' = arrived + 1 /\ UNCHANGED window

(* Saved and loaded again: why an episode was cut off is forgotten. *)
Reload ==
  /\ window' = [k \in DOMAIN window |->
                  IF window[k].end = "truncated" THEN [window[k] EXCEPT !.end = "no"] ELSE window[k]]
  /\ UNCHANGED arrived

Next == Skip \/ Reload \/ \E t \in Transition : Add(t)

Spec == Init /\ [][Next]_<<window, arrived>>
=============================================================================
