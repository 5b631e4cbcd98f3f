----------------------------- MODULE ActionPlan -----------------------------
(***************************************************************************)
(* What an ActionQueue promises its two users: a queue of actions that the *)
(* robot takes one by one and that the policy either replaces by the rest  *)
(* of a new chunk (RTC) or extends by a whole one.  An action is its label *)
(* in the motion planned, and a chunk is a run of consecutive labels.      *)
(***************************************************************************)
EXTENDS Integers, Sequences

CONSTANT ChunkSize

VARIABLES
  enabled,    \* RTC is enabled
  remaining,  \* the actions still to be taken
  last        \* the action the robot has taken last, -1 before the first

planVars == <<enabled, remaining, last>>

Consecutive(actions) ==
  \A i \in 1..(Len(actions) - 1) : actions[i + 1] = actions[i] + 1

Init == enabled \in BOOLEAN /\ remaining = <<>> /\ last = -1

Take ==
  /\ remaining # <<>>
  /\ last' = Head(remaining)
  /\ remaining' = Tail(remaining)
  /\ UNCHANGED enabled

Replace ==
  /\ enabled
  /\ remaining' \in Seq(Nat)
  /\ Len(remaining') <= ChunkSize
  /\ Consecutive(remaining')
  /\ UNCHANGED <<enabled, last>>

Extend ==
  /\ ~enabled
  /\ remaining' \in Seq(Nat)
  /\ Len(remaining') = Len(remaining) + ChunkSize
  /\ \A i \in 1..Len(remaining) : remaining'[i] = remaining[i]
  /\ \A i \in (Len(remaining) + 1)..(Len(remaining') - 1) :
       remaining'[i + 1] = remaining'[i] + 1
  /\ UNCHANGED <<enabled, last>>

Next == Take \/ Replace \/ Extend

Spec == Init /\ [][Next]_planVars
=============================================================================
