---------------------------- MODULE RobotClient -----------------------------
(***************************************************************************)
(* The robot client, src/lerobot/async_inference/robot_client.py: the main *)
(* thread (start, then the control loop) and the action receiver thread,   *)
(* which share the action queue, latest_action, action_chunk_size and the  *)
(* must_go event.  `ctl' and `rcv' are their program counters; a step ends *)
(* where a lock is released or another shared variable is touched.         *)
(*                                                                         *)
(* A TimedAction is its timestep: what aggregate_fn computes from two      *)
(* actions of one timestep, and timestamps, are left out.  The server is   *)
(* the environment here: it answers GetActions with the chunk predicted    *)
(* from any observation sent so far (AsyncInference puts the real one in   *)
(* its place).                                                             *)
(***************************************************************************)
EXTENDS ActionChunk, Sequences

CONSTANTS
  ThresholdPercent, \* chunk_size_threshold, in percent
  Horizon,          \* bound: no observation is captured from this timestep on
  NoAction          \* no action in the control loop's hands

ASSUME ClientAssumption ==
  /\ ThresholdPercent \in 0..100
  /\ Horizon \in Nat \ {0}
  /\ NoAction \notin Int

VARIABLES
  running,          \* ~shutdown_event.is_set()
  ctl,              \* where the control loop's thread is
  rcv,              \* where the receiver thread is
  actionQueue,      \* self.action_queue: timesteps of the queued actions
  latestAction,     \* self.latest_action
  actionChunkSize,  \* self.action_chunk_size
  mustGo,           \* self.must_go.is_set()
  held,             \* the action taken from the queue and not yet recorded
  observed,         \* timestep of the observation being sent
  flagged,          \* its must_go flag
  incoming,         \* the chunk the receiver is merging
  snapshot,         \* the content of the queue when its iteration began
  cursor,           \* index in `incoming' of the next action to merge
  future,           \* future_action_queue
  executed          \* history: the timesteps executed so far

sharedVars  == <<running, actionQueue, latestAction, actionChunkSize, mustGo, executed>>
controlVars == <<ctl, held, observed, flagged>>
receiveVars == <<rcv, incoming, snapshot, cursor, future>>
clientVars  == <<sharedVars, controlVars, receiveVars>>

Timestep  == Nat
CtlPc     == {"connect", "instruct", "poll", "pop", "act", "ready", "capture",
              "send", "clear", "failed", "stopped"}
RcvPc     == {"off", "loop", "wait", "snapshot", "iterate", "merge", "rearm",
              "dead", "done"}

ClientInit ==
  /\ running = TRUE
  /\ ctl = "connect"
  /\ rcv = "off"
  /\ actionQueue = <<>>
  /\ latestAction = -1
  /\ actionChunkSize = -1
  /\ mustGo = TRUE
  /\ held = NoAction
  /\ observed = 0
  /\ flagged = FALSE
  /\ incoming = <<>>
  /\ snapshot = <<>>
  /\ cursor = 1
  /\ future = <<>>
  /\ executed = {}

-----------------------------------------------------------------------------
(* start(): Ready, SendPolicyInstructions, then both threads pass the      *)
(* barrier.  An RpcError makes start() return False and the program ends.  *)

ReadyAnswered ==
  /\ ctl = "connect"
  /\ ctl' = "instruct"
  /\ UNCHANGED <<sharedVars, held, observed, flagged, receiveVars>>

InstructionsAnswered ==
  /\ ctl = "instruct"
  /\ ctl' = "poll"
  /\ rcv' = "loop"
  /\ UNCHANGED <<sharedVars, held, observed, flagged, incoming, snapshot, cursor, future>>

StartFails ==
  /\ ctl \in {"connect", "instruct"}
  /\ ctl' = "stopped"
  /\ UNCHANGED <<sharedVars, held, observed, flagged, receiveVars>>

-----------------------------------------------------------------------------
(* control_loop: (1) an action, when one is available, (2) an observation, *)
(* when the queue is short enough.                                         *)

Poll ==
  /\ ctl = "poll"
  /\ running
  /\ ctl' = IF actionQueue = <<>> THEN "ready" ELSE "pop"
  /\ UNCHANGED <<sharedVars, held, observed, flagged, receiveVars>>

PopAction ==
  /\ ctl = "pop"
  /\ actionQueue # <<>>
  /\ held' = Head(actionQueue)
  /\ actionQueue' = Tail(actionQueue)
  /\ ctl' = "act"
  /\ UNCHANGED <<running, latestAction, actionChunkSize, mustGo, executed,
                 observed, flagged, receiveVars>>

\* get_nowait() raises when the receiver has swapped in an empty queue since
\* actions_available(); nothing in the control loop catches it.
PopRaisesEmpty ==
  /\ ctl = "pop"
  /\ actionQueue = <<>>
  /\ ctl' = "failed"
  /\ UNCHANGED <<sharedVars, held, observed, flagged, receiveVars>>

\* robot.send_action, then latest_action under its lock.
PerformAction ==
  /\ ctl = "act"
  /\ executed' = executed \cup {held}
  /\ latestAction' = held
  /\ held' = NoAction
  /\ ctl' = "ready"
  /\ UNCHANGED <<running, actionQueue, actionChunkSize, mustGo, observed, flagged,
                 receiveVars>>

SendActionRaises ==
  /\ ctl = "act"
  /\ ctl' = "failed"
  /\ UNCHANGED <<sharedVars, held, observed, flagged, receiveVars>>

\* qsize / action_chunk_size <= threshold; before the first chunk
\* action_chunk_size is -1 and the queue is empty.
QueueIsShort ==
  \/ actionChunkSize < 0
  \/ 100 * Len(actionQueue) <= ThresholdPercent * actionChunkSize

CheckReady ==
  /\ ctl = "ready"
  /\ ctl' = IF QueueIsShort /\ latestAction < Horizon THEN "capture" ELSE "poll"
  /\ UNCHANGED <<sharedVars, held, observed, flagged, receiveVars>>

\* The observation is stamped with the last executed timestep, and must go
\* through processing if must_go is set and no action is left.
CaptureObservation ==
  /\ ctl = "capture"
  /\ observed' = IF latestAction > 0 THEN latestAction ELSE 0
  /\ flagged' = (mustGo /\ actionQueue = <<>>)
  /\ ctl' = "send"
  /\ UNCHANGED <<sharedVars, held, receiveVars>>

\* robot.get_observation() raises: swallowed by control_loop_observation.
CaptureRaises ==
  /\ ctl = "capture"
  /\ ctl' = "poll"
  /\ UNCHANGED <<sharedVars, held, observed, flagged, receiveVars>>

\* SendObservations returns, or fails and the failure is ignored: the
\* control loop does the same either way.
SendReturns ==
  /\ ctl = "send"
  /\ ctl' = IF flagged THEN "clear" ELSE "poll"
  /\ observed' = 0
  /\ UNCHANGED <<sharedVars, held, flagged, receiveVars>>

ClearMustGo ==
  /\ ctl = "clear"
  /\ mustGo' = FALSE
  /\ flagged' = FALSE
  /\ ctl' = "poll"
  /\ UNCHANGED <<running, actionQueue, latestAction, actionChunkSize, executed,
                 held, observed, receiveVars>>

\* The operator interrupts the control loop, or an exception escaped it:
\* client.stop() sets shutdown_event and closes the channel.
Stop ==
  /\ ctl \in {"failed", "poll"}
  /\ running' = FALSE
  /\ ctl' = "stopped"
  /\ UNCHANGED <<actionQueue, latestAction, actionChunkSize, mustGo, executed,
                 held, observed, flagged, receiveVars>>

-----------------------------------------------------------------------------
(* receive_actions.                                                        *)

CallGetActions ==
  /\ rcv = "loop"
  /\ running
  /\ rcv' = "wait"
  /\ UNCHANGED <<sharedVars, controlVars, incoming, snapshot, cursor, future>>

ReceiverEnds ==
  /\ rcv = "loop"
  /\ ~running
  /\ rcv' = "done"
  /\ UNCHANGED <<sharedVars, controlVars, incoming, snapshot, cursor, future>>

\* Empty, or an RpcError: call again.
ReceiveNothing ==
  /\ rcv = "wait"
  /\ rcv' = "loop"
  /\ UNCHANGED <<sharedVars, controlVars, incoming, snapshot, cursor, future>>

Larger(a, b) == IF a > b THEN a ELSE b

\* Variant: action_chunk_size adds up.
ReceiveAndAddSize(chunk) ==
  /\ rcv = "wait"
  /\ incoming' = chunk
  /\ actionChunkSize' = actionChunkSize + Len(chunk)
  /\ rcv' = "snapshot"
  /\ UNCHANGED <<running, actionQueue, latestAction, mustGo, executed, controlVars,
                 snapshot, cursor, future>>

ReceiveChunk(chunk) ==
  /\ rcv = "wait"
  /\ incoming' = chunk
  /\ actionChunkSize' = Larger(actionChunkSize, Len(chunk))
  /\ rcv' = "snapshot"
  /\ UNCHANGED <<running, actionQueue, latestAction, mustGo, executed, controlVars,
                 snapshot, cursor, future>>

\* _aggregate_action_queues takes the reference to the queue's deque under
\* the lock and begins to iterate over it after the lock is released.
BeginIteration ==
  /\ rcv = "snapshot"
  /\ snapshot' = actionQueue
  /\ rcv' = "iterate"
  /\ UNCHANGED <<sharedVars, controlVars, incoming, cursor, future>>

EndIteration ==
  /\ rcv = "iterate"
  /\ snapshot = actionQueue
  /\ snapshot' = <<>>
  /\ cursor' = 1
  /\ future' = <<>>
  /\ rcv' = "merge"
  /\ UNCHANGED <<sharedVars, controlVars, incoming>>

\* "deque mutated during iteration": the control loop has taken an action
\* meanwhile.  Only RpcError is caught, so the RuntimeError ends the thread.
IterationRaises ==
  /\ rcv = "iterate"
  /\ snapshot # actionQueue
  /\ snapshot' = <<>>
  /\ rcv' = "dead"
  /\ UNCHANGED <<sharedVars, controlVars, incoming, cursor, future>>

\* Variant: off by one, the action after the latest one is dropped too.
MergeAfterNext ==
  /\ rcv = "merge"
  /\ cursor \in 1..Len(incoming)
  /\ future' = IF incoming[cursor] <= latestAction + 1
                 THEN future ELSE Append(future, incoming[cursor])
  /\ cursor' = cursor + 1
  /\ UNCHANGED <<sharedVars, controlVars, rcv, incoming, snapshot>>

\* Each incoming action is compared with the latest_action of that moment.
MergeAction ==
  /\ rcv = "merge"
  /\ cursor \in 1..Len(incoming)
  /\ future' = IF incoming[cursor] <= latestAction
                 THEN future ELSE Append(future, incoming[cursor])
  /\ cursor' = cursor + 1
  /\ UNCHANGED <<sharedVars, controlVars, rcv, incoming, snapshot>>

\* Variant: the merged actions are appended to the queue.
ExtendQueue ==
  /\ rcv = "merge"
  /\ cursor > Len(incoming)
  /\ actionQueue' = actionQueue \o future
  /\ future' = <<>>
  /\ cursor' = 1
  /\ incoming' = <<>>
  /\ rcv' = "rearm"
  /\ UNCHANGED <<running, latestAction, actionChunkSize, mustGo, executed,
                 controlVars, snapshot>>

SwapQueue ==
  /\ rcv = "merge"
  /\ cursor > Len(incoming)
  /\ actionQueue' = future
  /\ future' = <<>>
  /\ cursor' = 1
  /\ incoming' = <<>>
  /\ rcv' = "rearm"
  /\ UNCHANGED <<running, latestAction, actionChunkSize, mustGo, executed,
                 controlVars, snapshot>>

\* Variant: must_go is not set again after a chunk.
ForgetMustGo ==
  /\ rcv = "rearm"
  /\ rcv' = "loop"
  /\ UNCHANGED <<sharedVars, controlVars, incoming, snapshot, cursor, future>>

SetMustGo ==
  /\ rcv = "rearm"
  /\ mustGo' = TRUE
  /\ rcv' = "loop"
  /\ UNCHANGED <<running, actionQueue, latestAction, actionChunkSize, executed,
                 controlVars, incoming, snapshot, cursor, future>>

-----------------------------------------------------------------------------
\* Steps of the two threads that no other process takes part in.
ControlStep ==
  \/ Poll \/ PopAction \/ PopRaisesEmpty \/ PerformAction
  \/ CheckReady \/ CaptureObservation \/ ClearMustGo

ReceiverStep ==
  \/ CallGetActions \/ ReceiverEnds \/ BeginIteration \/ EndIteration
  \/ IterationRaises \/ MergeAction \/ SwapQueue \/ SetMustGo

DeviceFails == SendActionRaises \/ CaptureRaises

\* The timesteps an observation may have carried: 0, or what was latest_action
\* once (below the bound).
Observable == {0} \cup {t \in executed : t < Horizon}

\* The server, seen from here: its chunks start at the timestep of an
\* observation.
ServerAnswers ==
  \/ ReadyAnswered \/ InstructionsAnswered \/ StartFails
  \/ SendReturns \/ ReceiveNothing
  \/ \E t \in Observable : ReceiveChunk(ChunkFrom(t))

ClientNext == ControlStep \/ ReceiverStep \/ DeviceFails \/ Stop \/ ServerAnswers

ClientSpec == ClientInit /\ [][ClientNext]_clientVars
-----------------------------------------------------------------------------
(* Properties.                                                             *)

\* Every attribute and local has its type; the locals of the merge are in
\* use only where _aggregate_action_queues is.
ClientTypeOK ==
  /\ running \in BOOLEAN
  /\ ctl \in CtlPc
  /\ rcv \in RcvPc
  /\ actionQueue \in Seq(Timestep)
  /\ latestAction \in Timestep \cup {-1}
  /\ actionChunkSize \in {-1, ActionsPerChunk}
  /\ mustGo \in BOOLEAN
  /\ held \in Timestep \cup {NoAction}
  /\ observed \in Timestep
  /\ flagged \in BOOLEAN
  /\ incoming \in Seq(Timestep)
  /\ snapshot \in Seq(Timestep)
  /\ cursor \in Nat \ {0}
  /\ future \in Seq(Timestep)
  /\ executed \in SUBSET Timestep
  /\ ctl = "act" => held \in Timestep

\* The robot never jumps over a part of its plan: before a timestep is
\* executed every earlier one has been, whatever chunks overlap, arrive late
\* or are merged while the control loop goes on taking actions.
NoTimestepSkipped == \A t \in executed : 0..t \subseteq executed

\* _aggregate_action_queues discards what it does not merge, so the unbounded
\* Queue() never holds more than one chunk, and the ratio compared with
\* chunk_size_threshold stays in [0, 1].
QueueWithinChunk == actionQueue # <<>> => Len(actionQueue) <= actionChunkSize

\* The queue is merged action by action against a moving latest_action, yet
\* its timesteps are always in order and without repetition.
QueueInOrder ==
  \A i, j \in 1..Len(actionQueue) : i < j => actionQueue[i] < actionQueue[j]

\* What is queued after any merge is an ordered part of one chunk, although the
\* queue has no bound and chunks overlap and arrive late.
OneChunk == QueueWithinChunk /\ QueueInOrder
=============================================================================
