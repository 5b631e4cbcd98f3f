--------------------------- MODULE RTCActionQueue ---------------------------
(***************************************************************************)
(* The queue of real-time chunking, src/lerobot/policies/rtc/              *)
(* action_queue.py, between the two threads that use it (examples/rtc/     *)
(* eval_with_real_robot.py): get_actions asks the policy for chunks and    *)
(* merges them, actor_control takes actions, interpolates                  *)
(* (action_interpolator.py) and sends them to the robot.                   *)
(*                                                                         *)
(* An action is its label, its place in the motion the policy plans.  A    *)
(* chunk continues the left-over it was predicted with: it is labelled     *)
(* from the first action of the left-over on.  Commands are labels times   *)
(* Multiplier, so that interpolated commands are integers.                 *)
(***************************************************************************)
EXTENDS Integers, Sequences

CONSTANTS
  ChunkSize,   \* actions in a chunk
  Threshold,   \* action_queue_size_to_get_new_actions
  MaxDelay,    \* bound: the longest inference delay, in actions
  Multiplier,  \* interpolation_multiplier
  Horizon,     \* bound: no inference begins once this many actions are taken,
               \* or the next one would be as far in the plan
  None

ASSUME QueueAssumption ==
  /\ ChunkSize \in Nat \ {0}
  /\ Threshold \in Nat
  /\ MaxDelay \in Nat
  /\ Multiplier \in Nat \ {0}
  /\ Horizon \in Nat
  /\ None \notin Int
  /\ None \notin Seq(Int)

VARIABLES
  enabled,        \* cfg.enabled
  shutdown,       \* shutdown_event.is_set()
  queue,          \* self.queue, None before the first chunk
  originalQueue,  \* self.original_queue
  lastIndex,      \* self.last_index
  prod,           \* where get_actions is
  indexBefore,    \* action_index_before_inference
  anchor,         \* label of the first action of the chunk being predicted
  prev,           \* the interpolator's _prev
  buffer,         \* its _buffer
  bufferIndex,    \* its _idx
  act,            \* where actor_control is
  sent,           \* the last command sent to the robot
  last,           \* history: the action taken last, -1 before the first
  count,          \* history: how many have been taken
  late,           \* history: by how many actions merges since then fell short
  back            \* history: late when the action taken last was taken

queueVars == <<queue, originalQueue, lastIndex>>
prodVars  == <<prod, indexBefore, anchor>>
actorVars == <<prev, buffer, bufferIndex, act, sent, last, count, back>>
vars      == <<enabled, shutdown, queueVars, prodVars, actorVars, late>>

Init ==
  /\ enabled \in BOOLEAN
  /\ shutdown = FALSE
  /\ queue = None /\ originalQueue = None /\ lastIndex = 0
  /\ prod = "poll" /\ indexBefore = 0 /\ anchor = 0
  /\ prev = None /\ buffer = <<>> /\ bufferIndex = 0
  /\ act = "loop" /\ sent = None
  /\ last = -1 /\ count = 0 /\ late = 0 /\ back = 0

-----------------------------------------------------------------------------
(* ActionQueue.                                                            *)

qsize == IF queue = None THEN 0 ELSE Len(queue) - lastIndex

\* What is left of a queue from last_index on.
LeftOver(q) == SubSeq(q, lastIndex + 1, Len(q))

\* Variant: the first actions of the chunk are kept.
ReplaceWhole(chunk, delay) ==
  /\ originalQueue' = chunk
  /\ queue' = chunk
  /\ lastIndex' = 0

\* Variant: last_index is not reset.
ReplaceKeepsIndex(chunk, delay) ==
  /\ originalQueue' = SubSeq(chunk, delay + 1, Len(chunk))
  /\ queue' = SubSeq(chunk, delay + 1, Len(chunk))
  /\ UNCHANGED lastIndex

\* _replace_actions_queue
Replace(chunk, delay) ==
  LET clamped == IF delay < Len(chunk) THEN delay ELSE Len(chunk)
  IN  /\ originalQueue' = SubSeq(chunk, clamped + 1, Len(chunk))
      /\ queue' = SubSeq(chunk, clamped + 1, Len(chunk))
      /\ lastIndex' = 0

\* Variant: the consumed actions stay in the queue.
AppendToAll(chunk) ==
  /\ originalQueue' = IF queue = None THEN chunk ELSE originalQueue \o chunk
  /\ queue' = IF queue = None THEN chunk ELSE queue \o chunk
  /\ lastIndex' = 0

\* _append_actions_queue
Extend(chunk) ==
  /\ originalQueue' = IF queue = None THEN chunk ELSE LeftOver(originalQueue \o chunk)
  /\ queue' = IF queue = None THEN chunk ELSE LeftOver(queue \o chunk)
  /\ lastIndex' = 0

-----------------------------------------------------------------------------
(* get_actions.                                                            *)

Limit == IF enabled THEN Threshold ELSE 0

\* The label a chunk predicted now begins with.
NextLabel ==
  IF qsize > 0 THEN originalQueue[lastIndex + 1] ELSE last + 1

PlanDone == count >= Horizon \/ NextLabel >= Horizon

\* Variant: strictly below the limit.
BeginBelowLimit ==
  /\ prod = "poll"
  /\ ~shutdown
  /\ qsize < Limit
  /\ ~PlanDone
  /\ prod' = "index"
  /\ UNCHANGED <<enabled, shutdown, queueVars, indexBefore, anchor, actorVars, late>>

\* qsize() takes no lock; only this thread changes the length.
BeginInference ==
  /\ prod = "poll"
  /\ ~shutdown
  /\ qsize <= Limit
  /\ ~PlanDone
  /\ prod' = "index"
  /\ UNCHANGED <<enabled, shutdown, queueVars, indexBefore, anchor, actorVars, late>>

EndProducer ==
  /\ prod = "poll"
  /\ shutdown
  /\ prod' = "done"
  /\ UNCHANGED <<enabled, shutdown, queueVars, indexBefore, anchor, actorVars, late>>

\* get_action_index(), without the lock
ReadIndex ==
  /\ prod = "index"
  /\ indexBefore' = lastIndex
  /\ prod' = "leftover"
  /\ UNCHANGED <<enabled, shutdown, queueVars, anchor, actorVars, late>>

\* get_left_over(), a critical section of its own
ReadLeftOver ==
  /\ prod = "leftover"
  /\ anchor' = NextLabel
  /\ prod' = "observe"
  /\ UNCHANGED <<enabled, shutdown, queueVars, indexBefore, actorVars, late>>

\* robot.get_observation(); for a policy with relative actions the left-over is
\* then read a second time and re-anchored to the observed state.
Observe ==
  /\ prod = "observe"
  /\ anchor' \in {anchor, NextLabel}
  /\ prod' = "infer"
  /\ UNCHANGED <<enabled, shutdown, queueVars, indexBefore, actorVars, late>>

\* An exception ends the thread (and not the program).
InferenceFails ==
  /\ prod \in {"observe", "infer"}
  /\ prod' = "dead"
  /\ UNCHANGED <<enabled, shutdown, queueVars, indexBefore, anchor, actorVars, late>>

PredictedChunk == [i \in 1..ChunkSize |-> anchor + i - 1]

\* real_delay is the latency since before ReadIndex in control periods, rounded
\* up: at least one.  Nothing ties it to the number of actions taken meanwhile.
\* The latency is read before merge() waits for the lock, and the actor sleeps a
\* little less than a period, so it may have taken more.
Delays == 1..MaxDelay

indexes_diff == lastIndex - indexBefore

\* By how much a delay falls short of the actions taken: what
\* _check_and_resolve_delays warns of, and lets pass.
Shortfall(delay) == IF indexes_diff > delay THEN indexes_diff - delay ELSE 0

Merge ==
  /\ prod = "infer"
  /\ IF enabled
       THEN \E delay \in Delays : /\ Replace(PredictedChunk, delay)
                                  /\ late' = late + Shortfall(delay)
       ELSE Extend(PredictedChunk) /\ UNCHANGED late
  /\ prod' = "poll"
  /\ indexBefore' = 0
  /\ anchor' = 0
  /\ UNCHANGED <<enabled, shutdown, actorVars>>

-----------------------------------------------------------------------------
(* actor_control.                                                          *)

needs_new_action == bufferIndex >= Len(buffer)

\* Variant: interpolates from the new action.
InterpolationFromNew(action) ==
  IF Multiplier > 1 /\ prev # None
    THEN [i \in 1..Multiplier |-> action * Multiplier + i * (prev - action)]
    ELSE <<action * Multiplier>>

\* add(): the commands on the way from the previous action to this one.
Interpolation(action) ==
  IF Multiplier > 1 /\ prev # None
    THEN [i \in 1..Multiplier |-> prev * Multiplier + i * (action - prev)]
    ELSE <<action * Multiplier>>

\* get() returns an action, add() puts it into the interpolator, and the
\* interpolator gives the first command.
GetAction ==
  /\ act = "loop"
  /\ ~shutdown
  /\ needs_new_action
  /\ queue # None /\ lastIndex < Len(queue)
  /\ LET action == queue[lastIndex + 1]
     IN  /\ last' = action
         /\ buffer' = Interpolation(action)
         /\ prev' = action
  /\ count' = count + 1
  /\ back' = late
  /\ late' = 0
  /\ lastIndex' = lastIndex + 1
  /\ bufferIndex' = 1
  /\ UNCHANGED <<enabled, shutdown, queue, originalQueue, prodVars>>

\* The interpolator has a command left.
GetCommand ==
  /\ act = "loop"
  /\ ~shutdown
  /\ ~needs_new_action
  /\ bufferIndex' = bufferIndex + 1
  /\ UNCHANGED <<enabled, shutdown, queueVars, prodVars, prev, buffer, last, count, back, late>>

Take        == GetAction /\ sent' = buffer'[bufferIndex'] /\ UNCHANGED act
Interpolate == GetCommand /\ sent' = buffer'[bufferIndex'] /\ UNCHANGED act

\* The processor or the robot raises, before or after the command took effect.
\* That ends the thread (and not the program).
ActorFails ==
  /\ GetAction \/ GetCommand
  /\ sent' \in {sent, buffer'[bufferIndex']}
  /\ act' = "dead"

EndActor ==
  /\ act = "loop"
  /\ shutdown
  /\ act' = "done"
  /\ UNCHANGED <<enabled, shutdown, queueVars, prodVars, late>>
  /\ UNCHANGED <<prev, buffer, bufferIndex, sent, last, count, back>>

\* The main thread's time is up, or a signal arrives.
ShutDown ==
  /\ ~shutdown
  /\ shutdown' = TRUE
  /\ UNCHANGED <<enabled, queueVars, prodVars, actorVars, late>>

-----------------------------------------------------------------------------
ProducerStep == BeginInference \/ EndProducer \/ ReadIndex \/ ReadLeftOver
                  \/ Observe \/ Merge
ActorStep    == Take \/ Interpolate \/ EndActor

Next == ProducerStep \/ ActorStep \/ InferenceFails \/ ActorFails \/ ShutDown

Spec == Init /\ [][Next]_vars

\* Both threads run; nothing is assumed of failures and of the shutdown.  The actor
\* looks at the queue every control period, so it does not miss for ever a queue
\* that is emptied again only by a chunk whose delay was that many periods.
FairSpec == Spec /\ WF_vars(ProducerStep) /\ WF_vars(ActorStep) /\ SF_vars(Take)

-----------------------------------------------------------------------------
(* Properties.                                                             *)

\* The attributes of the queue and of the interpolator have their types, and
\* last_index stays within the queue, so that qsize() is never negative.
TypeOK ==
  /\ enabled \in BOOLEAN
  /\ shutdown \in BOOLEAN
  /\ queue \in Seq(Nat) \cup {None}
  /\ originalQueue \in Seq(Nat) \cup {None}
  /\ lastIndex \in Nat
  /\ IF queue = None THEN lastIndex = 0 ELSE lastIndex <= Len(queue)
  /\ prod \in {"poll", "index", "leftover", "observe", "infer", "dead", "done"}
  /\ indexBefore \in Nat
  /\ anchor \in Nat
  /\ prev \in Nat \cup {None}
  /\ buffer \in Seq(Int)
  /\ bufferIndex \in 0..Len(buffer)
  /\ act \in {"loop", "dead", "done"}
  /\ sent \in Int \cup {None}
  /\ last \in Nat \cup {-1}
  /\ count \in Nat
  /\ late \in Nat
  /\ back \in Nat

\* original_queue, from which the left-over is cut for RTC, and queue, which the
\* robot follows, stay in step through every replace, append and get.
QueuesAligned == originalQueue = queue

\* Actions are taken in the order of the plan and none twice, although index and
\* left-over are read in separate critical sections and the actor goes on taking
\* actions during inference.  Only a merge whose delay was less than the actions
\* taken leads back, and by no more than it fell short.
NeverBackwards == [][count' # count => last' > last - late]_vars

\* Without RTC no action of a chunk is lost.
NoActionLost ==
  ~enabled => last = count - 1

\* The robot has been sent exactly the action taken before it is given the next.
ActionReached ==
  act # "dead" /\ needs_new_action /\ prev # None => sent = prev * Multiplier

\* What the robot is sent is the plan the policy made: through merges, gets and
\* interpolation nothing is lost, cut on one side only or left unreached.
PlanKept == QueuesAligned /\ NoActionLost /\ ActionReached

\* The commanded position moves forward, over interpolation and merges, except on
\* the way to an action taken after a merge that fell short: there each of the
\* commands goes back by less than the shortfall.
CommandsForward == [][sent # None => sent' = sent \/ sent' > sent - back']_vars

Plan == INSTANCE ActionPlan WITH
  remaining <- IF queue = None THEN <<>> ELSE LeftOver(queue)

\* Whatever last_index does, the queue is the one ActionPlan describes.
ImplementsPlan == Plan!Spec

\* The robot gets its actions, unless a thread has ended or again and again a
\* chunk is merged whose delay was as long as the whole of it.
KeepsMoving ==
  \/ <>(count >= Horizon \/ last + 1 >= Horizon \/ shutdown \/ prod = "dead" \/ act = "dead")
  \/ <>[](qsize = 0) /\ []<><<Merge>>_vars
=============================================================================
