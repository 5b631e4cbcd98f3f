---------------------------- MODULE ActorLearner ----------------------------
(***************************************************************************)
(* Reinforcement learning with an actor and a learner (src/lerobot/rl):    *)
(* the actor's loop and its three threads, the learner's gRPC service and  *)
(* its training loop, signals to both sides and a learner that is killed.  *)
(*                                                                         *)
(* A transition is the number of its step; a message of transitions is     *)
(* sent in chunks (ChunkedStream). Weights are the number of optimization  *)
(* steps they have had. One actor, both sides with threads. Interaction    *)
(* messages and checkpoints are in LearnerCheckpoint.                      *)
(***************************************************************************)
EXTENDS Integers, Sequences, SequencesExt

CONSTANTS
  OnlineSteps,     \* online_steps
  BeforeLearning,  \* online_step_before_learning
  WireSize,        \* bound: chunks of transitions on their way
  MaxTrained,      \* bound: optimization steps told apart
  MaxPushed        \* bound: parameters waiting in a queue

ASSUME RLAssumption ==
  /\ OnlineSteps \in Nat \ {0} /\ BeforeLearning \in Nat \ {0} /\ WireSize \in Nat \ {0}
  /\ MaxTrained \in Nat \ {0} /\ MaxPushed \in Nat \ {0}

Streams == {"transitions", "interactions", "parameters"}

VARIABLES
  actor,         \* where the actor's main thread is
  step,          \* interaction_step: steps taken
  episode,       \* list_transition_to_send_to_learner
  policy,        \* the actor's weights
  actorStop,     \* the actor's shutdown_event
  stream,        \* the actor's threads: off, open, broken, ended
  transitionsQueue, parametersIn,                      \* the actor's queues
  getting,       \* the sender of transitions is in its queue's get
  toSend, wire, assembled,                             \* the stream of transitions
  parametersWire,                                      \* the stream of parameters
  learner,       \* where the learner's training loop is
  learnerStop,   \* the learner's shutdown_event
  transitionQueue, parametersQueue,                    \* the learner's queues
  received,      \* the transitions of replay_buffer
  trained        \* the learner's weights

chunkVars   == <<toSend, wire, assembled>>
actorVars   == <<actor, step, episode, policy, actorStop>>
actorQueues == <<transitionsQueue, parametersIn, getting>>
learnerQueues == <<transitionQueue, parametersQueue>>
trainVars   == <<received, trained>>
vars == <<actorVars, stream, actorQueues, chunkVars, parametersWire,
          learner, learnerStop, learnerQueues, trainVars>>

Chunked == INSTANCE ChunkedStream

Init ==
  /\ actor = "connect" /\ step = 0 /\ episode = <<>> /\ policy = 0 /\ actorStop = FALSE
  /\ stream = [s \in Streams |-> "off"]
  /\ transitionsQueue = <<>> /\ parametersIn = <<>> /\ getting = FALSE
  /\ Chunked!Idle /\ parametersWire = <<>>
  /\ learner = "process" /\ learnerStop = FALSE
  /\ transitionQueue = <<>> /\ parametersQueue = <<0>>
  /\ received = <<>> /\ trained = 0

Up == learner \notin {"down", "stopped"}

(* actor_cli has closed the three queues: a put or a get that begins now raises. *)
Closed == actor \notin {"connect", "act"}

----------------------------------------------------------------------------
(* The actor's main thread *)

ActorUnchanged  == UNCHANGED <<actorVars, stream, actorQueues>>
LearnerUnchanged == UNCHANGED <<learner, learnerStop, learnerQueues, trainVars>>

(* establish_learner_connection, then the three threads are started. *)
Connect ==
  /\ actor = "connect" /\ ~actorStop /\ Up
  /\ actor' = "act" /\ stream' = [s \in Streams |-> "open"] /\ getting' = TRUE
  /\ UNCHANGED <<step, episode, policy, actorStop, transitionsQueue, parametersIn,
                 chunkVars, parametersWire>>
  /\ LearnerUnchanged

(* The signal came first, or no attempt was answered. *)
GiveUp ==
  /\ actor = "connect" /\ (actorStop \/ ~Up)
  /\ actor' = "ended"
  /\ UNCHANGED <<step, episode, policy, actorStop, stream, actorQueues, chunkVars, parametersWire>>
  /\ LearnerUnchanged

(* get_last_item_from_queue *)
Newest(queue) == Last(queue)

(* range(online_steps) *)
MoreSteps == step < OnlineSteps

(* One step of act_with_policy; at the end of an episode the newest parameters are loaded and
   the transitions pushed. *)
Act ==
  /\ actor = "act" /\ ~actorStop /\ MoreSteps
  /\ step' = step + 1
  /\ \/ episode' = Append(episode, step + 1) /\ UNCHANGED <<policy, actorQueues>>
     \/ /\ policy' = IF parametersIn = <<>> THEN policy ELSE Newest(parametersIn)
        /\ parametersIn' = <<>>
        /\ transitionsQueue' = Append(transitionsQueue, Append(episode, step + 1))
        /\ episode' = <<>> /\ UNCHANGED getting
  /\ UNCHANGED <<actor, actorStop, stream, chunkVars, parametersWire>>
  /\ LearnerUnchanged

(* The loop ends or sees the event: the queues are closed, and nobody reads the parameters. *)
LeaveLoop ==
  /\ actor = "act" /\ (actorStop \/ ~MoreSteps)
  /\ actor' = "join transitions" /\ parametersIn' = <<>>
  /\ UNCHANGED <<step, episode, policy, actorStop, stream, transitionsQueue, getting,
                 chunkVars, parametersWire>>
  /\ LearnerUnchanged

(* The threads are joined one after the other. *)
Goto(there) ==
  /\ actor' = there
  /\ UNCHANGED <<step, episode, policy, actorStop, stream, actorQueues, chunkVars, parametersWire>>
  /\ LearnerUnchanged

JoinTransitions  == actor = "join transitions" /\ stream["transitions"] = "ended" /\ Goto("join interactions")
JoinInteractions == actor = "join interactions" /\ stream["interactions"] = "ended" /\ Goto("join parameters")
JoinParameters   == actor = "join parameters" /\ stream["parameters"] = "ended" /\ Goto("ended")

(* The first signal, _signal_handler. *)
SignalActor ==
  /\ ~actorStop /\ actorStop' = TRUE
  /\ UNCHANGED <<actor, step, episode, policy, stream, actorQueues, chunkVars, parametersWire>>
  /\ LearnerUnchanged

----------------------------------------------------------------------------
(* The actor's threads *)

ThreadEnds(s) ==
  /\ stream' = [stream EXCEPT ![s] = "ended"] /\ getting' = (getting /\ s # "transitions")
  /\ UNCHANGED <<actorVars, transitionsQueue, parametersIn>>
  /\ LearnerUnchanged

(* transitions_stream asks for the next message unless the event is set or the queue closed. *)
AskAgain == ~actorStop /\ ~Closed

TakeTransitions ==
  /\ stream["transitions"] = "open" /\ getting /\ transitionsQueue # <<>>
  /\ Chunked!StartMessage(Head(transitionsQueue))
  /\ transitionsQueue' = Tail(transitionsQueue) /\ getting' = FALSE
  /\ UNCHANGED <<actorVars, stream, parametersIn, parametersWire>>
  /\ LearnerUnchanged

(* No message in time (one waits again, unless the event is set). *)
NoTransitions ==
  /\ stream["transitions"] = "open" /\ getting /\ transitionsQueue = <<>> /\ actorStop
  /\ getting' = FALSE
  /\ UNCHANGED <<actorVars, stream, transitionsQueue, parametersIn, chunkVars, parametersWire>>
  /\ LearnerUnchanged

(* After the last chunk of a message the next one is asked for. *)
SendTransitionsChunk ==
  /\ stream["transitions"] = "open" /\ Chunked!SendChunk
  /\ getting' = (toSend' = <<>> /\ AskAgain)
  /\ UNCHANGED <<actorVars, stream, transitionsQueue, parametersIn, parametersWire>>
  /\ LearnerUnchanged

(* The event is seen between two messages, and the call returns when the learner has read all;
   or get raises, or is interrupted, on the closed queue, which cancels the call; or it broke. *)
TransitionsEnd ==
  /\ \/ /\ stream["transitions"] = "open" /\ actorStop
        /\ ~getting /\ toSend = <<>> /\ wire = <<>>
     \/ stream["transitions"] = "open" /\ Closed /\ toSend = <<>> /\ (getting \/ ~actorStop)
     \/ stream["transitions"] = "broken"
  /\ Chunked!Break /\ ThreadEnds("transitions") /\ UNCHANGED parametersWire

(* interactions_stream ends, for the same reasons. *)
InteractionsEnd ==
  /\ \/ stream["interactions"] = "broken"
     \/ stream["interactions"] = "open" /\ (actorStop \/ Closed)
  /\ ThreadEnds("interactions") /\ UNCHANGED <<chunkVars, parametersWire>>

(* receive_policy puts what arrives; the event is looked at only when something has. *)
ReceiveParameters ==
  /\ stream["parameters"] = "open" /\ parametersWire # <<>> /\ ~actorStop /\ ~Closed
  /\ Len(parametersIn) < MaxPushed
  /\ parametersIn' = parametersIn \o parametersWire /\ parametersWire' = <<>>
  /\ UNCHANGED <<actorVars, stream, transitionsQueue, getting, chunkVars>>
  /\ LearnerUnchanged

(* Variant: the event is looked at, but the queue takes what arrives after its close. *)
StopSeenOpen == actorStop /\ parametersWire # <<>>

(* Something arrives and the event is seen, or the put on the closed queue raises. *)
StopSeen == (actorStop \/ Closed) /\ parametersWire # <<>>

ParametersEnd ==
  /\ stream["parameters"] = "broken" \/ (stream["parameters"] = "open" /\ StopSeen)
  /\ parametersWire' = <<>>
  /\ ThreadEnds("parameters") /\ UNCHANGED chunkVars

----------------------------------------------------------------------------
(* The learner's service *)

(* SendTransitions reads a chunk; a whole message goes to the queue. *)
ReceiveTransitions ==
  /\ stream["transitions"] = "open" /\ Up /\ ~learnerStop
  /\ Chunked!ReceiveChunk
  /\ transitionQueue' = IF Chunked!Complete THEN Append(transitionQueue, Chunked!Message)
                        ELSE transitionQueue
  /\ ActorUnchanged
  /\ UNCHANGED <<parametersWire, learner, learnerStop, parametersQueue, trainVars>>

(* Variant: what was not sent stays in the queue. *)
RestKept(queue) == SubSeq(queue, 1, Len(queue) - 1)

Rest(queue) == <<>>

(* StreamParameters sends the newest and forgets the rest. *)
SendParameters ==
  /\ stream["parameters"] = "open" /\ Up /\ ~learnerStop
  /\ parametersQueue # <<>> /\ parametersWire = <<>>
  /\ parametersWire' = <<Newest(parametersQueue)>> /\ parametersQueue' = Rest(parametersQueue)
  /\ ActorUnchanged
  /\ UNCHANGED <<chunkVars, learner, learnerStop, transitionQueue, trainVars>>

(* The learner has its signal: a handler returns, or is aborted after SHUTDOWN_TIMEOUT. *)
HandlerEnds ==
  /\ learnerStop
  /\ \E s \in Streams : stream[s] = "open" /\ stream' = [stream EXCEPT ![s] = "broken"]
  /\ UNCHANGED <<actorVars, actorQueues, chunkVars, parametersWire>>
  /\ LearnerUnchanged

SignalLearner ==
  /\ Up /\ ~learnerStop /\ learnerStop' = TRUE
  /\ ActorUnchanged
  /\ UNCHANGED <<chunkVars, parametersWire, learner, learnerQueues, trainVars>>

----------------------------------------------------------------------------
(* The learner's training loop *)

ServiceUnchanged == ActorUnchanged /\ UNCHANGED <<chunkVars, parametersWire, learnerStop>>

(* process_transitions: a message at a time, until the queue is empty or the event set. Transitions
   with a NaN, which the code leaves out, are not told apart. *)
ProcessTransitions ==
  /\ learner = "process" /\ transitionQueue # <<>> /\ ~learnerStop
  /\ received' = received \o Head(transitionQueue) /\ transitionQueue' = Tail(transitionQueue)
  /\ ServiceUnchanged /\ UNCHANGED <<learner, parametersQueue, trained>>

(* The end of an iteration: the event is looked at. *)
Again == learner' = IF learnerStop THEN "stopped" ELSE "process"

WaitForTransitions ==
  /\ learner = "process" /\ (transitionQueue = <<>> \/ learnerStop)
  /\ Len(received) < BeforeLearning
  /\ Again
  /\ ServiceUnchanged /\ UNCHANGED <<learnerQueues, trainVars>>

(* One optimization step, with the weights pushed or not. *)
Optimize ==
  /\ learner = "process" /\ (transitionQueue = <<>> \/ learnerStop)
  /\ Len(received) >= BeforeLearning
  /\ trained' = IF trained < MaxTrained THEN trained + 1 ELSE trained
  /\ \/ UNCHANGED parametersQueue
     \/ Len(parametersQueue) < MaxPushed /\ parametersQueue' = Append(parametersQueue, trained')
  /\ Again
  /\ ServiceUnchanged /\ UNCHANGED <<transitionQueue, received>>

KillLearner ==
  /\ Up /\ learner' = "down" /\ learnerStop' = FALSE
  /\ stream' = [s \in Streams |-> IF stream[s] = "open" THEN "broken" ELSE stream[s]]
  /\ Chunked!Break /\ parametersWire' = <<>>
  /\ transitionQueue' = <<>> /\ parametersQueue' = <<>> /\ received' = <<>>
  /\ trained' = 0
  /\ UNCHANGED <<actorVars, actorQueues>>

----------------------------------------------------------------------------
ActorMain == Connect \/ GiveUp \/ LeaveLoop \/ JoinTransitions \/ JoinInteractions \/ JoinParameters
ActorThread(s) ==
  CASE s = "transitions"  -> \/ TakeTransitions \/ NoTransitions \/ SendTransitionsChunk
                             \/ TransitionsEnd
    [] s = "interactions" -> InteractionsEnd
    [] s = "parameters"   -> ReceiveParameters \/ ParametersEnd
Train == ProcessTransitions \/ WaitForTransitions \/ Optimize

Next ==
  \/ ActorMain \/ Act \/ Train \/ HandlerEnds \/ SignalActor \/ SignalLearner \/ KillLearner
  \/ ReceiveTransitions \/ SendParameters \/ \E s \in Streams : ActorThread(s)

Spec == Init /\ [][Next]_vars

(* Every thread runs; an optimization step is pushed again and again (every four seconds). Act is
   not fair: between two steps the environment may be waiting for a person. *)
FairSpec ==
  /\ Spec
  /\ WF_vars(ActorMain) /\ WF_vars(Train) /\ WF_vars(HandlerEnds)
  /\ WF_vars(ReceiveTransitions) /\ WF_vars(SendParameters)
  /\ \A s \in Streams : WF_vars(ActorThread(s))
  /\ SF_vars(Optimize /\ parametersQueue' # parametersQueue)

----------------------------------------------------------------------------
(* Properties *)

Step == 1..OnlineSteps

(* Types, and the bounds of the queues of parameters (actor.py, learner.py). *)
TypeOK ==
  /\ actor \in {"connect", "act", "join transitions", "join interactions", "join parameters", "ended"}
  /\ step \in 0..OnlineSteps /\ episode \in Seq(Step) /\ policy \in 0..MaxTrained
  /\ actorStop \in BOOLEAN /\ stream \in [Streams -> {"off", "open", "broken", "ended"}]
  /\ transitionsQueue \in Seq(Seq(Step)) /\ getting \in BOOLEAN
  /\ parametersIn \in Seq(0..MaxTrained) /\ Len(parametersIn) <= MaxPushed
  /\ toSend \in Seq([state : {"begin", "middle", "end"}, data : Step])
  /\ wire \in Seq([state : {"begin", "middle", "end"}, data : Step]) /\ Len(wire) <= WireSize
  /\ assembled \in Seq(Step) /\ parametersWire \in Seq(0..MaxTrained) /\ Len(parametersWire) <= 1
  /\ learner \in {"process", "stopped", "down"} /\ learnerStop \in BOOLEAN
  /\ transitionQueue \in Seq(Seq(Step))
  /\ parametersQueue \in Seq(0..MaxTrained) /\ Len(parametersQueue) <= MaxPushed
  /\ received \in Seq(Step) /\ trained \in 0..MaxTrained

(* items are numbered on from n *)
Consecutive(items, n) == \A i \in DOMAIN items : items[i] = n + i

(* The number of the last item of messages, or n if there is none. *)
EndOf(messages, n) == IF messages = <<>> THEN n ELSE Last(Last(messages))

(* The items of messages, none of them empty, are numbered on from n throughout. *)
Chained(messages, n) ==
  \A k \in DOMAIN messages :
    /\ messages[k] # <<>>
    /\ Consecutive(messages[k], IF k = 1 THEN n ELSE Last(messages[k - 1]))

(* The learner has the actor's transitions (none of them with a NaN) without a gap, a repetition
   or a change of order, however messages are cut into chunks and whichever side is stopped or
   killed. *)
TransitionsInOrder ==
  /\ Consecutive(received, 0)
  /\ Chained(transitionQueue, Len(received))
  /\ EndOf(transitionQueue, Len(received)) <= step - Len(episode)

(* The actor never goes back to older weights. *)
WeightsOnlyNewer == [][policy' >= policy]_vars

(* What the actor has pushed reaches the replay buffer while both sides go on. An actor that
   has closed its queues, after a signal or its last step, loses what is still on its way. *)
TransitionsArrive ==
  <>[](Len(received) = step - Len(episode) \/ Closed \/ learnerStop \/ learner = "down")

(* After a signal or its last step the actor ends once the learner has enough transitions to
   train, or is stopped or killed; before that it waits for parameters nobody sends
   (receive_policy). *)
ActorEnds ==
  (actorStop \/ Closed) /\ (Len(received) >= BeforeLearning \/ learnerStop \/ learner = "down")
    ~> actor = "ended"
=============================================================================
