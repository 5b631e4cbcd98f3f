------------------------- MODULE LearnerCheckpoint -------------------------
(***************************************************************************)
(* The learner's training loop and its checkpoints (src/lerobot/rl/        *)
(* learner.py): what a save leaves on the disk between any two of its      *)
(* steps, and the learner that resumes from it.                            *)
(*                                                                         *)
(* The actor is what it puts in the two queues; every learner process has  *)
(* an actor of its own, whose steps begin again at 0. Replay buffers are   *)
(* the number of their transitions (ReplayBuffer has their contents); the  *)
(* offline buffer, which gets nothing (README), is left out.               *)
(***************************************************************************)
EXTENDS Integers, Sequences

CONSTANTS
  BeforeLearning,  \* online_step_before_learning
  SaveFreq,        \* save_freq
  OnlineSteps,     \* online_steps
  MaxEpisodes,     \* bound: messages of each kind from one actor
  MaxOptimized,    \* bound: optimization steps
  MaxRuns,         \* bound: learner processes
  None             \* model value: Python's None, and a file that is not there

ASSUME CheckpointAssumption ==
  /\ BeforeLearning \in Nat \ {0} /\ SaveFreq \in Nat \ {0} /\ OnlineSteps \in Nat \ {0}
  /\ MaxEpisodes \in Nat /\ MaxOptimized \in Nat /\ MaxRuns \in Nat \ {0}
  /\ None \notin Nat

VARIABLES
  learner,           \* where the training loop is
  shutdown,          \* shutdown_event
  optimization,      \* optimization_step
  weights,           \* optimization steps the policy has had
  shift,             \* interaction_step_shift
  message,           \* interaction_message: its step
  received,          \* len(replay_buffer)
  transitionQueue,   \* transitions waiting
  interactionQueue,  \* interaction_message_queue: steps
  sent,              \* messages of each kind the actor has sent
  checkpoint,        \* the checkpoints directory, by step
  last,              \* the symlink "last"
  dataset,           \* the transitions of output_dir/dataset
  runs,              \* learner processes so far
  whole              \* history: the save of the dataset has returned

memory == <<optimization, weights, shift, message, received>>
queues == <<transitionQueue, interactionQueue, sent>>
disk   == <<checkpoint, last, dataset, whole>>
vars   == <<learner, shutdown, memory, queues, disk, runs>>

Kinds == {"transitions", "interactions"}

NoCheckpoint == [weights |-> None, interaction |-> None]

(* train: a learner that does not resume. *)
Init ==
  /\ learner = "loop" /\ shutdown = FALSE
  /\ optimization = 0 /\ weights = 0 /\ shift = 0 /\ message = None /\ received = 0
  /\ transitionQueue = 0 /\ interactionQueue = <<>> /\ sent = [k \in Kinds |-> 0]
  /\ checkpoint = [s \in 1..MaxOptimized |-> NoCheckpoint] /\ last = None /\ dataset = None
  /\ runs = 1 /\ whole = TRUE

Up == learner # "down"

----------------------------------------------------------------------------
(* The service's handlers, and the signal *)

TransitionsArrive ==
  /\ Up /\ ~shutdown /\ sent["transitions"] < MaxEpisodes
  /\ transitionQueue' = transitionQueue + 1 /\ sent' = [sent EXCEPT !["transitions"] = @ + 1]
  /\ UNCHANGED <<learner, shutdown, memory, interactionQueue, disk, runs>>

(* The message of an episode says at which of the actor's steps it ended. *)
InteractionArrives ==
  /\ Up /\ ~shutdown /\ sent["interactions"] < MaxEpisodes
  /\ interactionQueue' = Append(interactionQueue, sent["interactions"])
  /\ sent' = [sent EXCEPT !["interactions"] = @ + 1]
  /\ UNCHANGED <<learner, shutdown, memory, transitionQueue, disk, runs>>

SignalLearner ==
  /\ Up /\ ~shutdown /\ shutdown' = TRUE
  /\ UNCHANGED <<learner, memory, queues, disk, runs>>

----------------------------------------------------------------------------
(* An iteration of the training loop *)

Goto(there) == learner' = there /\ UNCHANGED <<shutdown, runs>>

BeginIteration ==
  /\ learner = "loop"
  /\ Goto(IF shutdown THEN "down" ELSE "transitions")
  /\ UNCHANGED <<memory, queues, disk>>

(* process_transitions *)
ProcessTransitions ==
  /\ learner = "transitions" /\ transitionQueue > 0 /\ ~shutdown
  /\ received' = received + 1 /\ transitionQueue' = transitionQueue - 1
  /\ UNCHANGED <<learner, shutdown, optimization, weights, shift, message,
                 interactionQueue, sent, disk, runs>>

(* process_interaction_messages begins with no message. *)
TransitionsProcessed ==
  /\ learner = "transitions" /\ (transitionQueue = 0 \/ shutdown)
  /\ message' = None
  /\ Goto("interactions")
  /\ UNCHANGED <<optimization, weights, shift, received, queues, disk>>

(* Variant: the steps of the runs before are not added. *)
ShiftedNot(interaction) == interaction

(* process_interaction_message *)
Shifted(interaction) == interaction + shift

ProcessInteraction ==
  /\ learner = "interactions" /\ interactionQueue # <<>> /\ ~shutdown
  /\ message' = Shifted(Head(interactionQueue))
  /\ interactionQueue' = Tail(interactionQueue)
  /\ UNCHANGED <<learner, shutdown, optimization, weights, shift, received,
                 transitionQueue, sent, disk, runs>>

(* Variant: training starts with an empty buffer. *)
EnoughAlways == TRUE

(* Variant: one transition too many is waited for. *)
EnoughLater == received > BeforeLearning

Enough == received >= BeforeLearning

InteractionsProcessed ==
  /\ learner = "interactions" /\ (interactionQueue = <<>> \/ shutdown)
  /\ Goto(IF Enough THEN "optimize" ELSE "loop")
  /\ UNCHANGED <<memory, queues, disk>>

SaveDue(s) == s % SaveFreq = 0 \/ s = OnlineSteps

Optimize ==
  /\ learner = "optimize" /\ optimization < MaxOptimized
  /\ optimization' = optimization + 1 /\ weights' = weights + 1
  /\ Goto(IF SaveDue(optimization') THEN "weights" ELSE "loop")
  /\ UNCHANGED <<shift, message, received, queues, disk>>

----------------------------------------------------------------------------
(* save_training_checkpoint *)

(* Variant: the training state is left out. *)
SaveWeightsAlone ==
  /\ learner = "weights"
  /\ checkpoint' = [checkpoint EXCEPT ![optimization].weights = weights]
  /\ Goto("unlink")
  /\ UNCHANGED <<memory, queues, last, dataset, whole>>

(* save_checkpoint: the policy, the optimizers and the step. *)
SaveWeights ==
  /\ learner = "weights"
  /\ checkpoint' = [checkpoint EXCEPT ![optimization].weights = weights]
  /\ Goto("state")
  /\ UNCHANGED <<memory, queues, last, dataset, whole>>

CurrentStep == IF message = None THEN 0 ELSE message

(* training_state.pt *)
SaveState ==
  /\ learner = "state"
  /\ checkpoint' = [checkpoint EXCEPT ![optimization].interaction = CurrentStep]
  /\ Goto("unlink")
  /\ UNCHANGED <<memory, queues, last, dataset, whole>>

(* update_last_checkpoint: unlink, then symlink_to. *)
Unlink ==
  /\ learner = "unlink"
  /\ last' = None
  /\ Goto("link")
  /\ UNCHANGED <<memory, queues, checkpoint, dataset, whole>>

Link ==
  /\ learner = "link"
  /\ last' = optimization
  /\ Goto("remove")
  /\ UNCHANGED <<memory, queues, checkpoint, dataset, whole>>

(* shutil.rmtree *)
RemoveDataset ==
  /\ learner = "remove"
  /\ dataset' = None
  /\ Goto("dataset")
  /\ UNCHANGED <<memory, queues, checkpoint, last, whole>>

(* to_lerobot_dataset returns, with every transition. *)
SaveDataset ==
  /\ learner = "dataset"
  /\ dataset' = received /\ whole' = TRUE
  /\ Goto("loop")
  /\ UNCHANGED <<memory, queues, checkpoint, last>>

(* An exception or a second Ctrl-C (sys.exit) leaves to_lerobot_dataset. As the dataset is given
   up, __del__ finalizes it with the episodes it has: it can be loaded. *)
SaveBreaksOff ==
  /\ learner = "dataset"
  /\ dataset' \in 1..received /\ whole' = FALSE
  /\ learner' = "down"
  /\ UNCHANGED <<shutdown, memory, queues, checkpoint, last, runs>>

----------------------------------------------------------------------------
(* A killed learner, or one whose loop has ended, and the next with resume=true *)

KillLearner ==
  /\ Up /\ learner' = "down"
  /\ UNCHANGED <<shutdown, memory, queues, disk, runs>>

(* handle_resume_logic, load_training_state, initialize_replay_buffer. The weights are new: the
   configuration of the checkpoint replaces the one whose pretrained_path was set. *)
Resume ==
  /\ learner = "down" /\ runs < MaxRuns
  /\ last # None /\ dataset # None
  /\ learner' = "loop" /\ shutdown' = FALSE /\ runs' = runs + 1
  /\ optimization' = last /\ weights' = 0
  /\ shift' = checkpoint[last].interaction /\ message' = None
  /\ received' = dataset
  /\ transitionQueue' = 0 /\ interactionQueue' = <<>> /\ sent' = [k \in Kinds |-> 0]
  /\ UNCHANGED disk

----------------------------------------------------------------------------
Process == ProcessTransitions \/ TransitionsProcessed \/ ProcessInteraction \/ InteractionsProcessed
Save    == SaveWeights \/ SaveState \/ Unlink \/ Link \/ RemoveDataset \/ SaveDataset
Train   == BeginIteration \/ Process \/ Optimize \/ Save

Next ==
  \/ TransitionsArrive \/ InteractionArrives \/ SignalLearner
  \/ Train \/ SaveBreaksOff \/ KillLearner \/ Resume

Spec == Init /\ [][Next]_vars

(* The training loop runs. *)
FairSpec == Spec /\ WF_vars(Train)

----------------------------------------------------------------------------
(* Properties *)

(* Types; the step of a message is not before those of the runs before (learner.py). *)
TypeOK ==
  /\ learner \in {"loop", "transitions", "interactions", "optimize", "weights", "state",
                  "unlink", "link", "remove", "dataset", "down"}
  /\ shutdown \in BOOLEAN /\ runs \in 1..MaxRuns
  /\ optimization \in 0..MaxOptimized /\ weights \in 0..optimization
  /\ shift \in Nat /\ message \in (shift..(shift + MaxEpisodes)) \cup {None}
  /\ received \in Nat
  /\ transitionQueue \in 0..MaxEpisodes /\ interactionQueue \in Seq(0..MaxEpisodes)
  /\ sent \in [Kinds -> 0..MaxEpisodes]
  /\ checkpoint \in [1..MaxOptimized -> [weights : Nat \cup {None}, interaction : Nat \cup {None}]]
  /\ last \in (1..MaxOptimized) \cup {None} /\ dataset \in Nat \cup {None} /\ whole \in BOOLEAN

(* Whenever the learner dies, "last" names a checkpoint with its weights and its state, or
   nothing (save_training_checkpoint, update_last_checkpoint). *)
LastIsWhole ==
  last # None => checkpoint[last].weights # None /\ checkpoint[last].interaction # None

(* A learner that resumes from a save that returned can train at once: such a buffer is never
   below the threshold, over any number of runs, also after one that began with what a save that
   broke off had left; and a learner still has the transitions that are saved. *)
SavedCanTrain ==
  dataset # None => (whole => dataset >= BeforeLearning) /\ (Up => received >= dataset)

(* With enough transitions a learner that is left alone trains, and its next save ends. *)
TrainingGoesOn ==
  Up /\ received >= BeforeLearning /\ optimization < MaxOptimized
    ~> (learner = "optimize" \/ shutdown \/ ~Up \/ optimization = MaxOptimized)
=============================================================================
