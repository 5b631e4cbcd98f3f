---------------------- MODULE LearnerCheckpointProofs ----------------------
(***************************************************************************)
(* What a save leaves on the disk, for any bounds: TypeOK, LastIsWhole and *)
(* SavedCanTrain are one inductive invariant with what is known of a       *)
(* checkpoint at each step of its save.                                    *)
(***************************************************************************)
EXTENDS LearnerCheckpoint, TLAPS

Saving == {"weights", "state", "unlink", "link", "remove", "dataset"}

(* A save is of a step that was made, after training began. *)
SaveOfStep ==
  /\ learner \in Saving => optimization \in 1..MaxOptimized
  /\ learner \in Saving \cup {"optimize"} => received >= BeforeLearning

(* What has been written when the save comes to a step. *)
WrittenSoFar ==
  /\ learner \in {"state", "unlink", "link"} => checkpoint[optimization].weights # None
  /\ learner \in {"unlink", "link"} => checkpoint[optimization].interaction # None

(* What waits has been sent. *)
WaitingWasSent == transitionQueue <= sent["transitions"]

IInv == TypeOK /\ LastIsWhole /\ SavedCanTrain /\ SaveOfStep /\ WrittenSoFar /\ WaitingWasSent

(* The invariant holds at the start. *)
LEMMA InitIInv == Init => IInv
<1> SUFFICES ASSUME Init PROVE IInv
  OBVIOUS
<1>1. checkpoint \in [1..MaxOptimized -> [weights : Nat \cup {None}, interaction : Nat \cup {None}]]
  BY DEF Init, NoCheckpoint
<1>2. interactionQueue \in Seq(0..MaxEpisodes)
  BY DEF Init
<1>3. sent \in [Kinds -> 0..MaxEpisodes] /\ WaitingWasSent
  BY CheckpointAssumption DEF CheckpointAssumption, Init, Kinds, WaitingWasSent
<1>4. TypeOK
  <2>0. learner = "loop" /\ shutdown \in BOOLEAN
    BY DEF Init
  <2>1. /\ runs \in 1..MaxRuns
        /\ optimization \in 0..MaxOptimized /\ weights \in 0..optimization
        /\ transitionQueue \in 0..MaxEpisodes
    BY CheckpointAssumption DEF CheckpointAssumption, Init
  <2>2. shift \in Nat /\ received \in Nat
    BY DEF Init
  <2>3. message = None /\ last = None /\ dataset = None /\ whole \in BOOLEAN
    BY DEF Init
  <2>4. QED
    BY <1>1, <1>2, <1>3, <2>0, <2>1, <2>2, <2>3 DEF TypeOK
<1>5. LastIsWhole /\ SavedCanTrain /\ SaveOfStep /\ WrittenSoFar
  BY DEF Init, LastIsWhole, SavedCanTrain, SaveOfStep, WrittenSoFar, Saving
<1>6. QED
  BY <1>3, <1>4, <1>5 DEF IInv

(* The service's handlers, the signal, the kill and the exception. *)
LEMMA ServiceKeeps ==
  ASSUME IInv, TransitionsArrive \/ InteractionArrives \/ SignalLearner \/ SaveBreaksOff \/ KillLearner
  PROVE  IInv'
<1> USE CheckpointAssumption
       DEF CheckpointAssumption, IInv, TypeOK, LastIsWhole, SavedCanTrain, SaveOfStep, WrittenSoFar, WaitingWasSent,
           Kinds, Up, Saving, memory, queues, disk
<1>1. CASE TransitionsArrive
  BY <1>1, SMTT(60) DEF TransitionsArrive
<1>2. CASE InteractionArrives
  <2>1. sent["interactions"] \in 0..MaxEpisodes /\ sent["interactions"] + 1 \in 0..MaxEpisodes
    BY <1>2 DEF InteractionArrives
  <2>2. interactionQueue' \in Seq(0..MaxEpisodes)
    BY <1>2, <2>1 DEF InteractionArrives
  <2>3. QED
    BY <1>2, <2>1, <2>2, SMTT(60) DEF InteractionArrives
<1>3. CASE SignalLearner
  BY <1>3, SMTT(60) DEF SignalLearner
<1>4. CASE KillLearner
  BY <1>4, SMTT(60) DEF KillLearner
<1>5. CASE SaveBreaksOff
  <2>1. /\ dataset' \in Nat /\ whole' = FALSE /\ learner' = "down"
        /\ UNCHANGED <<shutdown, optimization, weights, shift, message, received, transitionQueue,
                       interactionQueue, sent, checkpoint, last, runs>>
    BY <1>5 DEF SaveBreaksOff
  <2>2. TypeOK'
    BY <2>1
  <2>3. LastIsWhole' /\ WaitingWasSent'
    BY <2>1
  <2>4. SavedCanTrain' /\ SaveOfStep' /\ WrittenSoFar'
    BY <2>1
  <2>5. QED
    BY <2>2, <2>3, <2>4
<1>6. QED
  BY <1>1, <1>2, <1>3, <1>4, <1>5

(* An iteration of the training loop. *)
LEMMA LoopKeeps ==
  ASSUME IInv, BeginIteration \/ Process \/ Optimize
  PROVE  IInv'
<1> USE CheckpointAssumption
       DEF CheckpointAssumption, IInv, TypeOK, LastIsWhole, SavedCanTrain, SaveOfStep, WrittenSoFar, WaitingWasSent,
           Kinds, Up, Saving, memory, queues, disk, Goto
<1>1. CASE BeginIteration
  BY <1>1, SMTT(60) DEF BeginIteration
<1>2. CASE ProcessTransitions
  BY <1>2, SMTT(60) DEF ProcessTransitions
<1>3. CASE TransitionsProcessed
  BY <1>3, SMTT(60) DEF TransitionsProcessed
<1>4. CASE ProcessInteraction
  <2>1. Head(interactionQueue) \in 0..MaxEpisodes /\ Tail(interactionQueue) \in Seq(0..MaxEpisodes)
    BY <1>4 DEF ProcessInteraction
  <2>2. QED
    BY <1>4, <2>1, SMTT(60) DEF ProcessInteraction, Shifted
<1>5. CASE InteractionsProcessed
  BY <1>5, SMTT(60) DEF InteractionsProcessed, Enough
<1>6. CASE Optimize
  BY <1>6, SMTT(60) DEF Optimize
<1>7. QED
  BY <1>1, <1>2, <1>3, <1>4, <1>5, <1>6 DEF Process

(* save_training_checkpoint. *)
LEMMA SaveKeeps ==
  ASSUME IInv, Save
  PROVE  IInv'
<1> USE CheckpointAssumption
       DEF CheckpointAssumption, IInv, TypeOK, LastIsWhole, SavedCanTrain, SaveOfStep, WrittenSoFar, WaitingWasSent,
           Kinds, Up, Saving, memory, queues, disk, Goto
<1>1. CASE SaveWeights
  <2>1. optimization \in 1..MaxOptimized /\ weights \in Nat
    BY <1>1 DEF SaveWeights
  <2>2. checkpoint[optimization] \in [weights : Nat \cup {None}, interaction : Nat \cup {None}]
    BY <2>1
  <2>3. [checkpoint[optimization] EXCEPT !.weights = weights]
          \in [weights : Nat \cup {None}, interaction : Nat \cup {None}]
    BY <2>1, <2>2
  <2>4. checkpoint' = [checkpoint EXCEPT ![optimization] = [checkpoint[optimization] EXCEPT !.weights = weights]]
    BY <1>1 DEF SaveWeights
  <2>5. TypeOK'
    BY <1>1, <2>1, <2>3, <2>4 DEF SaveWeights
  <2>6. checkpoint'[optimization].weights = weights /\ weights # None
    BY <2>1, <2>2, <2>4
  <2>7. \A s \in 1..MaxOptimized : checkpoint'[s].interaction = checkpoint[s].interaction
                                  /\ (s # optimization => checkpoint'[s].weights = checkpoint[s].weights)
    BY <2>2, <2>4
  <2>8. LastIsWhole'
    BY <1>1, <2>6, <2>7 DEF SaveWeights
  <2>9. QED
    BY <1>1, <2>1, <2>5, <2>6, <2>8 DEF SaveWeights
<1>2. CASE SaveState
  BY <1>2, SMTT(60) DEF SaveState, CurrentStep
<1>3. CASE Unlink
  BY <1>3, SMTT(60) DEF Unlink
<1>4. CASE Link
  BY <1>4, SMTT(60) DEF Link
<1>5. CASE RemoveDataset
  BY <1>5, SMTT(60) DEF RemoveDataset
<1>6. CASE SaveDataset
  BY <1>6, SMTT(60) DEF SaveDataset
<1>7. QED
  BY <1>1, <1>2, <1>3, <1>4, <1>5, <1>6 DEF Save

(* The learner that resumes. *)
LEMMA ResumeKeeps ==
  ASSUME IInv, Resume
  PROVE  IInv'
<1>1. last \in 1..MaxOptimized /\ checkpoint[last].interaction \in Nat /\ dataset \in Nat
  BY DEF Resume, IInv, TypeOK, LastIsWhole
<1>2. interactionQueue' \in Seq(0..MaxEpisodes)
  BY DEF Resume
<1>3. sent' \in [Kinds -> 0..MaxEpisodes] /\ WaitingWasSent'
  BY CheckpointAssumption DEF CheckpointAssumption, Resume, Kinds, WaitingWasSent
<1>4. runs' \in 1..MaxRuns
  BY CheckpointAssumption DEF CheckpointAssumption, Resume, IInv, TypeOK
<1>5. TypeOK'
  <2>0. learner' = "loop" /\ shutdown' \in BOOLEAN
    BY DEF Resume
  <2>1. /\ transitionQueue' \in 0..MaxEpisodes
        /\ optimization' \in 0..MaxOptimized /\ weights' \in 0..optimization'
    BY <1>1, CheckpointAssumption DEF CheckpointAssumption, Resume
  <2>2. shift' \in Nat /\ received' \in Nat /\ message' = None
    BY <1>1 DEF Resume
  <2>3. /\ checkpoint' \in [1..MaxOptimized -> [weights : Nat \cup {None}, interaction : Nat \cup {None}]]
        /\ last' \in (1..MaxOptimized) \cup {None} /\ dataset' \in Nat \cup {None} /\ whole' \in BOOLEAN
    BY DEF Resume, IInv, TypeOK, disk
  <2>4. QED
    BY <1>2, <1>3, <1>4, <2>0, <2>1, <2>2, <2>3 DEF TypeOK
<1>6. LastIsWhole' /\ SavedCanTrain' /\ SaveOfStep' /\ WrittenSoFar'
  BY <1>1 DEF Resume, IInv, LastIsWhole, SavedCanTrain, SaveOfStep, WrittenSoFar, Saving, disk
<1>7. QED
  BY <1>3, <1>5, <1>6 DEF IInv

(* Every step keeps the invariant. *)
LEMMA NextIInv == IInv /\ [Next]_vars => IInv'
<1> SUFFICES ASSUME IInv, [Next]_vars PROVE IInv'
  OBVIOUS
<1>1. CASE UNCHANGED vars
  BY <1>1 DEF vars, memory, queues, disk, IInv, TypeOK, LastIsWhole, SavedCanTrain, SaveOfStep,
              WrittenSoFar, WaitingWasSent, Up
<1>2. CASE Next
  BY <1>2, ServiceKeeps, LoopKeeps, SaveKeeps, ResumeKeeps DEF Next, Train
<1>3. QED
  BY <1>1, <1>2

(* The invariant always holds. *)
LEMMA AlwaysIInv == Spec => []IInv
  BY InitIInv, NextIInv, PTL DEF Spec

(* The state of the learner and of the disk keep their types; the steps of messages are past
   those of the runs before. *)
THEOREM TypeCorrect == Spec => []TypeOK
<1>1. IInv => TypeOK
  BY DEF IInv
<1>2. QED
  BY <1>1, AlwaysIInv, PTL

(* At whichever step a learner dies, "last" names a whole checkpoint or nothing. *)
THEOREM LastAlwaysWhole == Spec => []LastIsWhole
<1>1. IInv => LastIsWhole
  BY DEF IInv
<1>2. QED
  BY <1>1, AlwaysIInv, PTL

(* Over any number of runs, a buffer whose save returned has enough transitions to train from,
   also when a learner in between began with what a save that broke off had left. *)
THEOREM SavedAlwaysTrains == Spec => []SavedCanTrain
<1>1. IInv => SavedCanTrain
  BY DEF IInv
<1>2. QED
  BY <1>1, AlwaysIInv, PTL
=============================================================================
