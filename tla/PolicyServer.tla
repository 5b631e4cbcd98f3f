---------------------------- MODULE PolicyServer ----------------------------
(***************************************************************************)
(* The gRPC policy server, src/lerobot/async_inference/policy_server.py.   *)
(*                                                                         *)
(* A thread pool (Workers) runs the RPC handlers; each worker has a        *)
(* program counter and the locals of the handler it runs.  The state the   *)
(* handlers share is the attributes of the PolicyServer object.  A step is *)
(* what a handler does between two reads or writes of that shared state.   *)
(*                                                                         *)
(* `Ready' replaces the observation queue by a NEW queue object while      *)
(* other handlers may still hold the old one, so queue objects are         *)
(* numbered: obsQueue[n] is the content of the queue made by the n-th      *)
(* reset, and `current' the number of self.observation_queue.  A queue     *)
(* has maxsize 1, so its content is one observation or None.               *)
(*                                                                         *)
(* An observation is its timestep, its must_go flag and the joint pose     *)
(* that observations_similar compares; images and the task are left out.   *)
(***************************************************************************)
EXTENDS ActionChunk, FiniteSets

CONSTANTS
  Workers,          \* threads of the gRPC pool (max_workers=4 in the code)
  Timesteps,        \* timesteps an observation may carry
  Poses,            \* joint poses, abstracted to integers on a line
  Atol,             \* tolerance of observations_similar
  MaxResets,        \* bound: how often Ready may be called
  None              \* no observation

Observation == [timestep : Timesteps, mustGo : BOOLEAN, pose : Poses]

ASSUME ServerAssumption ==
  /\ IsFiniteSet(Workers)
  /\ Timesteps \subseteq Nat
  /\ Poses \subseteq Int
  /\ Atol \in Nat
  /\ MaxResets \in Nat
  /\ None \notin Observation

VARIABLES
  shutdown,            \* shutdown_event.is_set()
  obsQueue,            \* queue objects: reset number -> observation or None
  current,             \* which of them self.observation_queue is
  predictedTimesteps,  \* _predicted_timesteps
  lastProcessedObs,    \* last_processed_obs
  policyLoaded,        \* self.policy is not None
  pc,                  \* worker -> where its handler is
  arg,                 \* worker -> the observation its handler works on
  ref,                 \* worker -> the queue object its handler waits on
  prev                 \* worker -> the previous_obs of _obs_sanity_checks

serverVars == <<shutdown, obsQueue, current, predictedTimesteps,
                lastProcessedObs, policyLoaded, pc, arg, ref, prev>>

QueueIds    == 0..MaxResets

SendingPc     == {"receive", "check", "sanity", "full", "evict", "put", "blocked"}
GettingPc     == {"get", "wait", "mark", "prepare", "infer"}
ResettingPc   == {"renew", "forget", "resume"}
InstructingPc == {"instruct", "load"}
ReturnPc      == {"ok", "error", "empty", "chunk"}
HandlerPc     == {"idle", "reset"} \cup SendingPc \cup GettingPc
                   \cup ResettingPc \cup InstructingPc \cup ReturnPc

ServerInit ==
  /\ shutdown = FALSE
  /\ obsQueue = [n \in QueueIds |-> None]
  /\ current = 0
  /\ predictedTimesteps = {}
  /\ lastProcessedObs = None
  /\ policyLoaded = FALSE
  /\ pc = [w \in Workers |-> "idle"]
  /\ arg = [w \in Workers |-> None]
  /\ ref = [w \in Workers |-> 0]
  /\ prev = [w \in Workers |-> None]

\* observations_similar: the two joint states are closer than the tolerance.
Similar(a, b) == a.pose - b.pose < Atol /\ b.pose - a.pose < Atol

\* Variant: enumerates the chunk from 1.
ChunkFromNext(obs) == [i \in 1..ActionsPerChunk |-> obs.timestep + i]

\* _time_action_chunk: the timesteps of the chunk predicted from obs.
Chunk(obs) == ChunkFrom(obs.timestep)

Goto(w, from, to) == pc[w] = from /\ pc' = [pc EXCEPT ![w] = to]

shared == <<shutdown, obsQueue, current, predictedTimesteps,
            lastProcessedObs, policyLoaded>>

-----------------------------------------------------------------------------
(* A call arrives and an idle worker takes it; a handler that has finished *)
(* hands its answer over and its worker is idle again.                     *)

StartSendObservations(w, obs) ==
  /\ Goto(w, "idle", "receive")
  /\ arg' = [arg EXCEPT ![w] = obs]
  /\ UNCHANGED <<shared, ref, prev>>

StartGetActions(w) == Goto(w, "idle", "get") /\ UNCHANGED <<shared, arg, ref, prev>>

\* The Ready calls that have yet to make their queue.
PendingResets == {v \in Workers : pc[v] \in {"reset", "renew"}}

StartReady(w) ==
  /\ current + Cardinality(PendingResets) < MaxResets
  /\ Goto(w, "idle", "reset")
  /\ UNCHANGED <<shared, arg, ref, prev>>

StartSendPolicyInstructions(w) ==
  Goto(w, "idle", "instruct") /\ UNCHANGED <<shared, arg, ref, prev>>

Return(w) ==
  /\ pc[w] \in ReturnPc
  /\ pc' = [pc EXCEPT ![w] = "idle"]
  /\ arg' = [arg EXCEPT ![w] = None]
  /\ ref' = [ref EXCEPT ![w] = 0]
  /\ UNCHANGED <<shared, prev>>

-----------------------------------------------------------------------------
(* Ready: _reset_server, then shutdown_event.clear().  last_processed_obs  *)
(* is not touched.                                                         *)

BeginReset(w) ==
  /\ Goto(w, "reset", "renew")
  /\ shutdown' = TRUE
  /\ UNCHANGED <<obsQueue, current, predictedTimesteps, lastProcessedObs,
                 policyLoaded, arg, ref, prev>>

RenewQueue(w) ==
  /\ Goto(w, "renew", "forget")
  /\ current' = current + 1
  /\ UNCHANGED <<shutdown, obsQueue, predictedTimesteps, lastProcessedObs,
                 policyLoaded, arg, ref, prev>>

ForgetPredicted(w) ==
  /\ Goto(w, "forget", "resume")
  /\ predictedTimesteps' = {}
  /\ UNCHANGED <<shutdown, obsQueue, current, lastProcessedObs, policyLoaded,
                 arg, ref, prev>>

\* Variant: Ready does not clear shutdown_event.
ResumeWithoutClear(w) == Goto(w, "resume", "ok") /\ UNCHANGED <<shared, arg, ref, prev>>

Resume(w) ==
  /\ Goto(w, "resume", "ok")
  /\ shutdown' = FALSE
  /\ UNCHANGED <<obsQueue, current, predictedTimesteps, lastProcessedObs,
                 policyLoaded, arg, ref, prev>>

-----------------------------------------------------------------------------
(* SendPolicyInstructions: ignored while the server is shut down (the call *)
(* still succeeds), otherwise the policy is loaded, which may raise.       *)

IgnoreInstructions(w) ==
  shutdown /\ Goto(w, "instruct", "ok") /\ UNCHANGED <<shared, arg, ref, prev>>

AcceptInstructions(w) ==
  ~shutdown /\ Goto(w, "instruct", "load") /\ UNCHANGED <<shared, arg, ref, prev>>

LoadPolicy(w) ==
  /\ Goto(w, "load", "ok")
  /\ policyLoaded' = TRUE
  /\ UNCHANGED <<shutdown, obsQueue, current, predictedTimesteps,
                 lastProcessedObs, arg, ref, prev>>

LoadFails(w) == Goto(w, "load", "error") /\ UNCHANGED <<shared, arg, ref, prev>>

-----------------------------------------------------------------------------
(* SendObservations: receive the chunks, then _enqueue_observation.        *)

\* receive_bytes_in_chunks returns None when it sees shutdown_event, and
\* unpickling None raises.
ReceiveRefused(w) ==
  shutdown /\ Goto(w, "receive", "error") /\ UNCHANGED <<shared, arg, ref, prev>>

Receive(w) ==
  ~shutdown /\ Goto(w, "receive", "check") /\ UNCHANGED <<shared, arg, ref, prev>>

\* obs.must_go or self.last_processed_obs is None; the observation handed to
\* _obs_sanity_checks is the last_processed_obs of this moment.
CheckMustGo(w) ==
  LET previous == IF arg[w].mustGo THEN None ELSE lastProcessedObs
  IN  /\ Goto(w, "check", IF previous = None THEN "full" ELSE "sanity")
      /\ prev' = [prev EXCEPT ![w] = previous]
      /\ UNCHANGED <<shared, arg, ref>>

\* _obs_sanity_checks
Redundant(w) == \/ arg[w].timestep \in predictedTimesteps
                \/ Similar(arg[w], prev[w])

FilterObservation(w) ==
  /\ Goto(w, "sanity", "ok")
  /\ Redundant(w)
  /\ prev' = [prev EXCEPT ![w] = None]
  /\ UNCHANGED <<shared, arg, ref>>

PassObservation(w) ==
  /\ Goto(w, "sanity", "full")
  /\ ~Redundant(w)
  /\ prev' = [prev EXCEPT ![w] = None]
  /\ UNCHANGED <<shared, arg, ref>>

\* Variant: the oldest observation is not evicted from a full queue.
CheckNothing(w) == Goto(w, "full", "put") /\ UNCHANGED <<shared, arg, ref, prev>>

\* self.observation_queue.full()
CheckFull(w) ==
  /\ Goto(w, "full", IF obsQueue[current] = None THEN "put" ELSE "evict")
  /\ UNCHANGED <<shared, arg, ref, prev>>

\* self.observation_queue.get_nowait()
EvictOldest(w) ==
  /\ obsQueue[current] # None
  /\ Goto(w, "evict", "put")
  /\ obsQueue' = [obsQueue EXCEPT ![current] = None]
  /\ UNCHANGED <<shutdown, current, predictedTimesteps, lastProcessedObs,
                 policyLoaded, arg, ref, prev>>

\* ... which raises queue.Empty when GetActions emptied the queue first.
EvictRaisesEmpty(w) ==
  /\ obsQueue[current] = None
  /\ Goto(w, "evict", "error")
  /\ UNCHANGED <<shared, arg, ref, prev>>

\* self.observation_queue.put(obs)
Put(w) ==
  /\ obsQueue[current] = None
  /\ Goto(w, "put", "ok")
  /\ obsQueue' = [obsQueue EXCEPT ![current] = arg[w]]
  /\ UNCHANGED <<shutdown, current, predictedTimesteps, lastProcessedObs,
                 policyLoaded, arg, ref, prev>>

\* ... which waits on that queue object while it is full.
PutBlocks(w) ==
  /\ obsQueue[current] # None
  /\ Goto(w, "put", "blocked")
  /\ ref' = [ref EXCEPT ![w] = current]
  /\ UNCHANGED <<shared, arg, prev>>

PutUnblocks(w) ==
  /\ obsQueue[ref[w]] = None
  /\ Goto(w, "blocked", "ok")
  /\ obsQueue' = [obsQueue EXCEPT ![ref[w]] = arg[w]]
  /\ UNCHANGED <<shutdown, current, predictedTimesteps, lastProcessedObs,
                 policyLoaded, arg, ref, prev>>

-----------------------------------------------------------------------------
(* GetActions.                                                             *)

\* self.observation_queue.get(timeout=...) starts to wait on the queue
\* object of this moment.
BeginGet(w) ==
  /\ Goto(w, "get", "wait")
  /\ ref' = [ref EXCEPT ![w] = current]
  /\ UNCHANGED <<shared, arg, prev>>

\* Variant: the observation is taken from the queue and dropped.
TakeAndDrop(w) ==
  /\ obsQueue[ref[w]] # None
  /\ Goto(w, "wait", "mark")
  /\ obsQueue' = [obsQueue EXCEPT ![ref[w]] = None]
  /\ UNCHANGED <<shutdown, current, predictedTimesteps, lastProcessedObs,
                 policyLoaded, arg, ref, prev>>

TakeObservation(w) ==
  /\ obsQueue[ref[w]] # None
  /\ Goto(w, "wait", "mark")
  /\ arg' = [arg EXCEPT ![w] = obsQueue[ref[w]]]
  /\ obsQueue' = [obsQueue EXCEPT ![ref[w]] = None]
  /\ UNCHANGED <<shutdown, current, predictedTimesteps, lastProcessedObs,
                 policyLoaded, ref, prev>>

\* queue.Empty is raised only if the queue is empty when the time is up.
GetTimesOut(w) ==
  /\ obsQueue[ref[w]] = None
  /\ Goto(w, "wait", "empty")
  /\ UNCHANGED <<shared, arg, ref, prev>>

MarkPredicted(w) ==
  /\ Goto(w, "mark", "prepare")
  /\ predictedTimesteps' = predictedTimesteps \cup {arg[w].timestep}
  /\ UNCHANGED <<shutdown, obsQueue, current, lastProcessedObs, policyLoaded,
                 arg, ref, prev>>

\* _predict_action_chunk up to the assignment of last_processed_obs
Preprocess(w) ==
  /\ policyLoaded
  /\ Goto(w, "prepare", "infer")
  /\ lastProcessedObs' = arg[w]
  /\ UNCHANGED <<shutdown, obsQueue, current, predictedTimesteps, policyLoaded,
                 arg, ref, prev>>

PredictChunk(w) == Goto(w, "infer", "chunk") /\ UNCHANGED <<shared, arg, ref, prev>>

\* Any exception in GetActions is answered with Empty.
PreprocessFails(w) == Goto(w, "prepare", "empty") /\ UNCHANGED <<shared, arg, ref, prev>>
PredictFails(w)    == Goto(w, "infer", "empty") /\ UNCHANGED <<shared, arg, ref, prev>>

-----------------------------------------------------------------------------
ReadyStep(w) ==
  BeginReset(w) \/ RenewQueue(w) \/ ForgetPredicted(w) \/ Resume(w)

InstructStep(w) == IgnoreInstructions(w) \/ AcceptInstructions(w) \/ LoadPolicy(w)

SendObservationsStep(w) ==
  \/ ReceiveRefused(w) \/ Receive(w) \/ CheckMustGo(w)
  \/ FilterObservation(w) \/ PassObservation(w)
  \/ CheckFull(w) \/ EvictOldest(w) \/ EvictRaisesEmpty(w)
  \/ Put(w) \/ PutBlocks(w) \/ PutUnblocks(w)

GetActionsStep(w) ==
  \/ BeginGet(w) \/ TakeObservation(w) \/ GetTimesOut(w) \/ MarkPredicted(w)
  \/ Preprocess(w) \/ PredictChunk(w)
  \/ ~policyLoaded /\ PreprocessFails(w)

\* What a handler does when nothing goes wrong outside this program.
HandlerStep(w) == \/ ReadyStep(w) \/ InstructStep(w)
                  \/ SendObservationsStep(w) \/ GetActionsStep(w)

\* The checkpoint cannot be loaded, or the model raises.
HandlerFails(w) == LoadFails(w) \/ PreprocessFails(w) \/ PredictFails(w)

\* Any client may call any RPC at any moment.
Call(w) == \/ \E obs \in Observation : StartSendObservations(w, obs)
           \/ StartGetActions(w)
           \/ StartReady(w)
           \/ StartSendPolicyInstructions(w)

ServerNext == \E w \in Workers : Call(w) \/ HandlerStep(w) \/ HandlerFails(w) \/ Return(w)

ServerSpec == ServerInit /\ [][ServerNext]_serverVars

-----------------------------------------------------------------------------
(* Properties.                                                             *)

\* Every variable has its type (the attributes set in PolicyServer.__init__
\* and the locals of the handlers).
ServerTypeOK ==
  /\ shutdown \in BOOLEAN
  /\ obsQueue \in [QueueIds -> Observation \cup {None}]
  /\ current \in QueueIds
  /\ predictedTimesteps \in SUBSET Timesteps
  /\ lastProcessedObs \in Observation \cup {None}
  /\ policyLoaded \in BOOLEAN
  /\ pc \in [Workers -> HandlerPc]
  /\ arg \in [Workers -> Observation \cup {None}]
  /\ ref \in [Workers -> QueueIds]
  /\ prev \in [Workers -> Observation \cup {None}]
  /\ \A w \in Workers : pc[w] \in SendingPc \cup (GettingPc \ {"get", "wait"})
                           => arg[w] \in Observation

Blocked(w) == \/ pc[w] = "put" /\ obsQueue[current] # None
              \/ pc[w] = "blocked" /\ obsQueue[ref[w]] # None

\* The full()/get_nowait()/put() sequence of _enqueue_observation is not
\* atomic, and a handler whose put finds the queue full holds its pool thread,
\* possibly for ever when Ready has replaced that queue.  Still the pool is
\* never used up this way: some thread is always free to run, or to become
\* free for, the GetActions that drains the queue.
PoolNeverExhausted == Workers # {} => \E w \in Workers : ~Blocked(w)

\* Overlapping Ready calls set and clear shutdown_event in any order; the
\* server is never left shut down (refusing observations and instructions)
\* without a Ready that is still going to clear it.
NeverLeftShutDown ==
  shutdown => \E w \in Workers : pc[w] \in ResettingPc
=============================================================================
