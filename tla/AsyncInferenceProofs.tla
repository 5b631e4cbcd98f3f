------------------------ MODULE AsyncInferenceProofs ------------------------
(***************************************************************************)
(* Proofs about asynchronous inference: the policy server alone, called by *)
(* anyone; the robot client alone, against any server; and the two joined. *)
(*                                                                         *)
(* NoTimestepSkipped is not inductive: what is queued, held, merged and    *)
(* received must already be free of gaps.  ClientInv says so for each.     *)
(***************************************************************************)
EXTENDS AsyncInference, FiniteSetTheorems, TLAPS

-----------------------------------------------------------------------------
(*                            THE POLICY SERVER                            *)
(* For any pool of threads, any observations and any number of resets.     *)

-----------------------------------------------------------------------------
(* The inductive invariant.                                                *)

\* A reset that has begun still has a queue number left.
ResetInv == current + Cardinality(PendingResets) <= MaxResets

\* When every thread of the pool is at its put, the queue they share is empty
\* and one of them is about to fill it.
PoolInv ==
  Workers # {} =>
    \/ \E w \in Workers : pc[w] \notin {"put", "blocked"}
    \/ /\ obsQueue[current] = None
       /\ \E w \in Workers : pc[w] = "put" \/ (pc[w] = "blocked" /\ ref[w] = current)

ServerTypeInv == ServerTypeOK /\ ResetInv
ServerInv    == ServerTypeInv /\ PoolInv /\ NeverLeftShutDown

-----------------------------------------------------------------------------
(* Lemmas.                                                                 *)

\* The steps of ServerNext, one disjunct each.
LEMMA ServerCases ==
  ServerNext => \E w \in Workers :
    \/ (\E obs \in Observation : StartSendObservations(w, obs)) \/ StartReady(w)
    \/ RenewQueue(w)
    \/ StartGetActions(w) \/ StartSendPolicyInstructions(w) \/ Return(w)
    \/ BeginReset(w) \/ ForgetPredicted(w) \/ Resume(w)
    \/ IgnoreInstructions(w) \/ AcceptInstructions(w) \/ LoadPolicy(w)
    \/ LoadFails(w) \/ ReceiveRefused(w) \/ Receive(w) \/ CheckMustGo(w)
    \/ FilterObservation(w) \/ PassObservation(w) \/ CheckFull(w)
    \/ EvictOldest(w) \/ EvictRaisesEmpty(w) \/ Put(w) \/ PutBlocks(w)
    \/ PutUnblocks(w) \/ BeginGet(w) \/ TakeObservation(w) \/ GetTimesOut(w)
    \/ MarkPredicted(w) \/ Preprocess(w) \/ PredictChunk(w)
    \/ PreprocessFails(w) \/ PredictFails(w)
BY DEF ServerNext, Call, HandlerStep, HandlerFails, ReadyStep, InstructStep,
   SendObservationsStep, GetActionsStep

\* A thread moves on, the others stay where they are.
LEMMA GotoMoves ==
  ASSUME ServerTypeOK, NEW w \in Workers, NEW from, NEW to \in HandlerPc, Goto(w, from, to)
  PROVE  /\ pc[w] = from /\ pc'[w] = to /\ pc' \in [Workers -> HandlerPc]
         /\ \A v \in Workers \ {w} : pc'[v] = pc[v]
BY DEF ServerTypeOK, Goto

\* At any time there are finitely many resets not yet resumed: no more than workers.
LEMMA PendingFinite == IsFiniteSet(PendingResets) /\ Cardinality(PendingResets) \in Nat
BY ServerAssumption, FS_Subset, FS_CardinalityType DEF PendingResets

-----------------------------------------------------------------------------
(* Types.                                                                  *)

\* The attributes have their types when serve() starts.
LEMMA ServerTypeInit == ServerInit => ServerTypeInv
<1> SUFFICES ASSUME ServerInit PROVE ServerTypeInv
  OBVIOUS
<1>1. ServerTypeOK
  <2>1. 0 \in QueueIds
    BY ServerAssumption DEF QueueIds
  <2>2. shutdown \in BOOLEAN /\ policyLoaded \in BOOLEAN
    BY DEF ServerInit
  <2>3. "idle" \in HandlerPc
    BY DEF HandlerPc
  <2>4. \A w \in Workers : pc[w] \notin SendingPc \cup (GettingPc \ {"get", "wait"})
    BY DEF ServerInit, SendingPc, GettingPc
  <2>5. predictedTimesteps \in SUBSET Timesteps
    BY DEF ServerInit
  <2> QED
    BY <2>1, <2>2, <2>3, <2>4, <2>5 DEF ServerInit, ServerTypeOK
<1>2. PendingResets = {}
  BY DEF ServerInit, PendingResets
<1>3. ResetInv
  BY <1>2, FS_EmptySet, ServerAssumption DEF ServerInit, ResetInv
<1> QED
  BY <1>1, <1>3 DEF ServerTypeInv

\* A step of a thread that neither takes a Ready call nor renews the queue.
LEMMA ResetUntouched ==
  ASSUME ResetInv, current' = current, PendingResets' = PendingResets
  PROVE  ResetInv'
BY DEF ResetInv

\* No step of a handler takes an attribute out of its type.
LEMMA ServerTypeStep == ServerTypeInv /\ [ServerNext]_serverVars => ServerTypeInv'
<1> SUFFICES ASSUME ServerTypeInv, [ServerNext]_serverVars PROVE ServerTypeInv'
  OBVIOUS
<1> USE DEF ServerTypeInv
<1>1. CASE UNCHANGED serverVars
  BY <1>1 DEF ServerTypeOK, serverVars, ResetInv, PendingResets
<1>2. ASSUME NEW w \in Workers, NEW obs \in Observation, StartSendObservations(w, obs)
      PROVE  ServerTypeInv'
  <2>1. ServerTypeOK'
    BY <1>2 DEF StartSendObservations, Goto, ServerTypeOK, shared, HandlerPc, SendingPc, GettingPc
  <2>2. PendingResets' = PendingResets /\ current' = current
    BY <1>2 DEF StartSendObservations, Goto, ServerTypeOK, shared, PendingResets
  <2> QED
    BY <2>1, <2>2, ResetUntouched
<1>3. ASSUME NEW w \in Workers, StartReady(w) PROVE ServerTypeInv'
  <2>1. ServerTypeOK'
    BY <1>3 DEF StartReady, Goto, ServerTypeOK, shared, HandlerPc, SendingPc, GettingPc
  <2>2. PendingResets' = PendingResets \cup {w} /\ w \notin PendingResets /\ current' = current
    BY <1>3 DEF StartReady, Goto, ServerTypeOK, shared, PendingResets
  <2>3. Cardinality(PendingResets') = Cardinality(PendingResets) + 1
    BY <2>2, PendingFinite, FS_AddElement
  <2>4. current \in Nat /\ current + Cardinality(PendingResets) < MaxResets
    BY <1>3 DEF StartReady, ServerTypeOK, QueueIds
  <2> QED
    BY <2>1, <2>2, <2>3, <2>4, PendingFinite, ServerAssumption DEF ResetInv
<1>4. ASSUME NEW w \in Workers, RenewQueue(w) PROVE ServerTypeInv'
  <2>1. PendingResets' = PendingResets \ {w} /\ w \in PendingResets /\ current' = current + 1
    BY <1>4 DEF RenewQueue, Goto, ServerTypeOK, PendingResets
  <2>2. Cardinality(PendingResets') = Cardinality(PendingResets) - 1
    BY <2>1, PendingFinite, FS_RemoveElement
  <2>3. ResetInv' /\ current' \in QueueIds
    <3>1. Cardinality(PendingResets') \in Nat
      BY <2>1, PendingFinite, FS_RemoveElement, FS_CardinalityType
    <3> QED
      BY <2>1, <2>2, <3>1, PendingFinite, ServerAssumption DEF ResetInv, ServerTypeOK, QueueIds
  <2>4. ServerTypeOK'
    BY <1>4, <2>3 DEF RenewQueue, Goto, ServerTypeOK, HandlerPc, SendingPc, GettingPc, ResettingPc
  <2> QED
    BY <2>3, <2>4
<1>5. ASSUME NEW w \in Workers, StartGetActions(w) PROVE ServerTypeInv'
  <2>1. ServerTypeOK'
    BY <1>5, ServerAssumption DEF StartGetActions, Goto, ServerTypeOK, shared, HandlerPc, SendingPc,
       GettingPc, ResettingPc, InstructingPc, ReturnPc
  <2>2. PendingResets' = PendingResets /\ current' = current
    BY <1>5 DEF StartGetActions, Goto, ServerTypeOK, shared, PendingResets, ReturnPc
  <2> QED
    BY <2>1, <2>2, ResetUntouched
<1>6. ASSUME NEW w \in Workers, StartSendPolicyInstructions(w) PROVE ServerTypeInv'
  <2>1. ServerTypeOK'
    BY <1>6, ServerAssumption DEF StartSendPolicyInstructions, Goto, ServerTypeOK, shared, HandlerPc, SendingPc,
       GettingPc, ResettingPc, InstructingPc, ReturnPc
  <2>2. PendingResets' = PendingResets /\ current' = current
    BY <1>6 DEF StartSendPolicyInstructions, Goto, ServerTypeOK, shared, PendingResets, ReturnPc
  <2> QED
    BY <2>1, <2>2, ResetUntouched
<1>7. ASSUME NEW w \in Workers, Return(w) PROVE ServerTypeInv'
  <2>1. ServerTypeOK'
    <3>1. 0 \in QueueIds /\ "idle" \in HandlerPc
      BY ServerAssumption DEF QueueIds, HandlerPc
    <3>2. /\ pc' \in [Workers -> HandlerPc] /\ arg' \in [Workers -> Observation \cup {None}]
          /\ ref' \in [Workers -> QueueIds]
      BY <1>7, <3>1 DEF Return, ServerTypeOK
    <3>3. \A v \in Workers : pc'[v] \in SendingPc \cup (GettingPc \ {"get", "wait"})
                               => arg'[v] \in Observation
      BY <1>7 DEF Return, ServerTypeOK, SendingPc, GettingPc
    <3> QED
      BY <1>7, <3>2, <3>3 DEF Return, ServerTypeOK, shared
  <2>2. PendingResets' = PendingResets /\ current' = current
    BY <1>7 DEF Return, Goto, ServerTypeOK, shared, PendingResets, ReturnPc
  <2> QED
    BY <2>1, <2>2, ResetUntouched
<1>8. ASSUME NEW w \in Workers, BeginReset(w) PROVE ServerTypeInv'
  <2>1. ServerTypeOK'
    BY <1>8, ServerAssumption DEF BeginReset, Goto, ServerTypeOK, shared, HandlerPc, SendingPc,
       GettingPc, ResettingPc, InstructingPc, ReturnPc
  <2>2. PendingResets' = PendingResets /\ current' = current
    BY <1>8 DEF BeginReset, Goto, ServerTypeOK, shared, PendingResets, ReturnPc
  <2> QED
    BY <2>1, <2>2, ResetUntouched
<1>9. ASSUME NEW w \in Workers, ForgetPredicted(w) PROVE ServerTypeInv'
  <2>1. ServerTypeOK'
    BY <1>9, ServerAssumption DEF ForgetPredicted, Goto, ServerTypeOK, shared, HandlerPc, SendingPc,
       GettingPc, ResettingPc, InstructingPc, ReturnPc
  <2>2. PendingResets' = PendingResets /\ current' = current
    BY <1>9 DEF ForgetPredicted, Goto, ServerTypeOK, shared, PendingResets, ReturnPc
  <2> QED
    BY <2>1, <2>2, ResetUntouched
<1>10. ASSUME NEW w \in Workers, Resume(w) PROVE ServerTypeInv'
  <2>1. ServerTypeOK'
    BY <1>10, ServerAssumption DEF Resume, Goto, ServerTypeOK, shared, HandlerPc, SendingPc,
       GettingPc, ResettingPc, InstructingPc, ReturnPc
  <2>2. PendingResets' = PendingResets /\ current' = current
    BY <1>10 DEF Resume, Goto, ServerTypeOK, shared, PendingResets, ReturnPc
  <2> QED
    BY <2>1, <2>2, ResetUntouched
<1>11. ASSUME NEW w \in Workers, IgnoreInstructions(w) PROVE ServerTypeInv'
  <2>1. ServerTypeOK'
    BY <1>11, ServerAssumption DEF IgnoreInstructions, Goto, ServerTypeOK, shared, HandlerPc, SendingPc,
       GettingPc, ResettingPc, InstructingPc, ReturnPc
  <2>2. PendingResets' = PendingResets /\ current' = current
    BY <1>11 DEF IgnoreInstructions, Goto, ServerTypeOK, shared, PendingResets, ReturnPc
  <2> QED
    BY <2>1, <2>2, ResetUntouched
<1>12. ASSUME NEW w \in Workers, AcceptInstructions(w) PROVE ServerTypeInv'
  <2>1. ServerTypeOK'
    BY <1>12, ServerAssumption DEF AcceptInstructions, Goto, ServerTypeOK, shared, HandlerPc, SendingPc,
       GettingPc, ResettingPc, InstructingPc, ReturnPc
  <2>2. PendingResets' = PendingResets /\ current' = current
    BY <1>12 DEF AcceptInstructions, Goto, ServerTypeOK, shared, PendingResets, ReturnPc
  <2> QED
    BY <2>1, <2>2, ResetUntouched
<1>13. ASSUME NEW w \in Workers, LoadPolicy(w) PROVE ServerTypeInv'
  <2>1. ServerTypeOK'
    BY <1>13, ServerAssumption DEF LoadPolicy, Goto, ServerTypeOK, shared, HandlerPc, SendingPc,
       GettingPc, ResettingPc, InstructingPc, ReturnPc
  <2>2. PendingResets' = PendingResets /\ current' = current
    BY <1>13 DEF LoadPolicy, Goto, ServerTypeOK, shared, PendingResets, ReturnPc
  <2> QED
    BY <2>1, <2>2, ResetUntouched
<1>14. ASSUME NEW w \in Workers, LoadFails(w) PROVE ServerTypeInv'
  <2>1. ServerTypeOK'
    BY <1>14, ServerAssumption DEF LoadFails, Goto, ServerTypeOK, shared, HandlerPc, SendingPc,
       GettingPc, ResettingPc, InstructingPc, ReturnPc
  <2>2. PendingResets' = PendingResets /\ current' = current
    BY <1>14 DEF LoadFails, Goto, ServerTypeOK, shared, PendingResets, ReturnPc
  <2> QED
    BY <2>1, <2>2, ResetUntouched
<1>15. ASSUME NEW w \in Workers, ReceiveRefused(w) PROVE ServerTypeInv'
  <2>1. ServerTypeOK'
    BY <1>15, ServerAssumption DEF ReceiveRefused, Goto, ServerTypeOK, shared, HandlerPc, SendingPc,
       GettingPc, ResettingPc, InstructingPc, ReturnPc
  <2>2. PendingResets' = PendingResets /\ current' = current
    BY <1>15 DEF ReceiveRefused, Goto, ServerTypeOK, shared, PendingResets, ReturnPc
  <2> QED
    BY <2>1, <2>2, ResetUntouched
<1>16. ASSUME NEW w \in Workers, Receive(w) PROVE ServerTypeInv'
  <2>1. ServerTypeOK'
    BY <1>16, ServerAssumption DEF Receive, Goto, ServerTypeOK, shared, HandlerPc, SendingPc,
       GettingPc, ResettingPc, InstructingPc, ReturnPc
  <2>2. PendingResets' = PendingResets /\ current' = current
    BY <1>16 DEF Receive, Goto, ServerTypeOK, shared, PendingResets, ReturnPc
  <2> QED
    BY <2>1, <2>2, ResetUntouched
<1>17. ASSUME NEW w \in Workers, CheckMustGo(w) PROVE ServerTypeInv'
  <2>1. ServerTypeOK'
    BY <1>17, ServerAssumption DEF CheckMustGo, Goto, ServerTypeOK, shared, HandlerPc, SendingPc,
       GettingPc, ResettingPc, InstructingPc, ReturnPc
  <2>2. PendingResets' = PendingResets /\ current' = current
    BY <1>17 DEF CheckMustGo, Goto, ServerTypeOK, shared, PendingResets, ReturnPc
  <2> QED
    BY <2>1, <2>2, ResetUntouched
<1>18. ASSUME NEW w \in Workers, FilterObservation(w) PROVE ServerTypeInv'
  <2>1. ServerTypeOK'
    BY <1>18, ServerAssumption DEF FilterObservation, Goto, ServerTypeOK, shared, HandlerPc, SendingPc,
       GettingPc, ResettingPc, InstructingPc, ReturnPc
  <2>2. PendingResets' = PendingResets /\ current' = current
    BY <1>18 DEF FilterObservation, Goto, ServerTypeOK, shared, PendingResets, ReturnPc
  <2> QED
    BY <2>1, <2>2, ResetUntouched
<1>19. ASSUME NEW w \in Workers, PassObservation(w) PROVE ServerTypeInv'
  <2>1. ServerTypeOK'
    BY <1>19, ServerAssumption DEF PassObservation, Goto, ServerTypeOK, shared, HandlerPc, SendingPc,
       GettingPc, ResettingPc, InstructingPc, ReturnPc
  <2>2. PendingResets' = PendingResets /\ current' = current
    BY <1>19 DEF PassObservation, Goto, ServerTypeOK, shared, PendingResets, ReturnPc
  <2> QED
    BY <2>1, <2>2, ResetUntouched
<1>20. ASSUME NEW w \in Workers, CheckFull(w) PROVE ServerTypeInv'
  <2>1. ServerTypeOK'
    BY <1>20, ServerAssumption DEF CheckFull, Goto, ServerTypeOK, shared, HandlerPc, SendingPc,
       GettingPc, ResettingPc, InstructingPc, ReturnPc
  <2>2. PendingResets' = PendingResets /\ current' = current
    BY <1>20 DEF CheckFull, Goto, ServerTypeOK, shared, PendingResets, ReturnPc
  <2> QED
    BY <2>1, <2>2, ResetUntouched
<1>21. ASSUME NEW w \in Workers, EvictOldest(w) PROVE ServerTypeInv'
  <2>1. ServerTypeOK'
    BY <1>21, ServerAssumption DEF EvictOldest, Goto, ServerTypeOK, shared, HandlerPc, SendingPc,
       GettingPc, ResettingPc, InstructingPc, ReturnPc
  <2>2. PendingResets' = PendingResets /\ current' = current
    BY <1>21 DEF EvictOldest, Goto, ServerTypeOK, shared, PendingResets, ReturnPc
  <2> QED
    BY <2>1, <2>2, ResetUntouched
<1>22. ASSUME NEW w \in Workers, EvictRaisesEmpty(w) PROVE ServerTypeInv'
  <2>1. ServerTypeOK'
    BY <1>22, ServerAssumption DEF EvictRaisesEmpty, Goto, ServerTypeOK, shared, HandlerPc, SendingPc,
       GettingPc, ResettingPc, InstructingPc, ReturnPc
  <2>2. PendingResets' = PendingResets /\ current' = current
    BY <1>22 DEF EvictRaisesEmpty, Goto, ServerTypeOK, shared, PendingResets, ReturnPc
  <2> QED
    BY <2>1, <2>2, ResetUntouched
<1>23. ASSUME NEW w \in Workers, Put(w) PROVE ServerTypeInv'
  <2>1. ServerTypeOK'
    BY <1>23, ServerAssumption DEF Put, Goto, ServerTypeOK, shared, HandlerPc, SendingPc,
       GettingPc, ResettingPc, InstructingPc, ReturnPc
  <2>2. PendingResets' = PendingResets /\ current' = current
    BY <1>23 DEF Put, Goto, ServerTypeOK, shared, PendingResets, ReturnPc
  <2> QED
    BY <2>1, <2>2, ResetUntouched
<1>24. ASSUME NEW w \in Workers, PutBlocks(w) PROVE ServerTypeInv'
  <2>1. ServerTypeOK'
    BY <1>24, ServerAssumption DEF PutBlocks, Goto, ServerTypeOK, shared, HandlerPc, SendingPc,
       GettingPc, ResettingPc, InstructingPc, ReturnPc
  <2>2. PendingResets' = PendingResets /\ current' = current
    BY <1>24 DEF PutBlocks, Goto, ServerTypeOK, shared, PendingResets, ReturnPc
  <2> QED
    BY <2>1, <2>2, ResetUntouched
<1>25. ASSUME NEW w \in Workers, PutUnblocks(w) PROVE ServerTypeInv'
  <2>1. ServerTypeOK'
    BY <1>25, ServerAssumption DEF PutUnblocks, Goto, ServerTypeOK, shared, HandlerPc, SendingPc,
       GettingPc, ResettingPc, InstructingPc, ReturnPc
  <2>2. PendingResets' = PendingResets /\ current' = current
    BY <1>25 DEF PutUnblocks, Goto, ServerTypeOK, shared, PendingResets, ReturnPc
  <2> QED
    BY <2>1, <2>2, ResetUntouched
<1>26. ASSUME NEW w \in Workers, BeginGet(w) PROVE ServerTypeInv'
  <2>1. ServerTypeOK'
    BY <1>26, ServerAssumption DEF BeginGet, Goto, ServerTypeOK, shared, HandlerPc, SendingPc,
       GettingPc, ResettingPc, InstructingPc, ReturnPc
  <2>2. PendingResets' = PendingResets /\ current' = current
    BY <1>26 DEF BeginGet, Goto, ServerTypeOK, shared, PendingResets, ReturnPc
  <2> QED
    BY <2>1, <2>2, ResetUntouched
<1>27. ASSUME NEW w \in Workers, TakeObservation(w) PROVE ServerTypeInv'
  <2>1. ServerTypeOK'
    BY <1>27, ServerAssumption DEF TakeObservation, Goto, ServerTypeOK, shared, HandlerPc, SendingPc,
       GettingPc, ResettingPc, InstructingPc, ReturnPc
  <2>2. PendingResets' = PendingResets /\ current' = current
    BY <1>27 DEF TakeObservation, Goto, ServerTypeOK, shared, PendingResets, ReturnPc
  <2> QED
    BY <2>1, <2>2, ResetUntouched
<1>28. ASSUME NEW w \in Workers, GetTimesOut(w) PROVE ServerTypeInv'
  <2>1. ServerTypeOK'
    BY <1>28, ServerAssumption DEF GetTimesOut, Goto, ServerTypeOK, shared, HandlerPc, SendingPc,
       GettingPc, ResettingPc, InstructingPc, ReturnPc
  <2>2. PendingResets' = PendingResets /\ current' = current
    BY <1>28 DEF GetTimesOut, Goto, ServerTypeOK, shared, PendingResets, ReturnPc
  <2> QED
    BY <2>1, <2>2, ResetUntouched
<1>29. ASSUME NEW w \in Workers, MarkPredicted(w) PROVE ServerTypeInv'
  <2>1. ServerTypeOK'
    <3>1. arg[w] \in Observation
      BY <1>29 DEF MarkPredicted, Goto, ServerTypeOK, GettingPc
    <3>2. predictedTimesteps' \in SUBSET Timesteps
      BY <1>29, <3>1 DEF MarkPredicted, ServerTypeOK, Observation
    <3>3. pc' \in [Workers -> HandlerPc]
      BY <1>29 DEF MarkPredicted, Goto, ServerTypeOK, HandlerPc, GettingPc
    <3>4. \A v \in Workers : pc'[v] \in SendingPc \cup (GettingPc \ {"get", "wait"})
                               => arg'[v] \in Observation
      BY <1>29, <3>1 DEF MarkPredicted, Goto, ServerTypeOK, SendingPc, GettingPc
    <3> QED
      BY <1>29, <3>2, <3>3, <3>4 DEF MarkPredicted, ServerTypeOK
  <2>2. PendingResets' = PendingResets /\ current' = current
    BY <1>29 DEF MarkPredicted, Goto, ServerTypeOK, shared, PendingResets, ReturnPc
  <2> QED
    BY <2>1, <2>2, ResetUntouched
<1>30. ASSUME NEW w \in Workers, Preprocess(w) PROVE ServerTypeInv'
  <2>1. ServerTypeOK'
    BY <1>30, ServerAssumption DEF Preprocess, Goto, ServerTypeOK, shared, HandlerPc, SendingPc,
       GettingPc, ResettingPc, InstructingPc, ReturnPc
  <2>2. PendingResets' = PendingResets /\ current' = current
    BY <1>30 DEF Preprocess, Goto, ServerTypeOK, shared, PendingResets, ReturnPc
  <2> QED
    BY <2>1, <2>2, ResetUntouched
<1>31. ASSUME NEW w \in Workers, PredictChunk(w) PROVE ServerTypeInv'
  <2>1. ServerTypeOK'
    BY <1>31, ServerAssumption DEF PredictChunk, Goto, ServerTypeOK, shared, HandlerPc, SendingPc,
       GettingPc, ResettingPc, InstructingPc, ReturnPc
  <2>2. PendingResets' = PendingResets /\ current' = current
    BY <1>31 DEF PredictChunk, Goto, ServerTypeOK, shared, PendingResets, ReturnPc
  <2> QED
    BY <2>1, <2>2, ResetUntouched
<1>32. ASSUME NEW w \in Workers, PreprocessFails(w) PROVE ServerTypeInv'
  <2>1. ServerTypeOK'
    BY <1>32, ServerAssumption DEF PreprocessFails, Goto, ServerTypeOK, shared, HandlerPc, SendingPc,
       GettingPc, ResettingPc, InstructingPc, ReturnPc
  <2>2. PendingResets' = PendingResets /\ current' = current
    BY <1>32 DEF PreprocessFails, Goto, ServerTypeOK, shared, PendingResets, ReturnPc
  <2> QED
    BY <2>1, <2>2, ResetUntouched
<1>33. ASSUME NEW w \in Workers, PredictFails(w) PROVE ServerTypeInv'
  <2>1. ServerTypeOK'
    BY <1>33, ServerAssumption DEF PredictFails, Goto, ServerTypeOK, shared, HandlerPc, SendingPc,
       GettingPc, ResettingPc, InstructingPc, ReturnPc
  <2>2. PendingResets' = PendingResets /\ current' = current
    BY <1>33 DEF PredictFails, Goto, ServerTypeOK, shared, PendingResets, ReturnPc
  <2> QED
    BY <2>1, <2>2, ResetUntouched
<1> QED
  BY ServerCases, <1>1, <1>2, <1>3, <1>4, <1>5, <1>6, <1>7, <1>8, <1>9, <1>10,
     <1>11, <1>12, <1>13, <1>14, <1>15, <1>16, <1>17, <1>18, <1>19, <1>20,
     <1>21, <1>22, <1>23, <1>24, <1>25, <1>26, <1>27, <1>28, <1>29, <1>30,
     <1>31, <1>32, <1>33

\* The attributes of the server and the locals of its handlers keep their types.
THEOREM ServerTypeCorrect == ServerSpec => []ServerTypeOK
<1>1. ServerTypeInv => ServerTypeOK
  BY DEF ServerTypeInv
<1> QED
  BY ServerTypeInit, ServerTypeStep, <1>1, PTL DEF ServerSpec

-----------------------------------------------------------------------------
(* The pool.                                                               *)

\* A thread that is not at its put after the step is there to serve.
LEMMA ThreadElsewhere ==
  ASSUME NEW w \in Workers, pc'[w] \notin {"put", "blocked"}
  PROVE  PoolInv'
BY DEF PoolInv

\* A thread arrives at its put having seen or made the queue empty.
LEMMA ThreadArrives ==
  ASSUME NEW w \in Workers, pc'[w] = "put", obsQueue'[current'] = None
  PROVE  PoolInv'
BY DEF PoolInv

\* No step uses up the last worker with a put that blocks.
LEMMA PoolStep == ServerTypeInv /\ PoolInv /\ [ServerNext]_serverVars => PoolInv'
<1> SUFFICES ASSUME ServerTypeInv, PoolInv, [ServerNext]_serverVars PROVE PoolInv'
  OBVIOUS
<1> USE DEF ServerTypeInv
<1>1. CASE UNCHANGED serverVars
  BY <1>1 DEF PoolInv, serverVars
<1>2. ASSUME NEW w \in Workers, NEW obs \in Observation, StartSendObservations(w, obs)
      PROVE  PoolInv'
  BY <1>2, ThreadElsewhere DEF StartSendObservations, Goto, ServerTypeOK
<1>3. ASSUME NEW w \in Workers, StartReady(w) PROVE PoolInv'
  BY <1>3, ThreadElsewhere DEF StartReady, Goto, ServerTypeOK
<1>4. ASSUME NEW w \in Workers, RenewQueue(w) PROVE PoolInv'
  BY <1>4, ThreadElsewhere DEF RenewQueue, Goto, ServerTypeOK
<1>5. ASSUME NEW w \in Workers, CheckFull(w) PROVE PoolInv'
  <2>1. CASE obsQueue[current] = None
    <3>1. pc'[w] = "put" /\ obsQueue'[current'] = None
      BY <1>5, <2>1 DEF CheckFull, Goto, ServerTypeOK, shared
    <3> QED
      BY <3>1, ThreadArrives
  <2>2. CASE obsQueue[current] # None
    <3>1. pc'[w] = "evict"
      BY <1>5, <2>2 DEF CheckFull, Goto, ServerTypeOK
    <3> QED
      BY <3>1, ThreadElsewhere
  <2> QED
    BY <2>1, <2>2
<1>6. ASSUME NEW w \in Workers, EvictOldest(w) PROVE PoolInv'
  <2>1. pc'[w] = "put" /\ obsQueue'[current'] = None
    BY <1>6 DEF EvictOldest, Goto, ServerTypeOK
  <2> QED
    BY <2>1, ThreadArrives
<1>7. ASSUME NEW w \in Workers, PutBlocks(w) PROVE PoolInv'
  <2>1. PICK v \in Workers : pc[v] \notin {"put", "blocked"}
    BY <1>7 DEF PutBlocks, PoolInv
  <2>2. pc'[v] = pc[v]
    BY <1>7, <2>1 DEF PutBlocks, Goto, ServerTypeOK
  <2> QED
    BY <2>1, <2>2, ThreadElsewhere
<1>8. ASSUME NEW w \in Workers, StartGetActions(w) PROVE PoolInv'
  BY <1>8, ThreadElsewhere DEF StartGetActions, Goto, ServerTypeOK
<1>9. ASSUME NEW w \in Workers, StartSendPolicyInstructions(w) PROVE PoolInv'
  BY <1>9, ThreadElsewhere DEF StartSendPolicyInstructions, Goto, ServerTypeOK
<1>10. ASSUME NEW w \in Workers, Return(w) PROVE PoolInv'
  BY <1>10, ThreadElsewhere DEF Return, Goto, ServerTypeOK, ReturnPc
<1>11. ASSUME NEW w \in Workers, BeginReset(w) PROVE PoolInv'
  BY <1>11, ThreadElsewhere DEF BeginReset, Goto, ServerTypeOK
<1>12. ASSUME NEW w \in Workers, ForgetPredicted(w) PROVE PoolInv'
  BY <1>12, ThreadElsewhere DEF ForgetPredicted, Goto, ServerTypeOK
<1>13. ASSUME NEW w \in Workers, Resume(w) PROVE PoolInv'
  BY <1>13, ThreadElsewhere DEF Resume, Goto, ServerTypeOK
<1>14. ASSUME NEW w \in Workers, IgnoreInstructions(w) PROVE PoolInv'
  BY <1>14, ThreadElsewhere DEF IgnoreInstructions, Goto, ServerTypeOK
<1>15. ASSUME NEW w \in Workers, AcceptInstructions(w) PROVE PoolInv'
  BY <1>15, ThreadElsewhere DEF AcceptInstructions, Goto, ServerTypeOK
<1>16. ASSUME NEW w \in Workers, LoadPolicy(w) PROVE PoolInv'
  BY <1>16, ThreadElsewhere DEF LoadPolicy, Goto, ServerTypeOK
<1>17. ASSUME NEW w \in Workers, LoadFails(w) PROVE PoolInv'
  BY <1>17, ThreadElsewhere DEF LoadFails, Goto, ServerTypeOK
<1>18. ASSUME NEW w \in Workers, ReceiveRefused(w) PROVE PoolInv'
  BY <1>18, ThreadElsewhere DEF ReceiveRefused, Goto, ServerTypeOK
<1>19. ASSUME NEW w \in Workers, Receive(w) PROVE PoolInv'
  BY <1>19, ThreadElsewhere DEF Receive, Goto, ServerTypeOK
<1>20. ASSUME NEW w \in Workers, CheckMustGo(w) PROVE PoolInv'
  BY <1>20, ThreadElsewhere DEF CheckMustGo, Goto, ServerTypeOK
<1>21. ASSUME NEW w \in Workers, FilterObservation(w) PROVE PoolInv'
  BY <1>21, ThreadElsewhere DEF FilterObservation, Goto, ServerTypeOK
<1>22. ASSUME NEW w \in Workers, PassObservation(w) PROVE PoolInv'
  BY <1>22, ThreadElsewhere DEF PassObservation, Goto, ServerTypeOK
<1>23. ASSUME NEW w \in Workers, EvictRaisesEmpty(w) PROVE PoolInv'
  BY <1>23, ThreadElsewhere DEF EvictRaisesEmpty, Goto, ServerTypeOK
<1>24. ASSUME NEW w \in Workers, Put(w) PROVE PoolInv'
  BY <1>24, ThreadElsewhere DEF Put, Goto, ServerTypeOK
<1>25. ASSUME NEW w \in Workers, PutUnblocks(w) PROVE PoolInv'
  BY <1>25, ThreadElsewhere DEF PutUnblocks, Goto, ServerTypeOK
<1>26. ASSUME NEW w \in Workers, BeginGet(w) PROVE PoolInv'
  BY <1>26, ThreadElsewhere DEF BeginGet, Goto, ServerTypeOK
<1>27. ASSUME NEW w \in Workers, TakeObservation(w) PROVE PoolInv'
  BY <1>27, ThreadElsewhere DEF TakeObservation, Goto, ServerTypeOK
<1>28. ASSUME NEW w \in Workers, GetTimesOut(w) PROVE PoolInv'
  BY <1>28, ThreadElsewhere DEF GetTimesOut, Goto, ServerTypeOK
<1>29. ASSUME NEW w \in Workers, MarkPredicted(w) PROVE PoolInv'
  BY <1>29, ThreadElsewhere DEF MarkPredicted, Goto, ServerTypeOK
<1>30. ASSUME NEW w \in Workers, Preprocess(w) PROVE PoolInv'
  BY <1>30, ThreadElsewhere DEF Preprocess, Goto, ServerTypeOK
<1>31. ASSUME NEW w \in Workers, PredictChunk(w) PROVE PoolInv'
  BY <1>31, ThreadElsewhere DEF PredictChunk, Goto, ServerTypeOK
<1>32. ASSUME NEW w \in Workers, PreprocessFails(w) PROVE PoolInv'
  BY <1>32, ThreadElsewhere DEF PreprocessFails, Goto, ServerTypeOK
<1>33. ASSUME NEW w \in Workers, PredictFails(w) PROVE PoolInv'
  BY <1>33, ThreadElsewhere DEF PredictFails, Goto, ServerTypeOK
<1> QED
  BY ServerCases, <1>1, <1>2, <1>3, <1>4, <1>5, <1>6, <1>7, <1>8, <1>9, <1>10,
     <1>11, <1>12, <1>13, <1>14, <1>15, <1>16, <1>17, <1>18, <1>19, <1>20,
     <1>21, <1>22, <1>23, <1>24, <1>25, <1>26, <1>27, <1>28, <1>29, <1>30,
     <1>31, <1>32, <1>33

-----------------------------------------------------------------------------
(* shutdown_event.                                                         *)

\* A step that leaves shutdown_event alone and ends no reset.
LEMMA ResettersStay ==
  ASSUME NeverLeftShutDown, shutdown' = shutdown,
         \A v \in Workers : pc[v] \in ResettingPc => pc'[v] \in ResettingPc
  PROVE  NeverLeftShutDown'
BY DEF NeverLeftShutDown

\* No step leaves shutdown_event set without a Ready that will clear it.
LEMMA ShutDownStep ==
  ServerTypeInv /\ NeverLeftShutDown /\ [ServerNext]_serverVars => NeverLeftShutDown'
<1> SUFFICES ASSUME ServerTypeInv, NeverLeftShutDown, [ServerNext]_serverVars PROVE NeverLeftShutDown'
  OBVIOUS
<1> USE DEF ServerTypeInv
<1>1. CASE UNCHANGED serverVars
  BY <1>1, ResettersStay DEF serverVars
<1>2. ASSUME NEW w \in Workers, NEW obs \in Observation, StartSendObservations(w, obs)
      PROVE  NeverLeftShutDown'
  BY <1>2, ResettersStay DEF StartSendObservations, Goto, ServerTypeOK, shared, ResettingPc
<1>3. ASSUME NEW w \in Workers, StartReady(w) PROVE NeverLeftShutDown'
  BY <1>3, ResettersStay DEF StartReady, Goto, ServerTypeOK, shared, ResettingPc
<1>4. ASSUME NEW w \in Workers, RenewQueue(w) PROVE NeverLeftShutDown'
  BY <1>4, ResettersStay DEF RenewQueue, Goto, ServerTypeOK, ResettingPc
<1>5. ASSUME NEW w \in Workers, BeginReset(w) PROVE NeverLeftShutDown'
  BY <1>5 DEF BeginReset, Goto, ServerTypeOK, NeverLeftShutDown, ResettingPc
<1>6. ASSUME NEW w \in Workers, Resume(w) PROVE NeverLeftShutDown'
  BY <1>6 DEF Resume, NeverLeftShutDown
<1>7. ASSUME NEW w \in Workers, StartGetActions(w) PROVE NeverLeftShutDown'
  BY <1>7, ResettersStay DEF StartGetActions, Goto, ServerTypeOK, shared, ResettingPc
<1>8. ASSUME NEW w \in Workers, StartSendPolicyInstructions(w) PROVE NeverLeftShutDown'
  BY <1>8, ResettersStay DEF StartSendPolicyInstructions, Goto, ServerTypeOK, shared, ResettingPc
<1>9. ASSUME NEW w \in Workers, Return(w) PROVE NeverLeftShutDown'
  BY <1>9, ResettersStay DEF Return, Goto, ServerTypeOK, shared, ResettingPc, ReturnPc
<1>10. ASSUME NEW w \in Workers, ForgetPredicted(w) PROVE NeverLeftShutDown'
  BY <1>10, ResettersStay DEF ForgetPredicted, Goto, ServerTypeOK, shared, ResettingPc
<1>11. ASSUME NEW w \in Workers, IgnoreInstructions(w) PROVE NeverLeftShutDown'
  BY <1>11, ResettersStay DEF IgnoreInstructions, Goto, ServerTypeOK, shared, ResettingPc
<1>12. ASSUME NEW w \in Workers, AcceptInstructions(w) PROVE NeverLeftShutDown'
  BY <1>12, ResettersStay DEF AcceptInstructions, Goto, ServerTypeOK, shared, ResettingPc
<1>13. ASSUME NEW w \in Workers, LoadPolicy(w) PROVE NeverLeftShutDown'
  BY <1>13, ResettersStay DEF LoadPolicy, Goto, ServerTypeOK, shared, ResettingPc
<1>14. ASSUME NEW w \in Workers, LoadFails(w) PROVE NeverLeftShutDown'
  BY <1>14, ResettersStay DEF LoadFails, Goto, ServerTypeOK, shared, ResettingPc
<1>15. ASSUME NEW w \in Workers, ReceiveRefused(w) PROVE NeverLeftShutDown'
  BY <1>15, ResettersStay DEF ReceiveRefused, Goto, ServerTypeOK, shared, ResettingPc
<1>16. ASSUME NEW w \in Workers, Receive(w) PROVE NeverLeftShutDown'
  BY <1>16, ResettersStay DEF Receive, Goto, ServerTypeOK, shared, ResettingPc
<1>17. ASSUME NEW w \in Workers, CheckMustGo(w) PROVE NeverLeftShutDown'
  BY <1>17, ResettersStay DEF CheckMustGo, Goto, ServerTypeOK, shared, ResettingPc
<1>18. ASSUME NEW w \in Workers, FilterObservation(w) PROVE NeverLeftShutDown'
  BY <1>18, ResettersStay DEF FilterObservation, Goto, ServerTypeOK, shared, ResettingPc
<1>19. ASSUME NEW w \in Workers, PassObservation(w) PROVE NeverLeftShutDown'
  BY <1>19, ResettersStay DEF PassObservation, Goto, ServerTypeOK, shared, ResettingPc
<1>20. ASSUME NEW w \in Workers, CheckFull(w) PROVE NeverLeftShutDown'
  BY <1>20, ResettersStay DEF CheckFull, Goto, ServerTypeOK, shared, ResettingPc
<1>21. ASSUME NEW w \in Workers, EvictOldest(w) PROVE NeverLeftShutDown'
  BY <1>21, ResettersStay DEF EvictOldest, Goto, ServerTypeOK, shared, ResettingPc
<1>22. ASSUME NEW w \in Workers, EvictRaisesEmpty(w) PROVE NeverLeftShutDown'
  BY <1>22, ResettersStay DEF EvictRaisesEmpty, Goto, ServerTypeOK, shared, ResettingPc
<1>23. ASSUME NEW w \in Workers, Put(w) PROVE NeverLeftShutDown'
  BY <1>23, ResettersStay DEF Put, Goto, ServerTypeOK, shared, ResettingPc
<1>24. ASSUME NEW w \in Workers, PutBlocks(w) PROVE NeverLeftShutDown'
  BY <1>24, ResettersStay DEF PutBlocks, Goto, ServerTypeOK, shared, ResettingPc
<1>25. ASSUME NEW w \in Workers, PutUnblocks(w) PROVE NeverLeftShutDown'
  BY <1>25, ResettersStay DEF PutUnblocks, Goto, ServerTypeOK, shared, ResettingPc
<1>26. ASSUME NEW w \in Workers, BeginGet(w) PROVE NeverLeftShutDown'
  BY <1>26, ResettersStay DEF BeginGet, Goto, ServerTypeOK, shared, ResettingPc
<1>27. ASSUME NEW w \in Workers, TakeObservation(w) PROVE NeverLeftShutDown'
  BY <1>27, ResettersStay DEF TakeObservation, Goto, ServerTypeOK, shared, ResettingPc
<1>28. ASSUME NEW w \in Workers, GetTimesOut(w) PROVE NeverLeftShutDown'
  BY <1>28, ResettersStay DEF GetTimesOut, Goto, ServerTypeOK, shared, ResettingPc
<1>29. ASSUME NEW w \in Workers, MarkPredicted(w) PROVE NeverLeftShutDown'
  BY <1>29, ResettersStay DEF MarkPredicted, Goto, ServerTypeOK, shared, ResettingPc
<1>30. ASSUME NEW w \in Workers, Preprocess(w) PROVE NeverLeftShutDown'
  BY <1>30, ResettersStay DEF Preprocess, Goto, ServerTypeOK, shared, ResettingPc
<1>31. ASSUME NEW w \in Workers, PredictChunk(w) PROVE NeverLeftShutDown'
  BY <1>31, ResettersStay DEF PredictChunk, Goto, ServerTypeOK, shared, ResettingPc
<1>32. ASSUME NEW w \in Workers, PreprocessFails(w) PROVE NeverLeftShutDown'
  BY <1>32, ResettersStay DEF PreprocessFails, Goto, ServerTypeOK, shared, ResettingPc
<1>33. ASSUME NEW w \in Workers, PredictFails(w) PROVE NeverLeftShutDown'
  BY <1>33, ResettersStay DEF PredictFails, Goto, ServerTypeOK, shared, ResettingPc
<1> QED
  BY ServerCases, <1>1, <1>2, <1>3, <1>4, <1>5, <1>6, <1>7, <1>8, <1>9, <1>10,
     <1>11, <1>12, <1>13, <1>14, <1>15, <1>16, <1>17, <1>18, <1>19, <1>20,
     <1>21, <1>22, <1>23, <1>24, <1>25, <1>26, <1>27, <1>28, <1>29, <1>30,
     <1>31, <1>32, <1>33

-----------------------------------------------------------------------------
(* Theorems.                                                               *)

\* The invariant holds when serve() starts.
LEMMA ServerInvInit == ServerInit => ServerInv
BY ServerTypeInit DEF ServerInit, ServerInv, PoolInv, NeverLeftShutDown

\* The invariant holds of every behaviour.
LEMMA ServerInvariance == ServerSpec => []ServerInv
<1>1. ServerInv /\ [ServerNext]_serverVars => ServerInv'
  BY ServerTypeStep, PoolStep, ShutDownStep DEF ServerInv
<1> QED
  BY ServerInvInit, <1>1, PTL DEF ServerSpec

\* Puts that block, on the queue of this or of an earlier client, never take
\* all threads of the pool, however many there are and whoever calls.
THEOREM PoolSurvives == ServerSpec => []PoolNeverExhausted
<1>1. ServerInv => PoolNeverExhausted
  BY DEF ServerInv, PoolInv, PoolNeverExhausted, Blocked
<1> QED
  BY ServerInvariance, <1>1, PTL

\* Overlapping resets never leave shutdown_event set.
THEOREM ShutDownEnds == ServerSpec => []NeverLeftShutDown
<1>1. ServerInv => NeverLeftShutDown
  BY DEF ServerInv
<1> QED
  BY ServerInvariance, <1>1, PTL

-----------------------------------------------------------------------------
(*                            THE ROBOT CLIENT                             *)
(* For every chunk size, threshold and horizon.                            *)

-----------------------------------------------------------------------------
(* The inductive invariant.                                                *)

\* Before each entry of plan, every timestep is in done or earlier in plan.
Gapless(plan, done) ==
  \A i \in 1..Len(plan) : \A x \in 0..(plan[i] - 1) :
    x \in done \/ \E j \in 1..(i - 1) : plan[j] = x

Increasing(plan) ==
  \A i, j \in 1..Len(plan) : i < j => plan[i] < plan[j]

Merging == rcv \in {"snapshot", "iterate", "merge"}

ExecutedInv ==
  /\ latestAction = -1 \/ latestAction \in executed
  /\ \A t \in executed : \A x \in 0..t : x \in executed

HeldInv ==
  /\ held # NoAction => ctl \in {"act", "failed", "stopped"}
  /\ held # NoAction => \A x \in 0..(held - 1) : x \in executed

QueueInv ==
  /\ Gapless(actionQueue, executed \cup {held})
  /\ Increasing(actionQueue)
  /\ Len(actionQueue) <= ActionsPerChunk
  /\ actionQueue # <<>> => actionChunkSize = ActionsPerChunk

\* The chunk being merged starts where the executed timesteps reach.
IncomingInv ==
  Merging =>
    /\ Len(incoming) = ActionsPerChunk
    /\ \A k \in 1..ActionsPerChunk : incoming[k] = incoming[1] + k - 1
    /\ \A x \in 0..(incoming[1] - 1) : x \in executed
    /\ actionChunkSize = ActionsPerChunk

\* What the merge has already looked at is executed or kept.
FutureInv ==
  rcv = "merge" =>
    /\ cursor <= ActionsPerChunk + 1
    /\ Len(future) < cursor
    /\ \A j \in 1..Len(future) : future[j] < incoming[1] + cursor - 1
    /\ \A k \in 1..(cursor - 1) :
         incoming[k] \in executed \/ \E j \in 1..Len(future) : future[j] = incoming[k]
    /\ Gapless(future, executed)
    /\ Increasing(future)

ClientInv == ClientTypeOK /\ ExecutedInv /\ HeldInv /\ QueueInv /\ IncomingInv /\ FutureInv

-----------------------------------------------------------------------------
(* Lemmas.                                                                 *)

\* _time_action_chunk: a chunk has ActionsPerChunk consecutive timesteps.
LEMMA ChunkFromShape ==
  ASSUME NEW t \in Timestep
  PROVE  /\ ChunkFrom(t) \in Seq(Timestep)
         /\ Len(ChunkFrom(t)) = ActionsPerChunk
         /\ \A k \in 1..ActionsPerChunk : ChunkFrom(t)[k] = t + k - 1
BY ChunkAssumption DEF ChunkFrom, Timestep

\* The steps of ClientNext, one disjunct each.
LEMMA ClientCases ==
  ClientNext => \/ Poll \/ PopAction \/ PopRaisesEmpty \/ PerformAction \/ CheckReady
          \/ CaptureObservation \/ ClearMustGo \/ CallGetActions \/ ReceiverEnds
          \/ BeginIteration \/ EndIteration \/ IterationRaises \/ MergeAction
          \/ SwapQueue \/ SetMustGo \/ SendActionRaises \/ CaptureRaises \/ Stop
          \/ ReadyAnswered \/ InstructionsAnswered \/ StartFails \/ SendReturns
          \/ ReceiveNothing \/ \E t \in Observable : ReceiveChunk(ChunkFrom(t))
BY DEF ClientNext, ControlStep, ReceiverStep, DeviceFails, ServerAnswers

-----------------------------------------------------------------------------
(* Types.                                                                  *)

\* The attributes have their types in a new client.
LEMMA ClientTypeInit == ClientInit => ClientTypeOK
<1> SUFFICES ASSUME ClientInit PROVE ClientTypeOK
  OBVIOUS
<1>1. <<>> \in Seq(Timestep) /\ ActionsPerChunk \in Nat
  BY ChunkAssumption
<1>2. running \in BOOLEAN /\ mustGo \in BOOLEAN /\ flagged \in BOOLEAN
  BY DEF ClientInit
<1>3. ctl \in CtlPc /\ rcv \in RcvPc /\ ctl # "act"
  BY DEF ClientInit, CtlPc, RcvPc
<1> QED
  BY <1>1, <1>2, <1>3 DEF ClientInit, ClientTypeOK, Timestep

\* No step of either thread takes an attribute out of its type.
LEMMA ClientTypeStep == ClientTypeOK /\ [ClientNext]_clientVars => ClientTypeOK'
<1> SUFFICES ASSUME ClientTypeOK, [ClientNext]_clientVars PROVE ClientTypeOK'
  OBVIOUS
<1> USE ChunkAssumption, ClientAssumption DEF CtlPc, RcvPc, Timestep, sharedVars, controlVars, receiveVars
<1>1. CASE ReadyAnswered
  BY <1>1 DEF ClientTypeOK, ReadyAnswered
<1>2. CASE InstructionsAnswered
  BY <1>2 DEF ClientTypeOK, InstructionsAnswered
<1>3. CASE StartFails
  BY <1>3 DEF ClientTypeOK, StartFails
<1>4. CASE Poll
  BY <1>4 DEF ClientTypeOK, Poll
<1>5. CASE PopAction
  BY <1>5 DEF ClientTypeOK, PopAction
<1>6. CASE PopRaisesEmpty
  BY <1>6 DEF ClientTypeOK, PopRaisesEmpty
<1>7. CASE PerformAction
  BY <1>7 DEF ClientTypeOK, PerformAction
<1>8. CASE SendActionRaises
  BY <1>8 DEF ClientTypeOK, SendActionRaises
<1>9. CASE CheckReady
  BY <1>9 DEF ClientTypeOK, CheckReady
<1>10. CASE CaptureObservation
  BY <1>10 DEF ClientTypeOK, CaptureObservation
<1>11. CASE CaptureRaises
  BY <1>11 DEF ClientTypeOK, CaptureRaises
<1>12. CASE SendReturns
  BY <1>12 DEF ClientTypeOK, SendReturns
<1>13. CASE ClearMustGo
  BY <1>13 DEF ClientTypeOK, ClearMustGo
<1>14. CASE Stop
  BY <1>14 DEF ClientTypeOK, Stop
<1>15. CASE CallGetActions
  BY <1>15 DEF ClientTypeOK, CallGetActions
<1>16. CASE ReceiverEnds
  BY <1>16 DEF ClientTypeOK, ReceiverEnds
<1>17. CASE ReceiveNothing
  BY <1>17 DEF ClientTypeOK, ReceiveNothing
<1>18. CASE \E t \in Observable : ReceiveChunk(ChunkFrom(t))
  <2>1. PICK t \in Observable : ReceiveChunk(ChunkFrom(t))
    BY <1>18
  <2>2. t \in Timestep
    BY DEF Observable, ClientTypeOK
  <2>3. ChunkFrom(t) \in Seq(Timestep) /\ Len(ChunkFrom(t)) = ActionsPerChunk
    BY <2>2, ChunkFromShape
  <2> QED BY <2>1, <2>3 DEF ClientTypeOK, ReceiveChunk, Larger
<1>19. CASE BeginIteration
  BY <1>19 DEF ClientTypeOK, BeginIteration
<1>20. CASE EndIteration
  BY <1>20 DEF ClientTypeOK, EndIteration
<1>21. CASE IterationRaises
  BY <1>21 DEF ClientTypeOK, IterationRaises
<1>22. CASE MergeAction
  BY <1>22 DEF ClientTypeOK, MergeAction
<1>23. CASE SwapQueue
  BY <1>23 DEF ClientTypeOK, SwapQueue
<1>24. CASE SetMustGo
  BY <1>24 DEF ClientTypeOK, SetMustGo
<1>25. CASE UNCHANGED clientVars
  BY <1>25 DEF ClientTypeOK, clientVars
<1> QED
  BY ClientCases, <1>1, <1>2, <1>3, <1>4, <1>5, <1>6, <1>7, <1>8, <1>9, <1>10,
     <1>11, <1>12, <1>13, <1>14, <1>15, <1>16, <1>17, <1>18, <1>19, <1>20,
     <1>21, <1>22, <1>23, <1>24, <1>25
\* Every attribute of the client and every local of its threads keeps its type.
THEOREM ClientTypeCorrect == ClientSpec => []ClientTypeOK
BY ClientTypeInit, ClientTypeStep, PTL DEF ClientSpec

-----------------------------------------------------------------------------
(* The plan.                                                               *)

\* A plan without gaps stays so when more is executed.
LEMMA GaplessMonotone ==
  ASSUME NEW plan, NEW done, NEW more, done \subseteq more, Gapless(plan, done)
  PROVE  Gapless(plan, more)
BY DEF Gapless

\* What the merge keeps is appended to the future queue.
LEMMA AppendKeepsPlan ==
  ASSUME NEW plan \in Seq(Timestep), NEW t \in Timestep, NEW done,
         Gapless(plan, done), Increasing(plan),
         \A j \in 1..Len(plan) : plan[j] < t,
         \A x \in 0..(t - 1) : x \in done \/ \E j \in 1..Len(plan) : plan[j] = x
  PROVE  Gapless(Append(plan, t), done) /\ Increasing(Append(plan, t))
<1> DEFINE longer == Append(plan, t)
<1>1. /\ Len(longer) = Len(plan) + 1 /\ Len(plan) \in Nat
      /\ longer[Len(plan) + 1] = t
      /\ \A i \in 1..Len(plan) : longer[i] = plan[i] /\ longer[i] \in Timestep
  BY DEF Timestep
<1> HIDE DEF longer
<1>2. Gapless(longer, done)
  <2> SUFFICES ASSUME NEW i \in 1..(Len(plan) + 1), NEW x \in 0..(longer[i] - 1), x \notin done
               PROVE  \E j \in 1..(i - 1) : longer[j] = x
    BY <1>1 DEF Gapless
  <2>1. CASE i = Len(plan) + 1
    BY <1>1, <2>1
  <2>2. CASE i \in 1..Len(plan)
    <3>1. x \in 0..(plan[i] - 1)
      BY <1>1, <2>2
    <3>2. PICK j \in 1..(i - 1) : plan[j] = x
      BY <2>2, <3>1 DEF Gapless
    <3> QED
      BY <1>1, <2>2, <3>2
  <2> QED
    BY <1>1, <2>1, <2>2
<1>3. Increasing(longer)
  <2> SUFFICES ASSUME NEW i \in 1..(Len(plan) + 1), NEW j \in 1..(Len(plan) + 1), i < j
               PROVE  longer[i] < longer[j]
    BY <1>1 DEF Increasing
  <2>1. i \in 1..Len(plan) /\ longer[i] = plan[i]
    BY <1>1
  <2> QED
    BY <1>1, <2>1 DEF Increasing
<1> QED
  BY <1>2, <1>3 DEF longer

\* What get_nowait() takes from the queue, and what it leaves.
LEMMA TailKeepsPlan ==
  ASSUME NEW plan \in Seq(Timestep), plan # <<>>, NEW done,
         Gapless(plan, done), Increasing(plan)
  PROVE  /\ \A x \in 0..(Head(plan) - 1) : x \in done
         /\ Gapless(Tail(plan), done \cup {Head(plan)})
         /\ Increasing(Tail(plan))
         /\ Len(Tail(plan)) = Len(plan) - 1
<1> DEFINE rest == Tail(plan)
<1>1. /\ Len(plan) \in Nat \ {0} /\ Head(plan) = plan[1]
      /\ Len(rest) = Len(plan) - 1
      /\ \A i \in 1..Len(rest) : rest[i] = plan[i + 1]
  OBVIOUS
<1> HIDE DEF rest
<1>2. \A x \in 0..(Head(plan) - 1) : x \in done
  BY <1>1 DEF Gapless
<1>3. Gapless(rest, done \cup {Head(plan)})
  <2> SUFFICES ASSUME NEW i \in 1..Len(rest), NEW x \in 0..(rest[i] - 1),
                      x \notin done, x # Head(plan)
               PROVE  \E j \in 1..(i - 1) : rest[j] = x
    BY DEF Gapless
  <2>1. i + 1 \in 1..Len(plan) /\ rest[i] = plan[i + 1]
    BY <1>1
  <2>2. PICK j \in 1..((i + 1) - 1) : plan[j] = x
    BY <2>1 DEF Gapless
  <2>3. j - 1 \in 1..(i - 1) /\ rest[j - 1] = x
    BY <1>1, <2>2
  <2> QED
    BY <2>3
<1>4. Increasing(rest)
  BY <1>1 DEF Increasing
<1> QED
  BY <1>1, <1>2, <1>3, <1>4 DEF rest

\* The invariant holds of a new client.
LEMMA ClientInvInit == ClientInit => ClientInv
<1> SUFFICES ASSUME ClientInit PROVE ClientInv
  OBVIOUS
<1>1. ClientTypeOK
  BY ClientTypeInit
<1>2. Len(actionQueue) = 0 /\ ActionsPerChunk \in Nat
  BY ChunkAssumption DEF ClientInit
<1> QED
  BY <1>1, <1>2 DEF ClientInit, ClientInv, ExecutedInv, HeldInv, QueueInv, IncomingInv,
     FutureInv, Gapless, Increasing, Merging

\* A step that leaves the plan alone, takes no action into the main thread's
\* hands and does not go on with a merge.
LEMMA PlanUntouched ==
  ASSUME ClientInv, ClientTypeOK',
         UNCHANGED <<executed, latestAction, held, actionQueue, actionChunkSize>>,
         UNCHANGED <<incoming, cursor, future>>,
         held # NoAction => ctl' \in {"act", "failed", "stopped"},
         Merging' => Merging,
         rcv' = "merge" => rcv = "merge"
  PROVE  ClientInv'
BY DEF ClientInv, ExecutedInv, HeldInv, QueueInv, IncomingInv, FutureInv, Gapless,
   Increasing, Merging

\* No step of either thread breaks the invariant.
LEMMA ClientInvStep == ClientInv /\ [ClientNext]_clientVars => ClientInv'
<1> SUFFICES ASSUME ClientInv, [ClientNext]_clientVars PROVE ClientInv'
  OBVIOUS
<1>0. ClientTypeOK'
  BY ClientTypeStep DEF ClientInv
<1>1. CASE Poll
  BY <1>0, <1>1, PlanUntouched DEF Poll, sharedVars, controlVars,
     receiveVars, ClientInv, HeldInv, Merging
<1>2. CASE PopRaisesEmpty
  BY <1>0, <1>2, PlanUntouched DEF PopRaisesEmpty, sharedVars, controlVars,
     receiveVars, ClientInv, HeldInv, Merging
<1>3. CASE CheckReady
  BY <1>0, <1>3, PlanUntouched DEF CheckReady, sharedVars, controlVars,
     receiveVars, ClientInv, HeldInv, Merging
<1>4. CASE CaptureObservation
  BY <1>0, <1>4, PlanUntouched DEF CaptureObservation, sharedVars, controlVars,
     receiveVars, ClientInv, HeldInv, Merging
<1>5. CASE ClearMustGo
  BY <1>0, <1>5, PlanUntouched DEF ClearMustGo, sharedVars, controlVars,
     receiveVars, ClientInv, HeldInv, Merging
<1>6. CASE CallGetActions
  BY <1>0, <1>6, PlanUntouched DEF CallGetActions, sharedVars, controlVars,
     receiveVars, ClientInv, HeldInv, Merging
<1>7. CASE ReceiverEnds
  BY <1>0, <1>7, PlanUntouched DEF ReceiverEnds, sharedVars, controlVars,
     receiveVars, ClientInv, HeldInv, Merging
<1>8. CASE BeginIteration
  BY <1>0, <1>8, PlanUntouched DEF BeginIteration, sharedVars, controlVars,
     receiveVars, ClientInv, HeldInv, Merging
<1>9. CASE IterationRaises
  BY <1>0, <1>9, PlanUntouched DEF IterationRaises, sharedVars, controlVars,
     receiveVars, ClientInv, HeldInv, Merging
<1>10. CASE SetMustGo
  BY <1>0, <1>10, PlanUntouched DEF SetMustGo, sharedVars, controlVars,
     receiveVars, ClientInv, HeldInv, Merging
<1>11. CASE SendActionRaises
  BY <1>0, <1>11, PlanUntouched DEF SendActionRaises, sharedVars, controlVars,
     receiveVars, ClientInv, HeldInv, Merging
<1>12. CASE CaptureRaises
  BY <1>0, <1>12, PlanUntouched DEF CaptureRaises, sharedVars, controlVars,
     receiveVars, ClientInv, HeldInv, Merging
<1>13. CASE Stop
  BY <1>0, <1>13, PlanUntouched DEF Stop, sharedVars, controlVars,
     receiveVars, ClientInv, HeldInv, Merging
<1>14. CASE ReadyAnswered
  BY <1>0, <1>14, PlanUntouched DEF ReadyAnswered, sharedVars, controlVars,
     receiveVars, ClientInv, HeldInv, Merging
<1>15. CASE InstructionsAnswered
  BY <1>0, <1>15, PlanUntouched DEF InstructionsAnswered, sharedVars, controlVars,
     receiveVars, ClientInv, HeldInv, Merging
<1>16. CASE StartFails
  BY <1>0, <1>16, PlanUntouched DEF StartFails, sharedVars, controlVars,
     receiveVars, ClientInv, HeldInv, Merging
<1>17. CASE SendReturns
  BY <1>0, <1>17, PlanUntouched DEF SendReturns, sharedVars, controlVars,
     receiveVars, ClientInv, HeldInv, Merging
<1>18. CASE ReceiveNothing
  BY <1>0, <1>18, PlanUntouched DEF ReceiveNothing, sharedVars, controlVars,
     receiveVars, ClientInv, HeldInv, Merging
<1>19. CASE UNCHANGED clientVars
  BY <1>0, <1>19, PlanUntouched DEF clientVars, sharedVars, controlVars,
     receiveVars, ClientInv, HeldInv, Merging

<1>20. CASE PopAction
  <2>1. held = NoAction /\ NoAction \notin Int
    BY <1>20, ClientAssumption DEF PopAction, ClientInv, HeldInv
  <2>2. actionQueue \in Seq(Timestep) /\ actionQueue # <<>> /\ Head(actionQueue) \in Timestep
    BY <1>20 DEF PopAction, ClientInv, ClientTypeOK
  <2>3. Gapless(actionQueue, executed) /\ Increasing(actionQueue)
    <3>1. Gapless(actionQueue, executed \cup {NoAction}) /\ Increasing(actionQueue)
      BY <2>1 DEF ClientInv, QueueInv
    <3>2. \A i \in 1..Len(actionQueue) : actionQueue[i] \in Nat
      BY <2>2 DEF Timestep
    <3>3. ASSUME NEW i \in 1..Len(actionQueue), NEW x \in 0..(actionQueue[i] - 1)
          PROVE  x \in executed \/ \E j \in 1..(i - 1) : actionQueue[j] = x
      <4>1. x # NoAction
        BY <2>1, <3>2
      <4> QED
        BY <3>1, <4>1 DEF Gapless
    <3> QED
      BY <3>1, <3>3 DEF Gapless
  <2>4. ExecutedInv'
    BY <1>20 DEF PopAction, ClientInv, ExecutedInv
  <2>5. HeldInv'
    <3>1. \A x \in 0..(Head(actionQueue) - 1) : x \in executed
      BY <2>2, <2>3, TailKeepsPlan
    <3> QED
      BY <1>20, <3>1 DEF PopAction, HeldInv, sharedVars
  <2>6. QueueInv'
    <3>1. Increasing(Tail(actionQueue)) /\ Len(Tail(actionQueue)) = Len(actionQueue) - 1
      BY <2>2, <2>3, TailKeepsPlan
    <3>2. Gapless(Tail(actionQueue), executed \cup {Head(actionQueue)})
      BY <2>2, <2>3, TailKeepsPlan
    <3>3. Len(actionQueue) \in Nat /\ ActionsPerChunk \in Nat
      BY <2>2, ChunkAssumption
    <3> QED
      BY <1>20, <2>2, <3>1, <3>2, <3>3 DEF PopAction, ClientInv, QueueInv
  <2>7. IncomingInv' /\ FutureInv'
    BY <1>20 DEF PopAction, receiveVars, ClientInv, IncomingInv, FutureInv, Merging, Gapless, Increasing
  <2> QED
    BY <1>0, <2>4, <2>5, <2>6, <2>7 DEF ClientInv

<1>21. CASE PerformAction
  <2>1. held \in Timestep /\ held # NoAction /\ executed' = executed \cup {held}
    BY <1>21, ClientAssumption DEF PerformAction, ClientInv, ClientTypeOK, Timestep
  <2>2. \A x \in 0..(held - 1) : x \in executed
    BY <2>1 DEF ClientInv, HeldInv
  <2>3. ExecutedInv'
    <3>1. \A x \in 0..held : x \in executed'
      BY <2>1, <2>2 DEF Timestep
    <3> QED
      BY <1>21, <2>1, <3>1 DEF PerformAction, ClientInv, ExecutedInv
  <2>4. HeldInv'
    BY <1>21 DEF PerformAction, HeldInv
  <2>5. QueueInv'
    <3>1. Gapless(actionQueue, executed \cup {held}) /\ executed \cup {held} \subseteq executed' \cup {held'}
      BY <2>1 DEF ClientInv, QueueInv
    <3>2. Gapless(actionQueue, executed' \cup {held'})
      BY <3>1, GaplessMonotone
    <3> QED
      BY <1>21, <3>2 DEF PerformAction, ClientInv, QueueInv, Gapless
  <2>6. IncomingInv'
    BY <1>21, <2>1 DEF PerformAction, receiveVars, ClientInv, IncomingInv, Merging
  <2>7. FutureInv'
    <3>1. rcv = "merge" => Gapless(future, executed')
      BY <2>1, GaplessMonotone DEF ClientInv, FutureInv
    <3> QED
      BY <1>21, <2>1, <3>1 DEF PerformAction, receiveVars, ClientInv, FutureInv, Gapless, Increasing
  <2> QED
    BY <1>0, <2>3, <2>4, <2>5, <2>6, <2>7 DEF ClientInv

<1>22. CASE \E t \in Observable : ReceiveChunk(ChunkFrom(t))
  <2>1. PICK t \in Observable : ReceiveChunk(ChunkFrom(t))
    BY <1>22
  <2>2. t \in Timestep /\ \A x \in 0..(t - 1) : x \in executed
    BY DEF Observable, ClientInv, ClientTypeOK, ExecutedInv, Timestep
  <2>3. /\ Len(ChunkFrom(t)) = ActionsPerChunk
        /\ \A k \in 1..ActionsPerChunk : ChunkFrom(t)[k] = t + k - 1
        /\ ActionsPerChunk \in Nat \ {0}
    BY <2>2, ChunkFromShape, ChunkAssumption
  <2>4. ChunkFrom(t)[1] = t
    BY <2>2, <2>3 DEF Timestep
  <2>5. actionChunkSize' = ActionsPerChunk
    BY <2>1, <2>3 DEF ReceiveChunk, Larger, ClientInv, ClientTypeOK
  <2>6. IncomingInv'
    BY <2>1, <2>2, <2>3, <2>4, <2>5 DEF ReceiveChunk, IncomingInv, Timestep
  <2>7. ExecutedInv' /\ HeldInv' /\ FutureInv'
    BY <2>1 DEF ReceiveChunk, controlVars, ClientInv, ExecutedInv, HeldInv, FutureInv
  <2>8. QueueInv'
    BY <2>1, <2>5 DEF ReceiveChunk, controlVars, ClientInv, QueueInv, Gapless, Increasing
  <2> QED
    BY <1>0, <2>6, <2>7, <2>8 DEF ClientInv

<1>23. CASE EndIteration
  <2>1. ExecutedInv' /\ HeldInv' /\ QueueInv'
    BY <1>23 DEF EndIteration, sharedVars, controlVars, ClientInv, ExecutedInv, HeldInv,
       QueueInv, Gapless, Increasing
  <2>2. IncomingInv'
    BY <1>23 DEF EndIteration, sharedVars, ClientInv, IncomingInv, Merging
  <2>3. FutureInv'
    <3>1. Len(future') = 0 /\ cursor' = 1 /\ ActionsPerChunk \in Nat
      BY <1>23, ChunkAssumption DEF EndIteration
    <3> QED
      BY <3>1 DEF FutureInv, Gapless, Increasing
  <2> QED
    BY <1>0, <2>1, <2>2, <2>3 DEF ClientInv

<1>24. CASE MergeAction
  <2> DEFINE next == incoming[cursor]
  <2>1. /\ rcv = "merge" /\ cursor \in 1..ActionsPerChunk /\ Len(incoming) = ActionsPerChunk
        /\ incoming \in Seq(Timestep) /\ future \in Seq(Timestep)
        /\ latestAction \in Timestep \cup {-1} /\ ActionsPerChunk \in Nat \ {0}
    BY <1>24, ChunkAssumption DEF MergeAction, ClientInv, ClientTypeOK, IncomingInv, Merging
  <2>2. /\ next \in Timestep /\ incoming[1] \in Timestep
        /\ next = incoming[1] + cursor - 1
        /\ \A k \in 1..(cursor - 1) : incoming[k] = incoming[1] + k - 1
    BY <2>1 DEF ClientInv, IncomingInv, Merging
  <2>3. \A j \in 1..Len(future) : future[j] < next
    BY <2>1, <2>2 DEF ClientInv, FutureInv
  <2>4. \A x \in 0..(next - 1) : x \in executed \/ \E j \in 1..Len(future) : future[j] = x
    <3> SUFFICES ASSUME NEW x \in 0..(next - 1), x \notin executed
                 PROVE  \E j \in 1..Len(future) : future[j] = x
      OBVIOUS
    <3>1. \A y \in 0..(incoming[1] - 1) : y \in executed
      BY <2>1 DEF ClientInv, IncomingInv, Merging
    <3>2. x - incoming[1] + 1 \in 1..(cursor - 1)
      <4>1. ~(x < incoming[1])
        BY <2>2, <3>1 DEF Timestep
      <4>2. x < incoming[1] + cursor - 1 /\ x \in Nat
        BY <2>1, <2>2 DEF Timestep
      <4>3. incoming[1] \in Nat /\ cursor \in Nat
        BY <2>1, <2>2 DEF Timestep
      <4> QED
        BY <4>1, <4>2, <4>3
    <3>3. incoming[x - incoming[1] + 1] = x
      BY <2>2, <3>2 DEF Timestep
    <3> QED
      BY <2>1, <3>2, <3>3 DEF ClientInv, FutureInv
  <2>5. Len(future) < cursor /\ Len(future) \in Nat
    BY <2>1 DEF ClientInv, FutureInv
  <2>6. ExecutedInv' /\ HeldInv' /\ QueueInv' /\ IncomingInv'
    BY <1>24 DEF MergeAction, sharedVars, controlVars, ClientInv, ExecutedInv, HeldInv,
       QueueInv, IncomingInv, Merging, Gapless, Increasing
  <2>7. FutureInv'
    <3>1. UNCHANGED <<executed, rcv, incoming>> /\ cursor' = cursor + 1
      BY <1>24 DEF MergeAction, sharedVars
    <3>2. CASE next <= latestAction
      <4>1. future' = future
        BY <1>24, <3>2 DEF MergeAction
      <4>2. next \in executed
        BY <2>1, <2>2, <3>2 DEF ClientInv, ExecutedInv, Timestep
      <4> HIDE DEF next
      <4>3. \A j \in 1..Len(future) : future[j] < incoming[1] + cursor' - 1
        BY <2>1, <2>2, <2>3, <3>1 DEF Timestep
      <4>4. \A k \in 1..(cursor' - 1) :
              incoming[k] \in executed \/ \E j \in 1..Len(future) : future[j] = incoming[k]
        BY <2>1, <3>1, <4>2 DEF ClientInv, FutureInv, next
      <4>5. cursor' <= ActionsPerChunk + 1 /\ Len(future) < cursor'
        BY <2>1, <2>5, <3>1
      <4> QED
        BY <2>1, <3>1, <4>1, <4>3, <4>4, <4>5 DEF ClientInv, FutureInv, Gapless, Increasing
    <3>3. CASE ~(next <= latestAction)
      <4>1. future' = Append(future, next)
        BY <1>24, <3>3 DEF MergeAction
      <4> HIDE DEF next
      <4>2. Gapless(future', executed) /\ Increasing(future')
        <5>1. Gapless(future, executed) /\ Increasing(future)
          BY <2>1 DEF ClientInv, FutureInv
        <5> QED
          BY <2>1, <2>2, <2>3, <2>4, <4>1, <5>1, AppendKeepsPlan
      <4>3. /\ Len(future') = Len(future) + 1 /\ future'[Len(future) + 1] = next
            /\ \A j \in 1..Len(future) : future'[j] = future[j]
        <5>1. future \in Seq(Timestep) /\ next \in Timestep
          BY <2>1, <2>2
        <5> QED
          BY <4>1, <5>1
      <4>4. \A j \in 1..Len(future') : future'[j] < incoming[1] + cursor' - 1
        <5> SUFFICES ASSUME NEW j \in 1..(Len(future) + 1)
                     PROVE  future'[j] < incoming[1] + cursor
          BY <2>1, <2>2, <3>1, <4>3 DEF Timestep
        <5>1. next < incoming[1] + cursor /\ next \in Nat /\ incoming[1] + cursor \in Nat
          BY <2>1, <2>2 DEF Timestep
        <5>2. CASE j = Len(future) + 1
          BY <4>3, <5>1, <5>2
        <5>3. CASE j \in 1..Len(future)
          <6>1. future[j] < next /\ future[j] \in Nat
            BY <2>1, <2>3, <5>3 DEF Timestep
          <6> QED
            BY <4>3, <5>1, <5>3, <6>1
        <5> QED
          BY <2>5, <5>2, <5>3
      <4>5. \A k \in 1..(cursor' - 1) :
              incoming[k] \in executed \/ \E j \in 1..Len(future') : future'[j] = incoming[k]
        <5>1. SUFFICES ASSUME NEW k \in 1..cursor, incoming[k] \notin executed
                       PROVE  \E j \in 1..Len(future') : future'[j] = incoming[k]
          BY <2>1, <3>1
        <5>2. CASE k = cursor
          BY <2>5, <4>3, <5>2 DEF next
        <5>3. CASE k \in 1..(cursor - 1)
          <6>1. PICK j \in 1..Len(future) : future[j] = incoming[k]
            BY <2>1, <5>1, <5>3 DEF ClientInv, FutureInv
          <6> QED
            BY <2>5, <4>3, <6>1
        <5> QED
          BY <2>1, <5>2, <5>3
      <4>6. cursor' <= ActionsPerChunk + 1 /\ Len(future') < cursor'
        BY <2>1, <2>5, <3>1, <4>3
      <4> QED
        BY <3>1, <4>2, <4>4, <4>5, <4>6 DEF FutureInv, Gapless, Increasing
    <3> QED
      BY <3>2, <3>3
  <2> QED
    BY <1>0, <2>6, <2>7 DEF ClientInv

<1>25. CASE SwapQueue
  <2>1. rcv = "merge" /\ actionQueue' = future /\ UNCHANGED <<executed, held, actionChunkSize>>
    BY <1>25 DEF SwapQueue, controlVars
  <2>2. ExecutedInv' /\ HeldInv' /\ IncomingInv' /\ FutureInv'
    BY <1>25 DEF SwapQueue, controlVars, ClientInv, ExecutedInv, HeldInv, IncomingInv,
       FutureInv, Merging
  <2>3. QueueInv'
    <3>1. Gapless(future, executed) /\ Increasing(future)
      BY <2>1 DEF ClientInv, FutureInv
    <3>2. Gapless(future, executed \cup {held})
      BY <3>1, GaplessMonotone
    <3>3. Len(future) <= ActionsPerChunk
      <4>1. cursor \in Nat /\ future \in Seq(Timestep) /\ ActionsPerChunk \in Nat
        BY ChunkAssumption DEF ClientInv, ClientTypeOK
      <4>2. Len(future) < cursor /\ cursor <= ActionsPerChunk + 1 /\ Len(future) \in Nat
        BY <2>1, <4>1 DEF ClientInv, FutureInv
      <4> QED
        BY <4>1, <4>2
    <3>4. actionChunkSize = ActionsPerChunk
      BY <2>1 DEF ClientInv, IncomingInv, Merging
    <3> QED
      BY <2>1, <3>1, <3>2, <3>3, <3>4 DEF QueueInv, Gapless, Increasing
  <2> QED
    BY <1>0, <2>2, <2>3 DEF ClientInv

<1> QED
  BY ClientCases, <1>1, <1>2, <1>3, <1>4, <1>5, <1>6, <1>7, <1>8, <1>9, <1>10,
     <1>11, <1>12, <1>13, <1>14, <1>15, <1>16, <1>17, <1>18, <1>19, <1>20,
     <1>21, <1>22, <1>23, <1>24, <1>25
\* The invariant gives the properties the runs check.
LEMMA ClientInvImplies == ClientInv => NoTimestepSkipped /\ QueueWithinChunk /\ QueueInOrder
BY ChunkAssumption DEF ClientInv, ExecutedInv, QueueInv, Increasing, NoTimestepSkipped,
   QueueWithinChunk, QueueInOrder

-----------------------------------------------------------------------------
(* Theorems.                                                               *)

\* The invariant holds of every behaviour.
LEMMA ClientInvariance == ClientSpec => []ClientInv
BY ClientInvInit, ClientInvStep, PTL DEF ClientSpec

\* However the merge of a chunk interleaves with the control loop, the robot
\* never jumps over a timestep of its plan.
THEOREM PlanWithoutGaps == ClientSpec => []NoTimestepSkipped
BY ClientInvariance, ClientInvImplies, PTL

\* The action queue holds at most one chunk, in order and without repetition.
THEOREM QueueIsOneChunk == ClientSpec => []OneChunk
<1>1. ClientInv => OneChunk
  BY ClientInvImplies DEF OneChunk
<1> QED
  BY <1>1, ClientInvariance, PTL

-----------------------------------------------------------------------------
(* The client against the real server (AsyncInference).                    *)
(*                                                                         *)
(* The server of RobotClient answers with chunks predicted from sent       *)
(* observations by definition.  The real one does so because whatever its  *)
(* queues and its handlers hold was sent by this client, until another     *)
(* client process is started.                                              *)

\* What this client may have sent.
Sent == [timestep : Observable, mustGo : BOOLEAN, pose : Poses]

\* The server's queues and handlers hold members of S only.
HoldsOnly(S) ==
  /\ obsQueue \in [QueueIds -> S \cup {None}]
  /\ arg \in [Workers -> S \cup {None}]
  /\ \A w \in Workers : pc[w] \in {"mark", "prepare", "infer", "chunk"} => arg[w] \in S

SendingInv ==
  /\ observed \in Observable
  /\ ctl = "capture" => latestAction < Horizon
  /\ ctl = "send" => pose \in Poses

FirstInv == ClientInv /\ SendingInv /\ ServerTypeInv /\ HoldsOnly(Sent)

AsyncInv ==
  /\ session \in Nat \ {0}
  /\ session = 1 => FirstInv

\* What the network and the server do to the client is a step of the client's
\* own specification: a chunk comes from an observation that was sent.
LEMMA ClientSteps ==
  ASSUME HoldsOnly(Sent), session \in Nat, session' = session, [Next]_vars
  PROVE  [ClientNext]_clientVars
<1> USE DEF ClientNext, ServerAnswers
<1>1. CASE ClientControls \/ ClientReceives \/ RobotFails
  BY <1>1 DEF ClientControls, ClientReceives, RobotFails
<1>2. CASE StopAfterFailure \/ Interrupt
  BY <1>2 DEF StopAfterFailure, Interrupt
<1>3. CASE ChannelClosed \/ CallBreaks
  BY <1>3 DEF ChannelClosed, CallBreaks
<1>4. ASSUME NEW w \in Workers, Answer(w) PROVE ClientNext
  BY <1>4 DEF Answer
<1>5. ASSUME NEW w \in Workers, AnswerGetActions(w) PROVE ClientNext
  <2>1. CASE ReceiveNothing
    BY <2>1
  <2>2. CASE pc[w] = "chunk" /\ ReceiveChunk(Chunk(arg[w]))
    <3>1. arg[w] \in Sent
      BY <2>2 DEF HoldsOnly
    <3>2. arg[w].timestep \in Observable
      BY <3>1 DEF Sent
    <3>3. Chunk(arg[w]) = ChunkFrom(arg[w].timestep)
      BY DEF Chunk, ChunkFrom
    <3> QED
      BY <2>2, <3>2, <3>3
  <2> QED
    BY <1>5, <2>1, <2>2 DEF AnswerGetActions
<1>6. CASE \/ UNCHANGED vars \/ Resend
           \/ \E w \in Workers : \/ ServerHandles(w) \/ DropAnswer(w)
                                 \/ Deliver(w) \/ DeliverGetActions(w)
                                 \/ ServerFails(w)
  <2>1. UNCHANGED clientVars
    BY <1>6 DEF vars, Resend, ServerHandles, DropAnswer,
       Deliver, DeliverGetActions, ServerFails
  <2> QED
    BY <2>1 DEF clientVars, sharedVars, controlVars, receiveVars
<1>7. ~Restart
  BY DEF Restart
<1> QED
  BY <1>1, <1>2, <1>3, <1>4, <1>5, <1>6, <1>7 DEF Next

\* What the network and the client do to the server is a step of the server's
\* own specification: an observation it is sent is the one the client has in
\* its hands.
LEMMA ServerSteps ==
  ASSUME ClientTypeOK, SendingInv, [Next]_vars
  PROVE  \/ UNCHANGED serverVars
         \/ \E w \in Workers :
              \/ HandlerStep(w) \/ HandlerFails(w) \/ Return(w)
              \/ StartGetActions(w) \/ StartReady(w)
              \/ StartSendPolicyInstructions(w)
              \/ \E obs \in Sent : StartSendObservations(w, obs)
<1>1. CASE \/ UNCHANGED vars
           \/ ClientControls \/ ClientReceives \/ RobotFails
           \/ StopAfterFailure \/ Interrupt \/ ChannelClosed
           \/ CallBreaks \/ Resend \/ Restart
  <2>1. UNCHANGED serverVars
    BY <1>1 DEF vars, ClientControls, ClientReceives, RobotFails,
       StopAfterFailure, Interrupt, ChannelClosed, CallBreaks,
       Resend, Restart
  <2> QED
    BY <2>1 DEF serverVars, serverVars
<1>2. ASSUME NEW w \in Workers,
             \/ ServerHandles(w) \/ ServerFails(w) \/ DropAnswer(w)
             \/ Answer(w) \/ AnswerGetActions(w) \/ DeliverGetActions(w)
      PROVE  \/ HandlerStep(w) \/ HandlerFails(w) \/ Return(w)
             \/ StartGetActions(w)
  BY <1>2 DEF ServerHandles, ServerFails, DropAnswer,
     Answer, AnswerGetActions, DeliverGetActions
<1>3. ASSUME NEW w \in Workers, Deliver(w)
      PROVE  \/ StartReady(w) \/ StartSendPolicyInstructions(w)
             \/ \E obs \in Sent : StartSendObservations(w, obs)
  <2>1. CASE ctl = "send"
    <3> DEFINE obs == [timestep |-> observed, mustGo |-> flagged, pose |-> pose]
    <3>1. obs \in Sent
      BY <2>1 DEF SendingInv, ClientTypeOK, Sent
    <3>2. StartSendObservations(w, obs)
      BY <1>3, <2>1 DEF Deliver
    <3> QED
      BY <3>1, <3>2
  <2>2. CASE ctl # "send"
    BY <1>3, <2>2 DEF Deliver
  <2> QED
    BY <2>1, <2>2
<1> QED
  BY <1>1, <1>2, <1>3 DEF Next

\* What handlers pass around among queues and locals is what they were sent.
LEMMA HoldsStep ==
  ASSUME NEW S, HoldsOnly(S), ServerTypeInv,
         \/ UNCHANGED serverVars
         \/ \E w \in Workers :
              \/ HandlerStep(w) \/ HandlerFails(w) \/ Return(w)
              \/ StartGetActions(w) \/ StartReady(w)
              \/ StartSendPolicyInstructions(w)
              \/ \E obs \in S : StartSendObservations(w, obs)
  PROVE  HoldsOnly(S)'
<1> DEFINE Later == {"mark", "prepare", "infer", "chunk"}
<1> USE DEF HoldsOnly
<1>0. /\ current \in QueueIds
      /\ pc \in [Workers -> HandlerPc]
      /\ ref \in [Workers -> QueueIds]
  BY DEF ServerTypeInv, ServerTypeOK
<1>1. CASE UNCHANGED serverVars
  BY <1>1 DEF serverVars
<1> SUFFICES ASSUME NEW w \in Workers,
         \/ HandlerStep(w) \/ HandlerFails(w) \/ Return(w)
         \/ StartGetActions(w) \/ StartReady(w)
         \/ StartSendPolicyInstructions(w)
         \/ \E obs \in S : StartSendObservations(w, obs)
       PROVE HoldsOnly(S)'
  BY <1>1
<1>2. ASSUME UNCHANGED <<obsQueue, arg>>,
             NEW from, NEW to, Goto(w, from, to), to \in Later => from \in Later
      PROVE  HoldsOnly(S)'
  BY <1>0, <1>2 DEF Goto
<1>3. ASSUME arg' = arg, NEW n \in QueueIds, NEW obs \in S \cup {None},
             obsQueue' = [obsQueue EXCEPT ![n] = obs],
             NEW from, NEW to, Goto(w, from, to), to \notin Later
      PROVE  HoldsOnly(S)'
  BY <1>0, <1>3 DEF Goto
<1>4. CASE ReadyStep(w) \/ InstructStep(w)
  <2>1. UNCHANGED <<obsQueue, arg>>
    BY <1>4 DEF ReadyStep, InstructStep, BeginReset, RenewQueue,
       ForgetPredicted, Resume, IgnoreInstructions,
       AcceptInstructions, LoadPolicy, shared
  <2>2. \E from, to : Goto(w, from, to) /\ to \notin Later
    BY <1>4 DEF ReadyStep, InstructStep, BeginReset, RenewQueue,
       ForgetPredicted, Resume, IgnoreInstructions,
       AcceptInstructions, LoadPolicy
  <2> QED
    BY <1>2, <2>1, <2>2
<1>5. CASE \/ ReceiveRefused(w) \/ Receive(w) \/ CheckMustGo(w)
           \/ FilterObservation(w) \/ PassObservation(w)
           \/ CheckFull(w) \/ EvictRaisesEmpty(w) \/ PutBlocks(w)
  <2>1. UNCHANGED <<obsQueue, arg>>
    BY <1>5 DEF ReceiveRefused, Receive, CheckMustGo,
       FilterObservation, PassObservation, CheckFull,
       EvictRaisesEmpty, PutBlocks, shared
  <2>2. \E from, to : Goto(w, from, to) /\ to \notin Later
    BY <1>5 DEF ReceiveRefused, Receive, CheckMustGo,
       FilterObservation, PassObservation, CheckFull,
       EvictRaisesEmpty, PutBlocks
  <2> QED
    BY <1>2, <2>1, <2>2
<1>6. CASE EvictOldest(w)
  BY <1>0, <1>3, <1>6 DEF EvictOldest
<1>7. CASE Put(w)
  BY <1>0, <1>3, <1>7 DEF Put
<1>8. CASE PutUnblocks(w)
  BY <1>0, <1>3, <1>8 DEF PutUnblocks
<1>9. CASE \/ BeginGet(w) \/ GetTimesOut(w) \/ MarkPredicted(w)
           \/ Preprocess(w) \/ PredictChunk(w) \/ HandlerFails(w)
           \/ PreprocessFails(w)
           \/ StartGetActions(w) \/ StartReady(w)
           \/ StartSendPolicyInstructions(w)
  <2>1. UNCHANGED <<obsQueue, arg>>
    BY <1>9 DEF BeginGet, GetTimesOut, MarkPredicted,
       Preprocess, PredictChunk, PreprocessFails,
       HandlerFails, LoadFails, PredictFails,
       StartGetActions, StartReady,
       StartSendPolicyInstructions, shared
  <2>2. \E from, to : Goto(w, from, to) /\ (to \in Later => from \in Later)
    BY <1>9 DEF BeginGet, GetTimesOut, MarkPredicted,
       Preprocess, PredictChunk, PreprocessFails,
       HandlerFails, LoadFails, PredictFails,
       StartGetActions, StartReady, StartSendPolicyInstructions
  <2> QED
    BY <1>2, <2>1, <2>2
<1>10. CASE TakeObservation(w)
  <2>1. obsQueue[ref[w]] \in S /\ arg' = [arg EXCEPT ![w] = obsQueue[ref[w]]]
    BY <1>0, <1>10 DEF TakeObservation
  <2>2. obsQueue' = [obsQueue EXCEPT ![ref[w]] = None] /\ Goto(w, "wait", "mark")
    BY <1>10 DEF TakeObservation
  <2> QED
    BY <1>0, <2>1, <2>2 DEF Goto
<1>11. CASE Return(w)
  BY <1>0, <1>11 DEF Return, shared
<1>12. CASE \E obs \in S : StartSendObservations(w, obs)
  BY <1>0, <1>12 DEF StartSendObservations, Goto, shared
<1> QED
  BY <1>4, <1>5, <1>6, <1>7, <1>8, <1>9, <1>10, <1>11, <1>12
     DEF HandlerStep, SendObservationsStep, GetActionsStep

\* What was executed stays executed.
LEMMA ExecutedGrows == [ClientNext]_clientVars => executed \subseteq executed'
BY ClientCases DEF Poll, PopAction, PopRaisesEmpty, PerformAction, CheckReady,
   CaptureObservation, ClearMustGo, CallGetActions, ReceiverEnds, BeginIteration,
   EndIteration, IterationRaises, MergeAction, SwapQueue, SetMustGo, SendActionRaises,
   CaptureRaises, Stop, ReadyAnswered, InstructionsAnswered, StartFails, SendReturns,
   ReceiveNothing, ReceiveChunk, clientVars, sharedVars

\* The main thread goes to a capture only below the horizon, and from there to
\* a send, which keeps what it sends until it is over.
LEMMA ControlPath ==
  ASSUME ClientInv, SendingInv, [ClientNext]_clientVars
  PROVE  /\ observed' \in Observable'
         /\ (ctl = "capture" => latestAction < Horizon)'
         /\ ctl' = "send" => ctl \in {"capture", "send"}
<1> USE DEF SendingInv, sharedVars, controlVars, receiveVars
<1>1. Observable \subseteq Observable' /\ 0 \in Observable'
  BY ExecutedGrows DEF Observable
<1>2. CASE \/ UNCHANGED clientVars
           \/ CallGetActions \/ ReceiverEnds \/ BeginIteration \/ EndIteration
           \/ IterationRaises \/ MergeAction \/ SwapQueue \/ SetMustGo \/ ReceiveNothing
           \/ \E t \in Observable : ReceiveChunk(ChunkFrom(t))
  <2>1. UNCHANGED <<ctl, observed, latestAction>>
    BY <1>2 DEF clientVars, CallGetActions, ReceiverEnds, BeginIteration, EndIteration,
       IterationRaises, MergeAction, SwapQueue, SetMustGo, ReceiveNothing, ReceiveChunk
  <2> QED
    BY <1>1, <2>1
<1>3. CASE \/ Poll \/ PopAction \/ PopRaisesEmpty \/ PerformAction \/ SendActionRaises
           \/ CaptureRaises \/ SendReturns \/ ClearMustGo \/ Stop
           \/ ReadyAnswered \/ InstructionsAnswered \/ StartFails
  <2>1. observed' \in {observed, 0} /\ ctl' \notin {"capture", "send"}
    BY <1>3 DEF Poll, PopAction, PopRaisesEmpty, PerformAction, SendActionRaises,
       CaptureRaises, SendReturns, ClearMustGo, Stop, ReadyAnswered,
       InstructionsAnswered, StartFails
  <2> QED
    BY <1>1, <2>1
<1>4. CASE CheckReady
  BY <1>1, <1>4 DEF CheckReady
<1>5. CASE CaptureObservation
  <2>1. latestAction' = latestAction /\ ctl = "capture" /\ ctl' = "send"
    BY <1>5 DEF CaptureObservation
  <2>2. CASE latestAction > 0
    <3>1. latestAction \in executed /\ latestAction < Horizon
      BY <2>1, <2>2 DEF ClientInv, ExecutedInv
    <3> QED
      BY <1>1, <1>5, <2>1, <2>2, <3>1 DEF CaptureObservation, Observable
  <2>3. CASE ~(latestAction > 0)
    BY <1>1, <1>5, <2>1, <2>3 DEF CaptureObservation
  <2> QED
    BY <2>2, <2>3
<1> QED
  BY ClientCases, <1>2, <1>3, <1>4, <1>5

\* The pose of an observation is the robot's, and does not change while it is sent.
LEMMA PoseStep ==
  ASSUME SendingInv, session \in Nat, session' = session, [Next]_vars,
         ctl' = "send" => ctl \in {"capture", "send"}
  PROVE  ctl' = "send" => pose' \in Poses
<1> SUFFICES ASSUME ctl' = "send" PROVE pose' \in Poses
  OBVIOUS
<1> USE DEF SendingInv, sharedVars, controlVars
<1>1. CASE ClientControls
  BY <1>1 DEF ClientControls
<1>2. CASE UNCHANGED <<ctl, pose>>
  BY <1>2
<1>3. CASE ClientReceives \/ ChannelClosed
  <2>1. ReceiverStep \/ ReceiveNothing => ctl' = ctl
    BY DEF ReceiverStep, CallGetActions, ReceiverEnds, BeginIteration, EndIteration,
       IterationRaises, MergeAction, SwapQueue, SetMustGo, ReceiveNothing
  <2> QED
    BY <1>2, <1>3, <2>1 DEF ClientReceives, ChannelClosed, netVars
<1>4. CASE StopAfterFailure \/ RobotFails \/ Interrupt
  <2>1. Stop \/ DeviceFails => ctl' # "send"
    BY DEF Stop, DeviceFails, SendActionRaises, CaptureRaises
  <2> QED
    BY <1>4, <2>1 DEF StopAfterFailure, RobotFails, Interrupt
<1>5. CASE CallBreaks
  <2>1. StartFails \/ SendReturns => ctl' # "send"
    BY DEF StartFails, SendReturns
  <2>2. ReceiveNothing => ctl' = ctl
    BY DEF ReceiveNothing
  <2> QED
    BY <1>2, <1>5, <2>1, <2>2 DEF CallBreaks
<1>6. CASE Resend \/ UNCHANGED vars
  BY <1>2, <1>6 DEF Resend, vars, clientVars, netVars
<1>7. ASSUME NEW w \in Workers,
             \/ ServerHandles(w) \/ ServerFails(w) \/ DropAnswer(w)
             \/ Deliver(w) \/ DeliverGetActions(w)
      PROVE  UNCHANGED <<ctl, pose>>
  BY <1>7 DEF ServerHandles, ServerFails, DropAnswer, Deliver,
     DeliverGetActions, clientVars, netVars
<1>8. ASSUME NEW w \in Workers, Answer(w) PROVE FALSE
  <2>1. ReadyAnswered \/ InstructionsAnswered \/ StartFails \/ SendReturns => ctl' # "send"
    BY DEF ReadyAnswered, InstructionsAnswered, StartFails, SendReturns
  <2> QED
    BY <1>8, <2>1 DEF Answer
<1>9. ASSUME NEW w \in Workers, AnswerGetActions(w) PROVE UNCHANGED <<ctl, pose>>
  <2>1. ReceiveNothing \/ (\E chunk : ReceiveChunk(chunk)) => ctl' = ctl
    BY DEF ReceiveNothing, ReceiveChunk
  <2> QED
    BY <1>9, <2>1 DEF AnswerGetActions
<1>10. ~Restart
  BY DEF Restart
<1> QED
  BY <1>1, <1>2, <1>3, <1>4, <1>5, <1>6, <1>7, <1>8, <1>9, <1>10 DEF Next

\* What the client sends is an observation below the horizon.
LEMMA SentIsObservation == ClientTypeOK => Sent \subseteq Observation
<1> SUFFICES ASSUME ClientTypeOK, NEW t \in Observable PROVE t \in Timesteps
  BY DEF Sent, Observation
<1>1. t = 0 \/ (t \in Nat /\ t < Horizon)
  BY DEF Observable, ClientTypeOK, Timestep
<1> QED
  BY <1>1, AsyncAssumption, ClientAssumption

\* Until the client is started again, no step breaks its invariant.
LEMMA FirstStep ==
  ASSUME FirstInv, session \in Nat, session' = session,
         [Next]_vars
  PROVE  FirstInv'
<1> USE DEF FirstInv
<1>1. [ClientNext]_clientVars
  BY ClientSteps
<1>2. ClientInv'
  BY <1>1, ClientInvStep
<1>3. SendingInv'
  <2>1. /\ observed' \in Observable'
        /\ (ctl = "capture" => latestAction < Horizon)'
        /\ ctl' = "send" => ctl \in {"capture", "send"}
    BY <1>1, ControlPath
  <2>2. ctl' = "send" => pose' \in Poses
    BY <2>1, PoseStep
  <2> QED
    BY <2>1, <2>2 DEF SendingInv
<1>4. \/ UNCHANGED serverVars
      \/ \E w \in Workers :
           \/ HandlerStep(w) \/ HandlerFails(w) \/ Return(w)
           \/ StartGetActions(w) \/ StartReady(w)
           \/ StartSendPolicyInstructions(w)
           \/ \E obs \in Sent : StartSendObservations(w, obs)
  BY ServerSteps DEF ClientInv
<1>5. ServerTypeInv'
  <2>1. Sent \subseteq Observation
    BY SentIsObservation DEF ClientInv
  <2>2. [ServerNext]_serverVars
    BY <1>4, <2>1 DEF ServerNext, Call
  <2> QED
    BY <2>2, ServerTypeStep
<1>6. HoldsOnly(Sent)'
  <2> PICK S : S = Sent
    OBVIOUS
  <2>1. HoldsOnly(S)'
    BY <1>4, HoldsStep
  <2>2. S \subseteq Sent'
    BY <1>1, ExecutedGrows DEF Sent, Observable
  <2>3. HoldsOnly(S)' /\ S \subseteq Sent' => HoldsOnly(Sent)'
    BY DEF HoldsOnly
  <2> QED
    BY <2>1, <2>2, <2>3
<1> QED
  BY <1>2, <1>3, <1>5, <1>6

\* The invariant holds when both programs have just been started.
LEMMA FirstInit == Init => FirstInv /\ session = 1
<1> SUFFICES ASSUME Init PROVE FirstInv /\ session = 1
  OBVIOUS
<1>1. ClientInit
  BY DEF Init, ClientInit, ClientInit
<1>2. ServerInit
  BY DEF Init, ServerInit, ServerInit, QueueIds, QueueIds
<1>3. ClientInv
  BY <1>1, ClientInvInit
<1>4. SendingInv
  BY <1>1 DEF ClientInit, SendingInv, Observable
<1>5. ServerTypeInv
  BY <1>2, ServerTypeInit
<1>6. HoldsOnly(Sent)
  BY <1>2 DEF ServerInit, HoldsOnly
<1> QED
  BY <1>3, <1>4, <1>5, <1>6 DEF FirstInv, Init

\* Against the real server, with broken and resent calls, failing inferences and
\* a failing robot, and with any pool of threads: the first client process never
\* makes the robot jump over a timestep of its plan.
THEOREM FirstClientPlan == Spec => []FirstClientNeverSkips
<1>1. Init => AsyncInv
  BY FirstInit DEF AsyncInv
<1>2. AsyncInv /\ [Next]_vars => AsyncInv'
  <2> SUFFICES ASSUME AsyncInv, [Next]_vars PROVE AsyncInv'
    OBVIOUS
  <2>1. CASE session' = session
    BY <2>1, FirstStep DEF AsyncInv
  <2>2. CASE session' # session
    <3>1. session' = session + 1
      BY <2>2 DEF Next, vars, netVars, ClientControls,
         StopAfterFailure, ClientReceives, ChannelClosed,
         ServerHandles, DropAnswer, Deliver, DeliverGetActions,
         Answer, AnswerGetActions, ServerFails, CallBreaks,
         Resend, RobotFails, Interrupt, Restart
    <3> QED
      BY <3>1 DEF AsyncInv
  <2> QED
    BY <2>1, <2>2
<1>3. AsyncInv => FirstClientNeverSkips
  BY ClientInvImplies DEF AsyncInv, FirstInv, FirstClientNeverSkips,
     NoTimestepSkipped
<1> QED
  BY <1>1, <1>2, <1>3, PTL DEF Spec

-----------------------------------------------------------------------------
(* Without faults.                                                         *)
(*                                                                         *)
(* The main thread waits for every call it makes, so while nothing breaks  *)
(* a call or sends it again, one handler at a time sends or resets.        *)

Exclusive == SendingPc \cup ResettingPc \cup {"reset"}

\* Only the handler of the main thread's call is exclusive, and it never finds
\* the queue full when it puts.
SoleInv ==
  \A w \in Workers :
    /\ pc[w] \in Exclusive => w = ctlCall
    /\ pc[w] # "blocked"
    /\ pc[w] = "put" => obsQueue[current] = None

FaultlessInv == FirstInv /\ session = 1 /\ faults = 0 /\ SoleInv

\* A handler moves on: an exclusive one as it likes, another one without filling
\* the queue.
LEMMA SoleGoto ==
  ASSUME SoleInv, ServerTypeInv, NEW w \in Workers, NEW from, NEW to,
         Goto(w, from, to), ctlCall' = ctlCall,
         to \in Exclusive => from \in Exclusive,
         to # "blocked",
         to = "put" => obsQueue'[current'] = None,
         from \in Exclusive \/ (current' = current /\ obsQueue'[current] \in {obsQueue[current], None})
  PROVE  SoleInv'
<1>1. /\ pc[w] = from /\ pc'[w] = to
      /\ \A v \in Workers \ {w} : pc'[v] = pc[v]
  BY DEF Goto, ServerTypeInv, ServerTypeOK
<1>2. "put" \in Exclusive
  BY DEF Exclusive, SendingPc
<1> SUFFICES ASSUME NEW v \in Workers
             PROVE  /\ pc'[v] \in Exclusive => v = ctlCall
                    /\ pc'[v] # "blocked"
                    /\ pc'[v] = "put" => obsQueue'[current'] = None
  BY DEF SoleInv, Exclusive, SendingPc, ResettingPc
<1>3. CASE v = w
  BY <1>1, <1>3 DEF SoleInv
<1>4. CASE v # w
  <2>1. pc'[v] = pc[v]
    BY <1>1, <1>4
  <2>2. pc[v] = "put" => from \notin Exclusive
    BY <1>1, <1>2, <1>4 DEF SoleInv
  <2> QED
    BY <2>1, <2>2 DEF SoleInv
<1> QED
  BY <1>3, <1>4

\* A handler's own step.
LEMMA SoleHandler ==
  ASSUME SoleInv, ServerTypeInv, NEW w \in Workers, HandlerStep(w), ctlCall' = ctlCall
  PROVE  SoleInv'
<1>0. /\ current \in QueueIds /\ obsQueue \in [QueueIds -> Observation \cup {None}]
      /\ ref \in [Workers -> QueueIds]
  BY DEF ServerTypeInv, ServerTypeOK
<1> USE DEF Exclusive, SendingPc, ResettingPc
<1>1. CASE ReadyStep(w)
  <2>1. \E from \in Exclusive, to \in {"renew", "forget", "resume", "ok"} : Goto(w, from, to)
    BY <1>1 DEF ReadyStep, BeginReset, RenewQueue,
       ForgetPredicted, Resume
  <2> QED
    BY <2>1, SoleGoto
<1>2. CASE InstructStep(w)
  <2>1. UNCHANGED <<obsQueue, current>>
    BY <1>2 DEF InstructStep, IgnoreInstructions, AcceptInstructions,
       LoadPolicy, shared
  <2>2. \E from, to \in {"instruct", "load", "ok"} : Goto(w, from, to)
    BY <1>2 DEF InstructStep, IgnoreInstructions, AcceptInstructions,
       LoadPolicy
  <2> QED
    BY <2>1, <2>2, SoleGoto
<1>3. CASE \/ ReceiveRefused(w) \/ Receive(w) \/ CheckMustGo(w)
           \/ FilterObservation(w) \/ PassObservation(w)
           \/ EvictRaisesEmpty(w) \/ Put(w)
  <2>1. \E from \in Exclusive, to \in {"error", "check", "full", "sanity", "ok"} :
          Goto(w, from, to)
    BY <1>3 DEF ReceiveRefused, Receive, CheckMustGo,
       FilterObservation, PassObservation, EvictRaisesEmpty, Put
  <2> QED
    BY <2>1, SoleGoto
<1>4. CASE CheckFull(w)
  <2>1. UNCHANGED <<obsQueue, current>>
    BY <1>4 DEF CheckFull, shared
  <2>2. CASE obsQueue[current] = None
    <3>1. Goto(w, "full", "put")
      BY <1>4, <2>2 DEF CheckFull
    <3> QED
      BY <2>1, <2>2, <3>1, SoleGoto
  <2>3. CASE obsQueue[current] # None
    <3>1. Goto(w, "full", "evict")
      BY <1>4, <2>3 DEF CheckFull
    <3> QED
      BY <2>1, <2>3, <3>1, SoleGoto
  <2> QED
    BY <2>2, <2>3
<1>5. CASE EvictOldest(w)
  <2>1. Goto(w, "evict", "put") /\ current' = current
    BY <1>5 DEF EvictOldest
  <2>2. obsQueue'[current] = None
    BY <1>0, <1>5 DEF EvictOldest
  <2> QED
    BY <2>1, <2>2, SoleGoto
<1>6. CASE PutBlocks(w) \/ PutUnblocks(w)
  <2>1. \/ pc[w] = "put" /\ obsQueue[current] # None
        \/ pc[w] = "blocked"
    BY <1>6 DEF PutBlocks, PutUnblocks, Goto
  <2> QED
    BY <2>1 DEF SoleInv
<1>7. CASE \/ BeginGet(w) \/ GetTimesOut(w) \/ MarkPredicted(w)
           \/ Preprocess(w) \/ PredictChunk(w) \/ PreprocessFails(w)
  <2>1. UNCHANGED <<obsQueue, current>>
    BY <1>7 DEF BeginGet, GetTimesOut, MarkPredicted,
       Preprocess, PredictChunk, PreprocessFails, shared
  <2>2. \E from, to \in {"get", "wait", "empty", "mark", "prepare", "infer", "chunk"} :
          Goto(w, from, to)
    BY <1>7 DEF BeginGet, GetTimesOut, MarkPredicted,
       Preprocess, PredictChunk, PreprocessFails
  <2> QED
    BY <2>1, <2>2, SoleGoto
<1>8. CASE TakeObservation(w)
  <2>1. Goto(w, "wait", "mark") /\ current' = current
    BY <1>8 DEF TakeObservation
  <2>2. obsQueue'[current] \in {obsQueue[current], None}
    BY <1>0, <1>8 DEF TakeObservation
  <2> QED
    BY <2>1, <2>2, SoleGoto
<1> QED
  BY <1>1, <1>2, <1>3, <1>4, <1>5, <1>6, <1>7, <1>8
     DEF HandlerStep, SendObservationsStep, GetActionsStep

\* A handler ends, and if it served the main thread, that one goes on.
LEMMA SoleReturn ==
  ASSUME SoleInv, ServerTypeInv, NEW w \in Workers, Return(w),
         ctlCall' = ctlCall \/ ctlCall = w
  PROVE  SoleInv'
<1>1. /\ pc[w] \notin Exclusive /\ pc'[w] = "idle"
      /\ \A v \in Workers \ {w} : pc'[v] = pc[v]
      /\ UNCHANGED <<obsQueue, current>>
  BY DEF Return, ReturnPc, ServerTypeInv, ServerTypeOK, shared,
     Exclusive, SendingPc, ResettingPc
<1>2. "idle" \notin Exclusive
  BY DEF Exclusive, SendingPc, ResettingPc
<1>3. ASSUME NEW v \in Workers
      PROVE  /\ pc'[v] \in Exclusive => v = ctlCall'
             /\ pc'[v] # "blocked"
             /\ pc'[v] = "put" => obsQueue'[current'] = None
  <2>1. CASE v = w
    BY <1>1, <1>2, <2>1
  <2>2. CASE v # w
    BY <1>1, <2>2 DEF SoleInv
  <2> QED
    BY <2>1, <2>2
<1> QED
  BY <1>3 DEF SoleInv, Exclusive, SendingPc, ResettingPc

\* A free worker takes a call.
LEMMA SoleDeliver ==
  ASSUME SoleInv, ServerTypeInv, NEW w \in Workers,
         Deliver(w) \/ DeliverGetActions(w)
  PROVE  SoleInv'
<1> USE DEF Exclusive, SendingPc, ResettingPc
<1>1. CASE Deliver(w)
  <2>1. /\ \E to \in {"reset", "instruct", "receive"} : Goto(w, "idle", to)
        /\ UNCHANGED <<obsQueue, current>>
    BY <1>1 DEF Deliver, StartReady, shared,
       StartSendPolicyInstructions, StartSendObservations
  <2>2. \A v \in Workers : pc[v] \notin Exclusive
    BY <1>1, AsyncAssumption DEF Deliver, SoleInv
  <2>3. /\ pc'[w] \in {"reset", "instruct", "receive"} /\ ctlCall' = w
        /\ \A v \in Workers \ {w} : pc'[v] = pc[v]
    BY <1>1, <2>1 DEF Goto, ServerTypeInv, ServerTypeOK, Deliver
  <2>4. ASSUME NEW v \in Workers
        PROVE  /\ pc'[v] \in Exclusive => v = ctlCall'
               /\ pc'[v] \notin {"blocked", "put"}
    BY <2>2, <2>3
  <2> QED
    BY <2>4 DEF SoleInv
<1>2. CASE DeliverGetActions(w)
  <2>1. Goto(w, "idle", "get") /\ UNCHANGED <<obsQueue, current, ctlCall>>
    BY <1>2 DEF DeliverGetActions, StartGetActions, shared
  <2> QED
    BY <2>1, SoleGoto
<1> QED
  BY <1>1, <1>2

\* Without faults no step breaks the invariant.
LEMMA SoleStep ==
  ASSUME MaxFaults = 0, FaultlessInv, [Next]_vars
  PROVE  FaultlessInv'
<1> USE DEF FaultlessInv
<1>1. ~Fault
  BY DEF Fault
<1>2. CASE \/ UNCHANGED vars
           \/ ClientControls \/ StopAfterFailure \/ ClientReceives
           \/ ChannelClosed
  <2>1. UNCHANGED <<pc, obsQueue, current, ctlCall, session, faults>>
    BY <1>2 DEF vars, ClientControls, StopAfterFailure,
       ClientReceives, ChannelClosed, serverVars, netVars
  <2>2. SoleInv'
    BY <2>1 DEF SoleInv, Exclusive, SendingPc, ResettingPc
  <2> QED
    BY <2>1, <2>2, FirstStep
<1>3. ASSUME NEW w \in Workers,
             \/ ServerHandles(w) \/ DropAnswer(w)
             \/ Deliver(w) \/ DeliverGetActions(w)
             \/ Answer(w) \/ AnswerGetActions(w)
      PROVE  FaultlessInv'
  <2>1. UNCHANGED <<session, faults>>
    BY <1>3 DEF ServerHandles, DropAnswer, Deliver,
       DeliverGetActions, Answer, AnswerGetActions, netVars
  <2>2. SoleInv'
    <3>1. CASE ServerHandles(w)
      BY <3>1, SoleHandler DEF ServerHandles, netVars, FirstInv
    <3>2. CASE DropAnswer(w) \/ Answer(w) \/ AnswerGetActions(w)
      <4>1. Return(w) /\ (ctlCall' = ctlCall \/ ctlCall = w)
        BY <3>2 DEF DropAnswer, Answer, AnswerGetActions,
           netVars
      <4> QED
        BY <4>1, SoleReturn DEF FirstInv
    <3>3. CASE Deliver(w) \/ DeliverGetActions(w)
      BY <3>3, SoleDeliver DEF FirstInv
    <3> QED
      BY <1>3, <3>1, <3>2, <3>3
  <2> QED
    BY <1>3, <2>1, <2>2, FirstStep DEF Next
<1> QED
  BY <1>1, <1>2, <1>3 DEF Next, ServerFails, CallBreaks,
     Resend, RobotFails, Interrupt, Restart

\* "never blocks as queue is non-full here", in _enqueue_observation: while no
\* call breaks or is sent again and nothing raises, whatever the timing, the
\* put of an observation finds room.
THEOREM PutFindsRoom ==
  MaxFaults = 0 => (Spec => []PutNeverBlocks)
<1> SUFFICES ASSUME MaxFaults = 0
             PROVE  Spec => []PutNeverBlocks
  OBVIOUS
<1>1. Init => FaultlessInv
  <2> SUFFICES ASSUME Init PROVE FaultlessInv
    OBVIOUS
  <2>1. FirstInv /\ session = 1 /\ faults = 0
    BY FirstInit DEF Init
  <2>2. SoleInv
    BY DEF Init, ServerInit, SoleInv, Exclusive, SendingPc, ResettingPc
  <2> QED
    BY <2>1, <2>2 DEF FaultlessInv
<1>2. FaultlessInv /\ [Next]_vars => FaultlessInv'
  BY SoleStep
<1>3. FaultlessInv => PutNeverBlocks
  BY DEF FaultlessInv, SoleInv, PutNeverBlocks
<1> QED
  BY <1>1, <1>2, <1>3, PTL DEF Spec
=============================================================================
