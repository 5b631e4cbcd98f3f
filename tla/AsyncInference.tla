--------------------------- MODULE AsyncInference ---------------------------
(***************************************************************************)
(* One robot client and the policy server, joined by gRPC.                 *)
(*                                                                         *)
(* The client's two threads make blocking unary calls, so each has at most *)
(* one call outstanding: ctlCall and rcvCall name the server worker that   *)
(* serves it, or None while no worker has taken it.  The network may break *)
(* a call (the thread gets an RpcError; the handler, if it had started,    *)
(* goes on unseen) and the channel's retry policy may send the request of  *)
(* a broken call again.  A client process may be killed and started again; *)
(* the server goes on with whatever it was doing for the old one.          *)
(*                                                                         *)
(* A handler whose request stream breaks before it is complete fails       *)
(* without touching shared state: the same as a request never delivered.   *)
(***************************************************************************)
EXTENDS RobotClient, PolicyServer

CONSTANT
  MaxFaults  \* bound: broken or resent calls, exceptions, interrupts, restarts

ASSUME AsyncAssumption ==
  /\ None \notin Workers
  /\ 0..Horizon \subseteq Timesteps
  /\ MaxFaults \in Nat
  /\ MaxResets > MaxFaults  \* no call of Ready meets the bound of PolicyServer

VARIABLES
  pose,     \* the joint pose in the observation being sent
  ctlCall,  \* worker that serves the main thread's call
  rcvCall,  \* worker that serves the receiver's GetActions
  session,  \* how many client processes have been started
  faults,   \* how many faults have happened
  outrun    \* history: must_go was "set" for a chunk that came before the clear()
            \* of the observation being sent, that clear() has "wiped" it, or "no"

netVars == <<pose, ctlCall, rcvCall, session, faults, outrun>>
vars    == <<clientVars, serverVars, netVars>>

SomePose == CHOOSE p \in Poses : TRUE

Init ==
  /\ ClientInit
  /\ ServerInit
  /\ pose = SomePose
  /\ ctlCall = None
  /\ rcvCall = None
  /\ session = 1
  /\ faults = 0
  /\ outrun = "no"

Fault == faults < MaxFaults /\ faults' = faults + 1

-----------------------------------------------------------------------------
(* Steps inside one process.                                               *)

ClientControls ==
  /\ ControlStep
  /\ pose' \in IF ctl = "capture" THEN Poses ELSE {pose}
  /\ outrun' = IF ctl = "clear" /\ outrun = "set" THEN "wiped" ELSE outrun
  /\ UNCHANGED <<serverVars, ctlCall, rcvCall, session, faults>>

\* An exception has escaped the control loop: the program ends.
StopAfterFailure ==
  /\ ctl = "failed"
  /\ Stop
  /\ UNCHANGED <<serverVars, netVars>>

ClientReceives ==
  /\ ReceiverStep
  /\ outrun' = IF rcv # "rearm" THEN outrun
               ELSE IF flagged /\ ctl \in {"send", "clear"} THEN "set" ELSE "no"
  /\ UNCHANGED <<serverVars, pose, ctlCall, rcvCall, session, faults>>

ServerHandles(w) == HandlerStep(w) /\ UNCHANGED <<clientVars, netVars>>

\* A handler nobody waits for any more ends.
DropAnswer(w) ==
  /\ w \notin {ctlCall, rcvCall}
  /\ Return(w)
  /\ UNCHANGED <<clientVars, netVars>>

-----------------------------------------------------------------------------
(* Calls.                                                                  *)

Deliver(w) ==
  /\ ctlCall = None
  /\ \/ ctl = "connect" /\ StartReady(w)
     \/ ctl = "instruct" /\ StartSendPolicyInstructions(w)
     \/ ctl = "send" /\ StartSendObservations(w,
          [timestep |-> observed, mustGo |-> flagged, pose |-> pose])
  /\ ctlCall' = w
  /\ UNCHANGED <<clientVars, pose, rcvCall, session, faults, outrun>>

DeliverGetActions(w) ==
  /\ rcv = "wait"
  /\ rcvCall = None
  /\ StartGetActions(w)
  /\ rcvCall' = w
  /\ UNCHANGED <<clientVars, pose, ctlCall, session, faults, outrun>>

Answer(w) ==
  /\ ctlCall = w
  /\ \/ ctl = "connect" /\ ReadyAnswered
     \/ ctl = "instruct" /\ pc[w] = "ok" /\ InstructionsAnswered
     \/ ctl = "instruct" /\ pc[w] = "error" /\ StartFails
     \/ ctl = "send" /\ SendReturns
  /\ Return(w)
  /\ ctlCall' = None
  /\ pose' = SomePose
  /\ UNCHANGED <<rcvCall, session, faults, outrun>>

AnswerGetActions(w) ==
  /\ rcvCall = w
  /\ \/ pc[w] = "empty" /\ ReceiveNothing
     \/ pc[w] = "chunk" /\ ReceiveChunk(Chunk(arg[w]))
  /\ Return(w)
  /\ rcvCall' = None
  /\ UNCHANGED <<pose, ctlCall, session, faults, outrun>>

\* The client has stopped and closed its channel: the receiver's call fails.
ChannelClosed ==
  /\ ~running
  /\ ReceiveNothing
  /\ rcvCall' = None
  /\ UNCHANGED <<serverVars, pose, ctlCall, session, faults, outrun>>

-----------------------------------------------------------------------------
(* Faults.                                                                 *)

CallBreaks ==
  /\ Fault
  /\ \/ /\ \/ ctl \in {"connect", "instruct"} /\ StartFails
           \/ ctl = "send" /\ SendReturns
        /\ ctlCall' = None
        /\ pose' = SomePose
        /\ UNCHANGED rcvCall
     \/ /\ running
        /\ ReceiveNothing
        /\ rcvCall' = None
        /\ UNCHANGED <<pose, ctlCall>>
  /\ UNCHANGED <<serverVars, session, outrun>>

\* The retry policy of the channel sends the request again.
Resend ==
  /\ Fault
  /\ \/ ctlCall # None /\ ctlCall' = None /\ UNCHANGED rcvCall
     \/ rcvCall # None /\ rcvCall' = None /\ UNCHANGED ctlCall
  /\ UNCHANGED <<clientVars, serverVars, pose, session, outrun>>

ServerFails(w) ==
  /\ Fault
  /\ HandlerFails(w)
  /\ UNCHANGED <<clientVars, pose, ctlCall, rcvCall, session, outrun>>

RobotFails ==
  /\ Fault
  /\ DeviceFails
  /\ UNCHANGED <<serverVars, pose, ctlCall, rcvCall, session, outrun>>

Interrupt ==
  /\ Fault
  /\ ctl = "poll"
  /\ Stop
  /\ UNCHANGED <<serverVars, pose, ctlCall, rcvCall, session, outrun>>

\* The client process is killed or has ended, and a new one starts.
Restart ==
  /\ Fault
  /\ session' = session + 1
  /\ running' = TRUE /\ ctl' = "connect" /\ rcv' = "off"
  /\ actionQueue' = <<>> /\ latestAction' = -1 /\ actionChunkSize' = -1
  /\ mustGo' = TRUE /\ held' = NoAction /\ observed' = 0 /\ flagged' = FALSE
  /\ incoming' = <<>> /\ snapshot' = <<>> /\ cursor' = 1 /\ future' = <<>>
  /\ executed' = {}
  /\ pose' = SomePose /\ ctlCall' = None /\ rcvCall' = None /\ outrun' = "no"
  /\ UNCHANGED serverVars

-----------------------------------------------------------------------------
Next ==
  \/ ClientControls \/ StopAfterFailure \/ ClientReceives \/ ChannelClosed
  \/ \E w \in Workers :
       \/ ServerHandles(w) \/ DropAnswer(w)
       \/ Deliver(w) \/ DeliverGetActions(w)
       \/ Answer(w) \/ AnswerGetActions(w)
       \/ ServerFails(w)
  \/ CallBreaks \/ Resend \/ RobotFails \/ Interrupt \/ Restart

Spec == Init /\ [][Next]_vars

\* obs_queue_timeout (2 s by default) is much longer than the step from
\* get_nowait() to put(): no GetActions gives up in between.
PutBeatsTimeout ==
  \A w \in Workers : pc[w] = "wait" /\ pc'[w] = "empty"
                        => \A v \in Workers : pc[v] # "put"

\* Every thread runs, gRPC delivers what it does not break, and a pool thread
\* that is free takes a waiting call.  Nothing is assumed of the faults.
Fairness ==
  /\ WF_vars(ClientControls \/ StopAfterFailure)
  /\ WF_vars(ClientReceives)
  /\ WF_vars(ChannelClosed)
  /\ WF_vars(\E w \in Workers : Deliver(w))
  /\ WF_vars(\E w \in Workers : DeliverGetActions(w))
  /\ \A w \in Workers : WF_vars(ServerHandles(w))
  /\ \A w \in Workers : WF_vars(DropAnswer(w) \/ Answer(w) \/ AnswerGetActions(w))

TimelySpec == Init /\ [][Next /\ PutBeatsTimeout]_vars /\ Fairness

-----------------------------------------------------------------------------
(* Properties.                                                             *)

\* The client's and the server's state have their types, and a call is served
\* by one worker (RobotClient.__init__, PolicyServer.__init__).
TypeOK ==
  /\ ClientTypeOK
  /\ ServerTypeOK
  /\ pose \in Poses
  /\ ctlCall \in Workers \cup {None}
  /\ rcvCall \in Workers \cup {None}
  /\ ctlCall # None => ctlCall # rcvCall
  /\ outrun \in {"no", "set", "wiped"}

\* The first client of a server against the real server, with broken and resent
\* calls and failing inferences: _aggregate_action_queues and control_loop never
\* make the robot jump over a timestep of its plan.  (A later client may be sent
\* a chunk that starts at a timestep of the client before it.)
FirstClientNeverSkips == session = 1 => NoTimestepSkipped

Halted == ctl \in {"failed", "stopped"} \/ rcv = "dead"

\* Without faults the client gets through its whole plan even if the robot stands
\* still and every later observation is similar to the last, unless one of its threads
\* has died, or the set() of must_go that came with its last chunk was wiped by
\* the clear() of the observation sent before: nothing else stops it for ever.
PlanAdvances ==
  \/ <>(latestAction >= Horizon \/ Halted)
  \/ <>[](outrun = "wiped")

\* "Now put the new observation (never blocks as queue is non-full here)", in
\* _enqueue_observation.
PutNeverBlocks == \A w \in Workers : pc[w] # "blocked"
=============================================================================
