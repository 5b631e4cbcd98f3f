------------------------------ MODULE LeKiwiHost ------------------------------
(***************************************************************************)
(* The host of a mobile base, main() of                                    *)
(* src/lerobot/robots/lekiwi/lekiwi_host.py, with LeKiwi (lekiwi.py), its  *)
(* motors bus and a camera: commands of the client come through a socket   *)
(* that keeps only the last one, a watchdog stops the base when they stop  *)
(* coming, and whatever ends the loop disconnects the robot.               *)
(*                                                                         *)
(* Of a command only whether it moves the base is kept.  Time passes in    *)
(* ticks; the work of one iteration takes at most MaxLate of them.  A      *)
(* sync_write is not acknowledged by the motors: it may raise, or return   *)
(* although they got nothing.                                              *)
(***************************************************************************)
EXTENDS Camera

CONSTANTS
  WatchdogTimeout,  \* watchdog_timeout_ms, in ticks
  MaxLate           \* the longest iteration, in ticks

ASSUME HostAssumption ==
  /\ WatchdogTimeout \in Nat
  /\ MaxLate \in Nat

VARIABLES
  disableTorque,   \* config.disable_torque_on_disconnect
  pc,              \* where main() is
  pending,         \* the message in zmq_cmd_socket: None, go or halt
  command,         \* the message being executed
  cmdAge,          \* time since last_cmd_time
  watchdogActive,  \* watchdog_active
  moving,          \* the velocity the base motors keep is not 0
  late,            \* ticks since this iteration began
  quiet,           \* history: ticks since a command last came
  blind,           \* history: ticks the base has moved on an old picture
  stopLost         \* history: the motors did not get the last stop

hostVars == <<disableTorque, pending, command, cmdAge, watchdogActive, moving, late,
              quiet, blind, stopLost>>
vars == <<pc, hostVars, cameraVars>>

Init ==
  /\ disableTorque \in BOOLEAN
  /\ pc = "connect" /\ NotConnected
  /\ pending = None /\ command = "halt"
  /\ cmdAge = 0 /\ watchdogActive = FALSE
  /\ moving = FALSE /\ late = 0 /\ stopLost = FALSE
  /\ quiet = 0 /\ blind = 0

(* The try block of main(), and the part of its finally block that stops the base. *)
Loop == {"recv", "arm", "base", "mark", "watchdog", "stop", "observe", "send"}
Final == {"final", "torque"}

(* The longest time the base moves on after the last command came: up to two
   iterations until last_cmd_time is set, and up to two from the last look at the
   watchdog that found it not yet expired to the stop after the next. *)
LongestQuiet == WatchdogTimeout + 4 * MaxLate

(* The longest time it moves on an old picture: the rest of one iteration, and the
   next until its observation. *)
LongestBlind == 2 * MaxLate

OldPicture == latestFrame = None \/ latestFrame > MaxAge

-----------------------------------------------------------------------------
(* Before the loop. *)

(* The bus, the camera's device and its read thread. *)
Connect ==
  /\ pc = "connect" /\ pc' = "warmup"
  /\ StartReadThread /\ UNCHANGED hostVars

(* The camera reads frames for warmup_s ... *)
WarmUp ==
  /\ pc = "warmup" /\ AsyncRead
  /\ UNCHANGED <<pc, hostVars>>

(* ... and must have one then. *)
WarmedUp ==
  /\ pc = "warmup" /\ latestFrame # None
  /\ pc' = "configure" /\ UNCHANGED <<hostVars, cameraVars>>

(* LeKiwi.configure, and the loop begins. *)
Configure ==
  /\ pc = "configure" /\ pc' = "recv"
  /\ UNCHANGED <<hostVars, cameraVars>>

(* connect is not inside the try block. *)
ConnectRaises ==
  /\ \/ pc \in {"connect", "configure"}
     \/ pc = "warmup" /\ AsyncReadRaises
  /\ pc' = "crashed" /\ UNCHANGED <<hostVars, cameraVars>>

-----------------------------------------------------------------------------
(* One iteration. *)

ReceiveCommand ==
  /\ pc = "recv" /\ pending # None
  /\ pc' = "arm" /\ command' = pending /\ pending' = None
  /\ UNCHANGED <<disableTorque, cmdAge, watchdogActive, moving, late, quiet, blind, stopLost, cameraVars>>

(* zmq.Again *)
NoCommand ==
  /\ pc = "recv" /\ pending = None
  /\ pc' = "watchdog" /\ UNCHANGED <<hostVars, cameraVars>>

(* send_action writes the goal positions of the arm ... *)
SendArm ==
  /\ pc = "arm" /\ pc' = "base"
  /\ UNCHANGED <<hostVars, cameraVars>>

(* ... and then the velocities of the base, *)
SendBase ==
  /\ pc = "base" /\ pc' = "mark"
  /\ moving' = (command = "go") /\ stopLost' = FALSE
  /\ UNCHANGED <<disableTorque, pending, command, cmdAge, watchdogActive, late, quiet, blind, cameraVars>>

(* which may be lost. *)
BaseLost ==
  /\ pc = "base" /\ pc' = "mark"
  /\ UNCHANGED <<hostVars, cameraVars>>

(* The message cannot be used, or the bus raises: logged, and the watchdog's time
   is not set back.  The base's write is the last thing send_action does, and one that
   raises has not been sent whole: the base has not got it. *)
CommandFails ==
  /\ pc \in {"arm", "base"} /\ pc' = "watchdog"
  /\ UNCHANGED <<hostVars, cameraVars>>

(* Variant: a command does not arm the watchdog again. *)
MarkTimeOnly ==
  /\ pc = "mark" /\ pc' = "watchdog" /\ cmdAge' = 0
  /\ UNCHANGED <<disableTorque, pending, command, watchdogActive, moving, late, quiet, blind, stopLost, cameraVars>>

MarkCommand ==
  /\ pc = "mark" /\ pc' = "watchdog"
  /\ cmdAge' = 0 /\ watchdogActive' = FALSE
  /\ UNCHANGED <<disableTorque, pending, command, moving, late, quiet, blind, stopLost, cameraVars>>

WatchdogExpires ==
  /\ pc = "watchdog" /\ cmdAge > WatchdogTimeout /\ ~watchdogActive
  /\ pc' = "stop" /\ watchdogActive' = TRUE
  /\ UNCHANGED <<disableTorque, pending, command, cmdAge, moving, late, quiet, blind, stopLost, cameraVars>>

WatchdogQuiet ==
  /\ pc = "watchdog" /\ (cmdAge <= WatchdogTimeout \/ watchdogActive)
  /\ pc' = "observe" /\ UNCHANGED <<hostVars, cameraVars>>

(* stop_base: the velocities are set to 0, *)
StopBase ==
  /\ moving' = FALSE /\ stopLost' = FALSE
  /\ UNCHANGED <<disableTorque, pending, command, cmdAge, watchdogActive, late, quiet, blind, cameraVars>>

(* or the packet is lost and nobody knows. *)
StopBaseLost ==
  /\ stopLost' = TRUE
  /\ UNCHANGED <<disableTorque, pending, command, cmdAge, watchdogActive, moving, late, quiet, blind, cameraVars>>

WatchdogStops ==
  /\ pc = "stop" /\ pc' = "observe"
  /\ StopBase \/ StopBaseLost

(* get_observation, and read_latest in it. *)
Observe ==
  /\ pc = "observe" /\ ReadLatest
  /\ pc' = "send" /\ UNCHANGED <<hostVars, cameraVars>>

(* The observation is sent or dropped; the rest of the period is slept. *)
SendObservation ==
  /\ pc = "send" /\ pc' = "recv" /\ late' = 0
  /\ UNCHANGED <<disableTorque, pending, command, cmdAge, watchdogActive, moving, quiet, blind, stopLost, cameraVars>>

-----------------------------------------------------------------------------
(* The end. *)

(* connection_time_s is over. *)
TimeIsUp ==
  /\ pc = "recv" /\ pc' = "final"
  /\ UNCHANGED <<hostVars, cameraVars>>

(* Ctrl-C anywhere, the bus or the camera raises in get_observation, or the bus
   in stop_base. *)
LoopRaises ==
  /\ pc \in Loop /\ pc' = "final"
  /\ UNCHANGED <<hostVars, cameraVars>>

(* LeKiwi.disconnect: stop_base, *)
FinalStop ==
  /\ pc = "final" /\ pc' = "torque"
  /\ StopBase \/ StopBaseLost

(* Variant: torque is left on. *)
KeepTorque ==
  /\ pc = "torque" /\ pc' = "join" /\ SignalStop
  /\ UNCHANGED hostVars

(* the bus, which disables the motors' torque only if it is told to, but then with
   acknowledged writes; the camera's _stop_read_thread, *)
DisconnectBus ==
  /\ pc = "torque" /\ pc' = "join" /\ SignalStop
  /\ IF disableTorque THEN moving' = FALSE /\ stopLost' = FALSE
                      ELSE UNCHANGED <<moving, stopLost>>
  /\ UNCHANGED <<disableTorque, pending, command, cmdAge, watchdogActive, late, quiet, blind>>

(* which waits at most two seconds for the thread. *)
JoinReader ==
  /\ pc = "join" /\ pc' = "release" /\ ForgetThread
  /\ UNCHANGED hostVars

ReleaseCamera ==
  /\ pc = "release" /\ pc' = "done" /\ Release
  /\ UNCHANGED hostVars

(* The bus raises again, in stop_base or in disable_torque. *)
FinalRaises ==
  /\ pc \in Final /\ pc' = "crashed"
  /\ UNCHANGED <<hostVars, cameraVars>>

-----------------------------------------------------------------------------
(* The client, and time. *)

(* LeKiwiClient.send_action: a newer message replaces one not yet read. *)
SendCommand ==
  /\ pc \in Loop
  /\ \E c \in {"go", "halt"} : pending' = c
  /\ quiet' = 0
  /\ UNCHANGED <<disableTorque, pc, command, cmdAge, watchdogActive, moving, late, blind, stopLost, cameraVars>>

Tick ==
  /\ pc \in Loop \cup Final => late < MaxLate
  /\ late' = IF pc \in Loop \cup Final THEN late + 1 ELSE late
  /\ cmdAge' = IF pc \in Loop /\ cmdAge <= WatchdogTimeout THEN cmdAge + 1 ELSE cmdAge
  /\ quiet' = IF pc \in Loop \cup Final /\ quiet <= LongestQuiet THEN quiet + 1 ELSE quiet
  /\ blind' = IF moving /\ OldPicture
              THEN IF blind <= LongestBlind THEN blind + 1 ELSE blind
              ELSE 0
  /\ AgeFrames
  /\ UNCHANGED <<disableTorque, pc, pending, command, watchdogActive, moving, stopLost>>

HostStep ==
  \/ Connect \/ WarmUp \/ WarmedUp \/ Configure \/ ConnectRaises
  \/ ReceiveCommand \/ NoCommand \/ SendArm \/ SendBase \/ BaseLost \/ CommandFails
  \/ MarkCommand \/ WatchdogExpires \/ WatchdogQuiet \/ WatchdogStops
  \/ Observe \/ SendObservation
  \/ TimeIsUp \/ LoopRaises
  \/ FinalStop \/ DisconnectBus \/ JoinReader \/ ReleaseCamera \/ FinalRaises

ReadThread == ReaderStep /\ UNCHANGED <<pc, hostVars>>

Next == HostStep \/ ReadThread \/ SendCommand \/ Tick

Spec == Init /\ [][Next]_vars

(* Both threads run, the hardware answers in the end, and the warm-up and the
   connection last only for their time. *)
FairSpec ==
  /\ Spec
  /\ WF_vars(HostStep) /\ WF_vars(ReadThread)
  /\ SF_vars(WarmedUp) /\ SF_vars(TimeIsUp)

-----------------------------------------------------------------------------
(* Properties.                                                             *)

TypeOK ==
  /\ disableTorque \in BOOLEAN
  /\ pc \in {"connect", "warmup", "configure"} \cup Loop \cup Final
         \cup {"join", "release", "done", "crashed"}
  /\ CameraTypeOK
  /\ pending \in {None, "go", "halt"}
  /\ command \in {"go", "halt"}
  /\ cmdAge \in 0..WatchdogTimeout + 1
  /\ watchdogActive \in BOOLEAN
  /\ moving \in BOOLEAN
  /\ late \in 0..MaxLate
  /\ quiet \in 0..LongestQuiet + 1
  /\ blind \in 0..LongestBlind + 1
  /\ stopLost \in BOOLEAN

(* The watchdog stops the base soon after the last command, whichever of the host's
   steps fail and whether commands are lost or cannot be used; it cannot know that
   the motors did not get its own packet.  A process that ended with the bus failing
   in its last stop is out of reach. *)
StopsWithoutCommands ==
  moving /\ ~stopLost /\ pc # "crashed" => quiet <= LongestQuiet

(* Nobody drives the base without seeing: when the camera's thread hangs or dies,
   read_latest ends the loop, and that stops the base (how it ends is EndsStopped). *)
NeverBlind == moving /\ pc \in Loop \cup Final => blind <= LongestBlind

(* The base moves only while commands and pictures are recent. *)
MovesAttended == StopsWithoutCommands /\ NeverBlind

(* A host that has come to its end has stopped the base: disabling the torque makes
   up for a stop that was lost.  Where the configuration leaves the torque on, nothing
   does. *)
EndsStopped ==
  pc \in {"join", "release", "done"} => ~moving \/ (~disableTorque /\ stopLost)

(* The host comes to an end, and no reader outlives it that disconnect gave up on. *)
HostEnds == <>(pc = "crashed" \/ (pc = "done" /\ reader \in {"ended", "dead"}))
=============================================================================
