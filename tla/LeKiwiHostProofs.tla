--------------------------- MODULE LeKiwiHostProofs ---------------------------
(***************************************************************************)
(* For every timeout and every bound on an iteration: the base moves only  *)
(* while commands and pictures are recent, and a host that has come to its *)
(* end has stopped it.                                                     *)
(***************************************************************************)
EXTENDS LeKiwiHost, TLAPS

USE CameraAssumption, HostAssumption DEF CameraAssumption, HostAssumption

\* The steps of the two threads, of the client and of time.
LEMMA NextCases ==
  ASSUME Next
  PROVE  \/ Connect \/ WarmUp \/ WarmedUp \/ Configure \/ ConnectRaises
         \/ ReceiveCommand \/ NoCommand \/ SendArm \/ SendBase \/ BaseLost \/ CommandFails
         \/ MarkCommand \/ WatchdogExpires \/ WatchdogQuiet \/ WatchdogStops
         \/ Observe \/ SendObservation \/ TimeIsUp \/ LoopRaises
         \/ FinalStop \/ DisconnectBus \/ JoinReader \/ ReleaseCamera \/ FinalRaises
         \/ ReadThread \/ SendCommand \/ Tick
BY DEF Next, HostStep

-----------------------------------------------------------------------------
(* Types.                                                                  *)

LEMMA TypeInit == Init => TypeOK
<1> SUFFICES ASSUME Init PROVE TypeOK
  OBVIOUS
<1>1. CameraTypeOK
  <2>1. newFrame \in BOOLEAN /\ device \in BOOLEAN
    BY DEF Init, NotConnected
  <2> QED
    BY <2>1 DEF Init, NotConnected, CameraTypeOK, Ages
<1>2. /\ disableTorque \in BOOLEAN
      /\ watchdogActive \in BOOLEAN /\ moving \in BOOLEAN /\ stopLost \in BOOLEAN
      /\ pc = "connect" /\ pending = None /\ command = "halt"
  BY DEF Init
<1>3. cmdAge = 0 /\ late = 0 /\ quiet = 0 /\ blind = 0
  BY DEF Init
<1> QED
  BY <1>1, <1>2, <1>3 DEF TypeOK, LongestQuiet, LongestBlind

\* A step of the read thread keeps the camera's types.
LEMMA ReaderType == CameraTypeOK /\ ReaderStep => CameraTypeOK'
<1> SUFFICES ASSUME CameraTypeOK, ReaderStep PROVE CameraTypeOK'
  OBVIOUS
<1> USE DEF CameraTypeOK, Ages
<1>1. CASE CheckStop
  BY <1>1 DEF CheckStop
<1>2. CASE Grab
  BY <1>2 DEF Grab
<1>3. CASE GrabFails
  BY <1>3 DEF GrabFails
<1>4. CASE GrabNoDevice
  BY <1>4 DEF GrabNoDevice
<1>5. CASE StoreFrame
  BY <1>5 DEF StoreFrame
<1>6. CASE Notify
  BY <1>6 DEF Notify
<1> QED
  BY <1>1, <1>2, <1>3, <1>4, <1>5, <1>6 DEF ReaderStep

\* So does the passing of time.
LEMMA AgeType == CameraTypeOK /\ AgeFrames => CameraTypeOK'
BY DEF CameraTypeOK, AgeFrames, Older, Ages

LEMMA TypeStep == TypeOK /\ [Next]_vars => TypeOK'
<1> SUFFICES ASSUME TypeOK, [Next]_vars PROVE TypeOK'
  OBVIOUS
<1> USE DEF TypeOK, Loop, Final
<1>1. CASE Connect
  <2>1. device' \in BOOLEAN
    BY <1>1 DEF Connect, StartReadThread
  <2> QED
    BY <1>1, <2>1 DEF Connect, StartReadThread, hostVars, CameraTypeOK, Ages
<1>2. CASE WarmUp
  <2>1. newFrame' \in BOOLEAN
    BY <1>2 DEF WarmUp, AsyncRead
  <2> QED
    BY <1>2, <2>1 DEF WarmUp, AsyncRead, hostVars, CameraTypeOK, Ages
<1>3. CASE WarmedUp
  BY <1>3 DEF WarmedUp, hostVars, cameraVars, CameraTypeOK, Ages
<1>4. CASE Configure
  BY <1>4 DEF Configure, hostVars, cameraVars, CameraTypeOK, Ages
<1>5. CASE ConnectRaises
  BY <1>5 DEF ConnectRaises, hostVars, cameraVars, CameraTypeOK, Ages
<1>6. CASE ReceiveCommand
  BY <1>6 DEF ReceiveCommand, cameraVars, CameraTypeOK, Ages
<1>7. CASE NoCommand
  BY <1>7 DEF NoCommand, hostVars, cameraVars, CameraTypeOK, Ages
<1>8. CASE SendArm
  BY <1>8 DEF SendArm, hostVars, cameraVars, CameraTypeOK, Ages
<1>9. CASE SendBase
  <2>1. moving' \in BOOLEAN /\ stopLost' \in BOOLEAN
    BY <1>9 DEF SendBase
  <2> QED
    BY <1>9, <2>1 DEF SendBase, cameraVars, CameraTypeOK, Ages
<1>10. CASE BaseLost
  BY <1>10 DEF BaseLost, hostVars, cameraVars, CameraTypeOK, Ages
<1>11. CASE CommandFails
  BY <1>11 DEF CommandFails, hostVars, cameraVars, CameraTypeOK, Ages
<1>12. CASE MarkCommand
  <2>1. watchdogActive' \in BOOLEAN
    BY <1>12 DEF MarkCommand
  <2> QED
    BY <1>12, <2>1 DEF MarkCommand, cameraVars, CameraTypeOK, Ages
<1>13. CASE WatchdogExpires
  BY <1>13 DEF WatchdogExpires, cameraVars, CameraTypeOK, Ages
<1>14. CASE WatchdogQuiet
  BY <1>14 DEF WatchdogQuiet, hostVars, cameraVars, CameraTypeOK, Ages
<1>15. CASE WatchdogStops
  <2>1. moving' \in BOOLEAN /\ stopLost' \in BOOLEAN
    BY <1>15 DEF WatchdogStops, StopBase, StopBaseLost
  <2> QED
    BY <1>15, <2>1 DEF WatchdogStops, StopBase, StopBaseLost, cameraVars, CameraTypeOK,
         Ages
<1>16. CASE Observe
  BY <1>16 DEF Observe, ReadLatest, hostVars, cameraVars, CameraTypeOK, Ages
<1>17. CASE SendObservation
  BY <1>17 DEF SendObservation, cameraVars, CameraTypeOK, Ages
<1>18. CASE TimeIsUp
  BY <1>18 DEF TimeIsUp, hostVars, cameraVars, CameraTypeOK, Ages
<1>19. CASE LoopRaises
  BY <1>19 DEF LoopRaises, hostVars, cameraVars, CameraTypeOK, Ages
<1>20. CASE FinalStop
  <2>1. moving' \in BOOLEAN /\ stopLost' \in BOOLEAN
    BY <1>20 DEF FinalStop, StopBase, StopBaseLost
  <2> QED
    BY <1>20, <2>1 DEF FinalStop, StopBase, StopBaseLost, cameraVars, CameraTypeOK, Ages
<1>21. CASE DisconnectBus
  <2>1. moving' \in BOOLEAN /\ stopLost' \in BOOLEAN
    <3>1. CASE disableTorque
      BY <1>21, <3>1 DEF DisconnectBus
    <3>2. CASE ~disableTorque
      BY <1>21, <3>2 DEF DisconnectBus
    <3> QED
      BY <3>1, <3>2
  <2>2. CameraTypeOK'
    BY <1>21 DEF DisconnectBus, SignalStop, CameraTypeOK, Ages
  <2> QED
    BY <1>21, <2>1, <2>2 DEF DisconnectBus
<1>22. CASE JoinReader
  <2>1. CameraTypeOK'
    BY <1>22 DEF JoinReader, ForgetThread, CameraTypeOK, Ages
  <2> QED
    BY <1>22, <2>1 DEF JoinReader, hostVars
<1>23. CASE ReleaseCamera
  <2>1. CameraTypeOK'
    BY <1>23 DEF ReleaseCamera, Release, CameraTypeOK, Ages
  <2> QED
    BY <1>23, <2>1 DEF ReleaseCamera, hostVars
<1>24. CASE FinalRaises
  BY <1>24 DEF FinalRaises, hostVars, cameraVars, CameraTypeOK, Ages
<1>25. CASE ReadThread
  BY <1>25, ReaderType DEF ReadThread, hostVars
<1>26. CASE SendCommand
  BY <1>26 DEF SendCommand, CameraTypeOK, cameraVars, LongestQuiet
<1>27. CASE Tick
  <2>1. CameraTypeOK'
    BY <1>27, AgeType DEF Tick
  <2> QED
    BY <1>27, <2>1 DEF Tick, LongestQuiet, LongestBlind
<1>28. CASE UNCHANGED vars
  BY <1>28 DEF vars, hostVars, cameraVars, CameraTypeOK, Ages
<1> QED
  BY NextCases, <1>1, <1>2, <1>3, <1>4, <1>5, <1>6, <1>7, <1>8, <1>9, <1>10, <1>11,
       <1>12, <1>13, <1>14, <1>15, <1>16, <1>17, <1>18, <1>19, <1>20, <1>21, <1>22,
       <1>23, <1>24, <1>25, <1>26, <1>27, <1>28

\* Every variable of main() and of the camera keeps its type, and an iteration its bound.
THEOREM TypeCorrect == Spec => []TypeOK
BY TypeInit, TypeStep, PTL DEF Spec

-----------------------------------------------------------------------------
(* The inductive invariant.                                                *)

Started == Loop \cup Final

\* The robot is not driven before the loop, and not after the end of disconnect, but
\* for a stop that was lost and is not made up for.
AtRest ==
  /\ pc \in {"connect", "warmup", "configure"} => ~moving /\ blind = 0 /\ quiet = 0
  /\ pc = "torque" => ~moving \/ stopLost
  /\ pc \in {"join", "release", "done"} => ~moving \/ (~disableTorque /\ stopLost)

\* A command waits at most for the rest of one iteration, and is carried out within
\* the next.
CommandRecent ==
  /\ pending # None /\ pc = "recv" => quiet <= MaxLate + late
  /\ pending # None /\ pc \in Loop \ {"recv"} => quiet <= late
  /\ pc \in {"arm", "base", "mark"} => quiet <= MaxLate + late

\* The watchdog's time lags behind by two iterations; a watchdog that looked and found
\* it not over looks again an iteration later; one that has fired has stopped the base.
MovingRecent ==
  moving /\ ~stopLost =>
    /\ pc \in Started => quiet <= WatchdogTimeout + 3 * MaxLate + late
    /\ pc \in {"observe", "send"} => quiet <= WatchdogTimeout + 2 * MaxLate + late
    /\ pc \in Loop /\ cmdAge <= WatchdogTimeout => quiet <= cmdAge + 2 * MaxLate
    /\ watchdogActive => pc \in {"mark", "stop", "crashed"} \cup Final

\* A frame being stored is newer than the one stored before it.
FramesInOrder == captured # None /\ latestFrame # None => captured <= latestFrame

\* The picture was recent at the last observation.
BlindBounded ==
  /\ pc \in Started => blind <= 2 * MaxLate /\ (OldPicture => blind <= MaxLate + late)
  /\ pc = "send" /\ OldPicture => blind <= late

IInv == TypeOK /\ AtRest /\ CommandRecent /\ MovingRecent /\ FramesInOrder /\ BlindBounded

LEMMA InitInv == Init => IInv
BY TypeInit DEF Init, NotConnected, IInv, AtRest, CommandRecent, MovingRecent,
   FramesInOrder, BlindBounded, Started, Loop, Final

\* Only time and the watchdog's steps need the details; the base stands still elsewhere.
LEMMA AtRestStep ==
  ASSUME TypeOK, AtRest, [Next]_vars
  PROVE  AtRest'
<1> USE DEF TypeOK, AtRest, Loop, Final
<1>1. CASE Connect
  BY <1>1 DEF Connect, StartReadThread, hostVars
<1>2. CASE WarmUp
  BY <1>2 DEF WarmUp, AsyncRead, hostVars
<1>3. CASE WarmedUp
  BY <1>3 DEF WarmedUp, hostVars, cameraVars
<1>4. CASE Configure
  BY <1>4 DEF Configure, hostVars, cameraVars
<1>5. CASE ConnectRaises
  BY <1>5 DEF ConnectRaises, hostVars, cameraVars
<1>6. CASE ReceiveCommand
  BY <1>6 DEF ReceiveCommand, cameraVars
<1>7. CASE NoCommand
  BY <1>7 DEF NoCommand, hostVars, cameraVars
<1>8. CASE SendArm
  BY <1>8 DEF SendArm, hostVars, cameraVars
<1>9. CASE SendBase
  BY <1>9 DEF SendBase, cameraVars
<1>10. CASE BaseLost
  BY <1>10 DEF BaseLost, hostVars, cameraVars
<1>11. CASE CommandFails
  BY <1>11 DEF CommandFails, hostVars, cameraVars
<1>12. CASE MarkCommand
  BY <1>12 DEF MarkCommand, cameraVars
<1>13. CASE WatchdogExpires
  BY <1>13 DEF WatchdogExpires, cameraVars
<1>14. CASE WatchdogQuiet
  BY <1>14 DEF WatchdogQuiet, hostVars, cameraVars
<1>15. CASE WatchdogStops
  BY <1>15 DEF WatchdogStops, StopBase, StopBaseLost, cameraVars
<1>16. CASE Observe
  BY <1>16 DEF Observe, ReadLatest, hostVars, cameraVars
<1>17. CASE SendObservation
  BY <1>17 DEF SendObservation, cameraVars
<1>18. CASE TimeIsUp
  BY <1>18 DEF TimeIsUp, hostVars, cameraVars
<1>19. CASE LoopRaises
  BY <1>19 DEF LoopRaises, hostVars, cameraVars
<1>20. CASE FinalStop
  BY <1>20 DEF FinalStop, StopBase, StopBaseLost, cameraVars
<1>21. CASE DisconnectBus
  BY <1>21 DEF DisconnectBus, SignalStop
<1>22. CASE JoinReader
  BY <1>22 DEF JoinReader, ForgetThread, hostVars
<1>23. CASE ReleaseCamera
  BY <1>23 DEF ReleaseCamera, Release, hostVars
<1>24. CASE FinalRaises
  BY <1>24 DEF FinalRaises, hostVars, cameraVars
<1>25. CASE ReadThread
  BY <1>25 DEF ReadThread, hostVars
<1>26. CASE SendCommand
  BY <1>26 DEF SendCommand, cameraVars
<1>27. CASE Tick
  BY <1>27 DEF Tick
<1>28. CASE UNCHANGED vars
  BY <1>28 DEF vars, hostVars, cameraVars
<1> QED
  BY NextCases, <1>1, <1>2, <1>3, <1>4, <1>5, <1>6, <1>7, <1>8, <1>9, <1>10, <1>11,
       <1>12, <1>13, <1>14, <1>15, <1>16, <1>17, <1>18, <1>19, <1>20, <1>21, <1>22,
       <1>23, <1>24, <1>25, <1>26, <1>27, <1>28

LEMMA CommandRecentStep ==
  ASSUME TypeOK, AtRest, CommandRecent, [Next]_vars
  PROVE  CommandRecent'
<1> USE DEF TypeOK, AtRest, CommandRecent, Loop, Final
<1>1. CASE Connect
  BY <1>1 DEF Connect, StartReadThread, hostVars
<1>2. CASE WarmUp
  BY <1>2 DEF WarmUp, AsyncRead, hostVars
<1>3. CASE WarmedUp
  BY <1>3 DEF WarmedUp, hostVars, cameraVars
<1>4. CASE Configure
  BY <1>4 DEF Configure, hostVars, cameraVars
<1>5. CASE ConnectRaises
  BY <1>5 DEF ConnectRaises, hostVars, cameraVars
<1>6. CASE ReceiveCommand
  BY <1>6 DEF ReceiveCommand, cameraVars
<1>7. CASE NoCommand
  BY <1>7 DEF NoCommand, hostVars, cameraVars
<1>8. CASE SendArm
  BY <1>8 DEF SendArm, hostVars, cameraVars
<1>9. CASE SendBase
  BY <1>9 DEF SendBase, cameraVars
<1>10. CASE BaseLost
  BY <1>10 DEF BaseLost, hostVars, cameraVars
<1>11. CASE CommandFails
  BY <1>11 DEF CommandFails, hostVars, cameraVars
<1>12. CASE MarkCommand
  BY <1>12 DEF MarkCommand, cameraVars
<1>13. CASE WatchdogExpires
  BY <1>13 DEF WatchdogExpires, cameraVars
<1>14. CASE WatchdogQuiet
  BY <1>14 DEF WatchdogQuiet, hostVars, cameraVars
<1>15. CASE WatchdogStops
  BY <1>15 DEF WatchdogStops, StopBase, StopBaseLost, cameraVars
<1>16. CASE Observe
  BY <1>16 DEF Observe, ReadLatest, hostVars, cameraVars
<1>17. CASE SendObservation
  BY <1>17 DEF SendObservation, cameraVars
<1>18. CASE TimeIsUp
  BY <1>18 DEF TimeIsUp, hostVars, cameraVars
<1>19. CASE LoopRaises
  BY <1>19 DEF LoopRaises, hostVars, cameraVars
<1>20. CASE FinalStop
  BY <1>20 DEF FinalStop, StopBase, StopBaseLost, cameraVars
<1>21. CASE DisconnectBus
  BY <1>21 DEF DisconnectBus, SignalStop
<1>22. CASE JoinReader
  BY <1>22 DEF JoinReader, ForgetThread, hostVars
<1>23. CASE ReleaseCamera
  BY <1>23 DEF ReleaseCamera, Release, hostVars
<1>24. CASE FinalRaises
  BY <1>24 DEF FinalRaises, hostVars, cameraVars
<1>25. CASE ReadThread
  BY <1>25 DEF ReadThread, hostVars
<1>26. CASE SendCommand
  BY <1>26 DEF SendCommand, cameraVars
<1>27. CASE Tick
  BY <1>27 DEF Tick
<1>28. CASE UNCHANGED vars
  BY <1>28 DEF vars, hostVars, cameraVars
<1> QED
  BY NextCases, <1>1, <1>2, <1>3, <1>4, <1>5, <1>6, <1>7, <1>8, <1>9, <1>10, <1>11,
       <1>12, <1>13, <1>14, <1>15, <1>16, <1>17, <1>18, <1>19, <1>20, <1>21, <1>22,
       <1>23, <1>24, <1>25, <1>26, <1>27, <1>28

LEMMA MovingRecentStep ==
  ASSUME TypeOK, AtRest, CommandRecent, MovingRecent, [Next]_vars
  PROVE  MovingRecent'
<1> USE DEF TypeOK, AtRest, CommandRecent, MovingRecent, Started, Loop, Final
<1>1. CASE Connect
  BY <1>1 DEF Connect, StartReadThread, hostVars
<1>2. CASE WarmUp
  BY <1>2 DEF WarmUp, AsyncRead, hostVars
<1>3. CASE WarmedUp
  BY <1>3 DEF WarmedUp, hostVars, cameraVars
<1>4. CASE Configure
  BY <1>4 DEF Configure, hostVars, cameraVars
<1>5. CASE ConnectRaises
  BY <1>5 DEF ConnectRaises, hostVars, cameraVars
<1>6. CASE ReceiveCommand
  BY <1>6 DEF ReceiveCommand, cameraVars
<1>7. CASE NoCommand
  BY <1>7 DEF NoCommand, hostVars, cameraVars
<1>8. CASE SendArm
  BY <1>8 DEF SendArm, hostVars, cameraVars
<1>9. CASE SendBase
  BY <1>9 DEF SendBase, cameraVars
<1>10. CASE BaseLost
  BY <1>10 DEF BaseLost, hostVars, cameraVars
<1>11. CASE CommandFails
  BY <1>11 DEF CommandFails, hostVars, cameraVars
<1>12. CASE MarkCommand
  BY <1>12 DEF MarkCommand, cameraVars
<1>13. CASE WatchdogExpires
  BY <1>13 DEF WatchdogExpires, cameraVars
<1>14. CASE WatchdogQuiet
  BY <1>14 DEF WatchdogQuiet, hostVars, cameraVars
<1>15. CASE WatchdogStops
  BY <1>15 DEF WatchdogStops, StopBase, StopBaseLost, cameraVars
<1>16. CASE Observe
  BY <1>16 DEF Observe, ReadLatest, hostVars, cameraVars
<1>17. CASE SendObservation
  BY <1>17 DEF SendObservation, cameraVars
<1>18. CASE TimeIsUp
  BY <1>18 DEF TimeIsUp, hostVars, cameraVars
<1>19. CASE LoopRaises
  BY <1>19 DEF LoopRaises, hostVars, cameraVars
<1>20. CASE FinalStop
  BY <1>20 DEF FinalStop, StopBase, StopBaseLost, cameraVars
<1>21. CASE DisconnectBus
  BY <1>21 DEF DisconnectBus, SignalStop
<1>22. CASE JoinReader
  BY <1>22 DEF JoinReader, ForgetThread, hostVars
<1>23. CASE ReleaseCamera
  BY <1>23 DEF ReleaseCamera, Release, hostVars
<1>24. CASE FinalRaises
  BY <1>24 DEF FinalRaises, hostVars, cameraVars
<1>25. CASE ReadThread
  BY <1>25 DEF ReadThread, hostVars
<1>26. CASE SendCommand
  BY <1>26 DEF SendCommand, cameraVars
<1>27. CASE Tick
  BY <1>27 DEF Tick
<1>28. CASE UNCHANGED vars
  BY <1>28 DEF vars, hostVars, cameraVars
<1> QED
  BY NextCases, <1>1, <1>2, <1>3, <1>4, <1>5, <1>6, <1>7, <1>8, <1>9, <1>10, <1>11,
       <1>12, <1>13, <1>14, <1>15, <1>16, <1>17, <1>18, <1>19, <1>20, <1>21, <1>22,
       <1>23, <1>24, <1>25, <1>26, <1>27, <1>28

LEMMA FramesInOrderStep ==
  ASSUME TypeOK, FramesInOrder, [Next]_vars
  PROVE  FramesInOrder'
<1> USE DEF TypeOK, FramesInOrder, CameraTypeOK, Ages, Loop, Final
<1>1. CASE Connect
  BY <1>1 DEF Connect, StartReadThread, hostVars
<1>2. CASE WarmUp
  BY <1>2 DEF WarmUp, AsyncRead, hostVars
<1>3. CASE WarmedUp
  BY <1>3 DEF WarmedUp, hostVars, cameraVars
<1>4. CASE Configure
  BY <1>4 DEF Configure, hostVars, cameraVars
<1>5. CASE ConnectRaises
  BY <1>5 DEF ConnectRaises, hostVars, cameraVars
<1>6. CASE ReceiveCommand
  BY <1>6 DEF ReceiveCommand, cameraVars
<1>7. CASE NoCommand
  BY <1>7 DEF NoCommand, hostVars, cameraVars
<1>8. CASE SendArm
  BY <1>8 DEF SendArm, hostVars, cameraVars
<1>9. CASE SendBase
  BY <1>9 DEF SendBase, cameraVars
<1>10. CASE BaseLost
  BY <1>10 DEF BaseLost, hostVars, cameraVars
<1>11. CASE CommandFails
  BY <1>11 DEF CommandFails, hostVars, cameraVars
<1>12. CASE MarkCommand
  BY <1>12 DEF MarkCommand, cameraVars
<1>13. CASE WatchdogExpires
  BY <1>13 DEF WatchdogExpires, cameraVars
<1>14. CASE WatchdogQuiet
  BY <1>14 DEF WatchdogQuiet, hostVars, cameraVars
<1>15. CASE WatchdogStops
  BY <1>15 DEF WatchdogStops, StopBase, StopBaseLost, cameraVars
<1>16. CASE Observe
  BY <1>16 DEF Observe, ReadLatest, hostVars, cameraVars
<1>17. CASE SendObservation
  BY <1>17 DEF SendObservation, cameraVars
<1>18. CASE TimeIsUp
  BY <1>18 DEF TimeIsUp, hostVars, cameraVars
<1>19. CASE LoopRaises
  BY <1>19 DEF LoopRaises, hostVars, cameraVars
<1>20. CASE FinalStop
  BY <1>20 DEF FinalStop, StopBase, StopBaseLost, cameraVars
<1>21. CASE DisconnectBus
  BY <1>21 DEF DisconnectBus, SignalStop
<1>22. CASE JoinReader
  BY <1>22 DEF JoinReader, ForgetThread, hostVars
<1>23. CASE ReleaseCamera
  BY <1>23 DEF ReleaseCamera, Release, hostVars
<1>24. CASE FinalRaises
  BY <1>24 DEF FinalRaises, hostVars, cameraVars
<1>25. CASE ReadThread
  BY <1>25 DEF ReadThread, ReaderStep, CheckStop, Grab, GrabFails, GrabNoDevice,
       StoreFrame, Notify
<1>26. CASE SendCommand
  BY <1>26 DEF SendCommand, cameraVars
<1>27. CASE Tick
  BY <1>27 DEF Tick, AgeFrames, Older
<1>28. CASE UNCHANGED vars
  BY <1>28 DEF vars, hostVars, cameraVars
<1> QED
  BY NextCases, <1>1, <1>2, <1>3, <1>4, <1>5, <1>6, <1>7, <1>8, <1>9, <1>10, <1>11,
       <1>12, <1>13, <1>14, <1>15, <1>16, <1>17, <1>18, <1>19, <1>20, <1>21, <1>22,
       <1>23, <1>24, <1>25, <1>26, <1>27, <1>28

LEMMA BlindBoundedStep ==
  ASSUME TypeOK, AtRest, FramesInOrder, BlindBounded, [Next]_vars
  PROVE  BlindBounded'
<1> USE DEF TypeOK, AtRest, FramesInOrder, BlindBounded, Started, OldPicture,
     CameraTypeOK, Ages, Loop, Final
<1>1. CASE Connect
  BY <1>1 DEF Connect, StartReadThread, hostVars
<1>2. CASE WarmUp
  BY <1>2 DEF WarmUp, AsyncRead, hostVars
<1>3. CASE WarmedUp
  BY <1>3 DEF WarmedUp, hostVars, cameraVars
<1>4. CASE Configure
  BY <1>4 DEF Configure, hostVars, cameraVars
<1>5. CASE ConnectRaises
  BY <1>5 DEF ConnectRaises, hostVars, cameraVars
<1>6. CASE ReceiveCommand
  BY <1>6 DEF ReceiveCommand, cameraVars
<1>7. CASE NoCommand
  BY <1>7 DEF NoCommand, hostVars, cameraVars
<1>8. CASE SendArm
  BY <1>8 DEF SendArm, hostVars, cameraVars
<1>9. CASE SendBase
  BY <1>9 DEF SendBase, cameraVars
<1>10. CASE BaseLost
  BY <1>10 DEF BaseLost, hostVars, cameraVars
<1>11. CASE CommandFails
  BY <1>11 DEF CommandFails, hostVars, cameraVars
<1>12. CASE MarkCommand
  BY <1>12 DEF MarkCommand, cameraVars
<1>13. CASE WatchdogExpires
  BY <1>13 DEF WatchdogExpires, cameraVars
<1>14. CASE WatchdogQuiet
  BY <1>14 DEF WatchdogQuiet, hostVars, cameraVars
<1>15. CASE WatchdogStops
  BY <1>15 DEF WatchdogStops, StopBase, StopBaseLost, cameraVars
<1>16. CASE Observe
  BY <1>16 DEF Observe, ReadLatest, hostVars, cameraVars
<1>17. CASE SendObservation
  BY <1>17 DEF SendObservation, cameraVars
<1>18. CASE TimeIsUp
  BY <1>18 DEF TimeIsUp, hostVars, cameraVars
<1>19. CASE LoopRaises
  BY <1>19 DEF LoopRaises, hostVars, cameraVars
<1>20. CASE FinalStop
  BY <1>20 DEF FinalStop, StopBase, StopBaseLost, cameraVars
<1>21. CASE DisconnectBus
  BY <1>21 DEF DisconnectBus, SignalStop
<1>22. CASE JoinReader
  BY <1>22 DEF JoinReader, ForgetThread, hostVars
<1>23. CASE ReleaseCamera
  BY <1>23 DEF ReleaseCamera, Release, hostVars
<1>24. CASE FinalRaises
  BY <1>24 DEF FinalRaises, hostVars, cameraVars
<1>25. CASE ReadThread
  BY <1>25 DEF ReadThread, hostVars, ReaderStep, CheckStop, Grab, GrabFails,
       GrabNoDevice, StoreFrame, Notify
<1>26. CASE SendCommand
  BY <1>26 DEF SendCommand, cameraVars
<1>27. CASE Tick
  BY <1>27 DEF Tick, AgeFrames, Older
<1>28. CASE UNCHANGED vars
  BY <1>28 DEF vars, hostVars, cameraVars
<1> QED
  BY NextCases, <1>1, <1>2, <1>3, <1>4, <1>5, <1>6, <1>7, <1>8, <1>9, <1>10, <1>11,
       <1>12, <1>13, <1>14, <1>15, <1>16, <1>17, <1>18, <1>19, <1>20, <1>21, <1>22,
       <1>23, <1>24, <1>25, <1>26, <1>27, <1>28

LEMMA InvStep == IInv /\ [Next]_vars => IInv'
BY TypeStep, AtRestStep, CommandRecentStep, MovingRecentStep, FramesInOrderStep,
   BlindBoundedStep DEF IInv

THEOREM Invariant == Spec => []IInv
BY InitInv, InvStep, PTL DEF Spec

-----------------------------------------------------------------------------
(* The properties.                                                         *)

\* The base moves only while commands and pictures are recent: whichever steps of the
\* loop fail, for every watchdog timeout and every bound on an iteration.
THEOREM AlwaysAttended == Spec => []MovesAttended
<1>1. IInv => MovesAttended
  BY DEF IInv, TypeOK, AtRest, MovingRecent, BlindBounded, Started, Loop, Final,
     MovesAttended, StopsWithoutCommands, NeverBlind, LongestQuiet, LongestBlind
<1> QED
  BY <1>1, Invariant, PTL

\* A host that has come to its end has stopped the base, whichever packets were lost,
\* unless it was to leave the torque on and its last stop was one of them.
THEOREM AlwaysEndsStopped == Spec => []EndsStopped
<1>1. IInv => EndsStopped
  BY DEF IInv, AtRest, EndsStopped
<1> QED
  BY <1>1, Invariant, PTL
=============================================================================
