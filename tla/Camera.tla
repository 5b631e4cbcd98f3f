-------------------------------- MODULE Camera --------------------------------
(***************************************************************************)
(* A camera with a background thread, OpenCVCamera of                      *)
(* src/lerobot/cameras/opencv/camera_opencv.py (RealSenseCamera and        *)
(* ZMQCamera have the same thread, lock and event).                        *)
(*                                                                         *)
(* A frame is its age, in ticks since it was captured.  The hardware may   *)
(* fail, or take any time to deliver a frame.                              *)
(***************************************************************************)
EXTENDS Integers

CONSTANTS
  MaxAge,       \* max_age_ms of read_latest, in ticks
  OldestAge,    \* ages from here on are not told apart
  MaxFailures,  \* the failures in a row after which one more ends the thread
  None

ASSUME CameraAssumption ==
  /\ MaxAge \in Nat /\ OldestAge \in Nat /\ OldestAge > MaxAge
  /\ MaxFailures \in Nat
  /\ None \notin Int

VARIABLES
  reader,       \* none, where _read_loop is, or how it ended: ended, dead
  stopEvent,    \* stop_event: None, clear, set
  failures,     \* failure_count
  captured,     \* the frame _read_loop has read and not yet stored
  latestFrame,  \* latest_frame and latest_timestamp
  newFrame,     \* new_frame_event
  device        \* videocapture is there

cameraVars == <<reader, stopEvent, failures, captured, latestFrame, newFrame, device>>

Ages == (0..OldestAge) \cup {None}

Older(age) == IF age = None \/ age = OldestAge THEN age ELSE age + 1

(* __init__ *)
NotConnected ==
  /\ reader = "none" /\ stopEvent = None /\ failures = 0
  /\ captured = None /\ latestFrame = None /\ newFrame = FALSE /\ device = FALSE

-----------------------------------------------------------------------------
(* _read_loop *)

(* Variant: no event means go on. *)
CheckStopIfAny ==
  /\ reader = "check"
  /\ reader' = IF stopEvent = "set" THEN "ended" ELSE "grab"
  /\ UNCHANGED <<stopEvent, failures, captured, latestFrame, newFrame, device>>

(* stop_event is read from the camera: once _stop_read_thread has given up
   waiting and set it to None, is_set() raises. *)
CheckStop ==
  /\ reader = "check"
  /\ reader' = CASE stopEvent = None  -> "dead"
                 [] stopEvent = "set" -> "ended"
                 [] OTHER             -> "grab"
  /\ UNCHANGED <<stopEvent, failures, captured, latestFrame, newFrame, device>>

(* _read_from_hardware and _postprocess_image; then the time is taken. *)
Grab ==
  /\ reader = "grab"
  /\ reader' = "store" /\ captured' = 0
  /\ UNCHANGED <<stopEvent, failures, latestFrame, newFrame, device>>

GrabFails ==
  /\ reader = "grab"
  /\ IF failures <= MaxFailures
     THEN reader' = "check" /\ failures' = failures + 1
     ELSE reader' = "dead" /\ UNCHANGED failures
  /\ UNCHANGED <<stopEvent, captured, latestFrame, newFrame, device>>

(* DeviceNotConnectedError: the device was released before the read began. *)
GrabNoDevice ==
  /\ reader = "grab" /\ ~device
  /\ reader' = "ended"
  /\ UNCHANGED <<stopEvent, failures, captured, latestFrame, newFrame, device>>

(* Under frame_lock. *)
StoreFrame ==
  /\ reader = "store"
  /\ reader' = "notify" /\ latestFrame' = captured /\ captured' = None
  /\ UNCHANGED <<stopEvent, failures, newFrame, device>>

Notify ==
  /\ reader = "notify"
  /\ reader' = "check" /\ newFrame' = TRUE /\ failures' = 0
  /\ UNCHANGED <<stopEvent, captured, latestFrame, device>>

ReaderStep == CheckStop \/ Grab \/ GrabFails \/ GrabNoDevice \/ StoreFrame \/ Notify

-----------------------------------------------------------------------------
(* What the other threads call. *)

Alive == reader \in {"check", "grab", "store", "notify"}

(* connect: VideoCapture and _start_read_thread. *)
StartReadThread ==
  /\ reader' = "check" /\ stopEvent' = "clear" /\ device' = TRUE
  /\ UNCHANGED <<failures, captured, latestFrame, newFrame>>

(* async_read returns a frame: the wait is over, and the frame is taken under the
   lock together with the event. *)
AsyncRead ==
  /\ Alive /\ newFrame
  /\ newFrame' = FALSE
  /\ UNCHANGED <<reader, stopEvent, failures, captured, latestFrame, device>>

(* async_read raises: no thread, or nothing new before the timeout. *)
AsyncReadRaises == ~Alive \/ ~newFrame

(* Variant: the age of the frame is not looked at. *)
ReadLatestAnyAge == Alive /\ latestFrame # None

(* read_latest returns a frame, and raises otherwise. *)
ReadLatest == Alive /\ latestFrame # None /\ latestFrame <= MaxAge

(* _stop_read_thread sets the event ... *)
SignalStop ==
  /\ stopEvent' = "set"
  /\ UNCHANGED <<reader, failures, captured, latestFrame, newFrame, device>>

(* ... and after join(timeout=2), over or not, forgets thread, event and frame. *)
ForgetThread ==
  /\ stopEvent' = None /\ latestFrame' = None /\ newFrame' = FALSE
  /\ UNCHANGED <<reader, failures, captured, device>>

(* disconnect: the device is released, and the frame forgotten again. *)
Release ==
  /\ latestFrame' = None /\ newFrame' = FALSE /\ device' = FALSE
  /\ UNCHANGED <<reader, stopEvent, failures, captured>>

(* Time passes. *)
AgeFrames ==
  /\ captured' = Older(captured) /\ latestFrame' = Older(latestFrame)
  /\ UNCHANGED <<reader, stopEvent, failures, newFrame, device>>

CameraTypeOK ==
  /\ reader \in {"none", "check", "grab", "store", "notify", "ended", "dead"}
  /\ stopEvent \in {None, "clear", "set"}
  /\ failures \in 0..MaxFailures + 1
  /\ captured \in Ages
  /\ latestFrame \in Ages
  /\ newFrame \in BOOLEAN
  /\ device \in BOOLEAN
  /\ reader = "store" => captured # None
=============================================================================
