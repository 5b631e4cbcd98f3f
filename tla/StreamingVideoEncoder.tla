------------------------ MODULE StreamingVideoEncoder ------------------------
(***************************************************************************)
(* Encoding a camera's video while it is recorded, StreamingVideoEncoder   *)
(* and _CameraEncoderThread of src/lerobot/datasets/video_utils.py: the    *)
(* main thread feeds frames to a bounded queue, the encoder's thread takes *)
(* them out and appends them to a temporary video, and finish_episode      *)
(* sends a sentinel and waits for the thread.                              *)
(*                                                                         *)
(* One camera; the codec is left out. _episode_active is thread # "none".  *)
(***************************************************************************)
EXTENDS Naturals, Sequences

CONSTANTS
  Frames,      \* the frames a camera may deliver
  QueueMax,    \* queue_maxsize
  Sentinel,    \* the None that finish_episode puts
  Nothing      \* the thread holds no frame

VARIABLES
  frameQueue,  \* _frame_queues[key]
  thread,      \* none, running, or the status in the result queue: ok, error
  inHand,      \* the frame the thread has taken and not yet encoded
  encoded      \* the frames in the temporary video

Idle ==
  /\ frameQueue = <<>> /\ thread = "none" /\ inHand = Nothing /\ encoded = <<>>

(* _cleanup, and _episode_active = False. *)
Cleanup ==
  /\ frameQueue' = <<>> /\ thread' = "none" /\ inHand' = Nothing /\ encoded' = <<>>

----------------------------------------------------------------------------
(* The main thread. *)

(* Variant: one place is never used. *)
RoomOffByOne == Len(frameQueue) + 1 < QueueMax

Room == Len(frameQueue) < QueueMax

(* start_episode with the episode's first frame fed; an episode still active is cancelled. *)
StartEpisode(f) ==
  /\ frameQueue' = <<f>> /\ thread' = "running" /\ inHand' = Nothing /\ encoded' = <<>>

FeedFrame(f) ==
  /\ thread = "running" /\ Room
  /\ frameQueue' = Append(frameQueue, f)
  /\ UNCHANGED <<thread, inHand, encoded>>

(* The queue is still full after 0.1 s: the frame is dropped. *)
DropFrame ==
  /\ thread = "running" /\ ~Room
  /\ UNCHANGED <<frameQueue, thread, inHand, encoded>>

(* The thread is not alive, or its result is an error: feed_frame and finish_episode raise. *)
Crashed == thread = "error"

(* put(None): without a timeout, so it waits for room even when nobody takes frames any more. *)
PutSentinel ==
  /\ Room
  /\ frameQueue' = Append(frameQueue, Sentinel)
  /\ UNCHANGED <<thread, inHand, encoded>>

(* join() and the result: the video is handed over. *)
JoinOk ==
  /\ thread = "ok"
  /\ Cleanup

(* join(timeout=120) and join(timeout=5) run out: the video is handed over as it is. *)
JoinTimesOut ==
  /\ thread = "running"
  /\ Cleanup

(* cancel_episode: the temporary video is removed, the rest of the queue thrown away. *)
CancelEpisode == Cleanup

----------------------------------------------------------------------------
(* The encoder's thread. *)

TakeFrame ==
  /\ thread = "running" /\ inHand = Nothing /\ frameQueue # <<>>
  /\ inHand' = Head(frameQueue) /\ frameQueue' = Tail(frameQueue)
  /\ UNCHANGED <<thread, encoded>>

EncodeFrame ==
  /\ thread = "running" /\ inHand \in Frames
  /\ encoded' = Append(encoded, inHand) /\ inHand' = Nothing
  /\ UNCHANGED <<frameQueue, thread>>

(* After the sentinel: the encoder is flushed, the container closed, ("ok", stats) put. *)
CloseVideo ==
  /\ thread = "running" /\ inHand = Sentinel
  /\ thread' = "ok" /\ inHand' = Nothing
  /\ UNCHANGED <<frameQueue, encoded>>

(* An exception in the thread: it puts ("error", ...) and ends. *)
EncoderFails ==
  /\ thread = "running" /\ inHand # Nothing
  /\ thread' = "error" /\ inHand' = Nothing
  /\ UNCHANGED <<frameQueue, encoded>>

----------------------------------------------------------------------------
TypeOK ==
  /\ frameQueue \in Seq(Frames \cup {Sentinel}) /\ Len(frameQueue) <= QueueMax
  /\ thread \in {"none", "running", "ok", "error"}
  /\ inHand \in Frames \cup {Nothing, Sentinel}
  /\ encoded \in Seq(Frames)

(* The thread is dead and its queue full: put(None) never returns. *)
Stuck == thread = "error" /\ ~Room

(* The frames that have been fed and not encoded. *)
Held == {f \in Frames : f = inHand \/ \E i \in DOMAIN frameQueue : f = frameQueue[i]}
=============================================================================
