--------------------------- MODULE RecordingSession --------------------------
(***************************************************************************)
(* Recording a dataset, src/lerobot/scripts/lerobot_record.py: the main    *)
(* thread records episodes, resets, re-records and saves; the keyboard     *)
(* listener's thread (common/control_utils.py) sets the flags in events;   *)
(* the image writer's threads (datasets/image_writer.py) write the frames' *)
(* pictures to the directory from which save_episode (datasets/            *)
(* dataset_writer.py) takes them.                                          *)
(*                                                                         *)
(* A frame, and a picture, is the attempt at an episode it was taken in.   *)
(* Videos are encoded when the episode is saved, one episode at a time.    *)
(***************************************************************************)
EXTENDS Integers, Sequences

CONSTANTS
  NumEpisodes,   \* num_episodes
  EpisodeTicks,  \* episode_time_s, in iterations of record_loop
  ResetTicks,    \* reset_time_s, likewise
  MaxPresses     \* bound: keys pressed in a session

ASSUME SessionAssumption ==
  /\ NumEpisodes \in Nat \ {0}
  /\ EpisodeTicks \in Nat \ {0}
  /\ ResetTicks \in Nat
  /\ MaxPresses \in Nat

VARIABLES
  video,     \* camera features are videos (or images)
  policy,    \* a policy acts while recording
  teleop,    \* there is a teleoperator
  events,    \* the flags the keyboard sets
  writing,   \* the flags on_press has still to set
  presses,   \* keys pressed so far
  pc,        \* where record() is
  ticks,     \* timestamp, in iterations
  buffer,    \* episode_buffer: the frames added
  pending,   \* the image writer's queue and what its threads hold
  images,    \* the pictures in the episode's directory, NoFile where none is
  raised,    \* record() is leaving with an exception
  saved,     \* the episodes of the dataset
  attempt,   \* history: attempts at an episode so far
  rejected   \* history: the attempts cancelled from the keyboard

config     == <<video, policy, teleop>>
keyVars    == <<writing, presses, rejected>>
writerVars == <<pending, images>>
vars       == <<config, events, keyVars, pc, ticks, buffer, writerVars, raised, saved, attempt>>

Flags  == {"exit_early", "rerecord_episode", "stop_recording"}
NoFile == 0

Init ==
  /\ video \in BOOLEAN /\ policy \in BOOLEAN /\ teleop \in BOOLEAN
  /\ policy \/ teleop
  /\ events = [f \in Flags |-> FALSE]
  /\ writing = <<>> /\ presses = 0 /\ rejected = {}
  /\ pc = "check" /\ ticks = 0 /\ buffer = <<>>
  /\ pending = {} /\ images = [i \in 1..EpisodeTicks |-> NoFile]
  /\ raised = FALSE /\ saved = <<>> /\ attempt = 0

-----------------------------------------------------------------------------
(* The keyboard listener.                                                  *)

\* Variant: exit_early is set first.
WritesExitFirst(key) ==
  CASE key = "right" -> <<"exit_early">>
    [] key = "left"  -> <<"exit_early", "rerecord_episode">>
    [] key = "esc"   -> <<"exit_early", "stop_recording">>

\* The flags on_press sets, in order.
Writes(key) ==
  CASE key = "right" -> <<"exit_early">>
    [] key = "left"  -> <<"rerecord_episode", "exit_early">>
    [] key = "esc"   -> <<"stop_recording", "exit_early">>

\* The attempt whose fate record() has yet to decide.
Undecided == pc \in {"record", "recorded", "reset", "decide"}

Press(key) ==
  /\ writing = <<>>
  /\ presses < MaxPresses
  /\ presses' = presses + 1
  /\ events' = [events EXCEPT ![Head(Writes(key))] = TRUE]
  /\ writing' = Tail(Writes(key))
  /\ rejected' = rejected \cup IF key = "left" /\ Undecided THEN {attempt} ELSE {}
  /\ UNCHANGED <<config, pc, ticks, buffer, writerVars, raised, saved, attempt>>

SetNextFlag ==
  /\ writing # <<>>
  /\ events' = [events EXCEPT ![Head(writing)] = TRUE]
  /\ writing' = Tail(writing)
  /\ UNCHANGED <<config, presses, rejected, pc, ticks, buffer, writerVars, raised, saved, attempt>>

-----------------------------------------------------------------------------
(* The image writer.                                                       *)

WriteImage ==
  \E w \in pending :
    /\ pending' = pending \ {w}
    /\ images' = [images EXCEPT ![w.index] = w.attempt]
    /\ UNCHANGED <<config, events, keyVars, pc, ticks, buffer, raised, saved, attempt>>

\* write_image logs the error and the thread goes on.
WriteFails ==
  \E w \in pending :
    /\ pending' = pending \ {w}
    /\ UNCHANGED <<config, events, keyVars, pc, ticks, buffer, images, raised, saved, attempt>>

-----------------------------------------------------------------------------
(* record().                                                               *)

Goto(next) == pc' = next

\* while recorded_episodes < num_episodes and not stop_recording
BeginEpisode ==
  /\ pc = "check"
  /\ Len(saved) < NumEpisodes /\ ~events["stop_recording"]
  /\ Goto("record")
  /\ ticks' = 0
  /\ attempt' = attempt + 1
  /\ UNCHANGED <<config, events, keyVars, buffer, writerVars, raised, saved>>

EndSession ==
  /\ pc = "check"
  /\ Len(saved) >= NumEpisodes \/ events["stop_recording"]
  /\ Goto("finalize")
  /\ UNCHANGED <<config, events, keyVars, ticks, buffer, writerVars, raised, saved, attempt>>

\* Both loops begin an iteration by looking at exit_early.
LeaveEarly ==
  /\ \/ pc = "record" /\ ticks < EpisodeTicks /\ Goto("recorded")
     \/ pc = "reset" /\ ticks < ResetTicks /\ Goto("decide")
  /\ events["exit_early"]
  /\ events' = [events EXCEPT !["exit_early"] = FALSE]
  /\ UNCHANGED <<config, keyVars, ticks, buffer, writerVars, raised, saved, attempt>>

TimeIsUp ==
  /\ \/ pc = "record" /\ ticks >= EpisodeTicks /\ Goto("recorded")
     \/ pc = "reset" /\ ticks >= ResetTicks /\ Goto("decide")
  /\ UNCHANGED <<config, events, keyVars, ticks, buffer, writerVars, raised, saved, attempt>>

\* An iteration that adds a frame; add_frame hands the picture to the writer.
RecordFrame ==
  /\ pc = "record" /\ ticks < EpisodeTicks /\ ~events["exit_early"]
  /\ ticks' = ticks + 1
  /\ buffer' = Append(buffer, attempt)
  /\ pending' = pending \cup {[index |-> Len(buffer) + 1, attempt |-> attempt]}
  /\ UNCHANGED <<config, events, keyVars, pc, images, raised, saved, attempt>>

\* One that sends an interpolated action of the policy and adds none.
SendInterpolated ==
  /\ pc = "record" /\ ticks < EpisodeTicks /\ ~events["exit_early"]
  /\ policy /\ buffer # <<>>
  /\ ticks' = ticks + 1
  /\ UNCHANGED <<config, events, keyVars, pc, buffer, writerVars, raised, saved, attempt>>

BeginReset ==
  /\ pc = "recorded"
  /\ ~events["stop_recording"]
  /\ Len(saved) < NumEpisodes - 1 \/ events["rerecord_episode"]
  /\ Goto("reset")
  /\ ticks' = 0
  /\ UNCHANGED <<config, events, keyVars, buffer, writerVars, raised, saved, attempt>>

SkipReset ==
  /\ pc = "recorded"
  /\ \/ events["stop_recording"]
     \/ Len(saved) >= NumEpisodes - 1 /\ ~events["rerecord_episode"]
  /\ Goto("decide")
  /\ UNCHANGED <<config, events, keyVars, ticks, buffer, writerVars, raised, saved, attempt>>

\* Variant: an iteration of the reset that takes no time.
ResetWithoutTime ==
  /\ pc = "reset" /\ ticks < ResetTicks /\ ~events["exit_early"]
  /\ teleop
  /\ UNCHANGED vars

\* Without a teleoperator the iteration ends in a continue that does not advance
\* timestamp: only exit_early ends the reset.
ResetTick ==
  /\ pc = "reset" /\ ticks < ResetTicks /\ ~events["exit_early"]
  /\ teleop
  /\ ticks' = ticks + 1
  /\ UNCHANGED <<config, events, keyVars, pc, buffer, writerVars, raised, saved, attempt>>

Decide ==
  /\ pc = "decide"
  /\ IF events["rerecord_episode"] THEN Goto("forget_rerecord") ELSE Goto("save")
  /\ UNCHANGED <<config, events, keyVars, ticks, buffer, writerVars, raised, saved, attempt>>

ForgetRerecord ==
  /\ pc = "forget_rerecord"
  /\ events' = [events EXCEPT !["rerecord_episode"] = FALSE]
  /\ Goto("forget_exit")
  /\ UNCHANGED <<config, keyVars, ticks, buffer, writerVars, raised, saved, attempt>>

ForgetExit ==
  /\ pc = "forget_exit"
  /\ events' = [events EXCEPT !["exit_early"] = FALSE]
  /\ Goto("clear")
  /\ UNCHANGED <<config, keyVars, ticks, buffer, writerVars, raised, saved, attempt>>

\* Removing the directory of the episode.
NoImages == [i \in 1..EpisodeTicks |-> NoFile]

\* Variant: does not wait for the image writer.
ClearWithoutWait ==
  /\ pc = "clear"
  /\ images' = IF video THEN images ELSE NoImages
  /\ buffer' = <<>>
  /\ Goto("check")
  /\ UNCHANGED <<config, events, keyVars, ticks, pending, raised, saved, attempt>>

\* Variant: keeps the frames.
ClearImagesOnly ==
  /\ pc = "clear"
  /\ pending = {}
  /\ images' = IF video THEN images ELSE NoImages
  /\ Goto("check")
  /\ UNCHANGED <<config, events, keyVars, ticks, buffer, pending, raised, saved, attempt>>

\* clear_episode_buffer removes the directories of image_keys, not of video_keys.
ClearEpisodeBuffer ==
  /\ pc = "clear"
  /\ pending = {}
  /\ images' = IF video THEN images ELSE NoImages
  /\ buffer' = <<>>
  /\ Goto("check")
  /\ UNCHANGED <<config, events, keyVars, ticks, pending, raised, saved, attempt>>

\* A video is made of every picture in the directory, in order; images are read
\* one for each frame.
Pictures ==
  IF video THEN SelectSeq(images, LAMBDA a : a # NoFile)
           ELSE [i \in 1..Len(buffer) |-> images[i]]

Missing == \E i \in 1..Len(buffer) : images[i] = NoFile

\* A picture that is missing makes an image dataset's episode impossible to save;
\* a video's only if it is one of those sampled for the statistics.
SaveEpisode ==
  /\ pc = "save"
  /\ pending = {}
  /\ buffer # <<>>
  /\ Missing => (video /\ Pictures # <<>>)
  /\ saved' = Append(saved, [frames |-> buffer, pictures |-> Pictures])
  /\ buffer' = <<>>
  /\ images' = NoImages
  /\ Goto("check")
  /\ UNCHANGED <<config, events, keyVars, ticks, pending, raised, attempt>>

\* There is no frame, or no picture of one.
SaveRaises ==
  /\ pc = "save"
  /\ buffer = <<>> \/ (pending = {} /\ Missing)
  /\ raised' = TRUE
  /\ Goto("finalize")
  /\ UNCHANGED <<config, events, keyVars, ticks, buffer, writerVars, saved, attempt>>

\* The robot, the teleoperator or the policy raises in record_loop.
LoopRaises ==
  /\ pc \in {"record", "reset"}
  /\ raised' = TRUE
  /\ Goto("finalize")
  /\ UNCHANGED <<config, events, keyVars, ticks, buffer, writerVars, saved, attempt>>

\* VideoEncodingManager.__exit__, on every way out.
Finalize ==
  /\ pc = "finalize"
  /\ pending = {}
  /\ images' = IF raised /\ video THEN NoImages ELSE images
  /\ Goto("done")
  /\ UNCHANGED <<config, events, keyVars, ticks, buffer, pending, raised, saved, attempt>>

-----------------------------------------------------------------------------
RecordLoop == LeaveEarly \/ TimeIsUp \/ RecordFrame \/ SendInterpolated \/ ResetTick

MainStep ==
  \/ BeginEpisode \/ EndSession \/ RecordLoop \/ BeginReset \/ SkipReset \/ Decide
  \/ ForgetRerecord \/ ForgetExit \/ ClearEpisodeBuffer \/ SaveEpisode \/ SaveRaises
  \/ Finalize

WriterStep == WriteImage \/ WriteFails

Next ==
  \/ MainStep
  \/ WriterStep
  \/ SetNextFlag
  \/ \E key \in {"right", "left", "esc"} : Press(key)
  \/ LoopRaises

Spec == Init /\ [][Next]_vars

\* All three threads run; nobody need press a key and nothing need fail.
FairSpec == Spec /\ WF_vars(MainStep) /\ WF_vars(WriterStep) /\ WF_vars(SetNextFlag)

-----------------------------------------------------------------------------
(* Properties.                                                             *)

Attempts == 1..attempt

\* The flags, the buffer, the writer's queue and the directory have their types:
\* no frame index beyond an episode's length.
TypeOK ==
  /\ video \in BOOLEAN /\ policy \in BOOLEAN /\ teleop \in BOOLEAN
  /\ events \in [Flags -> BOOLEAN]
  /\ writing \in Seq(Flags)
  /\ presses \in 0..MaxPresses
  /\ pc \in {"check", "record", "recorded", "reset", "decide", "forget_rerecord",
             "forget_exit", "clear", "save", "finalize", "done"}
  /\ ticks \in Nat
  /\ buffer \in Seq(Attempts) /\ Len(buffer) <= EpisodeTicks
  /\ pending \subseteq [index : 1..EpisodeTicks, attempt : Attempts]
  /\ images \in [1..EpisodeTicks -> Attempts \cup {NoFile}]
  /\ raised \in BOOLEAN
  /\ saved \in Seq([frames : Seq(Attempts), pictures : Seq(Attempts)])
  /\ Len(saved) <= NumEpisodes
  /\ attempt \in Nat
  /\ rejected \subseteq Attempts

\* A saved episode has frames, all of one attempt, and no other episode has any
\* of that attempt, whatever was re-recorded in between.
EpisodeIsOneAttempt ==
  \A i \in DOMAIN saved :
    /\ saved[i].frames # <<>>
    /\ \A k \in DOMAIN saved[i].frames : saved[i].frames[k] = saved[i].frames[1]
    /\ \A j \in DOMAIN saved : saved[i].frames[1] = saved[j].frames[1] => i = j

\* In a dataset of images every frame is saved with its own picture, although
\* the pictures are written by other threads, in any order, to files that a
\* re-recorded attempt uses again.
PicturesOfFrames ==
  ~video => \A i \in DOMAIN saved : saved[i].pictures = saved[i].frames

\* An attempt cancelled with the left arrow key, any time before record() decides
\* about it, is not in the dataset.
RejectedNeverSaved ==
  \A i \in DOMAIN saved : saved[i].frames[1] \notin rejected

\* Escape ends the session, in whatever step it is pressed, even during a reset
\* that nothing else ends.
StopEnds == events["stop_recording"] ~> pc = "done"

\* With a teleoperator every session ends, without any key.
SessionEnds == teleop ~> pc = "done"

\* "Cancel the current episode and re-record it": a video holds no picture of
\* another attempt.
VideoIsOneAttempt ==
  video => \A i \in DOMAIN saved : \A k \in DOMAIN saved[i].pictures :
             saved[i].pictures[k] = saved[i].frames[1]
=============================================================================
