------------------------ MODULE RecordingSessionProofs ------------------------
(***************************************************************************)
(* For any number of episodes, of iterations and of keys pressed: a saved  *)
(* episode is one attempt, its pictures are its own, and an attempt that   *)
(* was cancelled is not saved.                                             *)
(***************************************************************************)
EXTENDS RecordingSession, TLAPS

LEMMA NextCases ==
  ASSUME Next
  PROVE  \/ BeginEpisode \/ EndSession \/ LeaveEarly \/ TimeIsUp \/ RecordFrame
         \/ SendInterpolated \/ ResetTick \/ BeginReset \/ SkipReset \/ Decide
         \/ ForgetRerecord \/ ForgetExit \/ ClearEpisodeBuffer \/ SaveEpisode
         \/ SaveRaises \/ Finalize \/ WriteImage \/ WriteFails \/ SetNextFlag
         \/ (\E key \in {"right", "left", "esc"} : Press(key)) \/ LoopRaises
BY DEF Next, MainStep, RecordLoop, WriterStep

-----------------------------------------------------------------------------
(* The inductive invariant.                                                *)

Flagged ==
  /\ events \in [Flags -> BOOLEAN]
  /\ writing \in Seq(Flags)

\* The attempt under way, and saved only at its end.
InAttempt ==
  pc \in {"record", "recorded", "reset", "decide", "forget_rerecord", "forget_exit",
          "clear", "save"}

Counted ==
  /\ attempt \in Nat /\ ticks \in Nat
  /\ rejected \subseteq 1..attempt
  /\ InAttempt => attempt > 0

\* The buffer holds the present attempt, and is empty between two.
BufferOfAttempt ==
  /\ buffer \in Seq(Nat) /\ Len(buffer) <= EpisodeTicks
  /\ \A k \in 1..Len(buffer) : buffer[k] = attempt
  /\ pc = "check" => buffer = <<>>
  /\ pc = "record" => Len(buffer) <= ticks

\* What the image writer still has to write are pictures of the buffer's frames.
PendingOfBuffer == \A w \in pending : w.index \in 1..Len(buffer) /\ w.attempt = attempt

\* Without videos, the directory has nothing but pictures of the buffer's frames.
ImagesOfBuffer ==
  /\ images \in [1..EpisodeTicks -> Nat]
  /\ ~video => \A i \in 1..EpisodeTicks :
                 images[i] # NoFile => i <= Len(buffer) /\ images[i] = attempt

\* An attempt that is cancelled before record() decides will be seen to be.
CancelSeen ==
  /\ attempt \in rejected /\ Undecided => events["rerecord_episode"]
  /\ pc = "save" => attempt \notin rejected

\* The episodes saved are of earlier attempts, none of them cancelled, each different.
SavedBefore ==
  /\ \E S : saved \in Seq(S)
  /\ \A i \in DOMAIN saved :
       /\ saved[i].frames # <<>>
       /\ saved[i].frames[1] \in 1..attempt
       /\ saved[i].frames[1] \notin rejected
       /\ InAttempt => saved[i].frames[1] # attempt

IInv ==
  /\ Flagged /\ Counted /\ BufferOfAttempt /\ PendingOfBuffer /\ ImagesOfBuffer
  /\ CancelSeen /\ SavedBefore
  /\ EpisodeIsOneAttempt /\ PicturesOfFrames

LEMMA InitInv == Init => IInv
<1> SUFFICES ASSUME Init PROVE IInv
  OBVIOUS
<1>1. Flagged
  BY DEF Init, Flagged, Flags
<1>2. saved = <<>> /\ saved \in Seq({})
  BY DEF Init
<1>3. SavedBefore /\ EpisodeIsOneAttempt /\ PicturesOfFrames
  BY <1>2 DEF SavedBefore, EpisodeIsOneAttempt, PicturesOfFrames
<1>4. Counted /\ CancelSeen /\ PendingOfBuffer
  BY DEF Init, Counted, CancelSeen, PendingOfBuffer, InAttempt, Undecided
<1>5. BufferOfAttempt
  BY SessionAssumption DEF SessionAssumption, Init, BufferOfAttempt
<1>6. ImagesOfBuffer
  BY DEF Init, ImagesOfBuffer, NoFile
<1> QED
  BY <1>1, <1>3, <1>4, <1>5, <1>6 DEF IInv

-----------------------------------------------------------------------------
(* Steps that save nothing.                                                *)

LEMMA SavedKept ==
  ASSUME EpisodeIsOneAttempt, PicturesOfFrames, UNCHANGED <<saved, video>>
  PROVE  EpisodeIsOneAttempt' /\ PicturesOfFrames'
BY DEF EpisodeIsOneAttempt, PicturesOfFrames

\* The key handler sets flags, and cancels an attempt together with the first.
LEMMA KeysKeep ==
  ASSUME IInv, SetNextFlag \/ \E key \in {"right", "left", "esc"} : Press(key)
  PROVE  IInv'
<1>1. EpisodeIsOneAttempt' /\ PicturesOfFrames'
  BY SavedKept DEF IInv, SetNextFlag, Press, config
<1>2. CASE SetNextFlag
  <2>1. Head(writing) \in Flags /\ Tail(writing) \in Seq(Flags)
    BY <1>2 DEF SetNextFlag, IInv, Flagged
  <2>2. /\ events' \in [Flags -> BOOLEAN]
        /\ events["rerecord_episode"] => events'["rerecord_episode"]
    BY <1>2, <2>1 DEF SetNextFlag, IInv, Flagged, Flags
  <2> QED
    BY <1>1, <1>2, <2>1, <2>2 DEF SetNextFlag, IInv, Flagged, Counted, BufferOfAttempt,
       PendingOfBuffer, ImagesOfBuffer, CancelSeen, SavedBefore, InAttempt, Undecided,
       config, writerVars
<1>3. ASSUME NEW key \in {"right", "left", "esc"}, Press(key)
      PROVE  IInv'
  <2>1. /\ Head(Writes(key)) \in Flags /\ Tail(Writes(key)) \in Seq(Flags)
        /\ key = "left" => Head(Writes(key)) = "rerecord_episode"
    <3>1. /\ Writes(key) \in Seq(Flags) /\ Len(Writes(key)) > 0
          /\ key = "left" => Writes(key)[1] = "rerecord_episode"
      <4>1. CASE key = "right"
        <5>1. Writes(key) = <<"exit_early">>
          BY <4>1 DEF Writes
        <5>2. /\ <<"exit_early">> \in Seq(Flags)
              /\ Len(<<"exit_early">>) > 0
          BY DEF Flags
        <5>3. Writes(key) \in Seq(Flags) /\ Len(Writes(key)) > 0
          BY <5>1, <5>2, Zenon
        <5>4. key = "left" => Writes(key)[1] = "rerecord_episode"
          BY <4>1, <5>1, <5>2
        <5> QED
          BY <5>3, <5>4
      <4>2. CASE key = "left"
        <5>1. Writes(key) = <<"rerecord_episode", "exit_early">>
          BY <4>2 DEF Writes
        <5>2. /\ <<"rerecord_episode", "exit_early">> \in Seq(Flags)
              /\ Len(<<"rerecord_episode", "exit_early">>) > 0
              /\ <<"rerecord_episode", "exit_early">>[1] = "rerecord_episode"
          BY DEF Flags
        <5>3. Writes(key) \in Seq(Flags) /\ Len(Writes(key)) > 0
          BY <5>1, <5>2, Zenon
        <5>4. key = "left" => Writes(key)[1] = "rerecord_episode"
          BY <4>2, <5>1, <5>2
        <5> QED
          BY <5>3, <5>4
      <4>3. CASE key = "esc"
        <5>1. Writes(key) = <<"stop_recording", "exit_early">>
          BY <4>3 DEF Writes
        <5>2. /\ <<"stop_recording", "exit_early">> \in Seq(Flags)
              /\ Len(<<"stop_recording", "exit_early">>) > 0
          BY DEF Flags
        <5>3. Writes(key) \in Seq(Flags) /\ Len(Writes(key)) > 0
          BY <5>1, <5>2, Zenon
        <5>4. key = "left" => Writes(key)[1] = "rerecord_episode"
          BY <4>3, <5>1, <5>2
        <5> QED
          BY <5>3, <5>4
      <4> QED
        BY <4>1, <4>2, <4>3
    <3>2. Head(Writes(key)) = Writes(key)[1] /\ Writes(key)[1] \in Flags
      BY <3>1
    <3>3. Tail(Writes(key)) \in Seq(Flags)
      BY <3>1
    <3> QED
      BY <3>1, <3>2, <3>3
  <2>2. /\ events' \in [Flags -> BOOLEAN]
        /\ events["rerecord_episode"] => events'["rerecord_episode"]
        /\ key = "left" => events'["rerecord_episode"]
    BY <1>3, <2>1 DEF Press, IInv, Flagged, Flags
  <2>3. rejected' = rejected \cup (IF key = "left" /\ Undecided THEN {attempt} ELSE {})
    BY <1>3 DEF Press
  <2>4. CASE key = "left" /\ Undecided
    <3>1. rejected' = rejected \cup {attempt} /\ pc # "save" /\ InAttempt
      BY <2>3, <2>4 DEF Undecided, InAttempt
    <3>2. attempt \in 1..attempt
      BY <3>1 DEF IInv, Counted
    <3> QED
      BY <1>1, <1>3, <2>1, <2>2, <2>4, <3>1, <3>2 DEF Press, IInv, Flagged, Counted,
         BufferOfAttempt, PendingOfBuffer, ImagesOfBuffer, CancelSeen, SavedBefore,
         InAttempt, Undecided, config, writerVars
  <2>5. CASE ~(key = "left" /\ Undecided)
    <3>1. rejected' = rejected
      BY <2>3, <2>5
    <3> QED
      BY <1>1, <1>3, <2>1, <2>2, <3>1 DEF Press, IInv, Flagged, Counted, BufferOfAttempt,
         PendingOfBuffer, ImagesOfBuffer, CancelSeen, SavedBefore, InAttempt, Undecided,
         config, writerVars
  <2> QED
    BY <2>4, <2>5
<1> QED
  BY <1>2, <1>3

\* The writer's threads take what is pending, and write it to its place or not.
LEMMA WriterKeeps ==
  ASSUME IInv, WriteImage \/ WriteFails
  PROVE  IInv'
<1>1. EpisodeIsOneAttempt' /\ PicturesOfFrames'
  BY SavedKept DEF IInv, WriteImage, WriteFails, config
<1>2. PICK w \in pending :
        /\ pending' = pending \ {w}
        /\ images' \in {images, [images EXCEPT ![w.index] = w.attempt]}
  BY DEF WriteImage, WriteFails
<1>3. w.index \in 1..Len(buffer) /\ w.attempt = attempt
  BY DEF IInv, PendingOfBuffer
<1>4. UNCHANGED <<config, events, keyVars, pc, ticks, buffer, raised, saved, attempt>>
  BY DEF WriteImage, WriteFails
<1>5. ImagesOfBuffer'
  <2>1. CASE images' = images
    BY <1>4, <2>1 DEF IInv, ImagesOfBuffer, config
  <2>2. CASE images' = [images EXCEPT ![w.index] = w.attempt]
    <3>1. w.index \in 1..EpisodeTicks /\ w.attempt \in Nat
      BY <1>3, SessionAssumption DEF SessionAssumption, IInv, Counted, BufferOfAttempt
    <3>2. /\ images' \in [1..EpisodeTicks -> Nat]
          /\ images'[w.index] = attempt
          /\ \A i \in 1..EpisodeTicks : i # w.index => images'[i] = images[i]
      BY <1>3, <2>2, <3>1 DEF IInv, ImagesOfBuffer
    <3> QED
      BY <1>3, <1>4, <3>2 DEF IInv, ImagesOfBuffer, BufferOfAttempt, config
  <2> QED
    BY <1>2, <2>1, <2>2
<1>6. PendingOfBuffer'
  BY <1>2, <1>4 DEF IInv, PendingOfBuffer
<1> QED
  BY <1>1, <1>4, <1>5, <1>6 DEF IInv, Flagged, Counted, BufferOfAttempt, CancelSeen,
     SavedBefore, InAttempt, Undecided, keyVars

\* An iteration of record_loop that adds a frame of this attempt.
LEMMA FrameKeeps == ASSUME IInv, RecordFrame PROVE IInv'
<1>1. EpisodeIsOneAttempt' /\ PicturesOfFrames'
  BY SavedKept DEF IInv, RecordFrame, config
<1>2. /\ buffer' \in Seq(Nat) /\ Len(buffer') = Len(buffer) + 1
      /\ \A k \in 1..Len(buffer') : buffer'[k] = attempt
  BY DEF RecordFrame, IInv, Counted, BufferOfAttempt
<1>3. BufferOfAttempt'
  BY <1>2, SessionAssumption DEF SessionAssumption, RecordFrame, IInv, Counted, BufferOfAttempt
<1>4. PendingOfBuffer'
  BY <1>2 DEF RecordFrame, IInv, PendingOfBuffer, BufferOfAttempt
<1>5. ImagesOfBuffer'
  BY <1>2 DEF RecordFrame, IInv, ImagesOfBuffer, BufferOfAttempt, config
<1> QED
  BY <1>1, <1>3, <1>4, <1>5 DEF RecordFrame, IInv, Flagged, Counted, CancelSeen, SavedBefore,
     InAttempt, Undecided, config, keyVars

\* The next attempt begins with an empty buffer, so with nothing pending and no picture.
LEMMA BeginKeeps == ASSUME IInv, BeginEpisode PROVE IInv'
<1>1. EpisodeIsOneAttempt' /\ PicturesOfFrames'
  BY SavedKept DEF IInv, BeginEpisode, config
<1>2. buffer = <<>> /\ Len(buffer) = 0
  BY DEF BeginEpisode, IInv, BufferOfAttempt
<1>3. attempt' = attempt + 1 /\ attempt' \notin rejected'
  BY DEF BeginEpisode, IInv, Counted, keyVars
<1> QED
  BY <1>1, <1>2, <1>3 DEF BeginEpisode, Goto, IInv, Flagged, Counted, BufferOfAttempt,
     PendingOfBuffer, ImagesOfBuffer, CancelSeen, SavedBefore, InAttempt, Undecided,
     config, keyVars, writerVars

\* The directory is empty after a save, and for images after a clear.
LEMMA ClearKeeps == ASSUME IInv, ClearEpisodeBuffer \/ Finalize PROVE IInv'
<1>1. EpisodeIsOneAttempt' /\ PicturesOfFrames'
  BY SavedKept DEF IInv, ClearEpisodeBuffer, Finalize, config
<1>2. NoImages \in [1..EpisodeTicks -> Nat] /\ \A i \in 1..EpisodeTicks : NoImages[i] = NoFile
  BY DEF NoImages, NoFile
<1>3. ImagesOfBuffer' /\ BufferOfAttempt'
  <2>1. CASE ClearEpisodeBuffer
    <3>1. buffer' = <<>> /\ images' = (IF video THEN images ELSE NoImages) /\ video' = video
          /\ pc' = "check"
      BY <2>1 DEF ClearEpisodeBuffer, Goto, config
    <3>2. ImagesOfBuffer'
      BY <1>2, <3>1 DEF IInv, ImagesOfBuffer
    <3> QED
      BY <3>1, <3>2, SessionAssumption DEF SessionAssumption, BufferOfAttempt
  <2>2. CASE Finalize
    <3>1. UNCHANGED <<buffer, attempt, ticks, video>> /\ pc' = "done"
          /\ images' = (IF raised /\ video THEN NoImages ELSE images)
      BY <2>2 DEF Finalize, Goto, config
    <3>2. ImagesOfBuffer'
      BY <1>2, <3>1 DEF IInv, ImagesOfBuffer
    <3> QED
      BY <3>1, <3>2 DEF IInv, BufferOfAttempt
  <2> QED
    BY <2>1, <2>2
<1> QED
  BY <1>1, <1>3 DEF ClearEpisodeBuffer, Finalize, Goto, IInv, Flagged, Counted,
     PendingOfBuffer, CancelSeen, SavedBefore, InAttempt, Undecided, config, keyVars

-----------------------------------------------------------------------------
(* The step that saves.                                                    *)

LEMMA SaveKeeps == ASSUME IInv, SaveEpisode PROVE IInv'
<1> DEFINE e == [frames |-> buffer, pictures |-> Pictures]
<1>1. /\ pc = "save" /\ saved' = Append(saved, e) /\ buffer # <<>> /\ attempt' = attempt
      /\ attempt \notin rejected /\ rejected' = rejected /\ video' = video
  BY DEF SaveEpisode, IInv, CancelSeen, config, keyVars
<1>2. buffer \in Seq(Nat) /\ Len(buffer) > 0 /\ buffer[1] = attempt
  BY <1>1 DEF IInv, BufferOfAttempt
<1>3. PICK S : saved \in Seq(S)
  BY DEF IInv, SavedBefore
<1>4. /\ saved' \in Seq(S \cup {e}) /\ DOMAIN saved' = 1..(Len(saved) + 1)
      /\ DOMAIN saved = 1..Len(saved) /\ Len(saved) \in Nat
      /\ saved'[Len(saved) + 1] = e
      /\ \A i \in DOMAIN saved : saved'[i] = saved[i]
  <2>1. saved \in Seq(S \cup {e})
    BY <1>3
  <2> QED
    BY <1>1, <2>1
<1>5. /\ \A i \in DOMAIN saved' : i \in DOMAIN saved \/ i = Len(saved) + 1
      /\ \A i \in DOMAIN saved : i # Len(saved) + 1
  BY <1>4
<1>6. /\ e.frames = buffer /\ e.pictures = Pictures
  OBVIOUS
<1>7. \A i \in DOMAIN saved :
        saved[i].frames[1] \in 1..attempt /\ saved[i].frames[1] # attempt
  BY <1>1 DEF IInv, SavedBefore, InAttempt
<1>8. SavedBefore'
  <2>1. \E T : saved' \in Seq(T)
    BY <1>4
  <2>2. ~InAttempt'
    BY DEF SaveEpisode, Goto, InAttempt
  <2>3. attempt \in 1..attempt
    BY <1>1 DEF IInv, Counted, InAttempt
  <2> QED
    BY <1>1, <1>2, <1>4, <1>5, <1>6, <2>1, <2>2, <2>3 DEF IInv, SavedBefore
<1>9. EpisodeIsOneAttempt'
  <2>1. \A k \in DOMAIN buffer : buffer[k] = buffer[1]
    BY <1>2 DEF IInv, BufferOfAttempt
  <2>2. \A i \in DOMAIN saved' :
          saved'[i].frames # <<>>
          /\ \A k \in DOMAIN saved'[i].frames : saved'[i].frames[k] = saved'[i].frames[1]
    BY <1>1, <1>4, <1>5, <1>6, <2>1 DEF IInv, EpisodeIsOneAttempt
  <2>3. \A i, j \in DOMAIN saved' :
          saved'[i].frames[1] = saved'[j].frames[1] => i = j
    BY <1>2, <1>4, <1>5, <1>6, <1>7 DEF IInv, EpisodeIsOneAttempt
  <2> QED
    BY <2>2, <2>3 DEF EpisodeIsOneAttempt
<1>10. PicturesOfFrames'
  <2>1. ~video => Pictures = buffer
    <3> SUFFICES ASSUME ~video PROVE Pictures = buffer
      OBVIOUS
    <3>1. ~Missing
      BY DEF SaveEpisode
    <3>2. \A i \in 1..Len(buffer) : i \in 1..EpisodeTicks /\ images[i] # NoFile
      BY <3>1, SessionAssumption DEF SessionAssumption, Missing, IInv, BufferOfAttempt
    <3>3. \A i \in 1..Len(buffer) : images[i] = buffer[i]
      BY <3>2 DEF IInv, ImagesOfBuffer, BufferOfAttempt
    <3>4. Pictures = [i \in 1..Len(buffer) |-> images[i]]
      BY DEF Pictures
    <3>5. buffer = [i \in 1..Len(buffer) |-> buffer[i]]
      BY <1>2
    <3> QED
      BY <3>3, <3>4, <3>5
  <2> QED
    BY <1>1, <1>4, <1>5, <1>6, <2>1 DEF IInv, PicturesOfFrames
<1>11. ImagesOfBuffer' /\ BufferOfAttempt' /\ PendingOfBuffer'
  BY SessionAssumption DEF SessionAssumption, SaveEpisode, Goto, IInv, ImagesOfBuffer,
     NoImages, NoFile, BufferOfAttempt, PendingOfBuffer
<1> QED
  BY <1>8, <1>9, <1>10, <1>11 DEF SaveEpisode, Goto, IInv, Flagged, Counted, CancelSeen,
     InAttempt, Undecided, keyVars

-----------------------------------------------------------------------------
LEMMA InvStep == IInv /\ [Next]_vars => IInv'
<1> SUFFICES ASSUME IInv, [Next]_vars PROVE IInv'
  OBVIOUS
<1> USE DEF IInv, Flagged, Counted, BufferOfAttempt, PendingOfBuffer, ImagesOfBuffer,
     CancelSeen, SavedBefore, InAttempt, Undecided, Goto, config, keyVars, writerVars
<1>1. CASE BeginEpisode
  BY <1>1, BeginKeeps
<1>2. CASE EndSession
  BY <1>2, SavedKept DEF EndSession
<1>3. CASE LeaveEarly
  <2>1. /\ events' \in [Flags -> BOOLEAN]
        /\ events'["rerecord_episode"] = events["rerecord_episode"]
    BY <1>3 DEF LeaveEarly, Flags
  <2> QED
    BY <1>3, <2>1, SavedKept DEF LeaveEarly
<1>4. CASE TimeIsUp
  BY <1>4, SavedKept DEF TimeIsUp
<1>5. CASE RecordFrame
  BY <1>5, FrameKeeps
<1>6. CASE SendInterpolated
  BY <1>6, SavedKept DEF SendInterpolated
<1>7. CASE ResetTick
  BY <1>7, SavedKept DEF ResetTick
<1>8. CASE BeginReset
  BY <1>8, SavedKept DEF BeginReset
<1>9. CASE SkipReset
  BY <1>9, SavedKept DEF SkipReset
<1>10. CASE Decide
  BY <1>10, SavedKept DEF Decide
<1>11. CASE ForgetRerecord
  <2>1. events' \in [Flags -> BOOLEAN]
    BY <1>11 DEF ForgetRerecord, Flags
  <2> QED
    BY <1>11, <2>1, SavedKept DEF ForgetRerecord
<1>12. CASE ForgetExit
  <2>1. /\ events' \in [Flags -> BOOLEAN]
        /\ events'["rerecord_episode"] = events["rerecord_episode"]
    BY <1>12 DEF ForgetExit, Flags
  <2> QED
    BY <1>12, <2>1, SavedKept DEF ForgetExit
<1>13. CASE ClearEpisodeBuffer
  BY <1>13, ClearKeeps
<1>14. CASE SaveEpisode
  BY <1>14, SaveKeeps
<1>15. CASE SaveRaises
  BY <1>15, SavedKept DEF SaveRaises
<1>16. CASE Finalize
  BY <1>16, ClearKeeps
<1>17. CASE WriteImage
  BY <1>17, WriterKeeps
<1>18. CASE WriteFails
  BY <1>18, WriterKeeps
<1>19. CASE SetNextFlag
  BY <1>19, KeysKeep
<1>20. CASE (\E key \in {"right", "left", "esc"} : Press(key))
  BY <1>20, KeysKeep
<1>21. CASE LoopRaises
  BY <1>21, SavedKept DEF LoopRaises
<1>22. CASE UNCHANGED vars
  BY <1>22, SavedKept DEF vars
<1> QED
  BY NextCases, <1>1, <1>2, <1>3, <1>4, <1>5, <1>6, <1>7, <1>8, <1>9, <1>10, <1>11,
     <1>12, <1>13, <1>14, <1>15, <1>16, <1>17, <1>18, <1>19, <1>20, <1>21, <1>22

\* The inductive invariant holds in every reachable state of record().
THEOREM Invariant == Spec => []IInv
BY InitInv, InvStep, PTL DEF Spec

-----------------------------------------------------------------------------
(* The properties.                                                         *)

\* A saved episode has frames, all of one attempt, and no two episodes are of the same.
THEOREM AlwaysOneAttempt == Spec => []EpisodeIsOneAttempt
<1>1. IInv => EpisodeIsOneAttempt
  BY DEF IInv
<1> QED
  BY <1>1, Invariant, PTL

\* In a dataset of images every frame is saved with its own picture.
THEOREM AlwaysOwnPictures == Spec => []PicturesOfFrames
<1>1. IInv => PicturesOfFrames
  BY DEF IInv
<1> QED
  BY <1>1, Invariant, PTL

\* An attempt that was cancelled before record() decided about it is not saved.
THEOREM NeverRejected == Spec => []RejectedNeverSaved
<1>1. IInv => RejectedNeverSaved
  BY DEF IInv, SavedBefore, RejectedNeverSaved
<1> QED
  BY <1>1, Invariant, PTL
=============================================================================
