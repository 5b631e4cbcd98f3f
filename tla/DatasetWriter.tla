---------------------------- MODULE DatasetWriter ----------------------------
(***************************************************************************)
(* Writing a dataset to disk over several sessions: DatasetWriter (src/    *)
(* lerobot/datasets/dataset_writer.py) and LeRobotDatasetMetadata          *)
(* (dataset_metadata.py), with the StreamingVideoEncoder. save_episode is  *)
(* split at every write to the disk; between two steps the process may be  *)
(* killed or an exception (an encoder that fails, Ctrl-C) may end the      *)
(* session through VideoEncodingManager.__exit__; a later session resumes. *)
(*                                                                         *)
(* A frame is the take it belongs to and its place in it. Chunk and file   *)
(* numbers are one number, the file's place in its sequence. Whether a     *)
(* file has reached its size limit is left open.                           *)
(***************************************************************************)
EXTENDS Integers, Sequences, SequencesExt

CONSTANTS
  Modes,          \* among "pictures" (encoded by save_episode) and "streaming"
  MetaBufferSize, \* metadata_buffer_size
  QueueMax,       \* queue_maxsize of the streaming encoder
  MaxFrames,      \* bound: frames of an episode
  MaxTakes,       \* bound: episodes begun
  MaxSessions,    \* bound: sessions
  MaxFaults,      \* bound: exceptions, kills and encoder failures
  Sentinel,       \* model value: the None that ends the encoder's queue
  None            \* model value: Python's None

(* An episode's metadata. *)
RecordT == [episode : Nat, from : Nat, to : Nat, file : Nat \ {0}, data : Nat \ {0},
            video : Nat \ {0}, start : Nat, stop : Nat]

ASSUME WriterAssumption ==
  /\ Modes \subseteq {"pictures", "streaming"}
  /\ MetaBufferSize \in Nat \ {0} /\ QueueMax \in Nat \ {0}
  /\ MaxFrames \in Nat \ {0} /\ MaxTakes \in Nat \ {0} /\ MaxSessions \in Nat \ {0} /\ MaxFaults \in Nat
  /\ None # Sentinel /\ {None, Sentinel} \cap ((1..MaxTakes) \X (1..MaxFrames)) = {}
  /\ None \notin RecordT /\ None \notin [file : Nat]

VARIABLES
  mode,          \* how videos are made
  pc,            \* where the session is
  buffer,        \* episode_buffer: its episode_index, its size, and which take it is
  pictures,      \* the image directory of the current episode
  data,          \* data/: the files, and the one _pq_writer has open (0: none)
  latest,        \* _latest_episode: its data file and the index after its last frame
  meta,          \* meta/episodes/: files, open file, _metadata_buffer
  latestMeta,    \* the metadata's latest_episode
  episodes,      \* meta.episodes, as loaded when the session began
  videos,        \* videos/: the frames of each file
  draft,         \* ep_metadata of the episode being saved
  info,          \* info.json: total_episodes and total_frames
  infoWhole,     \* info.json can be read
  frameQueue, thread, inHand, encoded,  \* the streaming encoder
  session,       \* sessions so far
  faults,        \* faults so far
  raised,        \* the session is leaving with an exception
  saved,         \* history: take and length of each episode counted in info.json
  dropped,       \* history: takes with a frame missing in the video
  torn,          \* history: video files a copy over them left in part
  hurt           \* history: the first session that was killed or left within save_episode, or 0

Take  == 1..MaxTakes
Frame == Take \X (1..MaxFrames)

Stream == INSTANCE StreamingVideoEncoder
            WITH Frames <- Frame, Nothing <- None

streamVars  == <<frameQueue, thread, inHand, encoded>>
diskVars    == <<data, meta, videos, info, infoWhole>>
memoryVars  == <<latest, latestMeta, episodes, draft>>
historyVars == <<saved, dropped, torn, hurt>>
vars == <<mode, pc, buffer, pictures, diskVars, memoryVars, streamVars,
          session, faults, raised, historyVars>>

NoInfo == [episodes |-> 0, frames |-> 0]

(* _create_episode_buffer. *)
NewBuffer(index, t) == [episode |-> index, size |-> 0, take |-> t]

Init ==
  /\ mode \in Modes /\ pc = "frames"
  /\ buffer = NewBuffer(0, 1) /\ pictures = <<>>
  /\ data = [files |-> <<>>, open |-> 0] /\ latest = None
  /\ meta = [files |-> <<>>, open |-> 0, buffer |-> <<>>] /\ latestMeta = None
  /\ episodes = <<>> /\ videos = <<>> /\ draft = None
  /\ info = NoInfo /\ infoWhole = TRUE
  /\ Stream!Idle
  /\ session = 1 /\ faults = 0 /\ raised = FALSE
  /\ saved = <<>> /\ dropped = {} /\ torn = {} /\ hurt = 0

----------------------------------------------------------------------------
(* Files *)

(* Variant: the file is opened anew for each episode. *)
WriteToReopened(files, open, k, rows) ==
  LET file == [rows |-> rows, footer |-> FALSE]
  IN  IF k \in DOMAIN files THEN [files EXCEPT ![k] = file] ELSE Append(files, file)

(* Rows written to file k of files: opened (and truncated) unless it is the open one. *)
WriteTo(files, open, k, rows) ==
  IF k = open THEN [files EXCEPT ![k].rows = @ \o rows]
  ELSE LET file == [rows |-> rows, footer |-> FALSE]
       IN  IF k \in DOMAIN files THEN [files EXCEPT ![k] = file] ELSE Append(files, file)

CloseFile(files, open) == IF open = 0 THEN files ELSE [files EXCEPT ![open].footer = TRUE]

(* close_writer *)
CloseData(d) == [files |-> CloseFile(d.files, d.open), open |-> 0]

(* _flush_metadata_buffer *)
FlushMeta(m) ==
  IF m.buffer = <<>> THEN m
  ELSE LET k == IF m.open # 0 THEN m.open ELSE Head(m.buffer).file
       IN  [files |-> WriteTo(m.files, m.open, k, m.buffer), open |-> k, buffer |-> <<>>]

(* _close_writer *)
CloseMeta(m) ==
  LET f == FlushMeta(m) IN [files |-> CloseFile(f.files, f.open), open |-> 0, buffer |-> <<>>]

Records(files) == FlattenSeq([k \in DOMAIN files |-> files[k].rows])
Closed(files)  == \A k \in DOMAIN files : files[k].footer

----------------------------------------------------------------------------
(* Recording *)

Fault == faults < MaxFaults /\ faults' = faults + 1

NextFrame == <<buffer.take, buffer.size + 1>>

(* add_frame: a picture for the image writer, or a frame for the encoder. *)
AddFrame ==
  /\ pc = "frames" /\ buffer.size < MaxFrames /\ buffer.take <= MaxTakes
  /\ buffer' = [buffer EXCEPT !.size = @ + 1]
  /\ \/ /\ mode = "pictures"
        /\ pictures' = IF buffer.size < Len(pictures)
                       THEN [pictures EXCEPT ![buffer.size + 1] = NextFrame]
                       ELSE Append(pictures, NextFrame)
        /\ UNCHANGED <<dropped, streamVars>>
     \/ /\ mode = "streaming" /\ buffer.size = 0 /\ Stream!StartEpisode(NextFrame)
        /\ UNCHANGED <<pictures, dropped>>
     \/ /\ mode = "streaming" /\ buffer.size > 0 /\ Stream!FeedFrame(NextFrame)
        /\ UNCHANGED <<pictures, dropped>>
     \/ /\ mode = "streaming" /\ buffer.size > 0 /\ Stream!DropFrame
        /\ dropped' = dropped \cup {buffer.take} /\ UNCHANGED pictures
  /\ UNCHANGED <<mode, pc, diskVars, memoryVars, session, faults, raised, saved, torn, hurt>>

(* clear_episode_buffer, to record the episode again. Pictures of videos stay. *)
ClearEpisodeBuffer ==
  /\ pc = "frames" /\ buffer.size > 0
  /\ buffer' = NewBuffer(info.episodes, buffer.take + 1)
  /\ Stream!CancelEpisode
  /\ UNCHANGED <<mode, pc, pictures, diskVars, memoryVars, session, faults, raised, historyVars>>

----------------------------------------------------------------------------
(* save_episode *)

(* Variant: a session goes on in the last file of the one before. *)
DataFilesSame ==
  IF latest # None THEN {latest.file, latest.file + 1}
  ELSE {IF episodes = <<>> THEN 1 ELSE Last(episodes).data}

(* The files the episode's data may go to: after the last one known when a session begins,
   else the current one or, if it is full, the next. *)
DataFiles ==
  IF latest # None THEN {latest.file, latest.file + 1}
  ELSE {IF episodes = <<>> THEN 1 ELSE Last(episodes).data + 1}

Rows == [i \in 1..buffer.size |->
          [episode |-> buffer.episode, frame |-> <<buffer.take, i>>, index |-> info.frames + i - 1]]

(* save_episode up to and with _save_episode_data. *)
SaveData ==
  /\ pc = "frames" /\ buffer.size > 0
  /\ \E k \in DataFiles :
       LET d == IF k = data.open THEN data ELSE CloseData(data) IN
       /\ data' = [files |-> WriteTo(d.files, d.open, k, Rows), open |-> k]
       /\ latest' = [file |-> k]
       /\ draft' = [data |-> k]
  /\ pc' = IF mode = "streaming" THEN "finish" ELSE "video"
  /\ UNCHANGED <<mode, buffer, pictures, meta, latestMeta, episodes, videos, info, infoWhole,
                 streamVars, session, faults, raised, historyVars>>

(* finish_episode *)
PutSentinel ==
  /\ pc = "finish" /\ Stream!PutSentinel /\ pc' = "join"
  /\ UNCHANGED <<mode, buffer, pictures, diskVars, memoryVars, session, faults, raised, historyVars>>

(* Variant: the start time is not reset with a new file. *)
VideoPlacesNoReset ==
  IF latestMeta = None
  THEN {[file |-> IF episodes = <<>> THEN 1 ELSE Last(episodes).video + 1, start |-> 0, appended |-> FALSE]}
  ELSE {[file |-> latestMeta.video, start |-> latestMeta.stop, appended |-> TRUE],
        [file |-> latestMeta.video + 1, start |-> latestMeta.stop, appended |-> FALSE]}

(* Where the episode's video may go: appended to the latest file, or a file of its own. *)
VideoPlaces ==
  IF latestMeta = None
  THEN {[file |-> IF episodes = <<>> THEN 1 ELSE Last(episodes).video + 1, start |-> 0, appended |-> FALSE]}
  ELSE {[file |-> latestMeta.video, start |-> latestMeta.stop, appended |-> TRUE],
        [file |-> latestMeta.video + 1, start |-> 0, appended |-> FALSE]}

(* _save_episode_video: moved to its file, or concatenated to what is there. *)
SaveVideo(frames) ==
  \E place \in VideoPlaces :
    /\ videos' = IF place.appended THEN [videos EXCEPT ![place.file] = @ \o frames]
                 ELSE IF place.file \in DOMAIN videos THEN [videos EXCEPT ![place.file] = frames]
                 ELSE Append(videos, frames)
    /\ draft' = [data |-> draft.data, video |-> place.file,
                 start |-> place.start, stop |-> place.start + Len(frames)]
    /\ torn' = torn \ {place.file} /\ pc' = "meta"
    /\ UNCHANGED <<mode, buffer, data, meta, info, infoWhole, latest, latestMeta, episodes,
                   session, raised, saved, hurt>>

(* encode_video_frames on the image directory, which is then removed. *)
EncodePictures ==
  /\ pc = "video" /\ SaveVideo(pictures) /\ pictures' = <<>>
  /\ UNCHANGED <<faults, dropped, streamVars>>

JoinEncoder ==
  /\ pc = "join" /\ Stream!JoinOk /\ SaveVideo(encoded)
  /\ UNCHANGED <<pictures, faults, dropped>>

(* The thread is given up: what it closes in time becomes the video, the rest is thrown away. *)
JoinTimesOut ==
  /\ pc = "join" /\ Stream!JoinTimesOut /\ Fault /\ encoded # <<>>
  /\ SaveVideo(encoded)
  /\ dropped' = IF Stream!Held = {} THEN dropped ELSE dropped \cup {buffer.take}
  /\ UNCHANGED pictures

(* The longer file is made in the system's temporary directory and moved over the one that is
   there. From another file system that is a copy, and an exception in it (Ctrl-C, a full disk)
   leaves a beginning of the file, without frames of this take or of earlier ones. *)
CopyFails ==
  /\ latestMeta # None /\ Fault
  /\ \/ pc = "video" /\ pictures' = <<>> /\ UNCHANGED streamVars
     \/ /\ pc = "join" /\ (Stream!JoinOk \/ Stream!JoinTimesOut) /\ encoded # <<>>
        /\ UNCHANGED pictures
  /\ LET film == videos[latestMeta.video] IN
     /\ \E n \in 0..Len(film) : videos' = [videos EXCEPT ![latestMeta.video] = SubSeq(film, 1, n)]
     /\ dropped' = dropped \cup {buffer.take} \cup {film[i][1] : i \in 1..Len(film)}
  /\ torn' = torn \cup {latestMeta.video} /\ pc' = "broken"
  /\ UNCHANGED <<mode, buffer, data, meta, info, infoWhole, memoryVars, session, raised, saved, hurt>>

FirstEver == latestMeta = None /\ episodes = <<>>
Previous  == IF latestMeta # None THEN latestMeta ELSE Last(episodes)

(* The episode's metadata; a session begins a metadata file of its own. *)
NextRecord(rolls) ==
  LET from == IF FirstEver THEN 0 ELSE Previous.to IN
  [episode |-> buffer.episode, from |-> from, to |-> from + buffer.size,
   file |-> IF FirstEver THEN 1
            ELSE IF latestMeta = None \/ rolls THEN Previous.file + 1 ELSE Previous.file,
   data |-> draft.data, video |-> draft.video, start |-> draft.start, stop |-> draft.stop]

(* A record is buffered, and the buffer written when it is full. *)
AddRecord(m, record) ==
  LET grown == [m EXCEPT !.buffer = Append(@, record)]
  IN  IF Len(grown.buffer) >= MetaBufferSize THEN FlushMeta(grown) ELSE grown

(* _save_episode_metadata. A file that has reached its size limit is closed first. *)
SaveMetadata ==
  /\ pc = "meta"
  /\ \E rolls \in BOOLEAN :
       /\ rolls => latestMeta # None /\ latestMeta.file \in DOMAIN meta.files
       /\ meta' = AddRecord(IF rolls THEN CloseMeta(meta) ELSE meta, NextRecord(rolls))
       /\ latestMeta' = NextRecord(rolls)
  /\ pc' = "info"
  /\ UNCHANGED <<mode, buffer, pictures, data, videos, info, infoWhole, latest, episodes, draft,
                 streamVars, session, faults, raised, historyVars>>

(* write_info and the end of save_episode, with clear_episode_buffer. *)
WriteInfo ==
  /\ pc = "info"
  /\ info' = [episodes |-> info.episodes + 1, frames |-> info.frames + buffer.size]
  /\ saved' = Append(saved, [take |-> buffer.take, size |-> buffer.size])
  /\ buffer' = NewBuffer(info.episodes + 1, buffer.take + 1)
  /\ draft' = None /\ pc' = "frames"
  /\ UNCHANGED <<mode, pictures, data, meta, videos, infoWhole, latest, latestMeta, episodes,
                 streamVars, session, faults, raised, dropped, torn, hurt>>

----------------------------------------------------------------------------
(* The end of a session *)

InSave == {"finish", "join", "video", "broken", "meta", "info"}

(* write_json empties info.json and then writes it: what ends the process there spoils the file. *)
InfoLeft == infoWhole' \in {infoWhole} \cup (IF pc = "info" THEN {FALSE} ELSE {})

(* VideoEncodingManager.__exit__ begins: an encoder still active is cancelled. *)
Leave(exception) ==
  /\ pc' = "close data" /\ raised' = exception
  /\ hurt' = IF hurt = 0 /\ pc \in InSave THEN session ELSE hurt
  /\ Stream!CancelEpisode
  /\ UNCHANGED <<mode, buffer, pictures, data, meta, videos, info, memoryVars, session,
                 saved, dropped, torn>>

(* The program has recorded what it wanted. *)
EndSession == pc = "frames" /\ Leave(FALSE) /\ UNCHANGED <<infoWhole, faults>>

(* An exception: Ctrl-C, an encoder process that fails, a video that cannot be probed. *)
Raise == pc \in (InSave \ {"broken"}) \cup {"frames"} /\ Fault /\ Leave(TRUE) /\ InfoLeft

(* The exception of the copy. *)
CopyRaises == pc = "broken" /\ Leave(TRUE) /\ UNCHANGED <<infoWhole, faults>>

(* The encoder's thread has died: feed_frame or finish_episode raises. *)
EncoderRaises ==
  /\ Stream!Crashed
  /\ pc = "join" \/ (pc = "frames" /\ buffer.size < MaxFrames)
  /\ Leave(TRUE) /\ UNCHANGED <<infoWhole, faults>>

(* finalize: close_writer. *)
FinalizeData ==
  /\ pc = "close data" /\ pc' = "close meta"
  /\ data' = CloseData(data)
  /\ UNCHANGED <<mode, buffer, pictures, meta, videos, info, infoWhole, memoryVars, streamVars,
                 session, faults, raised, historyVars>>

(* finalize: meta.finalize; then cleanup_interrupted_episode after an exception. *)
FinalizeMeta ==
  /\ pc = "close meta" /\ pc' = "ended"
  /\ meta' = CloseMeta(meta)
  /\ pictures' = IF raised THEN <<>> ELSE pictures
  /\ UNCHANGED <<mode, buffer, data, videos, info, infoWhole, memoryVars, streamVars,
                 session, faults, raised, historyVars>>

(* The process is killed. A parquet file that was open has no footer. *)
Kill ==
  /\ pc \notin {"ended", "killed"} /\ Fault /\ pc' = "killed"
  /\ hurt' = IF hurt = 0 /\ (pc \in InSave \/ data.open # 0 \/ meta.open # 0 \/ meta.buffer # <<>>)
             THEN session ELSE hurt
  /\ data' = [data EXCEPT !.open = 0] /\ meta' = [meta EXCEPT !.open = 0, !.buffer = <<>>]
  /\ Stream!Cleanup /\ InfoLeft
  /\ UNCHANGED <<mode, buffer, pictures, videos, info, memoryVars, session, raised, saved, dropped, torn>>

(* resume: the metadata have to load, which needs info.json and every file's footer. *)
Resume ==
  /\ pc \in {"ended", "killed"} /\ session < MaxSessions
  /\ infoWhole /\ meta.files # <<>> /\ Closed(meta.files)
  /\ pc' = "frames" /\ session' = session + 1 /\ raised' = FALSE
  /\ episodes' = Records(meta.files) /\ latest' = None /\ latestMeta' = None /\ draft' = None
  /\ buffer' = NewBuffer(info.episodes, buffer.take + 1)
  /\ UNCHANGED <<mode, pictures, diskVars, streamVars, faults, historyVars>>

----------------------------------------------------------------------------
EncoderStep ==
  /\ Stream!TakeFrame \/ Stream!EncodeFrame \/ Stream!CloseVideo
  /\ UNCHANGED <<mode, pc, buffer, pictures, diskVars, memoryVars, session, faults, raised, historyVars>>

EncoderFails ==
  /\ Stream!EncoderFails /\ Fault
  /\ UNCHANGED <<mode, pc, buffer, pictures, diskVars, memoryVars, session, raised, historyVars>>

SaveStep == PutSentinel \/ EncodePictures \/ JoinEncoder \/ SaveMetadata \/ WriteInfo

Next ==
  \/ AddFrame \/ ClearEpisodeBuffer \/ SaveData \/ SaveStep \/ JoinTimesOut \/ CopyFails
  \/ EndSession \/ Raise \/ CopyRaises \/ EncoderRaises \/ FinalizeData \/ FinalizeMeta
  \/ Kill \/ Resume \/ EncoderStep \/ EncoderFails

Spec == Init /\ [][Next]_vars

(* The main thread goes on with what it has begun, and the encoder's thread runs. *)
FairSpec ==
  /\ Spec
  /\ WF_vars(SaveStep) /\ WF_vars(EncoderRaises) /\ WF_vars(CopyRaises)
  /\ WF_vars(FinalizeData) /\ WF_vars(FinalizeMeta)
  /\ WF_vars(EncoderStep)

----------------------------------------------------------------------------
(* Properties *)

RowT == [episode : Nat, frame : Frame, index : Nat]
FileT(rows) == [rows : Seq(rows), footer : BOOLEAN]

(* Types. A file is opened in its place in the sequence (DatasetWriter, LeRobotDatasetMetadata). *)
TypeOK ==
  /\ mode \in Modes
  /\ pc \in InSave \cup {"frames", "close data", "close meta", "ended", "killed"}
  /\ buffer \in [episode : Nat, size : 0..MaxFrames, take : Nat \ {0}]
  /\ pictures \in Seq(Frame)
  /\ data \in [files : Seq(FileT(RowT)), open : Nat] /\ data.open <= Len(data.files)
  /\ meta \in [files : Seq(FileT(RecordT)), open : Nat, buffer : Seq(RecordT)]
  /\ meta.open <= Len(meta.files) /\ Len(meta.buffer) < MetaBufferSize
  /\ latest \in {None} \cup [file : 1..Len(data.files)]
  /\ latestMeta \in {None} \cup RecordT /\ episodes \in Seq(RecordT)
  /\ videos \in Seq(Seq(Frame)) /\ info \in [episodes : Nat, frames : Nat]
  /\ infoWhole \in BOOLEAN /\ Stream!TypeOK
  /\ session \in 1..MaxSessions /\ faults \in 0..MaxFaults /\ raised \in BOOLEAN
  /\ saved \in Seq([take : Take, size : 1..MaxFrames])
  /\ dropped \subseteq Take /\ torn \subseteq Nat /\ hurt \in 0..MaxSessions

(* The frames a reader of the dataset gets for record r: rows by their position in data/,
   pictures by their time in the video. *)
RowsRead(r) == SubSeq(Records(data.files), r.from + 1, r.to)
FilmRead(r) == SubSeq(videos[r.video], r.start + 1, r.start + (r.to - r.from))

(* The places record r names exist. *)
RowsThere(r) == r.to <= Len(Records(data.files))
FilmThere(r) == r.video \in DOMAIN videos /\ r.start + (r.to - r.from) <= Len(videos[r.video])

TakeFrames(s) == [i \in 1..s.size |-> <<s.take, i>>]

(* Episode e, counted in info.json, is found whole: its metadata, all its rows in order and
   with their index, and for every row the picture taken with it. *)
Whole(e) ==
  LET all == Records(meta.files) IN
  /\ e <= Len(all) /\ all[e].episode = e - 1 /\ RowsThere(all[e])
  /\ RowsRead(all[e]) =
       [i \in 1..saved[e].size |->
         [episode |-> e - 1, frame |-> TakeFrames(saved[e])[i], index |-> all[e].from + i - 1]]
  /\ saved[e].take \notin dropped =>
       FilmThere(all[e]) /\ FilmRead(all[e]) = TakeFrames(saved[e])

Readable == Closed(data.files) /\ Closed(meta.files) /\ \A e \in 1..info.episodes : Whole(e)

(* After any number of sessions that ended by finalize, even the last one with an exception
   in the middle of save_episode, every episode info.json counts is read back as it was
   recorded: its rows always, its pictures unless one was dropped or a copy over its video
   failed. (An exception within the writing of info.json spoils that file.) *)
EpisodesWhole == pc = "ended" /\ infoWhole /\ hurt \in {0, session} => Readable

(* The metadata of the dataset: written, and not yet written. *)
Written(files) == UNION {ToSet(files[k].rows) : k \in DOMAIN files}
Recorded == Written(meta.files) \cup ToSet(meta.buffer)

(* n rows of episode e stand together. *)
Together(rows, e, n) ==
  \E before \in 0 .. Len(rows) - n : \A i \in 1..n : rows[before + i].episode = e

HasRows(k, e, n) == k \in DOMAIN data.files /\ Together(data.files[k].rows, e, n)

(* Metadata are never ahead of what they describe: whatever is killed or fails, an episode
   with metadata, on disk or in the buffer, has its rows, together, in its data file, and
   its stretch of video, if no copy over that file failed. *)
MetadataHasData ==
  \A r \in Recorded :
    /\ HasRows(r.data, r.episode, r.to - r.from)
    /\ r.video \in DOMAIN videos
    /\ r.video \in torn \/ r.stop <= Len(videos[r.video])

(* The records whose metadata and data files have been closed. *)
Durable ==
  {r \in UNION {ToSet(meta.files[k].rows) : k \in {j \in DOMAIN meta.files : meta.files[j].footer}} :
     data.files[r.data].footer}

(* What has been closed stays: no step, of this session or, after an exception or a kill or
   not, of a later one, overwrites the data file of an episode whose metadata are on disk, or
   its stretch of video, but for a copy that fails over the session's last video. *)
DurableStays ==
  [][\A r \in Durable :
       /\ data'.files[r.data] = data.files[r.data]
       /\ \/ r.video \in torn \cup torn'
          \/ SubSeq(videos'[r.video], r.start + 1, r.stop) = SubSeq(videos[r.video], r.start + 1, r.stop)]_vars

(* save_episode returns or raises, unless the encoder's thread has died with a full queue:
   then finish_episode waits for ever (video_utils.py, put(None) without a timeout). *)
SaveReturns ==
  pc \in InSave ~> pc \notin InSave \/ (pc = "finish" /\ Stream!Stuck)
=============================================================================
