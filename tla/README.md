# LeRobot: a verification project

TLA+ models of the concurrent parts of this repository, the TLC configurations
that check them on small instances, and TLAPS proofs of what matters most for
every instance. Paths below are relative to the repository root.

## 1. Inventory

LeRobot trains policies and runs them on robots. Most of its lines are neural
networks, data formats and device drivers; what can go wrong in an order nobody
tested is in the runtime: processes, threads and queues that stand between a
policy and a robot, or between a robot and a dataset.

| Component | State it keeps | Operations | Talks to |
|---|---|---|---|
| Policy server (`src/lerobot/async_inference/policy_server.py`) | `shutdown_event`, `observation_queue` (maxsize 1), `_predicted_timesteps`, `last_processed_obs`, the policy | `Ready`, `SendPolicyInstructions`, `SendObservations`, `GetActions` on a gRPC pool of 4 threads | robot clients, by gRPC |
| Robot client (`src/lerobot/async_inference/robot_client.py`) | `action_queue`, `latest_action`, `action_chunk_size`, `must_go`, `shutdown_event` | `start`, control loop (action, observation), receiver thread (`GetActions`, merge), `stop` | policy server; robot |
| gRPC transport (`src/lerobot/transport/utils.py`) | none: chunking of messages, retry policy of the channel | `send_bytes_in_chunks`, `receive_bytes_in_chunks` | both of the above, RL actor and learner |
| RTC action queue (`src/lerobot/policies/rtc/action_queue.py`, `action_interpolator.py`) | `queue`, `original_queue`, `last_index`; the interpolator's buffer | `get`, `merge` (replace or append), `get_left_over`, unlocked `qsize`, `get_action_index` | inference thread and actor thread (`examples/rtc`, `examples/hil`) |
| RL actor and learner (`src/lerobot/rl/actor.py`, `learner.py`, `learner_service.py`, `queue.py`, `process.py`) | queues of transitions, interactions, parameters; shutdown event; checkpoints | streams in both directions, training loop, checkpoint and resume | each other, by gRPC |
| Replay buffer (`src/lerobot/rl/buffer.py`) | arrays, `position`, `size` | `add`, `sample`, async iterator | learner |
| Dataset writer (`src/lerobot/datasets/dataset_writer.py`, `dataset_metadata.py`) | episode buffer, data, metadata and video files, metadata buffer, `info.json` | `add_frame`, `save_episode`, `clear_episode_buffer`, `finalize`, `resume` | recorder, video encoder, file system |
| Streaming video encoder (`src/lerobot/datasets/video_utils.py`) | frame queue, encoder thread, temporary video | `start_episode`, `feed_frame`, `finish_episode`, `cancel_episode` | dataset writer |
| Recording session (`src/lerobot/scripts/lerobot_record.py`, `common/control_utils.py`) | `events` shared with the keyboard listener | record, reset, re-record, stop | dataset writer, robot, teleoperator |
| LeKiwi host (`src/lerobot/robots/lekiwi/lekiwi_host.py`, `lekiwi.py`) | last command's time, `watchdog_active`, the base's velocity | receive, execute, watchdog, observe, disconnect | its client, by sockets; motors bus; cameras |
| Cameras (`src/lerobot/cameras/opencv/camera_opencv.py` and the others) | latest frame and its time, `new_frame_event`, `stop_event` | read thread, `async_read`, `read_latest`, `connect`, `disconnect` | hardware; robots |
| OSC teleoperator, cluster IK (`src/lerobot/teleoperators/osc_joint_teleop`, `scripts/lerobot_cluster_ik.py`) | latest target and its age | receive, follow while fresh | sockets |
| Human-in-the-loop collection (`examples/hil`) | RTC queue, recording loop, intervention flags | pause, correct, resume | policy, teleoperator, dataset |
| Motors, other robots and teleoperators | device handles | connect, read, write, disconnect | hardware |
| Processors, policies, training, dataset reading | tensors, files | pure functions and sequential loops | - |

What is hard in each, and what makes it correct:

* **Policy server.** The handlers of one client, of a resent call and of a client
  that is gone run at the same time and share attributes without a lock (except
  `_predicted_timesteps`). The queue has one place and `put` has no timeout;
  `Ready` replaces the queue object under the others' feet. Correct: the pool is
  never used up by puts that wait for ever; `shutdown_event` never stays set; nothing
  of one session reaches the next.
* **Robot client.** Two threads share the action queue; the merge reads the queue
  outside the lock and replaces it as a whole while the control loop pops from
  it. Correct: no timestep of the plan is jumped over or executed twice; both
  threads survive; the queue is ordered and bounded.
* **Client and server together.** The server drops observations similar to the
  last one, so a client with an empty queue depends on the `must_go` flag, which
  one thread clears and the other sets. Correct: the client gets actions again
  whenever its queue runs empty.
* **RTC queue.** The number of actions consumed while the policy thinks is not
  the number of actions dropped from the new chunk; indices and left-overs are
  read in separate critical sections. Correct: what is executed continues the
  plan; the two queues stay aligned.
* **Recording.** Two-flag messages from a keyboard thread, pictures written by other
  threads to places that are used again. Correct: a saved episode is one attempt with
  its own pictures; what was rejected is never saved; a stop ends the session.
* **Dataset writer and encoder.** `save_episode` writes data, video, metadata and
  `info.json` one after the other, metadata are buffered, files stay open over episodes;
  an exception, a kill or a dead encoder may come between any two. Correct: what a
  finished session counts can be read back as it was recorded; metadata never describe
  what is not there; what has been closed is never overwritten.
* **Replay buffer.** A ring filled field by field while another thread samples from it,
  whose next state may be in the next slot. Correct: it holds the last transitions in
  order, also after reload; no sample contains memory never written; a sample is
  one transition; a consumer gets its batch.
* **Actor and learner.** Three streams cut into chunks, queues drained to the last item,
  a shutdown event on each side, queues closed under the threads that use them, and either
  side may go first. Correct: transitions arrive without gap or repetition, the actor's
  weights never get older, an actor that is signalled or done ends.
* **Learner's checkpoints.** Weights, state, symlink and buffer are replaced one after
  the other. Correct: whenever the learner dies, `last` is a whole checkpoint or
  nothing, and a buffer whose save has returned is enough to train on.
* **LeKiwi and its camera.** A watchdog in the loop it watches, writes no motor
  acknowledges, a camera thread that may hang or outlive its camera. Correct: the base
  moves only while commands and pictures are recent, stands still at the end unless the last
  stop was lost and torque is to be left on, and the camera's thread ends.

`PROJECT.json` lists every component with its status and every hazard at its line.

## 2. Modules

| Module | Models | Built on |
|---|---|---|
| `ActionChunk` | a chunk of actions, as client and server agree on it | - |
| `PolicyServer` | the four RPC handlers on a pool of threads | `EXTENDS ActionChunk` |
| `RobotClient` | main thread and receiver thread of the client | `EXTENDS ActionChunk` |
| `AsyncInference` | one client, the server, gRPC and faults between them | `EXTENDS` both |
| `ActionPlan` | what an action queue promises (abstract) | - |
| `RTCActionQueue` | `ActionQueue` and `ActionInterpolator` between their two threads | refines `ActionPlan` |
| `RecordingSession` | `record()`, keyboard listener, image writer | - |
| `StreamingVideoEncoder` | one camera's queue and encoder thread | - |
| `DatasetWriter` | `save_episode` write by write, `finalize`, exceptions, kills, resumed sessions | `INSTANCE StreamingVideoEncoder` |
| `RecentTransitions` | what a replay buffer promises (abstract) | - |
| `ReplayBuffer` | the ring, its two iterators, save and load | refines `RecentTransitions` |
| `ChunkedStream` | a message cut into chunks and put together | - |
| `ActorLearner` | actor, learner service and training loop with their streams, signals and a kill | `INSTANCE ChunkedStream` |
| `LearnerCheckpoint` | the training loop with its saves step by step, and learners that resume | - |
| `Camera` | the read thread of a camera and what its users call | - |
| `LeKiwiHost` | the host's loop, watchdog, bus and shutdown, and time | `EXTENDS Camera` |
| `MC*` | the same modules for TLC: sets of model values, symmetry | |
| `AsyncInferenceProofs` (server, client and the two joined), `RTCActionQueueProofs`, `DatasetWriterProofs`, `ReplayBufferProofs`, `LearnerCheckpointProofs`, `LeKiwiHostProofs`, `RecordingSessionProofs`, `ActorLearnerProofs` | theorems and proofs | |

Every module keeps the names of the code for its attributes and its steps. The
definitions and the lines they model are listed in `PROJECT.json` under `map`.
Definitions whose comment begins with "Variant" are not part of the
specification: each is the definition after it with one mistake, and the runs
have to notice it. Variables marked "history" are not in the code; they record
what a property speaks of.

**Granularity.** A step ends where another thread can get in between: at each
read or write of shared state that no lock protects, at each lock release and at
each blocking call. What happens inside one critical section is one step.

**PolicyServer.** `pc[w]` is where thread `w` of the pool is in its handler; `arg`,
`ref` and `prev` are the handler's locals (the observation, the queue object it
has already loaded, `last_processed_obs` as it read it). `obsQueue` has one place
for every queue object `Ready` ever makes, and `current` is the one in
`self.observation_queue`: a `put` that blocks keeps hold of its own queue. An
observation is its timestep, `must_go` and a pose in one dimension, which is all
`observations_similar` looks at. `GetActions` is `BeginGet`, `TakeObservation` or
`GetTimesOut`, `MarkPredicted`, `Preprocess`, `PredictChunk`.

**RobotClient.** `ctl` and `rcv` are the two program counters. `actionQueue` is the
deque under `Queue`; the merge is `BeginIteration` (the reference, under the lock),
`EndIteration` or `IterationRaises` (the copy, outside it), one `MergeAction` for
each incoming action, `SwapQueue`. An action is its timestep: which of two
chunks an action comes from is not kept, so the aggregate function is not
modelled. The server is any process that answers with chunks which start at a
timestep the client has been at.

**AsyncInference.** The modules of server and client are joined by `EXTENDS`, so their
specifications and properties are `ServerSpec`, `ServerTypeOK`, `ClientSpec`, `ClientTypeOK`.
The client's two blocking calls are joined to the workers that
serve them. Faults, of which a behaviour has at most `MaxFaults`: a call broken
before or after its handler ran, a request sent again by the channel's retry
policy, an exception in a handler, in the robot or from the operator, the
client killed and a new one started while the server still works for the old.

**RTCActionQueue.** An action is its place in the motion planned, so that "the robot
goes back" and "jumps ahead" are comparisons of numbers. `late` (history) is by how many
actions the delays of the merges since the last action fell short of the actions consumed, `back`
its value when the action under way was taken. A chunk is labelled from
the first action of the left-over it was predicted with. `prod` is where
`get_actions` is: the index, the left-over, the left-over read again for
policies with relative actions, the merge are separate steps, as they are
separate critical sections. Commands are labels times `Multiplier`.

**RecordingSession.** A frame, and a picture, is the attempt it was taken in.
`writing` holds the flags the key handler has still to set, `pending` the
pictures handed to the writer's threads. A picture of frame `i` is written to
`images[i]`, a place the next attempt at the same episode uses again.

**DatasetWriter.** A frame is the take it belongs to and its place in it. `pc` goes through
`save_episode`: data rows, video (pictures encoded, or the streaming encoder finished),
metadata, `info.json`. `data` and `meta` are sequences of files with their rows and
whether they have been closed (a parquet file without footer cannot be read); whether a
file has reached its size limit is left open. `Raise` leaves through `finalize`, `Kill` does
not; `Resume` opens what can be read. `infoWhole` is whether `info.json`, truncated and written
in place, can be read. The longer video replaces the file of earlier episodes by `shutil.move` from
the system's temporary directory: `CopyFails` is that copy breaking off, after which any part of the
file is left (`torn`, history: the videos this happened to); the exception unwinds (`CopyRaises`) or
the process is killed. `hurt` remembers the first session killed or left within
`save_episode`: `EpisodesWhole` is not promised to the sessions after it (section 6).

**ReplayBuffer.** A slot has three fields, written by `add` in three steps: the state, the
next state (not kept with `optimize_memory`), the rest. `main` is the learner's thread,
`producer` the prefetching one; a sample is three reads. Transition `n` leads from state `n` to `n+1`.
The refinement maps the ring, read from its oldest slot, to the abstract `window`.

**ActorLearner.** Weights are the number of optimization steps they had, transitions the number of
their step. Each of the actor's three threads is a stream that is open, broken or
ended; the learner's handlers end with its event. The three queues are closed when the loop is left
(`Closed`): a `get` or a `put` that begins then raises, one under way (`getting`) may still return. A message of transitions goes through
`ChunkedStream`; parameters are one chunk.

**LearnerCheckpoint.** One action for each write of `save_training_checkpoint` and of
`update_last_checkpoint`. The saved buffer is written episode by episode; a save that an exception
or a second signal breaks off (`SaveBreaksOff`) leaves a smaller dataset that loads, because
`__del__` finalizes it. `whole` (history) is whether the save returned. The actor is what it puts in the two queues. Every learner process
that resumes has a new actor whose steps begin at 0, which is what the shift is for.

**Camera, LeKiwiHost.** Time passes in ticks: a frame is its age, and `cmdAge`, `late`,
`quiet`, `blind` are clocks that stop counting beyond their bounds, so behaviours are not
bounded. Every write on the bus may raise, or be lost without anyone knowing: `StopBaseLost`, `BaseLost`.
`disableTorque` is the setting `disable_torque_on_disconnect`, either way.
The host's steps are its calls; `Loop` is what the `try` of `main()` covers. The client is only
what it sends; a newer command replaces one not yet read (`CONFLATE`).

## 3. Runs

| Run | Expect | What it shows |
|---|---|---|
| `policy_server` | pass | `put` in `_enqueue_observation` can block, even for ever on a queue that `Ready` has replaced, but the pool is never used up by it, and the server is never left shut down |
| `robot_client` | pass | against any server: no timestep is jumped over, the queue is ordered and within one chunk |
| `async_faults` | pass | no timestep is jumped over by client and server together, with a fault of any kind |
| `async_timely` | pass | without faults, `put` never blocks, and the plan is executed although later observations are all similar, unless a chunk outran the `clear()` of an earlier flag (section 6) |
| `rtc_queue` | pass | alignment of the two queues, no loss without RTC, refinement of `ActionPlan`; actions and commands go forward but for what a delay fell short of the actions consumed, whatever the delay; progress while both threads live |
| `dataset_writer` | pass | with both ways of making videos, several sessions, exceptions and kills at any write: what a finished session counts is read back as recorded, metadata never describe what is not there, what has been closed is never overwritten, all three but for the pictures a failed copy over a video takes with it, and `save_episode` returns unless its encoder died with a full queue |
| `replay_buffer` | pass | with and without `optimize_memory` and prefetching: the ring is the last transitions in order, no batch has memory never written, without prefetching a batch is one transition, `next()` returns |
| `actor_learner` | pass | chunked transitions arrive once and in order, the actor's weights never get older, everything pushed arrives while both sides go on, an actor that is signalled or has taken its last step ends once the learner trains or is gone |
| `learner_checkpoint` | pass | a kill between any two writes of a save: `last` is whole; a buffer whose save returned is enough to train, over three learners, also after one that began with the rest of a save that broke off; training goes on |
| `lekiwi` | pass | commands and bus packets that fail or are lost, a camera that hangs or dies, Ctrl-C anywhere: the base moves only while commands and pictures are recent, stands still after `disconnect` unless the last stop was lost and the torque is left on; host and camera thread end |
| `recording` | pass | a saved episode is one attempt with its own pictures; what was cancelled is never saved; Escape ends the session; with a teleoperator every session ends |
| `recording_video` | violation | after a re-record a video contains pictures of the cancelled attempt |

A violation is a disagreement between the code and its own comments, tests or
docs; `PROJECT.json` quotes the line.

### Bounds

* `policy_server`: three threads (the pool has four) and one reset. Three is what the
  blocking cycle needs: two puts that race for one place and the reset that
  replaces it. The theorems of section 5 hold for any number.
* `robot_client`: chunks of three actions, timesteps up to 3. Two chunks overlap,
  arrive late and are merged in every position of the control loop.
* `async_*`: two workers, because the client has two threads that call, so that with
  a broken or resent call an unseen handler competes with the next; chunks of two,
  plan of three timesteps; one pose, with `Atol` 1 (everything is similar) or 0.
* `rtc_queue`: chunks of 4, threshold 3, delays from 1 to 5, so that merges come with an
  empty and with a non-empty queue, with delays equal to, above and below what was consumed,
  and with delays as long as a chunk and longer; a multiplier of 2 gives one command between
  two actions.
* `recording`: two episodes of up to two frames, a reset of one iteration and two
  keys in a session: enough for a re-record followed by any other key at any
  step, and for a shorter attempt after a longer one.
* `dataset_writer`: three takes of up to two frames, three sessions, two faults; a metadata
  buffer of two and an encoder queue of one. One episode more than the buffer holds, so that
  it is flushed by `save_episode` and by `finalize`; a session after a session after a fault;
  a queue that is full with the first frame. A copy that fails is one of the faults.
* `replay_buffer`: two slots, a queue of one batch, four transitions: the ring goes round once
  and is full from then on; a batch waits while the next is sampled.
* `actor_learner`: three steps, one chunk on its way, two parameters waiting; beyond one
  optimization step weights are not told apart. A message of one, two or three chunks is cut
  by a stop, a kill or the closing of the queues at every place.
* `learner_checkpoint`: three learners, a save at every second of five optimization steps, a
  threshold of two: a learner may die before, in and after its first and second save.
* `lekiwi`: all times are one tick but the age at which pictures are no longer told apart,
  and one failed read is forgiven. The theorems hold for any times.
* `MaxFaults`, `MaxResets`, `Horizon`, `MaxDelay`, `MaxPresses`, `MaxTakes`, `MaxSessions`, `MaxFrames`,
  `MaxTransitions`, `OnlineSteps`, `MaxEpisodes`, `MaxOptimized` and `MaxRuns` are the only
  bounds on behaviours; each is a guard of the action it limits.

`CHECK_DEADLOCK FALSE` is used where the program ends (client stopped, horizon
reached, session done, host or learner ended). The server never ends and is checked for deadlock.

## 4. Fairness and timing

* **Client and server** (`Fairness`): the two client threads, each handler that can go
  on, and delivery and answer of calls that are not broken are weakly fair. They
  are threads of an operating system and calls of gRPC; a pool thread that is free
  takes the call that waits. Nothing is assumed of faults.
* `PutBeatsTimeout`: a `GetActions` that waits does not time out (`obs_queue_timeout`,
  2 s) while another thread is between its `get_nowait()` and its `put()`, a few
  instructions apart.
* Nothing is assumed of how long inference takes (`inference_latency` only pads it, and may be 0)
  or when a chunk arrives. `PlanAdvances` therefore excepts, and names, the one
  interleaving that stops a client for ever: a chunk received while an observation that carries
  `must_go` is being sent, and the `clear()` after it (`outrun`).
* **RTC** (`FairSpec`): both threads run, and the actor, which looks at the queue in every
  control period, does take an action from a queue that is filled again and again
  (`SF_vars(Take)`). Nothing ties a delay to the number of actions consumed (`Delays` is
  `1..MaxDelay`): the latency is read before `merge` waits for its lock
  (`eval_with_real_robot.py:420`, `429`), the actor sleeps 1 ms less than its period (484), and
  `_check_and_resolve_delays` only warns. `KeepsMoving` excepts a thread that has died and
  chunks merged for ever with delays as long as themselves.
* **Recording** (`FairSpec`): main thread, image writer and the key handler that has begun
  run. Nobody need press a key. `StopEnds` holds in a reset without teleoperator,
  `SessionEnds` is stated only with one: see section 6.

* **Dataset writer** (`FairSpec`): the main thread goes on with a save or a `finalize` it has
  begun, and the encoder's thread runs. Neither recording another frame nor ending is assumed.
* **Replay buffer** (`FairSpec`): the producer thread runs and the learner goes on with a wait
  it has begun. The producer's puts may time out any number of times.
* **Actor and learner** (`FairSpec`): all threads and handlers run. `Act` is not fair: an
  environment may wait for a person between two steps, and what was pushed has to arrive
  meanwhile. An optimization step that
  pushes parameters is strongly fair: the code pushes whenever
  `policy_parameters_push_frequency` seconds have passed, so infinitely many steps
  contain infinitely many pushes. `LearnerCheckpoint`: the training loop runs.
* **LeKiwi** (`FairSpec`): both threads run, and a read of the hardware ends in some way (a
  process with a read that hangs for ever ends with its daemon thread in it). `WarmedUp` and
  `TimeIsUp` are strongly fair: `warmup_s` and `connection_time_s` end loops that pass by their
  test again and again. `MaxLate` is an assumption on timing: one iteration, its sleep
  included, takes at most so long. The bus and the socket calls have timeouts or do not block.

## 5. Proofs

TLAPS proves the following for every value of the constants that satisfies the
assumption its module names (`ServerAssumption`, `ClientAssumption`,
`ChunkAssumption`, `AsyncAssumption`, `QueueAssumption`, `WriterAssumption`, `BufferAssumption`,
`CheckpointAssumption`, `SessionAssumption`, `RLAssumption`, `CameraAssumption` with
`HostAssumption`: positive sizes, and values such as `None` that are not numbers or records).

| Theorem | States |
|---|---|
| `AsyncInferenceProofs!ServerTypeCorrect`, `PoolSurvives`, `ShutDownEnds` | `ServerTypeOK`, `PoolNeverExhausted`, `NeverLeftShutDown`, of the server with any callers |
| `AsyncInferenceProofs!ClientTypeCorrect`, `PlanWithoutGaps`, `QueueIsOneChunk` | `ClientTypeOK`, `NoTimestepSkipped`, `OneChunk`, of the client with any server |
| `AsyncInferenceProofs!FirstClientPlan` | `FirstClientNeverSkips`, of the two joined, with any number of faults |
| `AsyncInferenceProofs!PutFindsRoom` | `PutNeverBlocks`, of the two joined, if `MaxFaults` is 0 and whatever the timing |
| `RTCActionQueueProofs!TypeCorrect`, `KeepsPlan`, `OnlyForwards`, `Forward` | `TypeOK`, `PlanKept` (from `Aligned`, `NothingLost`, `Reached`), `NeverBackwards`, `CommandsForward` |
| `RTCActionQueueProofs!Implements` | `ImplementsPlan`: the queue refines `ActionPlan` |
| `DatasetWriterProofs!WriterTypeCorrect`, `MetadataNeverAhead` | `TypeOK`, `MetadataHasData` |
| `DatasetWriterProofs!DurableFilesStay` | `DurableStays`, an action property |
| `DatasetWriterProofs!EpisodesStayWhole` | `EpisodesWhole`, for every number of sessions, takes and faults |
| `ReplayBufferProofs!TypeCorrect`, `NoJunk`, `NaiveBatchIsTransition` | `TypeOK`, `NeverJunk`, `BatchIsTransition` |
| `ReplayBufferProofs!RingIsRecent` | `RingIsWindow`: the ring refines `RecentTransitions` |
| `LearnerCheckpointProofs!TypeCorrect`, `LastAlwaysWhole`, `SavedAlwaysTrains` | `TypeOK`, `LastIsWhole`, `SavedCanTrain` |
| `LeKiwiHostProofs!AlwaysAttended`, `AlwaysEndsStopped` | `MovesAttended`, `EndsStopped` |
| `RecordingSessionProofs!AlwaysOneAttempt`, `AlwaysOwnPictures`, `NeverRejected` | `EpisodeIsOneAttempt`, `PicturesOfFrames`, `RejectedNeverSaved` |
| `ActorLearnerProofs!AlwaysInOrder`, `NeverOlder` | `TransitionsInOrder`, `WeightsOnlyNewer` |

* **Pool.** `PoolNeverExhausted` is not inductive: by itself it
  does not rule out that the last free thread goes to a put on a queue that stays full.
  `PoolInv` says more:
  when every thread is at its put, the current queue is empty and one of the threads is
  going to fill that very queue. A thread gets to the put only after it has emptied the
  queue or seen it empty, and a reset, itself one of the threads, is not at a put.
  `ResetInv` counts the resets under way against the bound, for `TypeOK`.
* **No gaps.** `ClientInv` says of every sequence a thread holds that it has no
  gap to what was executed: the queue, the popped action, the incoming chunk, and the part
  of it merged so far, together with what is still to be merged. The moving
  `latest_action` can only drop from the new queue what has been executed or is held.
* **Client and server joined.** `PlanWithoutGaps` is about a client whose server answers with
  chunks of timesteps the client has been at. That the real server is one is the invariant
  `FirstInv`: whatever its queues and its handlers hold was sent by this client
  (`HoldsOnly(Sent)`), as long as no other client process has been started; so every step of
  the composition is a step of `ClientSpec` for the client's variables (`ClientSteps`) and
  of `ServerSpec` for the server's (`ServerSteps`), and the two components' invariants carry over.
* **A put finds room.** The client's main thread waits for every call it makes. Without faults
  the only worker that sends or resets (`Exclusive`) is therefore the one that serves its
  call, and between its look at the queue and its put nobody else fills it (`SoleInv`). With a resent call there are two such workers, and the put may block (section 6).
* **Dataset writer.** Neither property is inductive: a session that resumes knows only what it
  has loaded. `MetaInv` says that the metadata files hold their records in order, that no
  record names a data file or a video beyond the last record's, and that the session knows this
  last record, in `latestMeta` or as the last row loaded. `DataInv` says that the data file
  that is open is the last one written and has no footer, and `SaveInv` what a save
  under way has written already. It follows that a file that is opened anew is beyond everything a record
  names (`NoneBeyond`, `SaveDataFiles`, `SaveVideoFiles`), and the open ones only grow.
  That the last row loaded is the last one written is a fact about the recursive function in
  `FlattenSeq`; induction being out of reach, it is proved by the least counterexample
  (`Least`, from `WFMin` of the library; `FlattenLast`).
* **Episodes stay whole.** `EpisodesInv` says that every episode counted is found by its record, its
  rows at their place in the concatenation of all data files (`SavedKept`), until a session is killed, or one
  follows that was left within `save_episode` (`Sound`). In a session that is not hurt `InStep` says how far rows, records and videos are ahead
  of `info.json` at each step of a save, and that `latest` and `latestMeta` name the ends of what is
  written: this is why the next row and the next stretch of video begin where the record says.
  The pictures follow from `Pictured` (the image directory begins with those of the take,
  also when `clear` left older ones behind) or `Encoding` (encoded, in hand and queued are the take's frames, in
  order, up to the sentinel). The video a session goes on with, and that of a record it is about to save, is
  none that a copy left in part (`TornInv`), so what is excepted does not spread. A session that ends within a save may leave rows and records behind its last
  episode, which change nothing for those counted. How `FlattenSeq` grows is again
  proved by the least counterexample.
* **RTC.** `NeverBackwards` holds for every delay. It needs that the queue is a run of consecutive
  actions ahead of the robot, but for `late` (`AheadInv`) and, during inference, that the new
  chunk less the actions consumed since `indexBefore` begins ahead of the robot too, again but
  for `late` (`PredictionInv`): this is what links an index and a left-over read at different
  moments. A merge drops `delay` actions instead of `indexes_diff`, which costs the shortfall it adds to
  `late`, and nothing when the delay is long enough. `AppendInv` is the same
  without RTC, where inference begins on an empty queue. The refinement follows from
  these. `CommandInv` describes the interpolator's buffer between two actions.

* **Replay buffer.** That a batch has no junk needs that every slot below `size` is written,
  and, with `optimize_memory`, that the sampled index stays so far below it that the slot after
  it is too: the bound the producer read may be old, but `size` never shrinks. The
  refinement rests on arithmetic modulo the capacity: adding at `position` drops the first
  of the window and appends to it, or only appends while the ring is not full.
  `BatchIsTransition` has an invariant of its own (`WholeInv`): a slot that is not being
  written is one transition, and slots that follow each other hold transitions that do, except
  after one that was left out.
* **Checkpoints.** `IInv` adds to the two properties that a save under way has the step it
  began with (`SaveOfStep`), what each of its steps finds written (`WrittenSoFar`), and that
  a message waiting was sent by the present actor (`WaitingWasSent`), which bounds its
  number from below by the shift.
* **LeKiwi.** The time since the last command is bounded by where the host is: a command
  waits at most for the rest of an iteration (`CommandRecent`), the watchdog's clock lags
  at most two iterations behind, and a watchdog that looked and was not yet over looks
  again an iteration later (`MovingRecent`). A watchdog that has fired implies a base at rest, or a stop that was lost, until
  the next command has been marked. `FramesInOrder`, a frame being stored is newer
  than the one it replaces, keeps a picture that passed from becoming old by a step of the camera's thread.
* **Recording.** Whatever is under way is of the present attempt: the frames of the buffer
  (`BufferOfAttempt`), the pictures the writer has still to write (`PendingOfBuffer`) and,
  with images, the files in the directory (`ImagesOfBuffer`). What is saved was taken before (`SavedBefore`), so an attempt is saved once. `CancelSeen`: an attempt
  that was cancelled stays marked to be recorded again until `record()` decides about it.
* **Actor and learner.** While the stream of transitions is open, five sequences follow each
  other without a gap: what the learner has whole, its buffer of chunks, the chunks on their
  way, those still to be sent, and what the actor has queued (`ChunksInOrder`,
  `ActorInOrder`). The receiver reads only the state of a chunk, so `ChunksWhole` is
  needed too: a beginning follows an end, and finds the buffer empty. When the stream breaks,
  all but the first is lost, and the first is kept as it is, because a broken stream is never opened again. The learner's end never
  runs ahead of the steps of ended episodes; this is kept step by step, since that numbers in
  a sequence of messages only grow would take an induction. `WeightInv` says the same of
  weights: the actor's, those waiting, the one on its way, those pushed, and
  the learner's, as long as the learner may still send.

The inductive invariants were checked by TLC before they were proved.

Only model-checked: all liveness, which is beyond the prover. Every invariant
and every action property that a run checks is proved, but for those listed here.
`PutNeverBlocks` is proved without faults only, because it is false with them. The `TypeOK` of
`AsyncInference`, `RecordingSession`, `DatasetWriter` and `ActorLearner` is no property of a
run: it documents the types of the variables; that of `DatasetWriter` is proved.

## 6. Behaviour worth knowing

The run marked "violation" above, and the following, met while modelling and not
runs of their own. The properties are worded so that they hold of the code as it is;
where one makes an exception, the exception is listed here.

**Asynchronous inference**

* **An action can be executed twice.** An action popped but not yet recorded in
  `latest_action` is merged again (`robot_client.py:242`; "`_update_action_queue` must drop
  actions with `timestep` <= `latest_action`",
  `tests/async_inference/test_robot_client.py:95`).
* **`must_go` can stay clear for ever.** "must-go event will be set again after receiving
  actions" (`robot_client.py:436`), but a chunk merged before the `clear()` in the next line, its own
  or that of an older observation, has set it too early; the robot then stands still if all
  observations are similar (`outrun`).
* **No action after one fault.** "If there are no actions left in the queue, the observation must
  go through processing!" (`robot_client.py:427`): after a broken call, a failed inference or
  a resent `Ready` the flag stays clear and observations are filtered for ever.
* **A new session inherits a filter.** "Flushes server state when new client connects."
  (`policy_server.py:100`): `last_processed_obs` is not reset, so the first observation of a new
  client may be dropped as similar to the previous client's.
* **Either thread of the client can end.** "Protect queue operations" (`robot_client.py:126`): the
  merge iterates over the deque outside the lock (line 236), a `get_nowait()` in between raises
  `RuntimeError` and ends the receiver; `actions_available()` and `get_nowait()` (lines
  470, 378) are two critical sections, and a merge in between may put an empty queue in place:
  `queue.Empty` ends the control loop.
* **A must-go observation can be lost.** The test says "An observation with `must_go=True`
  is always enqueued" (`tests/async_inference/test_policy_server.py:144`). Between
  `full()` and `get_nowait()` (`policy_server.py:301-303`) `GetActions` may empty the queue;
  `get_nowait()` raises `queue.Empty`.
* **`put` can block.** "never blocks as queue is non-full here" (`policy_server.py:306`)
  holds without faults (`async_timely`); when a `SendObservations` is resent while the
  first still runs, two handlers race for one place.
* **A killed client's observation can enter the new session's queue**: its handler loads
  `self.observation_queue` after `Ready` has replaced it (`policy_server.py:102`).
* **`actions_per_chunk = 1`** is accepted (`configs.py:179`), yet such a chunk holds only the
  timestep already executed.
* **The default of `chunk_size_threshold`** is 0.5 (`configs.py:137`); the table of
  `docs/source/async.mdx` (line 254) shows 0.7.

**RTC queue**

* **The first RTC chunk loses its first actions.** `_replace_actions_queue` "discards the first
  `real_delay` actions since they correspond to the time spent during inference, when the
  robot was executing previous actions" (`action_queue.py:178`); before the first chunk
  the robot executes nothing. Actions are skipped in the same way whenever the queue runs
  dry, and for relative actions whenever the left-over is read again. This is why
  `NeverBackwards` says that actions go forward and not that none is skipped.
* **The robot can go back.** When more actions were consumed than the delay says, the merge warns
  (`action_queue.py:237-244`) and drops too few: actions already executed are executed again, as many as
  the delay fell short. It takes no long latency: any that is just below a multiple of the period,
  or a merge that waits for the lock.
* **A delay as long as the chunk** leaves an empty queue (`action_queue.py:186`): with such latencies
  the robot gets nothing, or only what it takes before the next chunk, and nothing says so.
* **`sys.exit` in a thread** of `examples/rtc/eval_with_real_robot.py` (lines 440, 490) ends that
  thread only: the actor thread goes on without actions, or the inference thread without anyone who
  takes them. The human-in-the-loop example replaces
  `queue_holder["queue"]` (`examples/hil/hil_data_collection.py:799`) while the inference thread may
  still merge into the old queue.

**Recording and datasets**

* **A key pressed while an episode is saved** leaves `exit_early` set. The next episode then has
  no frame, `validate_episode_buffer` raises and the session ends
  (`datasets/feature_utils.py:352`): `SaveRaises`.
* **A reset without teleoperator does not end after `reset_time_s`**: the iteration ends in
  `continue` before the time is read (`lerobot_record.py:468`). Only a key ends it, and
  without a keyboard (headless) nothing does.
* **Batched encoding always raises.** With `video_encoding_batch_size > 1` the episode's metadata
  are looked up in `meta.episodes` (`dataset_writer.py:335`), which is `None` or as old as the session.
* **A dead encoder can hang the recorder.** `finish_episode` puts its sentinel without a timeout
  (`video_utils.py:846`): when the thread has died with a full queue nobody makes room.
* **A dropped frame shifts the video.** A frame `feed_frame` drops leaves no gap; every later
  row of the episode is shown the picture of a later one (`dropped` in `EpisodesWhole`).
* **A copy that fails takes earlier episodes with it.** `concatenate_video_files` writes to the system's
  temporary directory and moves the result over the existing video (`video_utils.py:529-563`). When that
  directory is on another file system this truncates and copies: Ctrl-C, a kill or a full disk in
  it leaves a broken video for all episodes that were in the file, counted and closed ones included
  (`torn`, excepted by `EpisodesWhole`, `MetadataHasData` and `DurableStays`).
* **`info.json` is truncated and written in place** (`io_utils.py:118-119`): an exception or a kill in it
  spoils the file (`infoWhole`), and the dataset cannot be opened any more.
* **What was killed may not be readable.** Data and metadata files have no footer until they are
  closed. "If an issue occurs, you can resume by re-running the same command"
  (`docs/source/il_robots.mdx:345`): a session killed, or left inside `save_episode`, for instance
  between metadata and `info.json`, can leave data of an episode nobody counts, and the
  episodes a resumed session adds are then not read back as recorded (`hurt`).

**Reinforcement learning**

* **`optimize_memory` gives a wrong next state** for an episode that was truncated (SAC masks only
  `done`), for the newest transition of a full ring, and for one followed by a transition left
  out because of a NaN (`Misled`). A prefetched sample may be torn: half of it the
  transition that was in the slot before.
* **One transition cannot be sampled with `optimize_memory`**: `randint(0, 0)` raises. With the naive
  iterator the learner ends; the prefetching producer dies, and its consumer waits for ever in a
  `get()` it has entered.
* **A reload forgets truncation**: the dataset in a checkpoint has no such column.
* **The last transitions are lost.** `actor_cli` closes its queues as soon as the loop is left
  (`actor.py:188-190`), by a signal or after the last step. The next `get` of a sender raises
  `ValueError` in the request generator, which cancels the call: messages still queued are never sent, and
  those on their way may not arrive. The transitions of an episode that has not ended are never queued.
* **The actor's end depends on the learner.** `receive_policy` sits in its stream until the learner
  pushes parameters, and notices a signal, or a closed queue, only then: before training begins
  neither a signal nor the last step ends the actor (`ActorEnds`). Its streams never
  reconnect when the learner dies. "The process continues until the specified step limit is reached"
  (`docs/source/hilserl.mdx:844`): the learner never looks at `online_steps`.
* **`parameters_queue` grows without an actor** to take from it.
* **Interventions never reach the offline buffer**: the learner looks for them in
  `complementary_info` (`learner.py:1162`), where the actor puts only the discrete penalty
  (`actor.py:330`).
* **A resumed learner has new weights.** "Set `resume` to true to resume a previous run"
  (`configs/train.py:45`): `handle_resume_logic` (`learner.py:815`) returns the configuration of the
  checkpoint, while `pretrained_path` was set on the one it replaces; the optimizers' state
  and step go on.
* **The interaction step is saved as 0** when no message was waiting in the iteration of the save
  (`learner.py:371`, `710`), though `save_training_checkpoint` "Saves the current interaction step
  for resuming training".
* **A save that breaks off can leave a smaller buffer that loads.** When an exception or a second signal leaves
  the loop of `to_lerobot_dataset` (`buffer.py:570-607`), `__del__` of writer and metadata finalizes
  what was written (`dataset_writer.py:630-634`, `dataset_metadata.py:170-174`). A resumed learner loads
  it without a word, waits until it has enough transitions again, and has lost the others
  (`whole` in `SavedCanTrain`).
* **A kill can leave a checkpoint nobody can resume from**: the saved buffer is removed before the new one
  is written (`learner.py:738`), and between unlinking and linking there is no `last`
  (`train_utils.py:61-66`); a new run then refuses the directory, with `resume` and without.

**Mobile base and cameras**

* **A lost stop is never repeated.** "stop the robot if no command is received for over 0.5 seconds"
  (`config_lekiwi.py:61`): the stop is a `sync_write`, which "*does not* expects a response status
  packet emitted by the motor, which can allow for lost packets" (`motors_bus.py:1227`). When it is
  lost, `watchdog_active` is set already, and the base moves on until the next command or the
  end of the loop (`stopLost`). When the last stop is lost, only disabling the torque ends it, and
  `disable_torque_on_disconnect` (`config_lekiwi.py:39`) may be off: the base then drives on after the
  host has ended (`EndsStopped`).
* **The watchdog is as late as its loop**: besides its timeout the base moves for up to four
  iterations (`LongestQuiet`), since `last_cmd_time` is the time a command was carried out, not sent.
* **A host that is killed**, or whose bus fails in the last stop, leaves the base moving. So does a
  camera whose device reports itself closed: `disconnect` requires all cameras connected
  (`lekiwi.py:410`, `109`) and raises before it stops the base.
* **The first command is carried out before a picture is looked at.**
* **`async_read` can return a frame twice.** It "return[s] the latest unconsumed frame"
  (`cameras/camera.py:132`); between the store, under the lock, and `new_frame_event.set()` a
  consumer woken by an older event takes the new frame, and the `set()` offers it again.
* **A read that hangs longer than the join's two seconds** outlives `stop_event`; the thread then ends
  with an `AttributeError`. If the camera has been connected again meanwhile, it
  reads the new event and goes on as a second reader.
* **Cluster IK without messages never ends**: while the target is stale the loop continues before it
  looks at `control_time_s` (`lerobot_cluster_ik.py:537`).

## 7. Not modelled

* Action values, images, codecs, networks, processors, kinematics, bus protocols: data and
  device input and output the properties do not tell apart. They are most of the
  repository's lines (`policies/`, `processor/`, `motors/`, `datasets/dataset_tools.py`), are sequential, and
  have no state that several actors share.
* `PolicyServer.stop`, `ActionQueue.clear`, `ActionInterpolator.reset`: not called by the
  programs modelled.
* Recording: batched encoding, which raises; the hub; several cameras at once (the
  encoders are independent); the image writer's processes (its threads are modelled).
* Dataset writer: a `shutil.move` within one file system, a rename, is the case of `CopyFails` never
  happening.
* Actor and learner: several actors, processes instead of threads, the environment and the
  intervention device, transitions with a NaN, which the learner leaves out
  (`learner.py:1150-1157`). The offline buffer, which gets nothing.
* LeKiwi's client beyond its commands; `read()` and reconnecting of a camera; the RealSense depth
  stream and the ZMQ image server.
* Human-in-the-loop collection, the OSC teleoperator and cluster IK: section 8.
* Reading and editing of datasets, processors, policies and training loops: sequential.

## 8. Plan

What is left, in this order:

1. `RecordingSession` composed with `DatasetWriter`, which takes the place of its abstract
   `save`.
2. `HumanInTheLoop`: RTC queue and recording loop with pause, correction and the
   replacement of the queue under the inference thread.
3. `Teleoperation`: the OSC target's age and the loop of cluster IK.
4. Reconnecting in `Camera`, with the second reader of section 6.
