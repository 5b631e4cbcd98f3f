----------------------- MODULE RTCActionQueueProofs ------------------------
(***************************************************************************)
(* Proofs about RTCActionQueue, for every chunk size, threshold, longest   *)
(* delay and interpolation multiplier.                                     *)
(*                                                                         *)
(* NeverBackwards is not inductive.  It needs that the queue is a run of   *)
(* consecutive actions beyond the one taken last (or behind it by less     *)
(* than merges since fell short, late), and that during inference the new  *)
(* chunk, less the actions consumed since indexBefore, begins there too,   *)
(* however many the actor takes in the meantime.                           *)
(***************************************************************************)
EXTENDS RTCActionQueue, SequenceTheorems, TLAPS

-----------------------------------------------------------------------------
(* The inductive invariant.                                                *)

Waiting == queue # None /\ lastIndex < Len(queue)

\* What is queued is a run of the plan and lies ahead of the robot, but for what
\* merges fell short since the last action.
AheadInv ==
  /\ queue # None =>
       \A i \in 1..(Len(queue) - 1) : queue[i + 1] = queue[i] + 1
  /\ Waiting => last - late < queue[lastIndex + 1]

\* The chunk being predicted lies ahead of the robot once the actions taken
\* since indexBefore are dropped from it, and will if the robot goes on.
PredictionInv ==
  /\ prod \in {"leftover", "observe", "infer"} => indexBefore <= lastIndex
  /\ prod \in {"observe", "infer"} =>
       /\ last - late < anchor + lastIndex - indexBefore
       /\ Waiting => queue[lastIndex + 1] <= anchor + lastIndex - indexBefore

\* Without RTC inference begins on an empty queue, and it stays empty.
AppendInv ==
  ~enabled =>
    /\ prod \in {"index", "leftover", "observe", "infer"} => ~Waiting
    /\ prod \in {"observe", "infer"} => anchor = last + 1
    /\ Waiting => queue[lastIndex + 1] = last + 1

IInv == TypeOK /\ QueuesAligned /\ AheadInv /\ PredictionInv /\ AppendInv /\ NoActionLost

-----------------------------------------------------------------------------
(* Lemmas.                                                                 *)

\* A predicted chunk is a run of ChunkSize actions from anchor on.
LEMMA ChunkShape ==
  ASSUME anchor \in Nat
  PROVE  /\ PredictedChunk \in Seq(Nat)
         /\ Len(PredictedChunk) = ChunkSize
         /\ \A i \in 1..ChunkSize : PredictedChunk[i] = anchor + i - 1
BY QueueAssumption DEF PredictedChunk

\* What is cut from a queue at index m.
LEMMA CutShape ==
  ASSUME NEW q \in Seq(Nat), NEW m \in 0..Len(q)
  PROVE  /\ SubSeq(q, m + 1, Len(q)) \in Seq(Nat)
         /\ Len(SubSeq(q, m + 1, Len(q))) = Len(q) - m
         /\ \A i \in 1..(Len(q) - m) : SubSeq(q, m + 1, Len(q))[i] = q[m + i]
<1>1. /\ Len(q) \in Nat
      /\ \A i \in (m + 1)..Len(q) : q[i] \in Nat
  OBVIOUS
<1>2. /\ SubSeq(q, m + 1, Len(q)) \in Seq(Nat)
      /\ Len(SubSeq(q, m + 1, Len(q))) =
           IF m + 1 <= Len(q) THEN Len(q) - (m + 1) + 1 ELSE 0
      /\ \A i \in 1..(Len(q) - (m + 1) + 1) :
           SubSeq(q, m + 1, Len(q))[i] = q[m + 1 + i - 1]
  BY <1>1, SubSeqProperties
<1> QED
  BY <1>1, <1>2

\* A queue with a chunk behind it.
LEMMA ExtendedShape ==
  ASSUME NEW q \in Seq(Nat), NEW c \in Seq(Nat)
  PROVE  /\ q \o c \in Seq(Nat)
         /\ Len(q \o c) = Len(q) + Len(c)
         /\ \A i \in 1..Len(c) : (q \o c)[Len(q) + i] = c[i]
<1>1. Len(q) \in Nat /\ Len(c) \in Nat
  OBVIOUS
<1>2. /\ q \o c \in Seq(Nat)
      /\ Len(q \o c) = Len(q) + Len(c)
      /\ \A i \in 1..(Len(q) + Len(c)) :
           (q \o c)[i] = IF i <= Len(q) THEN q[i] ELSE c[i - Len(q)]
  BY ConcatProperties
<1>3. ASSUME NEW i \in 1..Len(c) PROVE (q \o c)[Len(q) + i] = c[i]
  <2>1. /\ Len(q) + i \in 1..(Len(q) + Len(c))
        /\ ~(Len(q) + i <= Len(q)) /\ Len(q) + i - Len(q) = i
    BY <1>1
  <2> QED
    BY <1>2, <2>1
<1> QED
  BY <1>2, <1>3

\* What is cut from an extended queue when all of it has been consumed is the
\* chunk behind it.
LEMMA ConsumedIsCut ==
  ASSUME NEW q \in Seq(Nat), NEW c \in Seq(Nat)
  PROVE  SubSeq(q \o c, Len(q) + 1, Len(q \o c)) = c
<1> DEFINE left == SubSeq(q \o c, Len(q) + 1, Len(q \o c))
<1>1. /\ q \o c \in Seq(Nat)
      /\ Len(q \o c) = Len(q) + Len(c)
      /\ \A i \in 1..Len(c) : (q \o c)[Len(q) + i] = c[i]
  BY ExtendedShape
<1>2. Len(q) \in 0..Len(q \o c) /\ Len(q \o c) - Len(q) = Len(c)
  <2>1. Len(q) \in Nat /\ Len(c) \in Nat
    OBVIOUS
  <2> QED
    BY <1>1, <2>1
<1>3. /\ left \in Seq(Nat)
      /\ Len(left) = Len(c)
      /\ \A i \in 1..Len(c) : left[i] = (q \o c)[Len(q) + i]
  BY <1>1, <1>2, CutShape
<1> HIDE DEF left
<1>4. left = c
  BY <1>1, <1>3, SeqEqual
<1> QED
  BY <1>4 DEF left

\* No queue is None.
LEMMA NoneIsNoQueue == None \notin Seq(Nat)
BY QueueAssumption, SeqMonotonic

\* The interpolator's buffer is never empty after add().
LEMMA BufferShape ==
  ASSUME NEW action \in Nat, prev \in Nat \cup {None}
  PROVE  /\ Interpolation(action) \in Seq(Int)
         /\ Len(Interpolation(action)) \in Nat \ {0}
<1>1. CASE Multiplier > 1 /\ prev # None
  <2>1. \A i \in 1..Multiplier : prev * Multiplier + i * (action - prev) \in Int
    BY <1>1, QueueAssumption
  <2> DEFINE b == [i \in 1..Multiplier |-> prev * Multiplier + i * (action - prev)]
  <2>2. b \in [1..Multiplier -> Int]
    BY <2>1
  <2>3. b \in Seq(Int) /\ Len(b) = Multiplier
    BY <2>2, QueueAssumption
  <2> QED
    BY <1>1, <2>3, QueueAssumption DEF Interpolation
<1>2. CASE ~(Multiplier > 1 /\ prev # None)
  <2>1. action * Multiplier \in Int
    BY QueueAssumption
  <2>2. Interpolation(action) = <<action * Multiplier>>
    BY <1>2 DEF Interpolation
  <2> QED
    BY <2>1, <2>2
<1> QED
  BY <1>1, <1>2

\* A chunk predicted now begins with the next action of the queue.
LEMMA NextLabelShape ==
  ASSUME TypeOK, QueuesAligned
  PROVE  /\ NextLabel \in Nat
         /\ Waiting => NextLabel = queue[lastIndex + 1]
         /\ ~Waiting => NextLabel = last + 1
<1>1. CASE queue = None
  <2>1. ~Waiting /\ qsize = 0
    BY <1>1 DEF Waiting, qsize
  <2>2. NextLabel = last + 1 /\ last + 1 \in Nat
    BY <2>1 DEF NextLabel, TypeOK
  <2> QED
    BY <2>1, <2>2
<1>2. CASE queue # None
  <2>1. /\ queue \in Seq(Nat) /\ lastIndex \in 0..Len(queue) /\ last \in Nat \cup {-1}
        /\ originalQueue = queue /\ qsize = Len(queue) - lastIndex
    BY <1>2 DEF TypeOK, QueuesAligned, qsize
  <2>2. Waiting <=> qsize > 0
    BY <1>2, <2>1 DEF Waiting
  <2>3. CASE Waiting
    <3>1. lastIndex + 1 \in 1..Len(queue)
      BY <2>1, <2>3 DEF Waiting
    <3>2. queue[lastIndex + 1] \in Nat
      BY <2>1, <3>1
    <3> QED
      BY <2>1, <2>2, <2>3, <3>2 DEF NextLabel
  <2>4. CASE ~Waiting
    BY <2>1, <2>2, <2>4 DEF NextLabel
  <2> QED
    BY <2>3, <2>4
<1> QED
  BY <1>1, <1>2

\* merge() leaves a run of the chunk, less the delay with RTC, and the whole chunk
\* without; late grows by what the delay lacks of the actions consumed since
\* indexBefore.
LEMMA MergeShape ==
  ASSUME IInv, Merge
  PROVE  /\ queue' \in Seq(Nat)
         /\ originalQueue' = queue'
         /\ lastIndex' = 0
         /\ Len(queue') <= ChunkSize
         /\ ~enabled => Len(queue') = ChunkSize
         /\ \E d \in Nat :
              /\ late' \in Nat /\ late' >= late
              /\ enabled => late' >= late + indexes_diff - d
              /\ ~enabled => d = 0
              /\ \A i \in 1..Len(queue') : queue'[i] = anchor + d + i - 1
<1> DEFINE chunk == PredictedChunk
<1>1. /\ chunk \in Seq(Nat)
      /\ Len(chunk) = ChunkSize
      /\ \A i \in 1..ChunkSize : chunk[i] = anchor + i - 1
  BY ChunkShape DEF IInv, TypeOK
<1>2. /\ lastIndex \in Nat /\ indexBefore \in Nat /\ anchor \in Nat /\ ChunkSize \in Nat
      /\ late \in Nat
  BY QueueAssumption DEF IInv, TypeOK
<1> HIDE DEF chunk
<1>3. CASE enabled
  <2>1. PICK d \in Delays : Replace(chunk, d) /\ late' = late + Shortfall(d)
    BY <1>3 DEF Merge, chunk
  <2>2. d \in Nat /\ late' \in Nat /\ late' >= late /\ late' >= late + indexes_diff - d
    BY <1>2, <2>1, QueueAssumption DEF Delays, Shortfall, indexes_diff
  <2> DEFINE c == IF d < Len(chunk) THEN d ELSE Len(chunk)
  <2>3. c \in 0..Len(chunk)
    BY <1>1, <1>2, <2>2
  <2>4. /\ queue' = SubSeq(chunk, c + 1, Len(chunk))
        /\ originalQueue' = queue'
        /\ lastIndex' = 0
    BY <2>1 DEF Replace
  <2>5. /\ queue' \in Seq(Nat)
        /\ Len(queue') = Len(chunk) - c
        /\ \A i \in 1..(Len(chunk) - c) : queue'[i] = chunk[c + i]
    BY <1>1, <2>3, <2>4, CutShape
  <2>6. ASSUME NEW i \in 1..Len(queue')
        PROVE  queue'[i] = anchor + d + i - 1
    <3>1. c = d /\ c + i \in 1..ChunkSize
      BY <1>1, <1>2, <2>2, <2>3, <2>5, <2>6
    <3> QED
      BY <1>1, <1>2, <2>2, <2>5, <2>6, <3>1
  <2>7. Len(queue') <= ChunkSize
    BY <1>1, <1>2, <2>3, <2>5
  <2> HIDE DEF c
  <2> QED
    BY <1>3, <2>2, <2>4, <2>5, <2>6, <2>7
<1>4. CASE ~enabled
  <2>1. Extend(chunk) /\ late' = late
    BY <1>4 DEF Merge, chunk
  <2>2. ~Waiting
    BY <1>4 DEF IInv, AppendInv, Merge
  <2>3. queue' = chunk /\ originalQueue' = chunk /\ lastIndex' = 0
    <3>1. CASE queue = None
      BY <2>1, <3>1 DEF Extend
    <3>2. CASE queue # None
      <4>1. /\ queue \in Seq(Nat) /\ lastIndex = Len(queue)
            /\ originalQueue = queue
        BY <2>2, <3>2 DEF Waiting, IInv, TypeOK, QueuesAligned
      <4>2. SubSeq(queue \o chunk, lastIndex + 1, Len(queue \o chunk)) = chunk
        BY <1>1, <4>1, ConsumedIsCut
      <4> QED
        BY <2>1, <3>2, <4>1, <4>2 DEF Extend, LeftOver
    <3> QED
      BY <3>1, <3>2
  <2>4. \A i \in 1..Len(queue') : queue'[i] = anchor + 0 + i - 1
    BY <1>1, <1>2, <2>3
  <2>5. 0 \in Nat /\ late' \in Nat /\ late' >= late
    BY <1>2, <2>1
  <2> QED
    BY <1>1, <1>2, <1>4, <2>3, <2>4, <2>5
<1> QED
  BY <1>3, <1>4

\* The robot is sent the interpolator's next command, unless the thread raises
\* before.
Sending ==
  /\ act = "loop"
  /\ \/ act' = act /\ sent' = buffer'[bufferIndex']
     \/ act' = "dead" /\ sent' \in {sent, buffer'[bufferIndex']}

ActorTakes    == GetAction /\ Sending
ActorCommands == GetCommand /\ Sending

\* The steps of Next, one disjunct each.
LEMMA NextCases ==
  Next => \/ BeginInference \/ EndProducer \/ ReadIndex \/ ReadLeftOver \/ Observe
          \/ Merge \/ ActorTakes \/ ActorCommands \/ InferenceFails \/ ShutDown \/ EndActor
<1>1. Take \/ Interpolate \/ ActorFails => ActorTakes \/ ActorCommands
  BY DEF Take, Interpolate, ActorFails, ActorTakes, ActorCommands, Sending, GetAction, GetCommand
<1> QED
  BY <1>1 DEF Next, ProducerStep, ActorStep

-----------------------------------------------------------------------------
(* The invariant is inductive.                                             *)

\* The invariant holds of a new queue.
LEMMA InvInit == Init => IInv
<1> SUFFICES ASSUME Init PROVE IInv
  OBVIOUS
<1>1. /\ buffer \in Seq(Int) /\ bufferIndex \in 0..Len(buffer)
      /\ prod \in {"poll", "index", "leftover", "observe", "infer", "dead", "done"}
  BY DEF Init
<1>2. enabled \in BOOLEAN /\ shutdown \in BOOLEAN
  BY DEF Init
<1>3. TypeOK
  BY <1>1, <1>2 DEF Init, TypeOK
<1> QED
  BY <1>3 DEF Init, IInv, QueuesAligned, AheadInv, PredictionInv, AppendInv, NoActionLost,
              Waiting

\* No step takes an attribute out of its type.
LEMMA TypeStep == IInv /\ [Next]_vars => TypeOK'
<1> SUFFICES ASSUME IInv, [Next]_vars PROVE TypeOK'
  OBVIOUS
<1>0. TypeOK /\ QueuesAligned
  BY DEF IInv
<1>1. CASE BeginInference
  BY <1>0, <1>1 DEF TypeOK, BeginInference, queueVars, actorVars
<1>2. CASE EndProducer
  BY <1>0, <1>2 DEF TypeOK, EndProducer, queueVars, actorVars
<1>3. CASE ReadIndex
  BY <1>0, <1>3 DEF TypeOK, ReadIndex, queueVars, actorVars
<1>4. CASE ReadLeftOver
  BY <1>0, <1>4, NextLabelShape DEF TypeOK, ReadLeftOver, queueVars, actorVars
<1>5. CASE Observe
  <2>1. anchor' \in Nat
    BY <1>0, <1>5, NextLabelShape DEF TypeOK, Observe
  <2> QED
    BY <1>0, <1>5, <2>1 DEF TypeOK, Observe, queueVars, actorVars
<1>6. CASE Merge
  <2>1. /\ queue' \in Seq(Nat) /\ originalQueue' \in Seq(Nat)
        /\ lastIndex' = 0 /\ queue' # None /\ late' \in Nat
    BY <1>6, MergeShape, NoneIsNoQueue
  <2> QED
    BY <1>0, <1>6, <2>1 DEF TypeOK, Merge, actorVars
<1>7. CASE ActorTakes
  <2> DEFINE action == queue[lastIndex + 1]
  <2>0. GetAction /\ Sending
    BY <1>7 DEF ActorTakes
  <2>1. queue \in Seq(Nat) /\ lastIndex + 1 \in 1..Len(queue) /\ action \in Nat
    BY <1>0, <2>0 DEF TypeOK, GetAction
  <2>2. /\ buffer' \in Seq(Int) /\ Len(buffer') \in Nat \ {0}
        /\ last' = action /\ prev' = action /\ late' = 0 /\ back' = late
        /\ lastIndex' = lastIndex + 1 /\ queue' = queue /\ bufferIndex' = 1
    BY <1>0, <2>0, <2>1, BufferShape DEF TypeOK, GetAction
  <2>3. bufferIndex' \in 0..Len(buffer') /\ buffer'[bufferIndex'] \in Int
    BY <2>2
  <2>4. sent' \in Int \cup {None} /\ act' \in {"loop", "dead"}
    BY <1>0, <2>0, <2>3 DEF TypeOK, Sending
  <2>5. late \in Nat
    BY <1>0 DEF TypeOK
  <2> QED
    BY <1>0, <2>0, <2>1, <2>2, <2>3, <2>4, <2>5 DEF TypeOK, GetAction, prodVars
<1>8. CASE ActorCommands
  <2>0. GetCommand /\ Sending
    BY <1>8 DEF ActorCommands
  <2>1. bufferIndex + 1 \in 1..Len(buffer) /\ buffer'[bufferIndex'] \in Int
    BY <1>0, <2>0 DEF TypeOK, GetCommand, needs_new_action
  <2>2. sent' \in Int \cup {None} /\ act' \in {"loop", "dead"}
    BY <1>0, <2>0, <2>1 DEF TypeOK, Sending
  <2> QED
    BY <1>0, <2>0, <2>1, <2>2 DEF TypeOK, GetCommand, queueVars, prodVars
<1>9. CASE InferenceFails
  BY <1>0, <1>9 DEF TypeOK, InferenceFails, queueVars, actorVars
<1>10. CASE ShutDown
  BY <1>0, <1>10 DEF TypeOK, ShutDown, queueVars, prodVars, actorVars
<1>11. CASE UNCHANGED vars
  BY <1>0, <1>11 DEF TypeOK, vars, queueVars, prodVars, actorVars
<1>12. CASE EndActor
  BY <1>0, <1>12 DEF TypeOK, EndActor, queueVars, prodVars
<1> QED
  BY <1>1, <1>2, <1>3, <1>4, <1>5, <1>6, <1>7, <1>8, <1>9, <1>10, <1>11, <1>12, NextCases

\* What the steps other than GetAction and Merge leave alone.
LEMMA OtherSteps ==
  ASSUME [Next]_vars, ~GetAction, ~Merge
  PROVE  UNCHANGED <<enabled, queue, originalQueue, lastIndex, last, count, late>>
BY NextCases DEF BeginInference, EndProducer, ReadIndex, ReadLeftOver, Observe, GetCommand,
     InferenceFails, ShutDown, EndActor, ActorTakes, ActorCommands, vars, queueVars,
     prodVars, actorVars

\* No step changes one of the two queues alone.
LEMMA AlignedStep == IInv /\ [Next]_vars => QueuesAligned'
<1> SUFFICES ASSUME IInv, [Next]_vars PROVE QueuesAligned'
  OBVIOUS
<1>1. CASE Merge
  BY <1>1, MergeShape DEF QueuesAligned
<1>2. CASE ~Merge
  BY <1>2, OtherSteps DEF IInv, QueuesAligned, GetAction
<1> QED
  BY <1>1, <1>2

\* What is queued stays ahead of the robot: get() moves both on, and merge() drops
\* what the robot has done meanwhile.
LEMMA AheadStep == IInv /\ [Next]_vars => AheadInv'
<1> SUFFICES ASSUME IInv, [Next]_vars PROVE AheadInv'
  OBVIOUS
<1>0. TypeOK /\ AheadInv /\ PredictionInv /\ AppendInv
  BY DEF IInv
<1>1. CASE Merge
  <2>1. PICK d \in Nat :
          /\ late' \in Nat /\ late' >= late
          /\ enabled => late' >= late + indexes_diff - d
          /\ ~enabled => d = 0
          /\ \A i \in 1..Len(queue') : queue'[i] = anchor + d + i - 1
    BY <1>1, MergeShape
  <2>2. queue' \in Seq(Nat) /\ lastIndex' = 0 /\ last' = last
    BY <1>1, MergeShape DEF Merge, actorVars
  <2>3. last - late' < anchor + d
    <3>1. /\ prod = "infer" /\ anchor \in Nat /\ last \in Int /\ late \in Nat
          /\ lastIndex \in Nat /\ indexBefore \in Nat
          /\ indexes_diff = lastIndex - indexBefore
      BY <1>0, <1>1 DEF Merge, TypeOK, indexes_diff
    <3>2. CASE enabled
      <4>1. last - late < anchor + lastIndex - indexBefore
        BY <1>0, <3>1 DEF PredictionInv
      <4>2. d \in Nat /\ late' \in Nat /\ late' >= late + lastIndex - indexBefore - d
        BY <2>1, <3>1, <3>2
      <4>3. \A e \in Nat : e >= late + lastIndex - indexBefore - d => last - e < anchor + d
        BY <3>1, <4>1, <4>2
      <4> QED
        BY <4>2, <4>3
    <3>3. CASE ~enabled
      <4>1. anchor = last + 1
        BY <1>0, <3>1, <3>3 DEF AppendInv
      <4>2. d = 0 /\ late' \in Nat
        BY <2>1, <3>3
      <4>3. \A e \in Nat : last - e < anchor + 0
        BY <3>1, <4>1
      <4> QED
        BY <4>2, <4>3
    <3>4. enabled \in BOOLEAN
      BY <1>0 DEF TypeOK
    <3> QED
      BY <3>2, <3>3
  <2>4. anchor \in Nat /\ last \in Int /\ Len(queue') \in Nat
    BY <1>0, <2>2 DEF TypeOK
  <2>5. \A i \in 1..(Len(queue') - 1) : queue'[i + 1] = queue'[i] + 1
    BY <2>1, <2>4
  <2>6. 0 < Len(queue') => last - late' < queue'[1]
    <3>1. 0 < Len(queue') => queue'[1] = anchor + d + 1 - 1
      BY <2>1, <2>4
    <3>2. late' \in Nat /\ d \in Nat
      BY <2>1
    <3>3. \A e \in Nat : last - e < anchor + d => last - e < anchor + d + 1 - 1
      BY <2>4, <3>2
    <3> QED
      BY <2>3, <3>1, <3>2, <3>3
  <2> QED
    BY <2>2, <2>5, <2>6 DEF AheadInv, Waiting
<1>2. CASE GetAction
  <2>1. /\ queue' = queue /\ lastIndex' = lastIndex + 1 /\ last' = queue[lastIndex + 1]
        /\ queue # None /\ lastIndex < Len(queue) /\ late' = 0
    BY <1>2 DEF GetAction
  <2>2. queue \in Seq(Nat) /\ lastIndex \in Nat
    BY <1>0, <2>1 DEF TypeOK
  <2>3. lastIndex + 1 < Len(queue) => queue[lastIndex + 2] = queue[lastIndex + 1] + 1
    <3> SUFFICES ASSUME lastIndex + 1 < Len(queue)
                 PROVE  queue[lastIndex + 2] = queue[lastIndex + 1] + 1
      OBVIOUS
    <3>1. lastIndex + 1 \in 1..(Len(queue) - 1) /\ lastIndex + 2 = (lastIndex + 1) + 1
      BY <2>2
    <3> QED
      BY <1>0, <2>1, <3>1 DEF AheadInv
  <2>4. lastIndex + 1 < Len(queue) => last' < queue[lastIndex + 2]
    BY <2>1, <2>2, <2>3
  <2>5. Waiting' => last' - late' < queue'[lastIndex' + 1]
    <3>1. lastIndex + 1 \in 1..Len(queue) /\ last' \in Nat
      BY <2>1, <2>2
    <3>2. lastIndex' + 1 = lastIndex + 2 /\ last' - late' = last'
      BY <2>1, <2>2, <3>1
    <3> QED
      BY <2>1, <2>2, <2>4, <3>2 DEF Waiting
  <2> QED
    BY <1>0, <2>1, <2>5 DEF AheadInv
<1>3. CASE ~Merge /\ ~GetAction
  BY <1>0, <1>3, OtherSteps DEF AheadInv, Waiting
<1> QED
  BY <1>1, <1>2, <1>3

\* Without RTC, the chunk appended begins where the robot has stopped.
LEMMA AppendStep == IInv /\ [Next]_vars => AppendInv' /\ NoActionLost'
<1> SUFFICES ASSUME IInv, [Next]_vars PROVE AppendInv' /\ NoActionLost'
  OBVIOUS
<1>0. TypeOK /\ QueuesAligned /\ AppendInv /\ NoActionLost /\ AheadInv
  BY DEF IInv
<1>1. CASE Merge
  <2>1. /\ ~enabled => Len(queue') = ChunkSize
        /\ ~enabled => \A i \in 1..Len(queue') : queue'[i] = anchor + i - 1
        /\ lastIndex' = 0 /\ last' = last /\ count' = count /\ enabled' = enabled
        /\ prod = "infer" /\ prod' = "poll" /\ anchor \in Nat
    <3>1. /\ ~enabled => Len(queue') = ChunkSize
          /\ \E d \in Nat : /\ ~enabled => d = 0
                            /\ \A i \in 1..Len(queue') : queue'[i] = anchor + d + i - 1
          /\ lastIndex' = 0
      BY <1>1, MergeShape
    <3> QED
      BY <1>0, <1>1, <3>1 DEF Merge, actorVars, TypeOK
  <2>2. ~enabled => queue'[1] = last + 1
    BY <1>0, <2>1, QueueAssumption DEF AppendInv
  <2> QED
    BY <1>0, <2>1, <2>2 DEF AppendInv, NoActionLost, Waiting
<1>2. CASE GetAction
  <2>1. /\ queue' = queue /\ lastIndex' = lastIndex + 1 /\ last' = queue[lastIndex + 1]
        /\ count' = count + 1 /\ enabled' = enabled /\ prod' = prod /\ anchor' = anchor
        /\ Waiting
    BY <1>2 DEF GetAction, prodVars, Waiting
  <2>2. queue \in Seq(Nat) /\ lastIndex \in Nat /\ count \in Nat
    BY <1>0, <2>1 DEF TypeOK, Waiting
  <2>3. Waiting' => queue[lastIndex + 2] = queue[lastIndex + 1] + 1
    <3> SUFFICES ASSUME Waiting'
                 PROVE  queue[lastIndex + 2] = queue[lastIndex + 1] + 1
      OBVIOUS
    <3>1. lastIndex + 1 \in 1..(Len(queue) - 1) /\ lastIndex + 2 = (lastIndex + 1) + 1
      BY <2>1, <2>2 DEF Waiting
    <3> QED
      BY <1>0, <2>1, <3>1 DEF AheadInv, Waiting
  <2>4. ~enabled => last' = count' - 1
    BY <1>0, <2>1, <2>2 DEF AppendInv, NoActionLost
  <2>5. Waiting' => queue'[lastIndex' + 1] = last' + 1
    <3>1. lastIndex' + 1 = lastIndex + 2
      BY <2>1, <2>2
    <3> QED
      BY <2>1, <2>3, <3>1
  <2> QED
    BY <1>0, <2>1, <2>4, <2>5 DEF AppendInv, NoActionLost
<1>3. CASE ~Merge /\ ~GetAction
  <2>1. UNCHANGED <<enabled, queue, originalQueue, lastIndex, last, count, late>>
    BY <1>3, OtherSteps
  <2>2. UNCHANGED Waiting /\ NoActionLost'
    BY <1>0, <2>1 DEF Waiting, NoActionLost
  <2>3. CASE BeginInference
    <3>1. ~enabled => ~Waiting
      BY <1>0, <2>3, QueueAssumption DEF BeginInference, Limit, qsize, TypeOK, Waiting
    <3> QED
      BY <1>0, <2>1, <2>2, <2>3, <3>1 DEF AppendInv, BeginInference
  <2>4. CASE ReadLeftOver
    BY <1>0, <2>1, <2>2, <2>4, NextLabelShape DEF AppendInv, ReadLeftOver
  <2>5. CASE Observe
    BY <1>0, <2>1, <2>2, <2>5, NextLabelShape DEF AppendInv, Observe
  <2>6. CASE ReadIndex
    BY <1>0, <2>1, <2>2, <2>6 DEF AppendInv, ReadIndex
  <2>7. CASE EndProducer \/ InferenceFails
    BY <1>0, <2>1, <2>2, <2>7 DEF AppendInv, EndProducer, InferenceFails
  <2>8. CASE UNCHANGED prodVars
    BY <1>0, <2>1, <2>2, <2>8 DEF AppendInv, prodVars
  <2>9. ShutDown \/ EndActor \/ ActorCommands \/ UNCHANGED vars => UNCHANGED prodVars
    BY DEF ShutDown, EndActor, ActorCommands, GetCommand, vars
  <2> QED
    BY <1>3, <2>3, <2>4, <2>5, <2>6, <2>7, <2>8, <2>9, NextCases DEF ActorTakes
<1> QED
  BY <1>1, <1>2, <1>3

\* The chunk being predicted stays ahead of the robot: an action taken during
\* inference moves last_index on with it.
LEMMA PredictionStep == IInv /\ [Next]_vars => PredictionInv'
<1> SUFFICES ASSUME IInv, [Next]_vars PROVE PredictionInv'
  OBVIOUS
<1>0. TypeOK /\ QueuesAligned /\ AheadInv /\ PredictionInv
  BY DEF IInv
<1>1. CASE Merge
  BY <1>1 DEF Merge, PredictionInv
<1>2. CASE GetAction
  <2>1. /\ queue' = queue /\ lastIndex' = lastIndex + 1 /\ last' = queue[lastIndex + 1]
        /\ prod' = prod /\ anchor' = anchor /\ indexBefore' = indexBefore /\ Waiting
        /\ late' = 0
    BY <1>2 DEF GetAction, prodVars, Waiting
  <2>2. /\ queue \in Seq(Nat) /\ lastIndex \in Nat /\ indexBefore \in Nat /\ anchor \in Nat
        /\ queue[lastIndex + 1] \in Nat
    BY <1>0, <2>1 DEF TypeOK, Waiting
  <2>3. Waiting' => queue[lastIndex + 2] = queue[lastIndex + 1] + 1
    <3> SUFFICES ASSUME Waiting'
                 PROVE  queue[lastIndex + 2] = queue[lastIndex + 1] + 1
      OBVIOUS
    <3>1. lastIndex + 1 \in 1..(Len(queue) - 1) /\ lastIndex + 2 = (lastIndex + 1) + 1
      BY <2>1, <2>2 DEF Waiting
    <3> QED
      BY <1>0, <2>1, <3>1 DEF AheadInv, Waiting
  <2>4. lastIndex' + 1 = lastIndex + 2
    BY <2>1, <2>2
  <2> QED
    BY <1>0, <2>1, <2>2, <2>3, <2>4 DEF PredictionInv
<1>3. CASE ~Merge /\ ~GetAction
  <2>1. UNCHANGED <<enabled, queue, originalQueue, lastIndex, last, count, late>>
    BY <1>3, OtherSteps
  <2>2. Waiting' = Waiting /\ lastIndex \in Nat /\ last \in Int /\ late \in Nat
    BY <1>0, <2>1 DEF Waiting, TypeOK
  <2>3. CASE ReadIndex
    BY <1>0, <2>1, <2>2, <2>3 DEF PredictionInv, ReadIndex
  <2>4. CASE ReadLeftOver \/ Observe
    <3>1. /\ indexBefore \in Nat /\ indexBefore <= lastIndex /\ indexBefore' = indexBefore
          /\ anchor \in Nat /\ NextLabel \in Nat
      BY <1>0, <2>4, NextLabelShape DEF TypeOK, PredictionInv, ReadLeftOver, Observe
    <3>2. /\ last - late < NextLabel
          /\ Waiting => queue[lastIndex + 1] <= NextLabel
      BY <1>0, <2>2, <3>1, NextLabelShape DEF AheadInv
    <3>3. CASE anchor' = NextLabel
      <4>1. last - late < anchor' + lastIndex - indexBefore
        BY <2>2, <3>1, <3>2, <3>3
      <4>2. Waiting => queue[lastIndex + 1] <= anchor' + lastIndex - indexBefore
        BY <2>2, <3>1, <3>3, NextLabelShape, <1>0
      <4> QED
        BY <2>1, <2>2, <3>1, <4>1, <4>2 DEF PredictionInv
    <3>4. CASE Observe /\ anchor' = anchor
      BY <1>0, <2>1, <2>2, <3>1, <3>4 DEF PredictionInv, Observe
    <3> QED
      BY <2>4, <3>3, <3>4 DEF ReadLeftOver, Observe
  <2>5. CASE BeginInference \/ EndProducer \/ InferenceFails
    BY <2>5 DEF PredictionInv, BeginInference, EndProducer, InferenceFails
  <2>6. CASE UNCHANGED prodVars
    BY <1>0, <2>1, <2>2, <2>6 DEF PredictionInv, prodVars
  <2>7. ShutDown \/ EndActor \/ ActorCommands \/ UNCHANGED vars => UNCHANGED prodVars
    BY DEF ShutDown, EndActor, ActorCommands, GetCommand, vars
  <2> QED
    BY <1>3, <2>3, <2>4, <2>5, <2>6, <2>7, NextCases DEF ActorTakes
<1> QED
  BY <1>1, <1>2, <1>3

-----------------------------------------------------------------------------
(* The queue.                                                              *)

\* Everything the invariant says of the two queues, the index and the chunk being
\* predicted holds of every behaviour of the two threads.
THEOREM InductiveInvariant == Spec => []IInv
<1>1. IInv /\ [Next]_vars => IInv'
  BY TypeStep, AlignedStep, AheadStep, PredictionStep, AppendStep DEF IInv
<1> QED
  BY <1>1, InvInit, PTL DEF Spec

\* The attributes keep their types and last_index stays within the queue: qsize()
\* is never negative, get() never reads outside the tensor.
THEOREM TypeCorrect == Spec => []TypeOK
<1>1. IInv => TypeOK
  BY DEF IInv
<1> QED
  BY <1>1, InductiveInvariant, PTL

\* original_queue and queue stay in step through merge() and get().
THEOREM Aligned == Spec => []QueuesAligned
<1>1. IInv => QueuesAligned
  BY DEF IInv
<1> QED
  BY <1>1, InductiveInvariant, PTL

\* Without RTC no action of a chunk is lost: get() returns the plan's actions one
\* after the other.
THEOREM NothingLost == Spec => []NoActionLost
<1>1. IInv => NoActionLost
  BY DEF IInv
<1> QED
  BY <1>1, InductiveInvariant, PTL

\* The robot goes forward in the plan, whatever the actor consumes between the
\* index, the left-over, the observation and the merge, but for what merges since
\* the last action fell short of the actions consumed.
THEOREM OnlyForwards == Spec => NeverBackwards
<1>1. IInv /\ [Next]_vars => (count' # count => last' > last - late)
  <2> SUFFICES ASSUME IInv, [Next]_vars, count' # count PROVE last' > last - late
    OBVIOUS
  <2>1. CASE GetAction
    BY <2>1 DEF GetAction, IInv, AheadInv, Waiting, TypeOK
  <2>2. CASE ~GetAction
    BY <2>2, OtherSteps DEF Merge, actorVars
  <2> QED
    BY <2>1, <2>2
<1>2. IInv /\ [Next]_vars => [count' # count => last' > last - late]_vars
  BY <1>1
<1> QED
  BY <1>2, InductiveInvariant, PTL DEF Spec, NeverBackwards

-----------------------------------------------------------------------------
(* The queue implements ActionPlan.                                        *)

\* What ActionPlan calls remaining.
Remaining == IF queue = None THEN <<>> ELSE LeftOver(queue)

\* A new queue is an empty plan.
LEMMA PlanInit == Init => Plan!Init
BY DEF Init, Plan!Init

\* get() takes the head of what remains.
LEMMA PlanTake == IInv /\ GetAction => Plan!Take
<1> SUFFICES ASSUME IInv, GetAction PROVE Plan!Take
  OBVIOUS
<1>1. /\ queue \in Seq(Nat) /\ queue # None /\ queue' = queue /\ lastIndex' = lastIndex + 1
      /\ lastIndex + 1 \in 1..Len(queue) /\ last' = queue[lastIndex + 1]
      /\ enabled' = enabled
  BY DEF IInv, TypeOK, GetAction
<1>2. Len(queue) \in (lastIndex + 1)..Len(queue)
  BY <1>1
<1>3. /\ Head(SubSeq(queue, lastIndex + 1, Len(queue))) = queue[lastIndex + 1]
      /\ Tail(SubSeq(queue, lastIndex + 1, Len(queue)))
           = SubSeq(queue, (lastIndex + 1) + 1, Len(queue))
  BY <1>1, <1>2, HeadTailOfSubSeq
<1>4. SubSeq(queue, lastIndex + 1, Len(queue)) # <<>>
  <2>1. lastIndex \in 0..Len(queue) /\ Len(queue) - lastIndex > 0
    BY <1>1 DEF IInv, TypeOK
  <2> DEFINE left == SubSeq(queue, lastIndex + 1, Len(queue))
  <2>2. Len(left) = Len(queue) - lastIndex
    BY <1>1, <2>1, CutShape
  <2> HIDE DEF left
  <2>3. Len(left) \in Nat \ {0}
    BY <1>1, <2>1, <2>2
  <2>4. left # <<>>
    BY <2>3
  <2> QED
    BY <2>4 DEF left
<1>5. /\ Remaining = SubSeq(queue, lastIndex + 1, Len(queue))
      /\ Remaining' = SubSeq(queue, (lastIndex + 1) + 1, Len(queue))
  BY <1>1 DEF Remaining, LeftOver
<1>6. Remaining # <<>> /\ last' = Head(Remaining) /\ Remaining' = Tail(Remaining)
  BY <1>1, <1>3, <1>4, <1>5
<1> QED
  BY <1>1, <1>6 DEF Plan!Take, Remaining

\* merge() replaces what remains by a run of the plan, or extends it by a chunk.
LEMMA PlanMerge == IInv /\ Merge => Plan!Replace \/ Plan!Extend
<1> SUFFICES ASSUME IInv, Merge PROVE Plan!Replace \/ Plan!Extend
  OBVIOUS
<1>1. PICK d \in Nat : \A i \in 1..Len(queue') : queue'[i] = anchor + d + i - 1
  BY MergeShape
<1>2. /\ queue' \in Seq(Nat) /\ queue' # None /\ lastIndex' = 0
      /\ Len(queue') <= ChunkSize
      /\ ~enabled => Len(queue') = ChunkSize
      /\ enabled' = enabled /\ last' = last /\ anchor \in Nat /\ enabled \in BOOLEAN
  BY MergeShape, NoneIsNoQueue DEF Merge, actorVars, IInv, TypeOK
<1>3. Remaining' = queue'
  <2>1. Remaining' = SubSeq(queue', 0 + 1, Len(queue'))
    BY <1>2 DEF Remaining, LeftOver
  <2> QED
    BY <1>2, <2>1, SubSeqFull
<1>4. \A i \in 1..(Len(queue') - 1) : queue'[i + 1] = queue'[i] + 1
  BY <1>1, <1>2
<1>5. CASE enabled
  <2> DEFINE q == queue'
  <2>1. /\ q \in Seq(Nat) /\ Len(q) <= ChunkSize
        /\ \A i \in 1..(Len(q) - 1) : q[i + 1] = q[i] + 1
    BY <1>2, <1>4
  <2>2. /\ Remaining' \in Seq(Nat) /\ Len(Remaining') <= ChunkSize
        /\ \A i \in 1..(Len(Remaining') - 1) : Remaining'[i + 1] = Remaining'[i] + 1
    BY <1>3, <2>1, Zenon
  <2> QED
    BY <1>2, <1>5, <2>2 DEF Plan!Replace, Plan!Consecutive, Remaining
<1>6. CASE ~enabled
  <2>1. Remaining = <<>>
    <3>1. queue # None => lastIndex = Len(queue) /\ queue \in Seq(Nat)
      BY <1>6 DEF IInv, AppendInv, Merge, Waiting, TypeOK
    <3>2. queue # None => SubSeq(queue, lastIndex + 1, Len(queue)) = <<>>
      <4> SUFFICES ASSUME queue # None
                   PROVE  SubSeq(queue, lastIndex + 1, Len(queue)) = <<>>
        OBVIOUS
      <4>1. Len(queue) \in Int /\ lastIndex + 1 \in Int /\ Len(queue) < lastIndex + 1
        BY <3>1
      <4> QED
        BY <4>1, SubSeqEmpty
    <3> QED
      BY <3>2 DEF Remaining, LeftOver
  <2> DEFINE q == queue'
  <2>2. /\ q \in Seq(Nat) /\ Len(q) = Len(<<>>) + ChunkSize
        /\ \A i \in 1..Len(<<>>) : q[i] = <<>>[i]
        /\ \A i \in (Len(<<>>) + 1)..(Len(q) - 1) : q[i + 1] = q[i] + 1
    BY <1>2, <1>4, <1>6, QueueAssumption
  <2>3. /\ Remaining' \in Seq(Nat)
        /\ Len(Remaining') = Len(Remaining) + ChunkSize
        /\ \A i \in 1..Len(Remaining) : Remaining'[i] = Remaining[i]
        /\ \A i \in (Len(Remaining) + 1)..(Len(Remaining') - 1) :
             Remaining'[i + 1] = Remaining'[i] + 1
    BY <1>3, <2>1, <2>2, Zenon
  <2> QED
    BY <1>2, <1>6, <2>3 DEF Plan!Extend, Remaining
<1> QED
  BY <1>2, <1>5, <1>6

\* The queue of the source, with its index, its critical sections and the two
\* threads that use it, is the abstract plan: takes from the head, and either
\* replaces of the whole or extensions at the end.
THEOREM Implements == Spec => ImplementsPlan
<1>1. IInv /\ [Next]_vars => [Plan!Next]_(Plan!planVars)
  <2> SUFFICES ASSUME IInv, [Next]_vars PROVE [Plan!Next]_(Plan!planVars)
    OBVIOUS
  <2>1. CASE GetAction
    BY <2>1, PlanTake DEF Plan!Next
  <2>2. CASE Merge
    BY <2>2, PlanMerge DEF Plan!Next
  <2>3. CASE ~GetAction /\ ~Merge
    <3>1. UNCHANGED <<enabled, queue, lastIndex, last>>
      BY <2>3, OtherSteps
    <3> QED
      BY <3>1 DEF Plan!planVars, LeftOver
  <2> QED
    BY <2>1, <2>2, <2>3
<1> QED
  BY <1>1, PlanInit, InductiveInvariant, PTL DEF Spec, ImplementsPlan, Plan!Spec

-----------------------------------------------------------------------------
(* The interpolator.                                                       *)

\* What is left of the buffer leads from the last command to the action taken, and
\* goes back by less than back at each command.  A thread that raised may not have
\* sent the command it was at.
CommandInv ==
  IF prev = None
    THEN sent = None /\ buffer = <<>> /\ bufferIndex = 0
    ELSE /\ prev = last
         /\ bufferIndex \in 1..Len(buffer)
         /\ act # "dead" => sent = buffer[bufferIndex]
         /\ buffer[Len(buffer)] = prev * Multiplier
         /\ \A i \in 1..(Len(buffer) - 1) : buffer[i + 1] > buffer[i] - back

\* add() leads from the previous action to the new one; when that is behind by less
\* than k, every command is behind the one before by less than k.
LEMMA InterpolationShape ==
  ASSUME NEW action \in Nat, NEW k \in Nat, prev \in Nat \cup {None},
         prev # None => action > prev - k
  PROVE  LET b == Interpolation(action)
         IN  /\ b \in Seq(Int) /\ Len(b) \in Nat \ {0}
             /\ b[Len(b)] = action * Multiplier
             /\ \A i \in 1..(Len(b) - 1) : b[i + 1] > b[i] - k
             /\ prev # None => b[1] > prev * Multiplier - k
<1> DEFINE b == Interpolation(action)
<1>0. b \in Seq(Int) /\ Len(b) \in Nat \ {0}
  BY BufferShape
<1>1. CASE Multiplier > 1 /\ prev # None
  <2>1. PICK d \in Int : d = action - prev /\ d > -k /\ prev \in Nat
    BY <1>1
  <2>2. b = [i \in 1..Multiplier |-> prev * Multiplier + i * (action - prev)]
    BY <1>1 DEF Interpolation
  <2>3. /\ Len(b) = Multiplier /\ Multiplier \in Nat
        /\ \A i \in 1..Multiplier : b[i] = prev * Multiplier + i * d
    BY <1>1, <2>1, <2>2, QueueAssumption
  <2>4. prev * Multiplier + Multiplier * d = action * Multiplier
    <3>1. action = prev + d
      BY <2>1
    <3>2. \A p, m, e \in Int : p * m + m * e = (p + e) * m
      OBVIOUS
    <3> QED
      BY <2>1, <2>3, <3>1, <3>2
  <2>5. ASSUME NEW i \in Nat PROVE (i + 1) * d = i * d + d /\ i * d \in Int
    BY <2>1
  <2>6. ASSUME NEW i \in 1..(Len(b) - 1) PROVE b[i + 1] > b[i] - k
    <3>1. i \in 1..Multiplier /\ i + 1 \in 1..Multiplier /\ i \in Nat
      BY <2>3
    <3>2. prev * Multiplier \in Nat
      BY <2>1, <2>3
    <3>3. b[i] = prev * Multiplier + i * d /\ b[i + 1] = prev * Multiplier + (i + 1) * d
      BY <2>3, <3>1
    <3> HIDE DEF b
    <3> QED
      BY <2>1, <2>5, <3>1, <3>2, <3>3
  <2>7. b[1] > prev * Multiplier - k
    <3>1. 1 \in 1..Multiplier /\ 1 * d = d
      BY <1>1, <2>1, <2>3
    <3>2. b[1] = prev * Multiplier + 1 * d
      BY <2>3, <3>1
    <3>3. prev * Multiplier \in Nat
      BY <2>1, <2>3
    <3> HIDE DEF b
    <3> QED
      BY <2>1, <3>1, <3>2, <3>3
  <2>8. b[Len(b)] = action * Multiplier
    <3>1. Multiplier \in 1..Multiplier
      BY <1>1, <2>3
    <3> QED
      BY <2>3, <2>4, <3>1
  <2> QED
    BY <1>0, <2>6, <2>7, <2>8
<1>2. CASE ~(Multiplier > 1 /\ prev # None)
  <2>1. b = <<action * Multiplier>> /\ action * Multiplier \in Int
    BY <1>2, QueueAssumption DEF Interpolation
  <2>2. prev # None => action * Multiplier > prev * Multiplier - k
    <3>1. prev # None => Multiplier = 1 /\ prev \in Nat /\ action > prev - k
      BY <1>2, QueueAssumption
    <3> QED
      BY <3>1
  <2> HIDE DEF b
  <2> QED
    BY <1>0, <2>1, <2>2 DEF b
<1> QED
  BY <1>1, <1>2

\* A new interpolator has sent nothing.
LEMMA CommandInit == Init => CommandInv
BY DEF Init, CommandInv

\* What add() is given when the actor takes an action, and what it returns.
LEMMA ActionAdded ==
  ASSUME IInv, CommandInv, ActorTakes
  PROVE  /\ last' \in Nat /\ prev' = last' /\ bufferIndex' = 1
         /\ back' \in Nat
         /\ buffer' \in Seq(Int) /\ Len(buffer') \in Nat \ {0}
         /\ buffer'[Len(buffer')] = last' * Multiplier
         /\ \A i \in 1..(Len(buffer') - 1) : buffer'[i + 1] > buffer'[i] - back'
         /\ prev # None => buffer'[1] > prev * Multiplier - back'
<1> DEFINE action == queue[lastIndex + 1]
<1>0. TypeOK /\ AheadInv /\ GetAction
  BY DEF IInv, ActorTakes
<1>1. /\ action \in Nat /\ last - late < action /\ prev \in Nat \cup {None} /\ late \in Nat
      /\ last' = action /\ prev' = action /\ bufferIndex' = 1 /\ back' = late
      /\ buffer' = Interpolation(action) /\ last \in Int
  BY <1>0 DEF TypeOK, AheadInv, Waiting, GetAction
<1>2. prev # None => action > prev - late
  BY <1>1 DEF CommandInv
<1> HIDE DEF action
<1> QED
  BY <1>1, <1>2, InterpolationShape

\* No step leads the buffer away from the action taken last.
LEMMA CommandStep == IInv /\ CommandInv /\ [Next]_vars => CommandInv'
<1> SUFFICES ASSUME IInv, CommandInv, [Next]_vars PROVE CommandInv'
  OBVIOUS
<1>0. TypeOK
  BY DEF IInv
<1>1. CASE ActorTakes
  <2>1. prev' # None /\ bufferIndex' \in 1..Len(buffer')
    BY <1>1, ActionAdded, QueueAssumption
  <2>2. act' # "dead" => sent' = buffer'[bufferIndex']
    BY <1>1 DEF ActorTakes, Sending
  <2> QED
    BY <1>1, <2>1, <2>2, ActionAdded DEF CommandInv
<1>2. CASE ActorCommands
  <2>1. /\ UNCHANGED <<prev, buffer, last, back>> /\ bufferIndex' = bufferIndex + 1
        /\ bufferIndex < Len(buffer)
        /\ act' # "dead" => sent' = buffer'[bufferIndex']
    BY <1>0, <1>2 DEF ActorCommands, Sending, GetCommand, needs_new_action, TypeOK
  <2>2. prev # None
    BY <1>0, <2>1 DEF CommandInv, TypeOK
  <2>3. bufferIndex' \in 1..Len(buffer)
    BY <1>0, <2>1, <2>2 DEF CommandInv, TypeOK
  <2> QED
    BY <2>1, <2>2, <2>3 DEF CommandInv
<1>3. CASE ~ActorTakes /\ ~ActorCommands
  <2>1. /\ UNCHANGED <<prev, buffer, bufferIndex, sent, last, back>>
        /\ act' # "dead" => act # "dead"
    BY <1>3, NextCases DEF BeginInference, EndProducer, ReadIndex, ReadLeftOver, Observe, Merge,
         InferenceFails, ShutDown, EndActor, vars, actorVars
  <2> QED
    BY <2>1 DEF CommandInv
<1> QED
  BY <1>1, <1>2, <1>3

\* The interpolator always leads from the last command to the action taken last.
THEOREM CommandInvariant == Spec => [](IInv /\ CommandInv)
BY CommandInit, CommandStep, InductiveInvariant, PTL DEF Spec

\* When the interpolator asks for a new action, the robot has been sent exactly
\* the one before it, unless the thread has raised.
THEOREM Reached == Spec => []ActionReached
<1>1. IInv /\ CommandInv => ActionReached
  BY DEF IInv, TypeOK, CommandInv, ActionReached, needs_new_action
<1> QED
  BY <1>1, CommandInvariant, PTL

\* The three together: the plan reaches the robot whole.
THEOREM KeepsPlan == Spec => []PlanKept
BY Aligned, NothingLost, Reached, PTL DEF PlanKept

\* The commanded position moves forward for any multiplier, but for what the merges
\* fell short of.
THEOREM Forward == Spec => CommandsForward
<1> DEFINE Ahead == sent # None => sent' = sent \/ sent' > sent - back'
<1>1. IInv /\ CommandInv /\ [Next]_vars => Ahead
  <2> SUFFICES ASSUME IInv, CommandInv, [Next]_vars, sent # None, sent' # sent
               PROVE  sent' > sent - back'
    OBVIOUS
  <2>0. TypeOK /\ prev # None /\ prev \in Nat /\ sent \in Int /\ back \in Nat
    BY DEF IInv, CommandInv, TypeOK
  <2>1. CASE ActorTakes
    <3>1. sent' = buffer'[1] /\ needs_new_action /\ act # "dead"
      BY <2>1, ActionAdded DEF ActorTakes, Sending, GetAction
    <3>2. sent = prev * Multiplier
      BY <2>0, <3>1 DEF CommandInv, needs_new_action, TypeOK
    <3> QED
      BY <2>0, <2>1, <3>1, <3>2, ActionAdded
  <2>2. CASE ActorCommands
    <3>1. /\ sent' = buffer[bufferIndex + 1] /\ sent = buffer[bufferIndex] /\ back' = back
          /\ bufferIndex \in 1..(Len(buffer) - 1) /\ buffer \in Seq(Int)
      BY <2>0, <2>2 DEF ActorCommands, Sending, GetCommand, needs_new_action, TypeOK, CommandInv
    <3>2. buffer[bufferIndex + 1] > buffer[bufferIndex] - back
      BY <2>0, <3>1 DEF CommandInv
    <3> QED
      BY <3>1, <3>2
  <2>3. CASE ~ActorTakes /\ ~ActorCommands
    <3>1. sent' = sent
      BY <2>3, NextCases DEF BeginInference, EndProducer, ReadIndex, ReadLeftOver, Observe,
           Merge, InferenceFails, ShutDown, EndActor, vars, actorVars
    <3> QED
      BY <3>1
  <2> QED
    BY <2>1, <2>2, <2>3
<1>2. IInv /\ CommandInv /\ [Next]_vars => [Ahead]_vars
  BY <1>1
<1> QED
  BY <1>2, CommandInvariant, PTL DEF Spec, CommandsForward
=============================================================================
