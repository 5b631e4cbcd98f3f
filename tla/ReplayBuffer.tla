---------------------------- MODULE ReplayBuffer ----------------------------
(***************************************************************************)
(* The learner's replay buffer, src/lerobot/rl/buffer.py: a ring of        *)
(* preallocated slots, filled field by field by the learner's thread, and  *)
(* the two iterators it samples from: the naive one, with a queue of its   *)
(* own, and the one whose producer thread samples while the learner adds.  *)
(*                                                                         *)
(* Transitions are numbered as they arrive; number n begins in state n and *)
(* ends in state n + 1, or in a state no transition begins with (Final)    *)
(* when the episode ends with it. A transition with NaN is not added, its  *)
(* number is. A batch is one sample.                                       *)
(***************************************************************************)
EXTENDS Integers, Sequences

CONSTANTS
  Capacity,        \* capacity
  QueueSize,       \* queue_size of the iterators
  BeforeLearning,  \* online_step_before_learning
  MaxTransitions,  \* bound: transitions that arrive
  Junk,            \* model value: memory never written (torch.empty)
  Final,           \* model value: a state no transition begins with
  None             \* model value: Python's None

(* A transition: its number, and how it ends. *)
Transition == [id : 1..MaxTransitions, end : {"no", "done", "truncated"}]

ASSUME BufferAssumption ==
  /\ Capacity \in Nat \ {0} /\ QueueSize \in Nat \ {0}
  /\ BeforeLearning \in Nat \ {0} /\ MaxTransitions \in Nat
  /\ Junk \notin Nat /\ Junk \notin Transition /\ Junk # Final

VARIABLES
  optimized,  \* optimize_memory
  prefetch,   \* async_prefetch
  slots,      \* states, next_states and the other tensors, by index
  position,   \* position
  size,       \* size
  main,       \* where the learner's thread is
  adding,     \* the transition it is adding
  arrived,    \* transitions arrived so far
  skipped,    \* history: those that were not added
  iterating,  \* the iterator has been started
  queue,      \* data_queue, or the deque of the naive iterator
  batch,      \* the batch next() returned, until it is used
  stop,       \* shutdown_event of the iterator
  producer,   \* where the producer thread is
  hand        \* the batch it is sampling

bufferVars   == <<slots, position, size>>
iteratorVars == <<iterating, queue, batch, stop, producer, hand>>
vars == <<optimized, prefetch, bufferVars, main, adding, arrived, skipped, iteratorVars>>

Index == 0..(Capacity - 1)

StateAfter(t) == IF t.end = "no" THEN t.id + 1 ELSE Final

(* A slot: the state, the state after it (not optimized), and all the other tensors. *)
EmptySlot == [state |-> Junk, next |-> Junk, rest |-> Junk]

Init ==
  /\ optimized \in BOOLEAN /\ prefetch \in BOOLEAN
  /\ slots = [i \in Index |-> EmptySlot] /\ position = 0 /\ size = 0
  /\ main = "loop" /\ adding = None /\ arrived = 0 /\ skipped = {}
  /\ iterating = FALSE /\ queue = <<>> /\ batch = None /\ stop = FALSE
  /\ producer = "none" /\ hand = None

----------------------------------------------------------------------------
(* process_transitions *)

(* A transition with NaN in a state or the action. *)
SkipTransition ==
  /\ main = "loop" /\ arrived < MaxTransitions
  /\ arrived' = arrived + 1 /\ skipped' = skipped \cup {arrived + 1}
  /\ UNCHANGED <<optimized, prefetch, bufferVars, main, adding, iteratorVars>>

(* add: the state is written first, and with it the next state if it is stored. *)
AddState ==
  /\ main = "loop" /\ arrived < MaxTransitions
  /\ \E end \in {"no", "done", "truncated"} :
       LET t == [id |-> arrived + 1, end |-> end] IN
       /\ adding' = t
       /\ slots' = [slots EXCEPT ![position].state = t.id,
                                 ![position].next = IF optimized THEN @ ELSE StateAfter(t)]
  /\ arrived' = arrived + 1 /\ main' = "rest"
  /\ UNCHANGED <<optimized, prefetch, position, size, skipped, iteratorVars>>

(* Then action, reward, done, truncated and complementary information. *)
AddRest ==
  /\ main = "rest"
  /\ slots' = [slots EXCEPT ![position].rest = adding]
  /\ main' = "advance"
  /\ UNCHANGED <<optimized, prefetch, position, size, adding, arrived, skipped, iteratorVars>>

(* Variant: the position follows the size. *)
AddAdvanceToSize ==
  /\ main = "advance"
  /\ position' = (IF size < Capacity THEN size + 1 ELSE size) % Capacity
  /\ main' = "grow"
  /\ UNCHANGED <<optimized, prefetch, slots, size, adding, arrived, skipped, iteratorVars>>

AddAdvance ==
  /\ main = "advance"
  /\ position' = (position + 1) % Capacity
  /\ main' = "grow"
  /\ UNCHANGED <<optimized, prefetch, slots, size, adding, arrived, skipped, iteratorVars>>

(* Variant: the size grows with every transition. *)
AddGrowAlways ==
  /\ main = "grow"
  /\ size' = size + 1
  /\ adding' = None /\ main' = "loop"
  /\ UNCHANGED <<optimized, prefetch, slots, position, arrived, skipped, iteratorVars>>

AddGrow ==
  /\ main = "grow"
  /\ size' = IF size < Capacity THEN size + 1 ELSE Capacity
  /\ adding' = None /\ main' = "loop"
  /\ UNCHANGED <<optimized, prefetch, slots, position, arrived, skipped, iteratorVars>>

----------------------------------------------------------------------------
(* A checkpoint, and the learner that resumes from it *)

(* to_lerobot_dataset: the transitions from the oldest to the newest. *)
Contents(p, n) == [k \in 1..n |-> slots[(p - n + k - 1) % Capacity].rest]

(* The dataset keeps done, not truncated. *)
Restored(t) == IF t.end = "truncated" THEN [t EXCEPT !.end = "no"] ELSE t

(* to_lerobot_dataset, then from_lerobot_dataset in a new learner (initialize_replay_buffer
   takes optimize_memory). *)
Reload ==
  /\ main = "loop" /\ size > 0 /\ optimized
  /\ LET saved == Contents(position, size) IN
       slots' = [i \in Index |->
                  IF i >= size THEN EmptySlot
                  ELSE LET t == Restored(saved[i + 1]) IN [state |-> t.id, next |-> Junk, rest |-> t]]
  /\ position' = size % Capacity
  /\ iterating' = FALSE /\ queue' = <<>> /\ stop' = FALSE /\ producer' = "none" /\ hand' = None
  /\ UNCHANGED <<optimized, prefetch, size, main, adding, arrived, skipped, batch>>

----------------------------------------------------------------------------
(* sample *)

(* Variant: the newest transition is sampled before the ring is full. *)
HighSize == size

(* Variant: the newest is left out always. *)
HighLess == IF size = 0 THEN 0 ELSE size - 1

(* The indices below high: without the newest as long as its next slot is empty. *)
High == IF optimized /\ size < Capacity THEN (IF size = 0 THEN 0 ELSE size - 1) ELSE size

(* Variant: the next state is in the slot itself. *)
NextStateSame(i) == IF optimized THEN slots[i].state ELSE slots[i].next

NextState(i) == IF optimized THEN slots[(i + 1) % Capacity].state ELSE slots[i].next

(* The pair at index i wraps from the newest transition to the oldest. *)
Wraps(i) == size = Capacity /\ (i + 1) % Capacity = position

Sampled(i) ==
  [state |-> slots[i].state, next |-> NextState(i), rest |-> slots[i].rest, wraps |-> Wraps(i)]

----------------------------------------------------------------------------
(* next(online_iterator), without a thread: _get_naive_iterator *)

MayLearn == main = "loop" /\ size >= BeforeLearning

Goto(there) ==
  /\ main' = there
  /\ UNCHANGED <<optimized, prefetch, bufferVars, adding, arrived, skipped>>

(* The first call fills the queue, the next ones add a batch; the oldest is returned. *)
NextNaive ==
  /\ MayLearn /\ ~prefetch /\ High > 0
  /\ \E picks \in [1..(IF iterating THEN 1 ELSE QueueSize) -> 0..(High - 1)] :
       LET q == queue \o [k \in DOMAIN picks |-> Sampled(picks[k])] IN
       /\ batch' = Head(q) /\ queue' = Tail(q)
  /\ iterating' = TRUE /\ Goto("learn")
  /\ UNCHANGED <<stop, producer, hand>>

(* randint over nothing raises: the learner's thread ends with it. *)
NextNaiveRaises ==
  /\ MayLearn /\ ~prefetch /\ High = 0 /\ Goto("raised")
  /\ UNCHANGED iteratorVars

(* The optimization step with the batch. *)
Learn ==
  /\ main = "learn" /\ Goto("loop")
  /\ batch' = None
  /\ UNCHANGED <<iterating, queue, stop, producer, hand>>

----------------------------------------------------------------------------
(* next(online_iterator), with a thread: _get_async_iterator *)

StartProducer == /\ producer' = "test" /\ stop' = FALSE /\ hand' = None /\ queue' = <<>>

NextAsync ==
  /\ MayLearn /\ prefetch /\ Goto("check")
  /\ \/ iterating /\ UNCHANGED iteratorVars
     \/ ~iterating /\ iterating' = TRUE /\ StartProducer /\ UNCHANGED batch

(* The consumer tests the flag, then waits for a batch without a timeout. *)
CheckStop ==
  /\ main = "check" /\ ~stop /\ Goto("get")
  /\ UNCHANGED iteratorVars

GetBatch ==
  /\ main = "get" /\ queue # <<>> /\ Goto("learn")
  /\ batch' = Head(queue) /\ queue' = Tail(queue)
  /\ UNCHANGED <<iterating, stop, producer, hand>>

(* finally: the flag is set, the queue drained. *)
Drain == /\ stop' = TRUE /\ queue' = <<>> /\ UNCHANGED <<iterating, batch, producer, hand>>

(* The producer has stopped: get_iterator begins a new iterator. *)
LeaveIterator == main = "check" /\ stop /\ Drain /\ Goto("join")

NewIterator ==
  /\ main = "join" /\ producer = "ended" /\ Goto("check")
  /\ StartProducer /\ UNCHANGED <<iterating, batch>>

(* The learner's loop ends and the iterator with it. *)
Close == main = "loop" /\ prefetch /\ iterating /\ Drain /\ Goto("close")

Closed == main = "close" /\ producer = "ended" /\ Goto("closed") /\ UNCHANGED iteratorVars

StopSeen == stop

ProduceAt(there) ==
  /\ producer' = there
  /\ UNCHANGED <<optimized, prefetch, bufferVars, main, adding, arrived, skipped, iterating, batch>>

ProducerEnds ==
  /\ producer = "test" /\ StopSeen /\ ProduceAt("ended")
  /\ UNCHANGED <<queue, stop, hand>>

(* sample reads size, then, while the learner may add, one tensor after the other. *)
PickIndex ==
  /\ producer = "test" /\ ~StopSeen /\ High > 0 /\ ProduceAt("state")
  /\ \E i \in 0..(High - 1) : hand' = [index |-> i]
  /\ UNCHANGED <<queue, stop>>

(* randint over nothing raises: the flag is set, and nobody told. *)
SampleRaises ==
  /\ producer = "test" /\ ~StopSeen /\ High = 0 /\ ProduceAt("test")
  /\ stop' = TRUE
  /\ UNCHANGED <<queue, hand>>

ReadState ==
  /\ producer = "state" /\ ProduceAt("next")
  /\ hand' = [index |-> hand.index, state |-> slots[hand.index].state]
  /\ UNCHANGED <<queue, stop>>

ReadNext ==
  /\ producer = "next" /\ ProduceAt("rest")
  /\ hand' = [index |-> hand.index, state |-> hand.state, next |-> NextState(hand.index)]
  /\ UNCHANGED <<queue, stop>>

ReadRest ==
  /\ producer = "rest" /\ ProduceAt("put")
  /\ hand' = [state |-> hand.state, next |-> hand.next,
              rest |-> slots[hand.index].rest, wraps |-> Wraps(hand.index)]
  /\ UNCHANGED <<queue, stop>>

PutBatch ==
  /\ producer = "put" /\ Len(queue) < QueueSize /\ ProduceAt("test")
  /\ queue' = Append(queue, hand) /\ hand' = None
  /\ UNCHANGED stop

(* put's timeout of 0.5 s: the batch is thrown away. *)
PutTimesOut ==
  /\ producer = "put" /\ Len(queue) = QueueSize /\ ProduceAt("test")
  /\ hand' = None
  /\ UNCHANGED <<queue, stop>>

----------------------------------------------------------------------------
Add  == AddState \/ AddRest \/ AddAdvance \/ AddGrow
Wait == CheckStop \/ GetBatch \/ LeaveIterator \/ NewIterator \/ Closed
Produce ==
  \/ ProducerEnds \/ PickIndex \/ SampleRaises \/ ReadState \/ ReadNext \/ ReadRest
  \/ PutBatch \/ PutTimesOut

Next ==
  \/ SkipTransition \/ Add \/ NextNaive \/ NextNaiveRaises \/ NextAsync
  \/ Learn \/ Reload \/ Wait \/ Close \/ Produce

Spec == Init /\ [][Next]_vars

(* The producer thread runs, and the learner goes on with what it waits for. *)
FairSpec == Spec /\ WF_vars(Produce) /\ WF_vars(Wait)

----------------------------------------------------------------------------
(* Properties *)

SlotT  == [state : 1..MaxTransitions \cup {Junk}, next : 1..(MaxTransitions + 1) \cup {Final, Junk},
           rest : Transition \cup {Junk}]
BatchT == [state : 1..MaxTransitions \cup {Junk}, next : 1..(MaxTransitions + 1) \cup {Final, Junk},
           rest : Transition \cup {Junk}, wraps : BOOLEAN]

(* Types, and the position follows the size until the ring is full (ReplayBuffer). *)
TypeOK ==
  /\ optimized \in BOOLEAN /\ prefetch \in BOOLEAN
  /\ slots \in [Index -> SlotT] /\ position \in Index /\ size \in 0..Capacity
  /\ main \in {"loop", "rest", "advance", "grow", "raised", "learn", "check", "get", "join", "close", "closed"}
  /\ adding \in Transition \cup {None} /\ arrived \in 0..MaxTransitions
  /\ skipped \subseteq 1..MaxTransitions
  /\ iterating \in BOOLEAN /\ queue \in Seq(BatchT) /\ Len(queue) <= QueueSize
  /\ batch \in BatchT \cup {None} /\ stop \in BOOLEAN
  /\ producer \in {"none", "test", "state", "next", "rest", "put", "ended"}

(* While one is added, the slot at position is its own. *)
Kept == IF size = Capacity THEN Capacity - 1 ELSE size

Window ==
  CASE main \in {"rest", "advance"} -> Append(Contents(position, Kept), adding)
    [] main = "grow"                -> Contents(position, Kept + 1)
    [] OTHER                        -> Contents(position, size)

Recent == INSTANCE RecentTransitions WITH window <- Window

(* The ring is the last Capacity transitions in the order they were added, whatever the
   producer thread reads meanwhile, and after a checkpoint and a resume too. *)
RingIsWindow == Recent!Spec

(* The batches that wait and the one in use. *)
Batches == {queue[k] : k \in DOMAIN queue} \cup ({batch} \ {None})

(* No batch contains memory that was never written, though sample runs while the learner
   adds and optimize_memory reads a slot beyond the one it picked (sample's bound high). *)
NeverJunk ==
  \A b \in Batches : Junk \notin {b.state, b.next, b.rest}

(* Its next state cannot be found in the ring: an episode cut off, a transition left out
   after it, or the newest of a full ring. *)
Misled(b) == b.rest.end = "truncated" \/ b.rest.id + 1 \in skipped \/ b.wraps

(* Without a prefetching thread a batch is one transition that was added, with the state that
   followed it; with optimize_memory, except where that state is not in the ring or the end
   of the episode makes it irrelevant. *)
BatchIsTransition ==
  ~prefetch =>
    \A b \in Batches :
      /\ b.state = b.rest.id
      /\ b.next = StateAfter(b.rest) \/ (optimized /\ (b.rest.end = "done" \/ Misled(b)))

(* A single transition cannot be sampled with optimize_memory. *)
TooFew == optimized /\ size = 1 /\ Capacity > 1

(* next() returns a batch whenever it is called with enough transitions, even if the
   producer's puts time out again and again. With too few the producer dies and the
   consumer waits for ever (buffer.py, get without a timeout). *)
BatchArrives == main = "check" /\ ~TooFew ~> main = "learn"
=============================================================================
