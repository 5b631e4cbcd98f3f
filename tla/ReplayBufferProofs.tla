------------------------- MODULE ReplayBufferProofs -------------------------
(***************************************************************************)
(* The ring, for any capacity: types and NeverJunk are one inductive       *)
(* invariant (what is written of the slots, of the transition that is      *)
(* added and of the sample the producer holds), and under it every step is *)
(* a step of RecentTransitions or none.  A second invariant, WholeInv, has *)
(* the parts of a slot belong to one transition, and neighbouring slots to *)
(* transitions that follow each other: from it comes BatchIsTransition.    *)
(***************************************************************************)
EXTENDS ReplayBuffer, SequenceTheorems, TLAPS

----------------------------------------------------------------------------
(* Indices around the ring *)

LEMMA ModSmall == ASSUME NEW C \in Nat \ {0}, NEW x \in 0..(C - 1) PROVE x % C = x
  BY SMT

LEMMA ModOnce == ASSUME NEW C \in Nat \ {0}, NEW x \in C..(2 * C - 1) PROVE x % C = x - C
  BY SMT

LEMMA ModNegative == ASSUME NEW C \in Nat \ {0}, NEW x \in (-C)..(-1) PROVE x % C = x + C
  BY SMT

(* The next index is an index. *)
LEMMA NextIndex ==
  ASSUME NEW p \in Index
  PROVE  (p + 1) % Capacity = (IF p + 1 = Capacity THEN 0 ELSE p + 1) /\ (p + 1) % Capacity \in Index
<1> USE BufferAssumption DEF BufferAssumption, Index
<1>1. CASE p + 1 = Capacity
  <2>1. p + 1 \in Capacity..(2 * Capacity - 1)
    BY <1>1
  <2>2. (p + 1) % Capacity = (p + 1) - Capacity
    BY <2>1, ModOnce
  <2>3. QED
    BY <1>1, <2>2
<1>2. CASE p + 1 # Capacity
  <2>1. p + 1 \in 0..(Capacity - 1)
    BY <1>2
  <2>2. (p + 1) % Capacity = p + 1
    BY <2>1, ModSmall
  <2>3. QED
    BY <1>2, <2>1, <2>2
<1>3. QED
  BY <1>1, <1>2

----------------------------------------------------------------------------
(* The invariant *)

(* Everything of the slot has been written. *)
Full(i) == slots[i].state # Junk /\ slots[i].rest # Junk /\ (optimized \/ slots[i].next # Junk)

Store == slots \in [Index -> SlotT] /\ position \in Index /\ size \in 0..Capacity

Written == \A i \in 0..(size - 1) : Full(i)

InOrder == size < Capacity => position = IF main = "grow" THEN (size + 1) % Capacity ELSE size

(* The transition that is added, in the slot at position until that advances. *)
BeingAdded ==
  /\ main \in {"rest", "advance", "grow"} => adding \in Transition
  /\ main = "rest" => slots[position].state # Junk /\ (optimized \/ slots[position].next # Junk)
  /\ main = "advance" => Full(position) /\ slots[position].rest = adding
  /\ main = "grow" /\ size < Capacity => Full(size)

RingInv == Store /\ Written /\ InOrder /\ BeingAdded

(* A batch of memory that was written. *)
Sound == {b \in BatchT : Junk \notin {b.state, b.next, b.rest}}

(* What the producer has of its sample. *)
HandSound ==
  /\ producer \in {"state", "next", "rest"} => hand.index \in 0..(High - 1)
  /\ producer \in {"next", "rest"} => hand.state \in 1..MaxTransitions \ {Junk}
  /\ producer = "rest" => hand.next \in (1..(MaxTransitions + 1) \cup {Final}) \ {Junk}
  /\ producer = "put" => hand \in Sound

(* Without a thread there is none, and the queue is full but for the batch in use. *)
Naive ==
  ~prefetch =>
    /\ producer = "none" /\ main \notin {"check", "get", "join", "close", "closed"}
    /\ Len(queue) = IF iterating THEN QueueSize - 1 ELSE 0

IterInv ==
  /\ queue \in Seq(Sound) /\ Len(queue) <= QueueSize /\ batch \in Sound \cup {None}
  /\ HandSound /\ Naive

(* The parts of TypeOK that stand alone. *)
Plain ==
  /\ optimized \in BOOLEAN /\ prefetch \in BOOLEAN /\ iterating \in BOOLEAN /\ stop \in BOOLEAN
  /\ main \in {"loop", "rest", "advance", "grow", "raised", "learn", "check", "get", "join", "close", "closed"}
  /\ adding \in Transition \cup {None} /\ arrived \in 0..MaxTransitions
  /\ skipped \subseteq 1..MaxTransitions
  /\ producer \in {"none", "test", "state", "next", "rest", "put", "ended"}

IInv == Plain /\ RingInv /\ IterInv

(* The invariant holds at the start. *)
LEMMA InitIInv == Init => IInv
<1> SUFFICES ASSUME Init PROVE IInv
  OBVIOUS
<1> USE BufferAssumption DEF BufferAssumption
<1>1. Plain
  <2>1. optimized \in BOOLEAN /\ prefetch \in BOOLEAN /\ iterating \in BOOLEAN /\ stop \in BOOLEAN
    BY DEF Init
  <2>2. arrived \in 0..MaxTransitions /\ adding = None /\ skipped = {} /\ main = "loop" /\ producer = "none"
    BY DEF Init
  <2>3. QED
    BY <2>1, <2>2 DEF Plain
<1>2. Store
  BY DEF Init, Store, Index, SlotT, EmptySlot
<1>3. main = "loop" /\ position = 0 /\ size = 0
  BY DEF Init
<1>4. Written /\ InOrder /\ BeingAdded
  BY <1>3 DEF Written, InOrder, BeingAdded
<1>5. queue \in Seq(Sound) /\ Len(queue) = 0 /\ batch = None
  BY DEF Init
<1>6. HandSound /\ Naive
  BY <1>5 DEF Init, HandSound, Naive
<1>7. QED
  BY <1>1, <1>2, <1>4, <1>5, <1>6 DEF IInv, RingInv, IterInv

(* What High leaves to sample has been written, and the slot its next state is in too. *)
LEMMA HighIsWritten ==
  ASSUME IInv, NEW i \in 0..(High - 1)
  PROVE  /\ i \in Index /\ Full(i)
         /\ NextState(i) \in (1..(MaxTransitions + 1) \cup {Final}) \ {Junk}
         /\ slots[i].state \in 1..MaxTransitions \ {Junk} /\ slots[i].rest \in Transition
<1> USE BufferAssumption DEF BufferAssumption
<1>1. i \in 0..(size - 1) /\ i \in Index
  BY DEF High, IInv, RingInv, Store, Index
<1>2. Full(i)
  BY <1>1 DEF IInv, RingInv, Written
<1>3. slots[i] \in SlotT
  BY <1>1 DEF IInv, RingInv, Store
<1>4. CASE ~optimized
  BY <1>1, <1>2, <1>3, <1>4 DEF NextState, SlotT, Full
<1>5. CASE optimized
  <2> DEFINE j == (i + 1) % Capacity
  <2>1. j \in 0..(size - 1) /\ j \in Index
    <3>1. size < Capacity => i + 1 \in 0..(size - 1)
      BY <1>1, <1>5 DEF High, IInv, RingInv, Store
    <3>2. QED
      BY <1>1, <3>1, NextIndex DEF IInv, RingInv, Store, Index
  <2>2. Full(j) /\ slots[j] \in SlotT
    BY <2>1 DEF IInv, RingInv, Written, Store
  <2>3. NextState(i) = slots[j].state
    BY <1>5 DEF NextState
  <2>4. NextState(i) \in 1..MaxTransitions \ {Junk}
    BY <2>2, <2>3 DEF Full, SlotT
  <2>5. QED
    BY <1>1, <1>2, <1>3, <2>4 DEF SlotT, Full
<1>6. QED
  BY <1>4, <1>5

----------------------------------------------------------------------------
(* The steps keep it *)

Adding == {"rest", "advance", "grow"}

(* A step that leaves the ring alone. *)
LEMMA RingKept ==
  ASSUME RingInv, UNCHANGED <<optimized, slots, position, size, adding>>,
         main' = main \/ (main \notin Adding /\ main' \notin Adding)
  PROVE  RingInv'
<1>1. Store' /\ Written'
  BY DEF RingInv, Store, Written, Full
<1>2. CASE main' = main
  BY <1>1, <1>2 DEF RingInv, InOrder, BeingAdded, Full
<1>3. CASE main \notin Adding /\ main' \notin Adding
  BY <1>1, <1>3 DEF RingInv, InOrder, BeingAdded, Adding
<1>4. QED
  BY <1>2, <1>3

(* The bound of sample, as a function of the size. *)
LEMMA BoundGrows ==
  ASSUME NEW C \in Nat, NEW m \in 0..C, NEW n \in 0..C, n >= m
  PROVE  LET B(x) == IF x < C THEN (IF x = 0 THEN 0 ELSE x - 1) ELSE x
         IN  B(m) \in Nat /\ B(n) \in Nat /\ B(n) >= B(m)
  OBVIOUS

(* More can be sampled when the size has grown. *)
LEMMA HighGrows ==
  ASSUME Store, Store', size' >= size, optimized' = optimized
  PROVE  High \in Nat /\ High' \in Nat /\ High' >= High
<1>1. size \in 0..Capacity /\ size' \in 0..Capacity /\ Capacity \in Nat
  BY BufferAssumption DEF BufferAssumption, Store
<1>2. CASE optimized
  <2>1. High = IF size < Capacity THEN (IF size = 0 THEN 0 ELSE size - 1) ELSE size
    BY <1>2 DEF High
  <2>2. High' = IF size' < Capacity THEN (IF size' = 0 THEN 0 ELSE size' - 1) ELSE size'
    BY <1>2 DEF High
  <2>3. QED
    BY <1>1, <2>1, <2>2, BoundGrows
<1>3. CASE ~optimized
  <2>1. High = size /\ High' = size'
    BY <1>3 DEF High
  <2>2. QED
    BY <1>1, <2>1
<1>4. QED
  BY <1>2, <1>3

(* A step that leaves the iterator alone. *)
LEMMA IterKept ==
  ASSUME Store, Store', IterInv, UNCHANGED <<optimized, prefetch, iteratorVars>>, size' >= size,
         main' \notin {"check", "get", "join", "close", "closed"}
  PROVE  IterInv'
<1>1. HandSound'
  <2>1. producer \in {"state", "next", "rest"} => hand.index \in 0..(High' - 1)
    BY HighGrows DEF IterInv, HandSound
  <2>2. hand' = hand /\ producer' = producer
    BY DEF iteratorVars
  <2>3. Sound' = Sound
    BY DEF Sound, BatchT
  <2>4. QED
    BY <2>1, <2>2, <2>3 DEF IterInv, HandSound
<1>2. QED
  BY <1>1 DEF IterInv, Naive, iteratorVars, Sound

(* The five steps of process_transitions and add. *)
LEMMA AddKeeps == IInv /\ (SkipTransition \/ Add) => IInv'
<1> SUFFICES ASSUME IInv, SkipTransition \/ Add PROVE IInv'
  OBVIOUS
<1> USE BufferAssumption DEF BufferAssumption
<1>1. CASE SkipTransition
  <2>1. Plain'
    BY <1>1 DEF SkipTransition, IInv, Plain, bufferVars, iteratorVars
  <2>2. RingInv'
    BY <1>1, RingKept DEF SkipTransition, IInv, bufferVars
  <2>3. IterInv'
    BY <1>1, <2>2, IterKept DEF SkipTransition, IInv, RingInv, Store, bufferVars
  <2>4. QED
    BY <2>1, <2>2, <2>3 DEF IInv
<1>2. CASE AddState
  <2>1. PICK end \in {"no", "done", "truncated"} :
          LET t == [id |-> arrived + 1, end |-> end] IN
          /\ adding' = t
          /\ slots' = [slots EXCEPT ![position].state = t.id,
                                    ![position].next = IF optimized THEN @ ELSE StateAfter(t)]
    BY <1>2 DEF AddState
  <2> DEFINE t == [id |-> arrived + 1, end |-> end]
  <2>2. t \in Transition /\ t.id = arrived + 1
    BY <1>2 DEF AddState, IInv, Plain, Transition
  <2>3. StateAfter(t) \in (1..(MaxTransitions + 1) \cup {Final}) \ {Junk}
    BY <2>2 DEF StateAfter, Transition
  <2>4. slots[position] \in SlotT /\ position \in Index
    BY DEF IInv, RingInv, Store
  <2> DEFINE new == [slots[position] EXCEPT !.state = t.id,
                                            !.next = IF optimized THEN @ ELSE StateAfter(t)]
  <2>5. slots' = [slots EXCEPT ![position] = new]
    BY <2>1, <2>4 DEF SlotT
  <2>6. /\ new \in SlotT /\ new.state # Junk /\ new.rest = slots[position].rest
        /\ optimized \/ new.next # Junk
    <3>1. t.id \in 1..MaxTransitions /\ t.id # Junk
      BY <2>2 DEF Transition
    <3> HIDE DEF t
    <3>2. CASE optimized
      BY <2>4, <3>1, <3>2 DEF SlotT
    <3>3. CASE ~optimized
      BY <2>3, <2>4, <3>1, <3>3 DEF SlotT
    <3>4. QED
      BY <3>2, <3>3
  <2> HIDE DEF new, t
  <2>7. Store' /\ slots'[position] = new /\ \A i \in Index : i # position => slots'[i] = slots[i]
    BY <1>2, <2>4, <2>5, <2>6 DEF AddState, IInv, RingInv, Store
  <2>8. Written'
    <3> SUFFICES ASSUME NEW i \in 0..(size - 1) PROVE Full(i)'
      BY <1>2 DEF AddState, Written
    <3>1. i \in Index /\ Full(i)
      BY DEF IInv, RingInv, Store, Written, Index
    <3>2. QED
      BY <1>2, <2>6, <2>7, <3>1 DEF AddState, Full
  <2>9. InOrder' /\ BeingAdded'
    BY <1>2, <2>1, <2>2, <2>6, <2>7 DEF AddState, IInv, RingInv, InOrder, BeingAdded, t
  <2>10. IterInv'
    BY <1>2, <2>7, IterKept DEF AddState, IInv, RingInv, Store
  <2>11. Plain'
    BY <1>2, <2>1, <2>2 DEF AddState, IInv, Plain, iteratorVars, t
  <2>12. QED
    BY <2>7, <2>8, <2>9, <2>10, <2>11 DEF IInv, RingInv
<1>3. CASE AddRest
  <2>1. adding \in Transition /\ slots[position] \in SlotT /\ position \in Index
    BY <1>3 DEF AddRest, IInv, RingInv, BeingAdded, Store
  <2> DEFINE new == [slots[position] EXCEPT !.rest = adding]
  <2>2. slots' = [slots EXCEPT ![position] = new]
    BY <1>3, <2>1 DEF AddRest, SlotT
  <2>3. /\ new \in SlotT /\ new.rest = adding /\ adding # Junk
        /\ new.state = slots[position].state /\ new.next = slots[position].next
    BY <2>1 DEF SlotT
  <2> HIDE DEF new
  <2>4. Store' /\ slots'[position] = new /\ \A i \in Index : i # position => slots'[i] = slots[i]
    BY <1>3, <2>1, <2>2, <2>3 DEF AddRest, IInv, RingInv, Store
  <2>5. Written'
    <3> SUFFICES ASSUME NEW i \in 0..(size - 1) PROVE Full(i)'
      BY <1>3 DEF AddRest, Written
    <3>1. i \in Index /\ Full(i)
      BY DEF IInv, RingInv, Store, Written, Index
    <3>2. QED
      BY <1>3, <2>3, <2>4, <3>1 DEF AddRest, Full
  <2>6. InOrder' /\ BeingAdded'
    BY <1>3, <2>1, <2>3, <2>4 DEF AddRest, IInv, RingInv, InOrder, BeingAdded, Full
  <2>7. IterInv'
    BY <1>3, <2>4, IterKept DEF AddRest, IInv, RingInv, Store
  <2>8. Plain'
    BY <1>3 DEF AddRest, IInv, Plain, iteratorVars
  <2>9. QED
    BY <2>4, <2>5, <2>6, <2>7, <2>8 DEF IInv, RingInv
<1>4. CASE AddAdvance
  <2>1. Store'
    BY <1>4, NextIndex DEF AddAdvance, IInv, RingInv, Store
  <2>2. Written'
    BY <1>4 DEF AddAdvance, IInv, RingInv, Written, Full
  <2>3. InOrder' /\ BeingAdded'
    BY <1>4 DEF AddAdvance, IInv, RingInv, InOrder, BeingAdded, Full
  <2>4. IterInv'
    BY <1>4, <2>1, IterKept DEF AddAdvance, IInv, RingInv, Store
  <2>5. Plain'
    BY <1>4 DEF AddAdvance, IInv, Plain, iteratorVars
  <2>6. QED
    BY <2>1, <2>2, <2>3, <2>4, <2>5 DEF IInv, RingInv
<1>5. CASE AddGrow
  <2>1. Store' /\ size' >= size
    BY <1>5 DEF AddGrow, IInv, RingInv, Store
  <2>2. Written'
    BY <1>5 DEF AddGrow, IInv, RingInv, Store, Written, BeingAdded, Full
  <2>3. InOrder' /\ BeingAdded'
    <3>1. size' < Capacity => position' = size'
      BY <1>5, ModSmall DEF AddGrow, IInv, RingInv, Store, InOrder
    <3>2. QED
      BY <1>5, <3>1 DEF AddGrow, InOrder, BeingAdded
  <2>4. IterInv'
    BY <1>5, <2>1, IterKept DEF AddGrow, IInv, RingInv
  <2>5. Plain'
    BY <1>5 DEF AddGrow, IInv, Plain, iteratorVars
  <2>6. QED
    BY <2>1, <2>2, <2>3, <2>4, <2>5 DEF IInv, RingInv
<1>6. QED
  BY <1>1, <1>2, <1>3, <1>4, <1>5 DEF Add

(* What is sampled was written. *)
LEMMA SampledSound == ASSUME IInv, NEW i \in 0..(High - 1) PROVE Sampled(i) \in Sound
<1>1. /\ slots[i].state \in 1..MaxTransitions \ {Junk} /\ slots[i].rest \in Transition
      /\ NextState(i) \in (1..(MaxTransitions + 1) \cup {Final}) \ {Junk} /\ slots[i].rest # Junk
  BY HighIsWritten DEF Full
<1>2. Wraps(i) \in BOOLEAN
  BY DEF Wraps
<1>3. Sampled(i) \in BatchT
  BY <1>1, <1>2 DEF Sampled, BatchT
<1>4. Junk \notin {Sampled(i).state, Sampled(i).next, Sampled(i).rest}
  BY <1>1 DEF Sampled
<1>5. QED
  BY <1>3, <1>4 DEF Sound

(* The naive iterator. *)
LEMMA NaiveKeeps == IInv /\ (NextNaive \/ NextNaiveRaises \/ Learn) => IInv'
<1> SUFFICES ASSUME IInv, NextNaive \/ NextNaiveRaises \/ Learn PROVE IInv'
  OBVIOUS
<1> USE BufferAssumption DEF BufferAssumption
<1>1. RingInv'
  <2>1. main \notin Adding /\ main' \notin Adding
    BY DEF NextNaive, NextNaiveRaises, Learn, MayLearn, Goto, Adding
  <2>2. UNCHANGED <<optimized, slots, position, size, adding>>
    BY DEF NextNaive, NextNaiveRaises, Learn, Goto, bufferVars
  <2>3. QED
    BY <2>1, <2>2, RingKept DEF IInv
<1>2. High' = High /\ Sound' = Sound
  BY DEF NextNaive, NextNaiveRaises, Learn, Goto, bufferVars, High, Sound, BatchT
<1>3. CASE NextNaive
  <2> DEFINE n == IF iterating THEN 1 ELSE QueueSize
  <2>1. PICK picks \in [1..n -> 0..(High - 1)] :
          LET q == queue \o [k \in DOMAIN picks |-> Sampled(picks[k])] IN
          batch' = Head(q) /\ queue' = Tail(q)
    BY <1>3 DEF NextNaive
  <2> DEFINE more == [k \in DOMAIN picks |-> Sampled(picks[k])]
  <2>2. n \in Nat \ {0} /\ DOMAIN picks = 1..n
    OBVIOUS
  <2>3. \A k \in 1..n : Sampled(picks[k]) \in Sound
    BY SampledSound
  <2>4. more \in Seq(Sound) /\ Len(more) = n
    BY <2>2, <2>3
  <2>5. queue \in Seq(Sound) /\ Len(queue) = IF iterating THEN QueueSize - 1 ELSE 0
    BY <1>3 DEF NextNaive, IInv, IterInv, Naive
  <2> HIDE DEF more
  <2>6. queue \o more \in Seq(Sound) /\ Len(queue \o more) = QueueSize
    BY <2>2, <2>4, <2>5, ConcatProperties
  <2>7. /\ Head(queue \o more) \in Sound /\ Tail(queue \o more) \in Seq(Sound)
        /\ Len(Tail(queue \o more)) = QueueSize - 1
    BY <2>6
  <2>8. batch' \in Sound /\ queue' \in Seq(Sound) /\ Len(queue') = QueueSize - 1
    BY <2>1, <2>7 DEF more
  <2>9. HandSound' /\ Naive'
    <3>1. producer' = "none" /\ main' = "learn" /\ iterating' = TRUE
      BY <1>3 DEF NextNaive, Goto, IInv, IterInv, Naive
    <3>2. QED
      BY <2>8, <3>1 DEF HandSound, Naive
  <2>10. IterInv'
    BY <1>2, <2>8, <2>9 DEF IterInv
  <2>11. Plain'
    BY <1>3 DEF NextNaive, Goto, IInv, Plain
  <2>12. QED
    BY <1>1, <2>10, <2>11 DEF IInv
<1>4. CASE NextNaiveRaises
  <2>1. IterInv'
    BY <1>1, <1>4, IterKept DEF NextNaiveRaises, Goto, IInv, RingInv, Store, bufferVars
  <2>2. Plain'
    BY <1>4 DEF NextNaiveRaises, Goto, IInv, Plain, iteratorVars
  <2>3. QED
    BY <1>1, <2>1, <2>2 DEF IInv
<1>5. CASE Learn
  <2>1. IterInv'
    BY <1>2, <1>5 DEF Learn, Goto, IInv, IterInv, HandSound, Naive
  <2>2. Plain'
    BY <1>5 DEF Learn, Goto, IInv, Plain
  <2>3. QED
    BY <1>1, <2>1, <2>2 DEF IInv
<1>6. QED
  BY <1>3, <1>4, <1>5

(* The consumer of the prefetched batches. *)
LEMMA ConsumerKeeps == IInv /\ (NextAsync \/ Wait \/ Close) => IInv'
<1> SUFFICES ASSUME IInv, NextAsync \/ Wait \/ Close PROVE IInv'
  OBVIOUS
<1> USE BufferAssumption DEF BufferAssumption
<1> USE DEF Wait
<1>1. /\ main \notin Adding /\ main' \notin Adding
      /\ UNCHANGED <<optimized, prefetch, slots, position, size, adding, arrived, skipped>>
  BY DEF NextAsync, MayLearn, CheckStop, GetBatch, LeaveIterator, NewIterator, Close, Closed,
         Goto, Adding, bufferVars
<1>2. RingInv'
  BY <1>1, RingKept DEF IInv
<1>3. High' = High /\ Sound' = Sound
  BY <1>1 DEF High, Sound, BatchT
<1>4. prefetch /\ prefetch'
  BY <1>1 DEF NextAsync, CheckStop, GetBatch, LeaveIterator, NewIterator, Close, Closed,
              IInv, IterInv, Naive
<1>5. main' \in {"check", "get", "learn", "join", "close", "closed"}
  BY DEF NextAsync, CheckStop, GetBatch, LeaveIterator, NewIterator, Close, Closed, Goto
<1>6. CASE UNCHANGED iteratorVars
  <2>1. IterInv'
    BY <1>3, <1>4, <1>6 DEF iteratorVars, IInv, IterInv, HandSound, Naive
  <2>2. Plain'
    BY <1>1, <1>5, <1>6 DEF iteratorVars, IInv, Plain
  <2>3. QED
    BY <1>2, <2>1, <2>2 DEF IInv
<1>7. CASE StartProducer /\ batch' = batch /\ iterating' \in BOOLEAN
  <2>1. IterInv'
    BY <1>3, <1>4, <1>7 DEF StartProducer, IInv, IterInv, HandSound, Naive
  <2>2. Plain'
    BY <1>1, <1>5, <1>7 DEF StartProducer, IInv, Plain
  <2>3. QED
    BY <1>2, <2>1, <2>2 DEF IInv
<1>8. CASE GetBatch
  <2>1. batch' \in Sound /\ queue' \in Seq(Sound) /\ Len(queue') <= QueueSize
    BY <1>8 DEF GetBatch, IInv, IterInv
  <2>2. IterInv'
    BY <1>3, <1>4, <1>8, <2>1 DEF GetBatch, IInv, IterInv, HandSound, Naive
  <2>3. Plain'
    BY <1>1, <1>5, <1>8 DEF GetBatch, IInv, Plain
  <2>4. QED
    BY <1>2, <2>2, <2>3 DEF IInv
<1>9. CASE Drain
  <2>1. IterInv'
    BY <1>3, <1>4, <1>9 DEF Drain, IInv, IterInv, HandSound, Naive
  <2>2. Plain'
    BY <1>1, <1>5, <1>9 DEF Drain, IInv, Plain
  <2>3. QED
    BY <1>2, <2>1, <2>2 DEF IInv
<1>10. CASE NextAsync
  BY <1>6, <1>7, <1>10 DEF NextAsync
<1>11. CASE NewIterator
  <2>1. iterating' \in BOOLEAN
    BY <1>11 DEF NewIterator, IInv, Plain
  <2>2. QED
    BY <1>7, <1>11, <2>1 DEF NewIterator
<1>12. QED
  BY <1>6, <1>8, <1>9, <1>10, <1>11 DEF CheckStop, LeaveIterator, Close, Closed

(* The producer thread. *)
LEMMA ProduceKeeps == IInv /\ Produce => IInv'
<1> SUFFICES ASSUME IInv, Produce PROVE IInv'
  OBVIOUS
<1> USE BufferAssumption DEF BufferAssumption, Produce
<1>1. UNCHANGED <<optimized, prefetch, slots, position, size, main, adding, arrived, skipped, iterating, batch>>
  BY DEF ProducerEnds, PickIndex, SampleRaises, ReadState, ReadNext, ReadRest, PutBatch, PutTimesOut,
         ProduceAt, bufferVars
<1>2. RingInv'
  BY <1>1, RingKept DEF IInv
<1>3. High' = High /\ Sound' = Sound
  BY <1>1 DEF High, Sound, BatchT
<1>4. prefetch
  BY DEF ProducerEnds, PickIndex, SampleRaises, ReadState, ReadNext, ReadRest, PutBatch, PutTimesOut,
         IInv, IterInv, Naive
<1>5. Naive'
  BY <1>1, <1>4 DEF Naive
<1>6. stop' \in BOOLEAN
  BY DEF ProducerEnds, PickIndex, SampleRaises, ReadState, ReadNext, ReadRest, PutBatch, PutTimesOut,
         IInv, Plain
<1>7. producer' \in {"none", "test", "state", "next", "rest", "put", "ended"}
  BY DEF ProducerEnds, PickIndex, SampleRaises, ReadState, ReadNext, ReadRest, PutBatch, PutTimesOut,
         ProduceAt
<1>8. Plain'
  BY <1>1, <1>6, <1>7 DEF IInv, Plain
<1>9. batch' \in Sound' \cup {None}
  BY <1>1, <1>3 DEF IInv, IterInv
<1>10. CASE ProducerEnds \/ SampleRaises \/ PutTimesOut
  <2>1. queue' = queue /\ HandSound'
    BY <1>10 DEF ProducerEnds, SampleRaises, PutTimesOut, ProduceAt, HandSound
  <2>2. QED
    BY <1>2, <1>3, <1>5, <1>8, <1>9, <2>1 DEF IInv, IterInv
<1>11. CASE PickIndex
  <2>1. queue' = queue /\ HandSound'
    BY <1>3, <1>11 DEF PickIndex, ProduceAt, HandSound
  <2>2. QED
    BY <1>2, <1>3, <1>5, <1>8, <1>9, <2>1 DEF IInv, IterInv
<1>12. CASE ReadState
  <2>1. hand.index \in 0..(High - 1)
    BY <1>12 DEF ReadState, IInv, IterInv, HandSound
  <2>2. slots[hand.index].state \in 1..MaxTransitions \ {Junk}
    BY <2>1, HighIsWritten
  <2>3. queue' = queue /\ HandSound'
    BY <1>3, <1>12, <2>1, <2>2 DEF ReadState, ProduceAt, HandSound
  <2>4. QED
    BY <1>2, <1>3, <1>5, <1>8, <1>9, <2>3 DEF IInv, IterInv
<1>13. CASE ReadNext
  <2>1. hand.index \in 0..(High - 1) /\ hand.state \in 1..MaxTransitions \ {Junk}
    BY <1>13 DEF ReadNext, IInv, IterInv, HandSound
  <2>2. NextState(hand.index) \in (1..(MaxTransitions + 1) \cup {Final}) \ {Junk}
    BY <2>1, HighIsWritten
  <2>3. queue' = queue /\ HandSound'
    BY <1>3, <1>13, <2>1, <2>2 DEF ReadNext, ProduceAt, HandSound
  <2>4. QED
    BY <1>2, <1>3, <1>5, <1>8, <1>9, <2>3 DEF IInv, IterInv
<1>14. CASE ReadRest
  <2>1. /\ hand.index \in 0..(High - 1) /\ hand.state \in 1..MaxTransitions \ {Junk}
        /\ hand.next \in (1..(MaxTransitions + 1) \cup {Final}) \ {Junk}
    BY <1>14 DEF ReadRest, IInv, IterInv, HandSound
  <2>2. slots[hand.index].rest \in Transition /\ slots[hand.index].rest # Junk
    BY <2>1, HighIsWritten DEF Full
  <2>3. Wraps(hand.index) \in BOOLEAN
    BY DEF Wraps
  <2>4. hand' \in Sound
    BY <1>14, <2>1, <2>2, <2>3 DEF ReadRest, Sound, BatchT
  <2>5. queue' = queue /\ HandSound'
    BY <1>3, <1>14, <2>4 DEF ReadRest, ProduceAt, HandSound
  <2>6. QED
    BY <1>2, <1>3, <1>5, <1>8, <1>9, <2>5 DEF IInv, IterInv
<1>15. CASE PutBatch
  <2>1. hand \in Sound /\ queue \in Seq(Sound) /\ Len(queue) < QueueSize
    BY <1>15 DEF PutBatch, IInv, IterInv, HandSound
  <2>2. queue' \in Seq(Sound) /\ Len(queue') <= QueueSize
    BY <1>15, <2>1 DEF PutBatch
  <2>3. HandSound'
    BY <1>15 DEF PutBatch, ProduceAt, HandSound
  <2>4. QED
    BY <1>2, <1>3, <1>5, <1>8, <1>9, <2>2, <2>3 DEF IInv, IterInv
<1>16. QED
  BY <1>10, <1>11, <1>12, <1>13, <1>14, <1>15

(* What the ring holds, from the oldest to the newest. *)
LEMMA ContentsAre ==
  ASSUME IInv, main \notin Adding, NEW k \in 1..size
  PROVE  /\ (position - size + k - 1) % Capacity \in 0..(size - 1)
         /\ Contents(position, size)[k] \in Transition
<1> USE BufferAssumption DEF BufferAssumption
<1>1. size \in 0..Capacity /\ position \in Index
  BY DEF IInv, RingInv, Store
<1> DEFINE x == position - size + k - 1
<1>2. x \in Int /\ x % Capacity \in 0..(Capacity - 1)
  BY <1>1 DEF Index
<1>3. size < Capacity => x % Capacity = k - 1
  BY <1>1, ModSmall DEF IInv, RingInv, InOrder, Adding
<1>4. x % Capacity \in 0..(size - 1)
  BY <1>1, <1>2, <1>3
<1>5. Full(x % Capacity) /\ slots[x % Capacity] \in SlotT
  BY <1>1, <1>4 DEF IInv, RingInv, Written, Store, Index
<1>6. Contents(position, size)[k] = slots[x % Capacity].rest
  BY DEF Contents
<1>7. QED
  BY <1>4, <1>5, <1>6 DEF Full, SlotT

(* A learner that resumes has written slots again. *)
LEMMA ReloadKeeps == IInv /\ Reload => IInv'
<1> SUFFICES ASSUME IInv, Reload PROVE IInv'
  OBVIOUS
<1> USE BufferAssumption DEF BufferAssumption
<1> DEFINE t(i) == Restored(Contents(position, size)[i + 1])
           new(i) == IF i >= size THEN EmptySlot ELSE [state |-> t(i).id, next |-> Junk, rest |-> t(i)]
<1>1. main = "loop" /\ size \in 1..Capacity /\ optimized /\ position \in Index
  BY DEF Reload, IInv, RingInv, Store
<1>2. slots' = [i \in Index |-> new(i)]
  BY DEF Reload
<1>3. \A i \in 0..(size - 1) : t(i) \in Transition
  <2> SUFFICES ASSUME NEW i \in 0..(size - 1) PROVE t(i) \in Transition
    OBVIOUS
  <2>1. Contents(position, size)[i + 1] \in Transition
    BY <1>1, ContentsAre DEF Adding
  <2>2. QED
    BY <2>1 DEF Restored, Transition
<1>4. \A i \in Index : new(i) \in SlotT
  <2> SUFFICES ASSUME NEW i \in Index PROVE new(i) \in SlotT
    OBVIOUS
  <2>1. CASE i >= size
    BY <2>1 DEF EmptySlot, SlotT
  <2>2. CASE i < size
    <3>1. t(i) \in Transition
      BY <1>1, <1>3, <2>2 DEF Index
    <3> HIDE DEF t
    <3>2. new(i) = [state |-> t(i).id, next |-> Junk, rest |-> t(i)]
      BY <1>1, <2>2 DEF Index
    <3>3. t(i).id \in 1..MaxTransitions
      BY <3>1 DEF Transition
    <3>4. QED
      BY <3>1, <3>2, <3>3 DEF SlotT
  <2>3. QED
    BY <1>1, <2>1, <2>2 DEF Index
<1>5. position' \in Index /\ (size < Capacity => position' = size)
  <2>1. position' = size % Capacity
    BY DEF Reload
  <2>2. CASE size < Capacity
    BY <1>1, <2>1, <2>2, ModSmall DEF Index
  <2>3. CASE size = Capacity
    BY <1>1, <2>1, <2>3, ModOnce DEF Index
  <2>4. QED
    BY <1>1, <2>2, <2>3
<1>6. Store'
  <2>1. slots' \in [Index -> SlotT]
    BY <1>2, <1>4
  <2>2. SlotT' = SlotT /\ Index' = Index /\ size' = size
    BY DEF Reload, SlotT, Index
  <2>3. QED
    BY <1>1, <1>5, <2>1, <2>2 DEF Store
<1>7. Written'
  <2> SUFFICES ASSUME NEW i \in 0..(size - 1) PROVE Full(i)'
    BY DEF Reload, Written
  <2>1. i \in Index /\ t(i) \in Transition
    BY <1>1, <1>3 DEF Index
  <2> HIDE DEF t
  <2>2. slots'[i] = [state |-> t(i).id, next |-> Junk, rest |-> t(i)]
    BY <1>1, <1>2, <2>1
  <2>3. t(i).id # Junk /\ t(i) # Junk
    BY <2>1 DEF Transition
  <2>4. optimized'
    BY <1>1 DEF Reload
  <2>5. QED
    BY <2>2, <2>3, <2>4 DEF Full
<1>8. InOrder' /\ BeingAdded'
  BY <1>1, <1>5 DEF Reload, InOrder, BeingAdded
<1>9. IterInv'
  BY <1>1 DEF Reload, IInv, IterInv, HandSound, Naive, Sound
<1>10. Plain'
  BY <1>1 DEF Reload, IInv, Plain
<1>11. QED
  BY <1>6, <1>7, <1>8, <1>9, <1>10 DEF IInv, RingInv

(* Every step keeps the invariant. *)
LEMMA NextIInv == IInv /\ [Next]_vars => IInv'
<1> SUFFICES ASSUME IInv, [Next]_vars PROVE IInv'
  OBVIOUS
<1>1. CASE UNCHANGED vars
  <2>1. RingInv'
    BY <1>1, RingKept DEF vars, bufferVars, IInv
  <2>2. Sound' = Sound /\ High' = High
    BY <1>1 DEF vars, bufferVars, Sound, BatchT, High
  <2>3. IterInv' /\ Plain'
    BY <1>1, <2>2 DEF vars, iteratorVars, IInv, IterInv, HandSound, Naive, Plain
  <2>4. QED
    BY <2>1, <2>3 DEF IInv
<1>2. CASE Next
  BY <1>2, AddKeeps, NaiveKeeps, ConsumerKeeps, ProduceKeeps, ReloadKeeps DEF Next
<1>3. QED
  BY <1>1, <1>2

(* The invariant always holds. *)
LEMMA AlwaysIInv == Spec => []IInv
  BY InitIInv, NextIInv, PTL DEF Spec

(* The slots, the iterators' queues and the positions in the code keep their types. *)
THEOREM TypeCorrect == Spec => []TypeOK
<1>1. IInv => TypeOK
  <2> SUFFICES ASSUME IInv PROVE TypeOK
    OBVIOUS
  <2>1. queue \in Seq(BatchT) /\ Len(queue) <= QueueSize /\ batch \in BatchT \cup {None}
    BY DEF IInv, IterInv, Sound
  <2>2. QED
    BY <2>1 DEF IInv, Plain, RingInv, Store, TypeOK
<1>2. QED
  BY <1>1, AlwaysIInv, PTL

(* No batch has memory that was never written, whichever iterator is used and whatever is added
   while a batch is sampled. *)
THEOREM NoJunk == Spec => []NeverJunk
<1>1. IInv => NeverJunk
  <2> SUFFICES ASSUME IInv, NEW b \in Batches PROVE Junk \notin {b.state, b.next, b.rest}
    BY DEF NeverJunk
  <2>1. b \in Sound
    BY DEF Batches, IInv, IterInv
  <2>2. QED
    BY <2>1 DEF Sound
<1>2. QED
  BY <1>1, AlwaysIInv, PTL

----------------------------------------------------------------------------
(* The ring is the window *)

(* The index of the k-th of n transitions that end before p. *)
LEMMA Place ==
  ASSUME NEW p \in Index, NEW n \in 0..Capacity, NEW k \in 1..n
  PROVE  /\ (p - n + k - 1) % Capacity = IF p - n + k - 1 < 0 THEN p - n + k - 1 + Capacity ELSE p - n + k - 1
         /\ (p - n + k - 1) % Capacity \in Index
<1> USE BufferAssumption DEF BufferAssumption, Index
<1>1. CASE p - n + k - 1 < 0
  <2>1. p - n + k - 1 \in (-Capacity)..(-1)
    BY <1>1
  <2>2. QED
    BY <1>1, <2>1, ModNegative
<1>2. CASE p - n + k - 1 >= 0
  <2>1. p - n + k - 1 \in 0..(Capacity - 1)
    BY <1>2
  <2>2. QED
    BY <1>2, <2>1, ModSmall
<1>3. QED
  BY <1>1, <1>2

Rest == Transition \cup {Junk}

LEMMA ContentsSeq ==
  ASSUME Store, NEW p \in Index, NEW n \in 0..Capacity
  PROVE  /\ Contents(p, n) \in Seq(Rest) /\ Len(Contents(p, n)) = n
         /\ \A k \in 1..n : Contents(p, n)[k] = slots[(p - n + k - 1) % Capacity].rest
<1>1. \A k \in 1..n : slots[(p - n + k - 1) % Capacity].rest \in Rest
  <2> SUFFICES ASSUME NEW k \in 1..n PROVE slots[(p - n + k - 1) % Capacity].rest \in Rest
    OBVIOUS
  <2>1. (p - n + k - 1) % Capacity \in Index
    BY Place
  <2>2. slots[(p - n + k - 1) % Capacity] \in SlotT
    BY <2>1 DEF Store
  <2>3. QED
    BY <2>2 DEF SlotT, Rest
<1>2. n \in Nat
  BY BufferAssumption DEF BufferAssumption
<1>3. QED
  BY <1>1, <1>2 DEF Contents

(* The newest but the oldest. *)
LEMMA ContentsTail ==
  ASSUME Store, NEW p \in Index
  PROVE  Tail(Contents(p, Capacity)) = Contents(p, Capacity - 1)
<1> USE BufferAssumption DEF BufferAssumption
<1> DEFINE s == Tail(Contents(p, Capacity))
<1>1. Contents(p, Capacity) \in Seq(Rest) /\ Len(Contents(p, Capacity)) = Capacity
  BY ContentsSeq
<1>2. /\ Contents(p, Capacity - 1) \in Seq(Rest) /\ Len(Contents(p, Capacity - 1)) = Capacity - 1
  BY ContentsSeq
<1>3. s \in Seq(Rest) /\ Len(s) = Capacity - 1 /\ \A k \in 1..(Capacity - 1) : s[k] = Contents(p, Capacity)[k + 1]
  BY <1>1
<1>4. \A k \in 1..(Capacity - 1) : s[k] = Contents(p, Capacity - 1)[k]
  <2> SUFFICES ASSUME NEW k \in 1..(Capacity - 1) PROVE s[k] = Contents(p, Capacity - 1)[k]
    OBVIOUS
  <2>1. p - Capacity + (k + 1) - 1 = p - (Capacity - 1) + k - 1
    BY DEF Index
  <2>2. Contents(p, Capacity)[k + 1] = slots[(p - Capacity + (k + 1) - 1) % Capacity].rest
    BY k + 1 \in 1..Capacity DEF Contents
  <2>3. Contents(p, Capacity - 1)[k] = slots[(p - (Capacity - 1) + k - 1) % Capacity].rest
    BY ContentsSeq, SMTT(20)
  <2>4. QED
    BY <1>3, <2>1, <2>2, <2>3
<1> HIDE DEF s
<1>5. s = Contents(p, Capacity - 1)
  BY <1>2, <1>3, <1>4, SeqEqual
<1>6. QED
  BY <1>5 DEF s

(* One more: the transition in the slot before the next position. *)
LEMMA ContentsAppend ==
  ASSUME Store, NEW p \in Index, NEW n \in 0..(Capacity - 1), slots[p].rest \in Rest
  PROVE  Append(Contents(p, n), slots[p].rest) = Contents((p + 1) % Capacity, n + 1)
<1> USE BufferAssumption DEF BufferAssumption
<1> DEFINE q == (p + 1) % Capacity
           s == Append(Contents(p, n), slots[p].rest)
<1>1. q \in Index /\ q = IF p + 1 = Capacity THEN 0 ELSE p + 1
  BY NextIndex
<1>2. /\ Contents(p, n) \in Seq(Rest) /\ Len(Contents(p, n)) = n
      /\ \A k \in 1..n : Contents(p, n)[k] = slots[(p - n + k - 1) % Capacity].rest
  <2>1. n \in 0..Capacity
    OBVIOUS
  <2>2. QED
    BY <2>1, ContentsSeq
<1> HIDE DEF q
<1>3. /\ Contents(q, n + 1) \in Seq(Rest) /\ Len(Contents(q, n + 1)) = n + 1
      /\ \A k \in 1..(n + 1) : Contents(q, n + 1)[k] = slots[(q - (n + 1) + k - 1) % Capacity].rest
  <2> DEFINE m == n + 1
  <2>1. m \in 0..Capacity
    OBVIOUS
  <2> HIDE DEF m
  <2>2. /\ Contents(q, m) \in Seq(Rest) /\ Len(Contents(q, m)) = m
        /\ \A k \in 1..m : Contents(q, m)[k] = slots[(q - m + k - 1) % Capacity].rest
    BY <1>1, <2>1, ContentsSeq
  <2>3. QED
    BY <2>2 DEF m
<1>4. /\ s \in Seq(Rest) /\ Len(s) = n + 1 /\ s[n + 1] = slots[p].rest
      /\ \A k \in 1..n : s[k] = Contents(p, n)[k]
  BY <1>2, AppendProperties
<1> HIDE DEF s
<1>5. \A k \in 1..(n + 1) : s[k] = Contents(q, n + 1)[k]
  <2> SUFFICES ASSUME NEW k \in 1..(n + 1) PROVE s[k] = Contents(q, n + 1)[k]
    OBVIOUS
  <2> DEFINE y == (q - (n + 1) + k - 1) % Capacity
  <2>1. y = IF q - (n + 1) + k - 1 < 0 THEN q - (n + 1) + k - 1 + Capacity ELSE q - (n + 1) + k - 1
    BY <1>1, n + 1 \in 0..Capacity, Place
  <2> HIDE DEF y
  <2>2. CASE k = n + 1
    <3>1. y = p
      BY <1>1, <2>1, <2>2 DEF Index
    <3>2. QED
      BY <1>3, <1>4, <2>2, <3>1 DEF y
  <2>3. CASE k \in 1..n
    <3> DEFINE x == (p - n + k - 1) % Capacity
    <3>1. x = IF p - n + k - 1 < 0 THEN p - n + k - 1 + Capacity ELSE p - n + k - 1
      BY <2>3, n \in 0..Capacity, Place
    <3> HIDE DEF x
    <3>2. x = y
      BY <1>1, <2>1, <2>3, <3>1 DEF Index
    <3>3. QED
      BY <1>2, <1>3, <1>4, <2>3, <3>2 DEF x, y
  <2>4. QED
    BY <2>2, <2>3
<1>6. s = Contents(q, n + 1)
  BY <1>3, <1>4, <1>5, SeqEqual
<1>7. QED
  BY <1>6 DEF s, q

(* A step that leaves the ring alone leaves the window alone. *)
LEMMA WindowKept ==
  ASSUME UNCHANGED <<slots, position, size, adding>>,
         main' = main \/ (main \notin Adding /\ main' \notin Adding)
  PROVE  Window' = Window
<1>1. \A p, n : Contents(p, n)' = Contents(p, n)
  BY DEF Contents
<1>2. Kept' = Kept
  BY DEF Kept
<1>3. CASE main' = main
  BY <1>1, <1>2, <1>3 DEF Window, Contents
<1>4. CASE main \notin Adding /\ main' \notin Adding
  <2>1. Window = Contents(position, size)
    BY <1>4 DEF Window, Adding
  <2>2. Window' = Contents(position, size)'
    BY <1>4 DEF Window, Adding
  <2>3. QED
    BY <2>1, <2>2 DEF Contents
<1>5. QED
  BY <1>3, <1>4

(* A transition is added to the window when its first tensor is written. *)
LEMMA AddStateIsAdd ==
  ASSUME IInv, IInv', AddState
  PROVE  Recent!Add(adding') /\ adding' \in Transition
<1> USE BufferAssumption DEF BufferAssumption
<1>1. size \in 0..Capacity /\ position \in Index /\ Store
  BY DEF IInv, RingInv, Store
<1>2. Kept \in 0..(Capacity - 1) /\ Kept \in 0..Capacity
  BY <1>1 DEF Kept
<1>3. /\ adding' \in Transition /\ adding'.id = arrived + 1 /\ arrived' = arrived + 1
      /\ \A i \in Index : slots'[i].rest = slots[i].rest
      /\ main = "loop" /\ main' = "rest" /\ position' = position /\ size' = size
  <2>1. PICK end \in {"no", "done", "truncated"} :
          LET t == [id |-> arrived + 1, end |-> end] IN
          /\ adding' = t
          /\ slots' = [slots EXCEPT ![position].state = t.id,
                                    ![position].next = IF optimized THEN @ ELSE StateAfter(t)]
    BY DEF AddState
  <2> DEFINE t == [id |-> arrived + 1, end |-> end]
             new == [slots[position] EXCEPT !.state = t.id,
                                            !.next = IF optimized THEN @ ELSE StateAfter(t)]
  <2>2. adding' \in Transition /\ adding'.id = arrived + 1
    BY <2>1 DEF AddState, IInv, Plain, Transition
  <2>3. slots[position] \in SlotT /\ slots \in [Index -> SlotT]
    BY <1>1 DEF Store
  <2>4. slots' = [slots EXCEPT ![position] = new]
    BY <1>1, <2>1, <2>3 DEF SlotT
  <2>5. new.rest = slots[position].rest
    BY <2>3 DEF SlotT
  <2> HIDE DEF new
  <2>6. \A i \in Index : slots'[i].rest = slots[i].rest
    BY <2>3, <2>4, <2>5
  <2>7. QED
    BY <2>2, <2>6 DEF AddState
<1>4. Window = Contents(position, size)
  BY <1>3 DEF Window
<1>5. Window' = Append([k \in 1..Kept |-> slots'[(position - Kept + k - 1) % Capacity].rest], adding')
  BY <1>3 DEF Window, Contents, Kept
<1>6. \A k \in 1..Kept : (position - Kept + k - 1) % Capacity \in Index
  BY <1>1, <1>2, Place
<1>7. Window' = Append(Contents(position, Kept), adding')
  BY <1>3, <1>5, <1>6 DEF Contents
<1>8. Len(Window) = size
  BY <1>1, <1>4, ContentsSeq
<1>9. Contents(position, Kept) = IF Len(Window) = Capacity THEN Tail(Window) ELSE Window
  BY <1>1, <1>4, <1>8, ContentsTail DEF Kept
<1>10. Recent!Add(adding')
  BY <1>3, <1>7, <1>9 DEF Recent!Add
<1>11. QED
  BY <1>3, <1>10

(* What follows, to the end of add, only brings the ring to it. *)
LEMMA FillKeepsWindow ==
  ASSUME IInv, IInv', AddRest \/ AddAdvance \/ AddGrow
  PROVE  Window' = Window /\ arrived' = arrived
<1> USE BufferAssumption DEF BufferAssumption
<1>1. size \in 0..Capacity /\ position \in Index /\ Store
  BY DEF IInv, RingInv, Store
<1>2. Kept \in 0..(Capacity - 1) /\ Kept \in 0..Capacity
  BY <1>1 DEF Kept
<1>3. CASE AddRest
  <2>1. /\ \A i \in Index : i # position => slots'[i].rest = slots[i].rest
        /\ main = "rest" /\ main' = "advance" /\ UNCHANGED <<position, size, adding, arrived>>
    BY <1>1, <1>3 DEF AddRest, Store
  <2>2. Window = Append(Contents(position, Kept), adding)
    BY <2>1 DEF Window
  <2>3. Window' = Append([k \in 1..Kept |-> slots'[(position - Kept + k - 1) % Capacity].rest], adding)
    BY <2>1 DEF Window, Contents, Kept
  <2>4. ASSUME NEW k \in 1..Kept
        PROVE  (position - Kept + k - 1) % Capacity \in Index \ {position}
    <3> DEFINE y == (position - Kept + k - 1) % Capacity
    <3>1. /\ y = IF position - Kept + k - 1 < 0 THEN position - Kept + k - 1 + Capacity
                  ELSE position - Kept + k - 1
          /\ y \in Index
      BY <1>1, <1>2, Place
    <3> HIDE DEF y
    <3>2. y # position
      BY <1>1, <1>2, <3>1 DEF Index
    <3>3. QED
      BY <3>1, <3>2 DEF y
  <2>5. Window' = Window
    BY <2>1, <2>2, <2>3, <2>4 DEF Contents
  <2>6. QED
    BY <2>1, <2>5
<1>4. CASE AddAdvance
  <2>1. /\ main = "advance" /\ main' = "grow" /\ UNCHANGED <<slots, size, adding, arrived>>
        /\ position' = (position + 1) % Capacity
    BY <1>4 DEF AddAdvance
  <2>2. slots[position].rest = adding /\ adding \in Transition
    BY <2>1 DEF IInv, RingInv, BeingAdded
  <2>3. Window = Append(Contents(position, Kept), slots[position].rest)
    BY <2>1, <2>2 DEF Window
  <2>4. Window' = Contents((position + 1) % Capacity, Kept + 1)
    BY <2>1 DEF Window, Contents, Kept
  <2>5. Window' = Window
    BY <1>1, <1>2, <2>2, <2>3, <2>4, ContentsAppend DEF Rest
  <2>6. QED
    BY <2>1, <2>5
<1>5. CASE AddGrow
  <2>1. /\ main = "grow" /\ main' = "loop" /\ UNCHANGED <<slots, position, arrived>>
        /\ size' = IF size < Capacity THEN size + 1 ELSE Capacity
    BY <1>5 DEF AddGrow
  <2>2. size' = Kept + 1
    BY <1>1, <2>1 DEF Kept
  <2>3. Window = Contents(position, Kept + 1) /\ Window' = Contents(position, size')
    BY <2>1 DEF Window, Contents
  <2>4. QED
    BY <2>1, <2>2, <2>3
<1>6. QED
  BY <1>3, <1>4, <1>5

(* process_transitions: a transition is skipped or added. *)
LEMMA AddIsAdd ==
  ASSUME IInv, IInv', SkipTransition \/ Add
  PROVE  [Recent!Next]_<<Window, arrived>>
<1>1. CASE SkipTransition
  <2>1. Window' = Window /\ arrived' = arrived + 1
    BY <1>1, WindowKept DEF SkipTransition, bufferVars
  <2>2. QED
    BY <2>1 DEF Recent!Next, Recent!Skip
<1>2. CASE AddState
  BY <1>2, AddStateIsAdd DEF Recent!Next
<1>3. CASE AddRest \/ AddAdvance \/ AddGrow
  BY <1>3, FillKeepsWindow
<1>4. QED
  BY <1>1, <1>2, <1>3 DEF Add

(* A learner that resumes has the same window, without the reasons episodes were cut off. *)
LEMMA ReloadIsReload ==
  ASSUME IInv, IInv', Reload
  PROVE  Recent!Reload
<1> USE BufferAssumption DEF BufferAssumption
<1>1. /\ main = "loop" /\ main' = "loop" /\ size \in 1..Capacity /\ position \in Index /\ Store
      /\ position' = size % Capacity /\ position' \in Index /\ size' = size /\ arrived' = arrived
  BY DEF Reload, IInv, RingInv, Store, Index
<1>2. Window = Contents(position, size)
  BY <1>1 DEF Window
<1>3. Window' = [k \in 1..size |-> slots'[(position' - size + k - 1) % Capacity].rest]
  BY <1>1 DEF Window, Contents
<1>4. ASSUME NEW k \in 1..size
      PROVE  slots'[(position' - size + k - 1) % Capacity].rest = Restored(Window[k])
  <2> DEFINE y == (position' - size + k - 1) % Capacity
  <2>1. /\ y = IF position' - size + k - 1 < 0 THEN position' - size + k - 1 + Capacity
                ELSE position' - size + k - 1
        /\ y \in Index
    BY <1>1, size \in 0..Capacity, Place
  <2> HIDE DEF y
  <2>2. position' = IF size = Capacity THEN 0 ELSE size
    <3>1. CASE size = Capacity
      <4>1. size \in Capacity..(2 * Capacity - 1)
        BY <1>1, <3>1
      <4>2. QED
        BY <1>1, <3>1, <4>1, ModOnce
    <3>2. CASE size # Capacity
      <4>1. size \in 0..(Capacity - 1)
        BY <1>1, <3>2
      <4>2. QED
        BY <1>1, <3>2, <4>1, ModSmall
    <3>3. QED
      BY <3>1, <3>2
  <2>3. y = k - 1
    BY <1>1, <2>1, <2>2
  <2>4. slots'[y] = [state |-> Restored(Contents(position, size)[y + 1]).id, next |-> Junk,
                     rest |-> Restored(Contents(position, size)[y + 1])]
    BY <1>1, <2>1, <2>3 DEF Reload
  <2>5. slots'[y].rest = Restored(Contents(position, size)[k])
    BY <2>3, <2>4
  <2>6. QED
    BY <1>2, <2>5 DEF y
<1>5. DOMAIN Window = 1..size
  BY <1>2 DEF Contents
<1>6. Window' = [k \in DOMAIN Window |-> Restored(Window[k])]
  BY <1>3, <1>4, <1>5
<1>7. QED
  BY <1>1, <1>6 DEF Recent!Reload, Restored

(* Every step of the buffer and its iterators is a step of RecentTransitions or none. *)
LEMMA StepIsRecent ==
  ASSUME IInv, IInv', [Next]_vars
  PROVE  [Recent!Next]_<<Window, arrived>>
<1>1. CASE UNCHANGED vars
  BY <1>1, WindowKept DEF vars, bufferVars
<1>2. CASE SkipTransition \/ Add
  BY <1>2, AddIsAdd
<1>3. CASE Reload
  BY <1>3, ReloadIsReload DEF Recent!Next
<1>4. CASE NextNaive \/ NextNaiveRaises \/ NextAsync \/ Learn \/ Wait \/ Close \/ Produce
  <2>1. UNCHANGED <<slots, position, size, adding, arrived>>
    BY <1>4 DEF NextNaive, NextNaiveRaises, NextAsync, Learn, Close, Goto, bufferVars, Wait, CheckStop,
                GetBatch, LeaveIterator, NewIterator, Closed, Produce, ProducerEnds, PickIndex,
                SampleRaises, ReadState, ReadNext, ReadRest, PutBatch, PutTimesOut, ProduceAt
  <2>2. main' = main \/ (main \notin Adding /\ main' \notin Adding)
    BY <1>4 DEF NextNaive, NextNaiveRaises, NextAsync, Learn, Close, Goto, MayLearn, Wait, CheckStop,
                GetBatch, LeaveIterator, NewIterator, Closed, Produce, ProducerEnds, PickIndex,
                SampleRaises, ReadState, ReadNext, ReadRest, PutBatch, PutTimesOut, ProduceAt, Adding
  <2>3. QED
    BY <2>1, <2>2, WindowKept
<1>5. QED
  BY <1>1, <1>2, <1>3, <1>4 DEF Next

(* The ring holds the last Capacity usable transitions in their order, for any capacity, with
   either iterator and over checkpoints and resumes. *)
THEOREM RingIsRecent == Spec => RingIsWindow
<1>1. Init => Recent!Init
  <2> SUFFICES ASSUME Init PROVE Recent!Init
    OBVIOUS
  <2>1. Window = Contents(0, 0) /\ arrived = 0
    BY DEF Init, Window
  <2>2. Contents(0, 0) = <<>>
    BY DEF Contents
  <2>3. QED
    BY <2>1, <2>2 DEF Recent!Init
<1>2. IInv /\ IInv' /\ [Next]_vars => [Recent!Next]_<<Window, arrived>>
  BY StepIsRecent
<1>3. QED
  BY <1>1, <1>2, AlwaysIInv, PTL DEF Spec, RingIsWindow, Recent!Spec
----------------------------------------------------------------------------
(* Without a thread a batch is one transition *)

(* The parts of the slot belong to one transition. *)
Match(i) ==
  /\ slots[i].state = slots[i].rest.id
  /\ optimized \/ slots[i].next = StateAfter(slots[i].rest)

(* All slots do, but for the one that is being written. *)
Whole ==
  /\ \A i \in 0..(size - 1) : (main = "rest" /\ i = position) \/ Match(i)
  /\ main = "rest" => /\ slots[position].state = adding.id
                      /\ optimized \/ slots[position].next = StateAfter(adding)
  /\ main = "advance" => Match(position)
  /\ main = "grow" /\ size < Capacity => Match(size)

(* Transition number n is the next one after t, or the next one was left out. *)
Follows(t, n) == n = t.id + 1 \/ t.id + 1 \in skipped

(* Each in the window follows the one before it, and the next to arrive follows the newest. *)
Chain ==
  /\ \A k \in 1..(Len(Window) - 1) : Follows(Window[k], Window[k + 1].id)
  /\ Len(Window) > 0 => Follows(Window[Len(Window)], arrived + 1)

WholeInv == Whole /\ Chain /\ BatchIsTransition

(* Nothing has arrived at the start. *)
LEMMA InitWhole == Init => WholeInv
<1> SUFFICES ASSUME Init PROVE WholeInv
  OBVIOUS
<1>1. main = "loop" /\ size = 0 /\ position = 0 /\ queue = <<>> /\ batch = None
  BY DEF Init
<1>2. Window = <<>>
  BY <1>1 DEF Window, Contents
<1>3. Chain
  BY <1>2 DEF Chain
<1>4. Batches = {}
  BY <1>1 DEF Batches
<1>5. QED
  BY <1>1, <1>3, <1>4 DEF WholeInv, Whole, BatchIsTransition

(* A step that leaves the ring alone leaves its slots whole. *)
LEMMA SlotsKept ==
  ASSUME Whole, UNCHANGED <<optimized, slots, position, size, adding>>,
         main' = main \/ (main \notin Adding /\ main' \notin Adding)
  PROVE  Whole'
<1>1. \A i : Match(i)' = Match(i)
  BY DEF Match, StateAfter
<1>2. CASE main' = main
  BY <1>1, <1>2 DEF Whole, StateAfter
<1>3. CASE main \notin Adding /\ main' \notin Adding
  BY <1>1, <1>3 DEF Whole, Adding
<1>4. QED
  BY <1>2, <1>3

(* The chain only depends on the window, what has arrived and what was left out. *)
LEMMA ChainKept == Chain /\ UNCHANGED <<Window, arrived, skipped>> => Chain'
  BY DEF Chain, Follows

(* The batches that wait stay what they are when more is left out. *)
LEMMA BatchesKept ==
  ASSUME BatchIsTransition, UNCHANGED <<optimized, prefetch>>, skipped \subseteq skipped',
         Batches' \subseteq Batches
  PROVE  BatchIsTransition'
  BY DEF BatchIsTransition, Misled, StateAfter

(* add writes a slot part by part: at its end the slot is whole. *)
LEMMA AddWhole == IInv /\ IInv' /\ Whole /\ Add => Whole'
<1> SUFFICES ASSUME IInv, IInv', Whole, Add PROVE Whole'
  OBVIOUS
<1> USE BufferAssumption DEF BufferAssumption
<1>1. Store /\ size \in 0..Capacity /\ position \in Index
  BY DEF IInv, RingInv, Store
<1>2. CASE AddState
  <2>1. PICK end \in {"no", "done", "truncated"} :
          LET t == [id |-> arrived + 1, end |-> end] IN
          /\ adding' = t
          /\ slots' = [slots EXCEPT ![position].state = t.id,
                                    ![position].next = IF optimized THEN @ ELSE StateAfter(t)]
    BY <1>2 DEF AddState
  <2> DEFINE new == [slots[position] EXCEPT !.state = adding'.id,
                                            !.next = IF optimized THEN @ ELSE StateAfter(adding')]
  <2>2. slots[position] \in SlotT /\ slots \in [Index -> SlotT]
    BY <1>1 DEF Store
  <2>3. slots' = [slots EXCEPT ![position] = new]
    BY <1>1, <2>1, <2>2 DEF SlotT
  <2>4. new.state = adding'.id /\ (optimized \/ new.next = StateAfter(adding'))
    BY <2>2 DEF SlotT
  <2> HIDE DEF new
  <2>5. slots'[position] = new /\ \A i \in Index : i # position => slots'[i] = slots[i]
    BY <1>1, <2>2, <2>3
  <2>6. main = "loop" /\ main' = "rest" /\ UNCHANGED <<optimized, position, size>>
    BY <1>2 DEF AddState
  <2>7. \A i \in 0..(size - 1) : i = position \/ Match(i)'
    BY <1>1, <2>5, <2>6 DEF Whole, Match, Index, StateAfter
  <2>8. QED
    BY <2>4, <2>5, <2>6, <2>7 DEF Whole, StateAfter
<1>3. CASE AddRest
  <2>1. slots[position] \in SlotT /\ slots \in [Index -> SlotT]
    BY <1>1 DEF Store
  <2> DEFINE new == [slots[position] EXCEPT !.rest = adding]
  <2>2. slots' = [slots EXCEPT ![position] = new]
    BY <1>3, <2>1 DEF AddRest, SlotT
  <2>3. new.rest = adding /\ new.state = slots[position].state /\ new.next = slots[position].next
    BY <2>1 DEF SlotT
  <2> HIDE DEF new
  <2>4. slots'[position] = new /\ \A i \in Index : i # position => slots'[i] = slots[i]
    BY <1>1, <2>1, <2>2
  <2>5. main = "rest" /\ main' = "advance" /\ UNCHANGED <<optimized, position, size, adding>>
    BY <1>3 DEF AddRest
  <2>6. Match(position)'
    BY <2>3, <2>4, <2>5 DEF Whole, Match, StateAfter
  <2>7. \A i \in 0..(size - 1) : Match(i)'
    BY <1>1, <2>4, <2>5, <2>6 DEF Whole, Match, Index, StateAfter
  <2>8. QED
    BY <2>5, <2>6, <2>7 DEF Whole
<1>4. CASE AddAdvance
  <2>1. main = "advance" /\ main' = "grow" /\ UNCHANGED <<optimized, slots, size>>
    BY <1>4 DEF AddAdvance
  <2>2. \A i : Match(i)' = Match(i)
    BY <2>1 DEF Match, StateAfter
  <2>3. size < Capacity => position = size
    BY <2>1 DEF IInv, RingInv, InOrder
  <2>4. QED
    BY <2>1, <2>2, <2>3 DEF Whole
<1>5. CASE AddGrow
  <2>1. /\ main = "grow" /\ main' = "loop" /\ UNCHANGED <<optimized, slots, position>>
        /\ size' = IF size < Capacity THEN size + 1 ELSE Capacity
    BY <1>5 DEF AddGrow
  <2>2. \A i : Match(i)' = Match(i)
    BY <2>1 DEF Match, StateAfter
  <2>3. \A i \in 0..(size' - 1) : Match(i)
    BY <1>1, <2>1 DEF Whole
  <2>4. QED
    BY <2>1, <2>2, <2>3 DEF Whole
<1>6. QED
  BY <1>2, <1>3, <1>4, <1>5 DEF Add

(* A learner that resumes fills the slots with whole transitions. *)
LEMMA ReloadWhole == IInv /\ Reload => Whole'
<1> SUFFICES ASSUME IInv, Reload PROVE Whole'
  OBVIOUS
<1> USE BufferAssumption DEF BufferAssumption
<1> DEFINE t(i) == Restored(Contents(position, size)[i + 1])
<1>1. /\ main = "loop" /\ main' = "loop" /\ size \in 1..Capacity /\ size' = size /\ optimized'
  BY DEF Reload, IInv, RingInv, Store
<1>2. \A i \in 0..(size - 1) : i \in Index /\ slots'[i] = [state |-> t(i).id, next |-> Junk, rest |-> t(i)]
  BY <1>1 DEF Reload, Index
<1>3. ASSUME NEW i \in 0..(size - 1) PROVE Match(i)'
  <2>1. PICK r : slots'[i] = [state |-> r.id, next |-> Junk, rest |-> r]
    BY <1>2
  <2>2. slots'[i].state = r.id /\ slots'[i].rest = r
    BY <2>1
  <2>3. QED
    BY <1>1, <2>2 DEF Match
<1>4. QED
  BY <1>1, <1>3 DEF Whole

(* The window without its oldest when it is full is as much a chain, and the new one goes on
   from it. *)
LEMMA AddChain == IInv /\ IInv' /\ Chain /\ AddState => Chain'
<1> SUFFICES ASSUME IInv, IInv', Chain, AddState PROVE Chain'
  OBVIOUS
<1> USE BufferAssumption DEF BufferAssumption
<1> DEFINE w == Window
           t == adding'
           u == IF Len(w) = Capacity THEN Tail(w) ELSE w
           d == IF Len(w) = Capacity THEN 1 ELSE 0
<1>1. t.id = arrived + 1 /\ arrived' = t.id /\ Window' = Append(u, t) /\ skipped' = skipped /\ t \in Transition
  BY AddStateIsAdd DEF Recent!Add, AddState
<1>2. w \in Seq(Rest) /\ Len(w) \in 0..Capacity
  <2>1. w = Contents(position, size) /\ position \in Index /\ size \in 0..Capacity
    BY DEF AddState, Window, IInv, RingInv, Store
  <2>2. QED
    BY <2>1, ContentsSeq DEF IInv, RingInv
<1>3. Chain'
  <2>1. /\ \A k \in 1..(Len(w) - 1) : Follows(w[k], w[k + 1].id)
        /\ Len(w) > 0 => Follows(w[Len(w)], arrived + 1)
    BY DEF Chain
  <2> HIDE DEF w
  <2>2. /\ u \in Seq(Rest) /\ Len(u) = Len(w) - d /\ d \in {0, 1} /\ Len(w) - d >= 0
        /\ \A k \in 1..Len(u) : u[k] = w[k + d]
    <3>1. CASE Len(w) = Capacity
      BY <1>2, <3>1
    <3>2. CASE Len(w) # Capacity
      BY <1>2, <3>2
    <3>3. QED
      BY <3>1, <3>2
  <2> HIDE DEF u, d
  <2> DEFINE v == Append(u, t)
  <2>3. /\ Len(v) = Len(u) + 1 /\ v[Len(u) + 1] = t /\ Len(u) \in Nat
        /\ \A k \in 1..Len(u) : v[k] = u[k]
    <3>1. t \in Rest
      BY <1>1 DEF Rest
    <3> HIDE DEF t
    <3>2. QED
      BY <2>2, <3>1, AppendProperties
  <2> HIDE DEF v
  <2>4. ASSUME NEW k \in 1..(Len(v) - 1) PROVE Follows(v[k], v[k + 1].id)
    <3> DEFINE m == Len(u)
               n == Len(w)
    <3>1. m \in Nat /\ n \in Nat /\ m = n - d /\ d \in {0, 1} /\ k \in 1..m
      BY <1>2, <2>2, <2>3
    <3>2. k \in 1..m /\ k + d \in 1..n /\ v[k] = w[k + d]
      <4>1. v[k] = u[k] /\ u[k] = w[k + d]
        BY <2>2, <2>3, <3>1
      <4> HIDE DEF m, n
      <4>2. k + d \in 1..n
        BY <3>1
      <4>3. QED
        BY <3>1, <4>1, <4>2
    <3>3. CASE k = Len(u)
      <4>1. v[k + 1].id = arrived + 1 /\ k + d = Len(w) /\ Len(w) > 0
        BY <1>1, <1>2, <2>2, <2>3, <3>2, <3>3
      <4>2. QED
        BY <2>1, <3>2, <4>1
    <3>4. CASE k # Len(u)
      <4>1. k + 1 \in 1..Len(u) /\ v[k + 1] = w[(k + d) + 1] /\ k + d \in 1..(Len(w) - 1)
        BY <1>2, <2>2, <2>3, <3>2, <3>4, SMTT(20)
      <4>2. QED
        BY <2>1, <3>2, <4>1
    <3>5. QED
      BY <3>3, <3>4
  <2>5. v[Len(v)] = t
    BY <2>3
  <2>6. Window' = v
    BY <1>1 DEF v
  <2>7. \A a, n : Follows(a, n)' = Follows(a, n)
    BY <1>1 DEF Follows
  <2>8. Follows(t, arrived' + 1)
    BY <1>1 DEF Follows
  <2>9. QED
    BY <2>4, <2>5, <2>6, <2>7, <2>8 DEF Chain
<1>4. QED
  BY <1>3

(* Left out, saved or loaded, the window stays a chain. *)
LEMMA OtherChain == IInv /\ IInv' /\ Chain /\ (SkipTransition \/ Reload) => Chain'
<1> SUFFICES ASSUME IInv, IInv', Chain, SkipTransition \/ Reload PROVE Chain'
  OBVIOUS
<1>1. CASE SkipTransition
  <2>1. /\ Window' = Window /\ arrived' = arrived + 1 /\ skipped' = skipped \cup {arrived + 1}
    BY <1>1, WindowKept DEF SkipTransition, bufferVars
  <2>2. \A a, n : Follows(a, n) => Follows(a, n)'
    BY <2>1 DEF Follows
  <2>3. \A a : Follows(a, arrived + 1) => a.id + 1 \in skipped'
    BY <2>1 DEF Follows
  <2>4. \A k \in 1..(Len(Window') - 1) : Follows(Window[k], Window[k + 1].id)'
    BY <2>1, <2>2 DEF Chain
  <2>5. Len(Window') > 0 => Window'[Len(Window')].id + 1 \in skipped'
    BY <2>1, <2>3 DEF Chain
  <2>6. QED
    BY <2>4, <2>5 DEF Chain, Follows
<1>2. CASE Reload
  <2>1. /\ arrived' = arrived /\ skipped' = skipped /\ size' = size
        /\ Window' = [k \in DOMAIN Window |-> IF Window[k].end = "truncated"
                                              THEN [Window[k] EXCEPT !.end = "no"] ELSE Window[k]]
    BY <1>2, ReloadIsReload DEF Recent!Reload, Reload
  <2>2. /\ Window \in Seq(Rest) /\ Len(Window) = size /\ size \in Nat
        /\ \A k \in 1..size : Window[k] \in Transition
    <3>1. Window = Contents(position, size) /\ position \in Index /\ size \in 0..Capacity /\ main \notin Adding
      BY <1>2 DEF Reload, Window, IInv, RingInv, Store, Adding
    <3>2. QED
      BY <3>1, ContentsSeq, ContentsAre, BufferAssumption DEF IInv, RingInv, BufferAssumption
  <2>3. DOMAIN Window = 1..size
    BY <2>2
  <2>4. \A k \in 1..size : Window'[k].id = Window[k].id
    BY <2>1, <2>2, <2>3 DEF Transition
  <2>5. Len(Window') = size
    BY <2>1, <2>2, <2>3
  <2>6. \A k \in 1..(size - 1) : Follows(Window[k], Window[k + 1].id)'
    <3> SUFFICES ASSUME NEW k \in 1..(size - 1) PROVE Follows(Window[k], Window[k + 1].id)'
      OBVIOUS
    <3>1. Follows(Window[k], Window[k + 1].id)
      BY <2>2 DEF Chain
    <3>2. Window'[k].id = Window[k].id /\ Window'[k + 1].id = Window[k + 1].id
      BY <2>2, <2>4
    <3>3. QED
      BY <2>1, <3>1, <3>2 DEF Follows
  <2>7. size > 0 => Follows(Window[Len(Window)], arrived + 1)'
    BY <2>1, <2>2, <2>4, <2>5 DEF Chain, Follows
  <2>8. QED
    BY <2>1, <2>5, <2>6, <2>7 DEF Chain
<1>3. QED
  BY <1>1, <1>2

(* What a batch sampled while nothing is added takes from the ring. *)
LEMMA SampledIsTransition ==
  ASSUME IInv, Whole, Chain, main = "loop", NEW i \in 0..(High - 1)
  PROVE  LET b == Sampled(i) IN
         /\ b.state = b.rest.id
         /\ b.next = StateAfter(b.rest) \/ (optimized /\ (b.rest.end = "done" \/ Misled(b)))
<1> USE BufferAssumption DEF BufferAssumption
<1> DEFINE b == Sampled(i)
<1>1. size \in 0..Capacity /\ position \in Index /\ i \in 0..(size - 1) /\ i \in Index
  BY HighIsWritten DEF High, IInv, RingInv, Store
<1>2. Match(i) /\ slots[i].rest \in Transition
  BY <1>1, HighIsWritten DEF Whole
<1>3. b.state = slots[i].state /\ b.next = NextState(i) /\ b.rest = slots[i].rest /\ b.wraps = Wraps(i)
  BY DEF Sampled
<1> HIDE DEF b
<1>4. b.state = b.rest.id
  BY <1>2, <1>3 DEF Match
<1>5. CASE ~optimized
  BY <1>2, <1>3, <1>4, <1>5 DEF Match, NextState, b
<1>6. CASE optimized /\ Wraps(i)
  BY <1>3, <1>4, <1>6 DEF Misled, b
<1>7. CASE optimized /\ ~Wraps(i)
  <2> DEFINE j == (i + 1) % Capacity
             at(k) == (position - size + k - 1) % Capacity
  <2>1. j \in 0..(size - 1) /\ j = (IF i + 1 = Capacity THEN 0 ELSE i + 1) /\ (size < Capacity => i + 1 < size)
    <3>1. size < Capacity => i + 1 \in 0..(size - 1)
      BY <1>1, <1>7 DEF High
    <3>2. QED
      BY <1>1, <3>1, NextIndex DEF Index
  <2>2. \A k \in 1..size : at(k) = IF position - size + k - 1 < 0 THEN position - size + k - 1 + Capacity
                                   ELSE position - size + k - 1
    BY <1>1, Place
  <2>3. size = Capacity => j # position
    BY <1>7 DEF Wraps
  <2>4. size < Capacity => position = size
    BY DEF IInv, RingInv, InOrder
  <2> HIDE DEF j, at
  <2>5. PICK k \in 1..(size - 1) : at(k) = i /\ at(k + 1) = j
    <3> DEFINE k == IF size < Capacity THEN i + 1
                    ELSE IF i >= position THEN i - position + 1 ELSE i - position + Capacity + 1
    <3>1. k \in 1..(size - 1)
      BY <1>1, <2>1, <2>3, <2>4 DEF Index
    <3>2. at(k) = i
      <4>1. k \in 1..size
        BY <1>1, <3>1
      <4>2. QED
        BY <1>1, <2>2, <2>4, <4>1 DEF Index
    <3>3. at(k + 1) = j
      <4>1. k + 1 \in 1..size
        BY <1>1, <3>1
      <4>2. QED
        BY <1>1, <2>1, <2>2, <2>3, <2>4, <4>1 DEF Index
    <3>4. QED
      BY <3>1, <3>2, <3>3
  <2>6. Window = Contents(position, size)
    BY DEF Window
  <2>7. Window[k] = slots[i].rest /\ Window[k + 1] = slots[j].rest /\ Len(Window) = size
    <3>1. Store
      BY DEF IInv, RingInv
    <3>2. k \in 1..size /\ k + 1 \in 1..size
      BY <1>1, <2>5
    <3>3. QED
      BY <1>1, <2>5, <2>6, <3>1, <3>2, ContentsSeq, ZenonT(30) DEF at
  <2>8. Follows(slots[i].rest, slots[j].rest.id)
    BY <2>5, <2>7 DEF Chain
  <2>9. NextState(i) = slots[j].rest.id
    BY <1>7, <2>1 DEF Whole, Match, NextState, j
  <2>10. b.next = b.rest.id + 1 \/ b.rest.id + 1 \in skipped
    BY <1>3, <2>8, <2>9 DEF Follows
  <2>11. b.rest.end \in {"no", "done", "truncated"}
    BY <1>2, <1>3 DEF Transition
  <2>12. QED
    BY <1>4, <1>7, <2>10, <2>11 DEF Misled, StateAfter, b
<1>8. QED
  BY <1>5, <1>6, <1>7
(* The batch taken and those that wait are sampled now or waited before. *)
LEMMA NaiveBatches == IInv /\ WholeInv /\ NextNaive => BatchIsTransition'
<1> SUFFICES ASSUME IInv, WholeInv, NextNaive PROVE BatchIsTransition'
  OBVIOUS
<1> USE BufferAssumption DEF BufferAssumption
<1> DEFINE Ok(b) == /\ b.state = b.rest.id
                    /\ b.next = StateAfter(b.rest) \/ (optimized /\ (b.rest.end = "done" \/ Misled(b)))
           n == IF iterating THEN 1 ELSE QueueSize
<1>1. ~prefetch /\ main = "loop" /\ UNCHANGED <<optimized, prefetch, skipped>>
  BY DEF NextNaive, MayLearn, Goto
<1>2. PICK picks \in [1..n -> 0..(High - 1)] :
        LET q == queue \o [k \in DOMAIN picks |-> Sampled(picks[k])] IN
        batch' = Head(q) /\ queue' = Tail(q)
  BY DEF NextNaive
<1> DEFINE more == [k \in DOMAIN picks |-> Sampled(picks[k])]
           q == queue \o more
<1>3. n \in Nat \ {0} /\ DOMAIN picks = 1..n
  OBVIOUS
<1>4. \A k \in 1..n : Ok(Sampled(picks[k])) /\ Sampled(picks[k]) \in Sound
  <2> SUFFICES ASSUME NEW k \in 1..n PROVE Ok(Sampled(picks[k])) /\ Sampled(picks[k]) \in Sound
    OBVIOUS
  <2>1. picks[k] \in 0..(High - 1)
    BY <1>3
  <2>2. QED
    BY <1>1, <2>1, SampledIsTransition, SampledSound DEF WholeInv
<1>5. \A k \in DOMAIN queue : Ok(queue[k])
  <2> SUFFICES ASSUME NEW k \in DOMAIN queue PROVE Ok(queue[k])
    OBVIOUS
  <2>1. queue[k] \in Batches
    BY DEF Batches
  <2>2. QED
    BY <1>1, <2>1 DEF WholeInv, BatchIsTransition
<1>6. queue \in Seq(Sound)
  BY DEF IInv, IterInv
<1>7. more \in Seq(Sound) /\ Len(more) = n /\ \A k \in 1..n : more[k] = Sampled(picks[k])
  BY <1>3, <1>4
<1>8. \A b : Ok(b)' = Ok(b)
  BY <1>1 DEF Misled, StateAfter
<1> HIDE DEF Ok, n, more
<1>9. /\ q \in Seq(Sound) /\ Len(q) = Len(queue) + n /\ Len(queue) \in Nat
      /\ \A k \in 1..Len(q) : q[k] = IF k <= Len(queue) THEN queue[k] ELSE more[k - Len(queue)]
  BY <1>6, <1>7, ConcatProperties
<1>10. \A k \in 1..Len(q) : Ok(q[k])
  <2> SUFFICES ASSUME NEW k \in 1..Len(q) PROVE Ok(q[k])
    OBVIOUS
  <2>1. CASE k <= Len(queue)
    BY <1>5, <1>6, <1>9, <2>1
  <2>2. CASE k > Len(queue)
    <3>1. k - Len(queue) \in 1..n
      BY <1>3, <1>9, <2>2
    <3>2. QED
      BY <1>4, <1>7, <1>9, <2>2, <3>1
  <2>3. QED
    BY <1>9, <2>1, <2>2
<1>11. batch' = Head(q) /\ queue' = Tail(q)
  BY <1>2 DEF more
<1> HIDE DEF q
<1>12. Len(q) > 0
  BY <1>3, <1>9
<1>13. Ok(batch') /\ \A k \in DOMAIN queue' : Ok(queue'[k])
  <2>1. batch' = q[1] /\ 1 \in 1..Len(q)
    BY <1>9, <1>11, <1>12
  <2>2. \A k \in DOMAIN queue' : queue'[k] = q[k + 1] /\ k + 1 \in 1..Len(q)
    BY <1>9, <1>11, <1>12
  <2>3. QED
    BY <1>10, <2>1, <2>2
<1>14. \A b \in Batches' : Ok(b)
  BY <1>13 DEF Batches
<1>15. QED
  BY <1>1, <1>8, <1>14 DEF BatchIsTransition, Ok

(* Every step keeps the slots whole, the window a chain and the batches transitions. *)
LEMMA NextWhole == IInv /\ IInv' /\ WholeInv /\ [Next]_vars => WholeInv'
<1> SUFFICES ASSUME IInv, IInv', WholeInv, [Next]_vars PROVE WholeInv'
  OBVIOUS
<1> USE DEF WholeInv
<1>1. CASE Add
  <2>1. Whole'
    BY <1>1, AddWhole
  <2>2. Chain'
    <3>1. CASE AddState
      BY <3>1, AddChain
    <3>2. CASE AddRest \/ AddAdvance \/ AddGrow
      BY <3>2, FillKeepsWindow, ChainKept DEF AddRest, AddAdvance, AddGrow
    <3>3. QED
      BY <1>1, <3>1, <3>2 DEF Add
  <2>3. UNCHANGED <<optimized, prefetch, skipped, queue, batch>>
    BY <1>1 DEF Add, AddState, AddRest, AddAdvance, AddGrow, iteratorVars
  <2>4. BatchIsTransition'
    BY <2>3, BatchesKept DEF Batches
  <2>5. QED
    BY <2>1, <2>2, <2>4
<1>2. CASE Reload
  <2>1. BatchIsTransition'
    <3>1. UNCHANGED <<optimized, prefetch, skipped, batch>> /\ queue' = <<>>
      BY <1>2 DEF Reload
    <3>2. Batches' \subseteq Batches
      BY <3>1 DEF Batches
    <3>3. QED
      BY <3>1, <3>2, BatchesKept
  <2>2. QED
    BY <1>2, <2>1, ReloadWhole, OtherChain
<1>3. CASE SkipTransition
  <2>1. /\ UNCHANGED <<optimized, prefetch, slots, position, size, main, adding, queue, batch>>
        /\ skipped \subseteq skipped'
    BY <1>3 DEF SkipTransition, bufferVars, iteratorVars
  <2>2. BatchIsTransition'
    BY <2>1, BatchesKept DEF Batches
  <2>3. QED
    BY <1>3, <2>1, <2>2, SlotsKept, OtherChain
<1>4. CASE NextNaive \/ NextNaiveRaises \/ NextAsync \/ Learn \/ Wait \/ Close \/ Produce \/ UNCHANGED vars
  <2>1. UNCHANGED <<optimized, prefetch, slots, position, size, adding, arrived, skipped>>
    BY <1>4 DEF NextNaive, NextNaiveRaises, NextAsync, Learn, Close, Goto, bufferVars, Wait, CheckStop,
                GetBatch, LeaveIterator, NewIterator, Closed, Produce, ProducerEnds, PickIndex, vars,
                SampleRaises, ReadState, ReadNext, ReadRest, PutBatch, PutTimesOut, ProduceAt
  <2>2. main' = main \/ (main \notin Adding /\ main' \notin Adding)
    BY <1>4 DEF NextNaive, NextNaiveRaises, NextAsync, Learn, Close, Goto, MayLearn, Wait, CheckStop,
                GetBatch, LeaveIterator, NewIterator, Closed, Produce, ProducerEnds, PickIndex, vars,
                SampleRaises, ReadState, ReadNext, ReadRest, PutBatch, PutTimesOut, ProduceAt, Adding
  <2>3. Whole' /\ Chain'
    BY <2>1, <2>2, SlotsKept, WindowKept, ChainKept
  <2>4. BatchIsTransition'
    <3>1. CASE prefetch
      BY <2>1, <3>1 DEF BatchIsTransition
    <3>2. CASE NextNaive
      BY <3>2, NaiveBatches
    <3>3. CASE NextNaiveRaises \/ Learn \/ UNCHANGED vars
      <4>1. queue' = queue /\ batch' \in {batch, None}
        BY <3>3 DEF NextNaiveRaises, Learn, vars, iteratorVars
      <4>2. Batches' \subseteq Batches
        BY <4>1 DEF Batches
      <4>3. QED
        BY <2>1, <4>2, BatchesKept
    <3>4. CASE ~prefetch /\ (NextAsync \/ Wait \/ Close \/ Produce)
      BY <3>4 DEF IInv, IterInv, Naive, NextAsync, Wait, CheckStop, GetBatch, LeaveIterator, NewIterator,
                  Closed, Close, Produce, ProducerEnds, PickIndex, SampleRaises, ReadState, ReadNext,
                  ReadRest, PutBatch, PutTimesOut
    <3>5. QED
      BY <1>4, <3>1, <3>2, <3>3, <3>4
  <2>5. QED
    BY <2>3, <2>4
<1>5. QED
  BY <1>1, <1>2, <1>3, <1>4 DEF Next

(* For any capacity, without a prefetching thread every batch is one transition that was added,
   with the state that followed it; with optimize_memory, which finds that state in the next
   slot, except where the ring does not hold it or the end of the episode makes it irrelevant. *)
THEOREM NaiveBatchIsTransition == Spec => []BatchIsTransition
<1>1. IInv /\ IInv' /\ WholeInv /\ [Next]_vars => WholeInv'
  BY NextWhole
<1>2. WholeInv => BatchIsTransition
  BY DEF WholeInv
<1>3. QED
  BY <1>1, <1>2, InitWhole, AlwaysIInv, PTL DEF Spec
=============================================================================
