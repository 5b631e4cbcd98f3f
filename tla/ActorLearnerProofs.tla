------------------------- MODULE ActorLearnerProofs -------------------------
(***************************************************************************)
(* For every number of steps and every bound of the queues: the learner    *)
(* has the actor's transitions in order, without a gap or a repetition,    *)
(* and the actor never goes back to older weights.                         *)
(***************************************************************************)
EXTENDS ActorLearner, SequenceTheorems, TLAPS

USE RLAssumption DEF RLAssumption

\* The steps of both sides, one by one.
LEMMA NextCases ==
  ASSUME Next
  PROVE  \/ Connect \/ GiveUp \/ Act \/ LeaveLoop \/ JoinTransitions \/ JoinInteractions
         \/ JoinParameters \/ ProcessTransitions \/ WaitForTransitions \/ Optimize
         \/ HandlerEnds \/ SignalActor \/ SignalLearner \/ KillLearner
         \/ ReceiveTransitions \/ SendParameters
         \/ TakeTransitions \/ NoTransitions \/ SendTransitionsChunk \/ TransitionsEnd
         \/ InteractionsEnd \/ ReceiveParameters \/ ParametersEnd
<1>1. ASSUME NEW s \in Streams, ActorThread(s)
      PROVE  \/ TakeTransitions \/ NoTransitions \/ SendTransitionsChunk \/ TransitionsEnd
             \/ InteractionsEnd \/ ReceiveParameters \/ ParametersEnd
  <2>1. CASE s = "transitions"
    BY <1>1, <2>1, Zenon DEF ActorThread
  <2>2. CASE s = "interactions"
    <3>1. s # "transitions"
      BY <2>2
    <3> QED
      BY <1>1, <2>2, <3>1, Zenon DEF ActorThread
  <2>3. CASE s = "parameters"
    <3>1. s # "transitions" /\ s # "interactions"
      BY <2>3
    <3> QED
      BY <1>1, <2>3, <3>1, Zenon DEF ActorThread
  <2> QED
    BY <2>1, <2>2, <2>3 DEF Streams
<1> QED
  BY <1>1, Zenon DEF Next, ActorMain, Train

-----------------------------------------------------------------------------
(* Sequences.                                                              *)

\* A sequence with one element more.
LEMMA Longer ==
  ASSUME NEW S, NEW seq \in Seq(S), NEW x \in S
  PROVE  /\ Append(seq, x) \in Seq(S) /\ Len(Append(seq, x)) = Len(seq) + 1
         /\ Append(seq, x) # <<>>
         /\ \A i \in 1..Len(seq) : Append(seq, x)[i] = seq[i]
         /\ Append(seq, x)[Len(seq) + 1] = x
BY AppendProperties

\* The elements of a sequence that is not empty.
LEMMA NotEmpty ==
  ASSUME NEW S, NEW seq \in Seq(S), seq # <<>>
  PROVE  /\ Len(seq) \in Nat /\ Len(seq) # 0 /\ Len(seq) \in 1..Len(seq) /\ 1 \in 1..Len(seq)
         /\ DOMAIN seq = 1..Len(seq) /\ seq[1] \in S /\ seq[Len(seq)] \in S
<1>1. Len(seq) \in Nat \ {0}
  BY EmptySeq
<1>2. DOMAIN seq = 1..Len(seq)
  BY LenProperties
<1>3. Len(seq) \in 1..Len(seq) /\ 1 \in 1..Len(seq)
  BY <1>1
<1> QED
  BY <1>1, <1>2, <1>3, ElementOfSeq

\* A sequence of one element at most.
LEMMA OneElement ==
  ASSUME NEW S, NEW seq \in Seq(S), seq # <<>>, Len(seq) <= 1
  PROVE  Len(seq) = 1 /\ seq[1] \in S /\ seq = <<seq[1]>>
<1>0. Len(seq) \in Nat /\ Len(seq) # 0
  BY EmptySeq
<1>1. Len(seq) = 1
  <2>1. \A n \in Nat : n # 0 /\ n <= 1 => n = 1
    OBVIOUS
  <2> QED
    BY <1>0, <2>1
<1>2. seq[1] \in S
  BY <1>1
<1>3. <<seq[1]>> \in Seq(S) /\ Len(<<seq[1]>>) = 1 /\ <<seq[1]>>[1] = seq[1]
  BY <1>2
<1> QED
  BY <1>1, <1>2, <1>3, SeqEqual

-----------------------------------------------------------------------------
(* Weights.                                                                *)

Sorted(seq) == \A i, j \in 1..Len(seq) : i <= j => seq[i] <= seq[j]

WeightTypes ==
  /\ policy \in Nat /\ trained \in Nat
  /\ parametersIn \in Seq(Nat) /\ parametersWire \in Seq(Nat) /\ Len(parametersWire) <= 1
  /\ parametersQueue \in Seq(Nat)

\* The actor's weights, what waits at the actor, what is on its way: each not older than
\* the one before.
ActorWeights ==
  /\ Sorted(parametersIn)
  /\ \A i \in 1..Len(parametersIn) : policy <= parametersIn[i]
  /\ \A i \in 1..Len(parametersWire) : policy <= parametersWire[i]
  /\ \A i \in 1..Len(parametersIn), j \in 1..Len(parametersWire) :
       parametersIn[i] <= parametersWire[j]

\* And what a learner that can still send has pushed and trained.
LearnerWeights ==
  /\ Sorted(parametersQueue)
  /\ \A j \in 1..Len(parametersQueue) :
       /\ policy <= parametersQueue[j] /\ parametersQueue[j] <= trained
       /\ \A i \in 1..Len(parametersIn) : parametersIn[i] <= parametersQueue[j]
       /\ \A i \in 1..Len(parametersWire) : parametersWire[i] <= parametersQueue[j]
  /\ policy <= trained
  /\ \A i \in 1..Len(parametersIn) : parametersIn[i] <= trained
  /\ \A i \in 1..Len(parametersWire) : parametersWire[i] <= trained

WeightInv == WeightTypes /\ ActorWeights /\ (Up => LearnerWeights)

weightVars == <<policy, trained, parametersIn, parametersWire, parametersQueue>>

LEMMA WeightInit == Init => WeightInv
BY DEF Init, WeightInv, WeightTypes, ActorWeights, LearnerWeights, Sorted

\* A step that leaves the weights alone and starts no learner.
LEMMA WeightSame ==
  ASSUME WeightInv, UNCHANGED weightVars, Up' => Up
  PROVE  WeightInv'
BY DEF WeightInv, WeightTypes, ActorWeights, LearnerWeights, Sorted, weightVars

LEMMA WeightStep ==
  ASSUME WeightInv, [Next]_vars
  PROVE  WeightInv' /\ policy' >= policy
<1> USE DEF WeightInv, WeightTypes
<1>0. policy \in Nat
  OBVIOUS
<1>s. ASSUME UNCHANGED weightVars, Up' => Up
      PROVE  WeightInv' /\ policy' >= policy
  BY <1>s, <1>0, WeightSame DEF weightVars
<1> DEFINE Same == UNCHANGED weightVars /\ (Up' => Up)
<1> HIDE DEF WeightInv, WeightTypes
<1>1. CASE Connect \/ GiveUp \/ JoinTransitions \/ JoinInteractions \/ JoinParameters
  <2>1. Same
    BY <1>1 DEF Connect, GiveUp, JoinTransitions, JoinInteractions, JoinParameters, Goto,
       LearnerUnchanged, learnerQueues, trainVars, actorQueues, weightVars, Up
  <2> QED
    BY <2>1, <1>s
<1>2. CASE Act
  <2> USE DEF WeightInv, WeightTypes
  <2>1. Up' = Up /\ UNCHANGED <<parametersWire, parametersQueue, trained>>
    BY <1>2 DEF Act, LearnerUnchanged, learnerQueues, trainVars, Up
  <2>2. CASE UNCHANGED <<policy, parametersIn>>
    BY <2>1, <2>2, <1>s DEF weightVars
  <2>3. CASE policy' = policy /\ parametersIn' = <<>>
    BY <2>1, <2>3 DEF ActorWeights, LearnerWeights, Sorted
  <2>4. CASE parametersIn # <<>> /\ policy' = parametersIn[Len(parametersIn)] /\ parametersIn' = <<>>
    <3>1. Len(parametersIn) \in 1..Len(parametersIn)
      BY <2>4
    <3>2. policy' \in Nat /\ policy' >= policy
      BY <3>1, <2>4 DEF ActorWeights
    <3>3. ActorWeights'
      <4>1. \A j \in 1..Len(parametersWire) : parametersIn[Len(parametersIn)] <= parametersWire[j]
        BY <3>1 DEF ActorWeights
      <4>2. Sorted(parametersIn') /\ Len(parametersIn') = 0
        BY <2>4 DEF Sorted
      <4> QED
        BY <4>1, <4>2, <2>1, <2>4 DEF ActorWeights
    <3>4. ASSUME Up PROVE LearnerWeights'
      <4>1. LearnerWeights
        BY <3>4
      <4>2. /\ \A j \in 1..Len(parametersQueue) : parametersIn[Len(parametersIn)] <= parametersQueue[j]
            /\ parametersIn[Len(parametersIn)] <= trained
        BY <3>1, <4>1 DEF LearnerWeights
      <4>3. Len(parametersIn') = 0
        BY <2>4
      <4> QED
        BY <4>1, <4>2, <4>3, <2>1, <2>4 DEF LearnerWeights, Sorted
    <3> QED
      BY <2>1, <2>4, <3>2, <3>3, <3>4
  <2>5. \/ UNCHANGED <<policy, parametersIn>>
        \/ policy' = policy /\ parametersIn' = <<>>
        \/ parametersIn # <<>> /\ policy' = parametersIn[Len(parametersIn)] /\ parametersIn' = <<>>
    BY <1>2 DEF Act, Newest, Last, actorQueues
  <2> QED
    BY <2>2, <2>3, <2>4, <2>5
<1>11. CASE LeaveLoop
  <2> USE DEF WeightInv, WeightTypes
  <2>1. /\ parametersIn' = <<>> /\ Up' = Up
        /\ UNCHANGED <<policy, parametersWire, parametersQueue, trained>>
    BY <1>11 DEF LeaveLoop, LearnerUnchanged, learnerQueues, trainVars, Up
  <2> QED
    BY <2>1 DEF ActorWeights, LearnerWeights, Sorted
<1>3. CASE ReceiveParameters
  <2> USE DEF WeightInv, WeightTypes
  <2>1. /\ parametersIn' = parametersIn \o parametersWire /\ parametersWire' = <<>>
        /\ UNCHANGED <<policy, trained, parametersQueue>> /\ Up' = Up
        /\ parametersWire # <<>>
    BY <1>3 DEF ReceiveParameters, LearnerUnchanged, learnerQueues, trainVars, actorVars, Up
  <2>2. Len(parametersWire) = 1 /\ parametersWire[1] \in Nat /\ parametersWire = <<parametersWire[1]>>
    BY <2>1, OneElement
  <2> DEFINE arrived == parametersWire[1]
  <2>5. parametersIn' = Append(parametersIn, arrived)
    <3> HIDE DEF arrived
    <3>1. arrived \in Nat /\ parametersIn' = parametersIn \o <<arrived>>
      BY <2>1, <2>2 DEF arrived
    <3> QED
      BY <3>1, AppendIsConcat
  <2>6. /\ parametersIn' \in Seq(Nat) /\ Len(parametersIn') = Len(parametersIn) + 1
        /\ \A i \in 1..Len(parametersIn) : parametersIn'[i] = parametersIn[i]
        /\ parametersIn'[Len(parametersIn) + 1] = arrived
    <3> HIDE DEF arrived
    <3>1. arrived \in Nat
      BY <2>2 DEF arrived
    <3> QED
      BY <2>5, <3>1, Longer
  <2>7. /\ \A i \in 1..Len(parametersIn) : parametersIn[i] \in Nat
        /\ arrived \in Nat
    BY <2>2, ElementOfSeq
  <2>3. ActorWeights'
    <3>0. /\ Sorted(parametersIn) /\ policy <= arrived
          /\ \A i \in 1..Len(parametersIn) : policy <= parametersIn[i] /\ parametersIn[i] <= arrived
      BY <2>2 DEF ActorWeights
    <3> HIDE DEF arrived, WeightInv, WeightTypes
    <3>1. Sorted(parametersIn')
      BY <2>6, <2>7, <3>0, SMTT(20) DEF Sorted
    <3>2. \A i \in 1..Len(parametersIn') : policy <= parametersIn'[i]
      BY <2>6, <2>7, <3>0
    <3> QED
      BY <2>1, <3>1, <3>2 DEF ActorWeights
  <2>4. ASSUME Up PROVE LearnerWeights'
    <3>0. /\ LearnerWeights /\ arrived <= trained
          /\ \A j \in 1..Len(parametersQueue) : arrived <= parametersQueue[j]
      BY <2>4, <2>2 DEF LearnerWeights
    <3>1. /\ \A i \in 1..Len(parametersIn') : parametersIn'[i] <= trained
          /\ \A i \in 1..Len(parametersIn'), j \in 1..Len(parametersQueue) : parametersIn'[i] <= parametersQueue[j]
      <4> HIDE DEF arrived, WeightInv, WeightTypes
      <4> SUFFICES ASSUME NEW i \in 1..Len(parametersIn')
                   PROVE  /\ parametersIn'[i] <= trained
                          /\ \A j \in 1..Len(parametersQueue) : parametersIn'[i] <= parametersQueue[j]
        OBVIOUS
      <4>1. CASE i = Len(parametersIn) + 1
        BY <2>6, <3>0, <4>1
      <4>2. CASE i # Len(parametersIn) + 1
        <5>1. i \in 1..Len(parametersIn) /\ parametersIn'[i] = parametersIn[i]
          BY <2>6, <4>2
        <5> QED
          BY <3>0, <5>1 DEF LearnerWeights
      <4> QED
        BY <4>1, <4>2
    <3> QED
      BY <2>1, <3>0, <3>1 DEF LearnerWeights
  <2> QED
    BY <2>1, <2>6, <2>3, <2>4
<1>4. CASE \/ TransitionsEnd \/ InteractionsEnd \/ TakeTransitions \/ NoTransitions
            \/ SendTransitionsChunk
  <2>1. Same
    BY <1>4 DEF TransitionsEnd, InteractionsEnd, TakeTransitions, NoTransitions, SendTransitionsChunk, ThreadEnds, ActorUnchanged,
       LearnerUnchanged, learnerQueues, trainVars, actorQueues, actorVars, weightVars, Up
  <2> QED
    BY <2>1, <1>s
<1>5. CASE ParametersEnd
  <2> USE DEF WeightInv, WeightTypes
  <2>1. /\ parametersWire' = <<>> /\ UNCHANGED <<policy, parametersIn, trained, parametersQueue>>
        /\ Up' = Up
    BY <1>5 DEF ParametersEnd, ThreadEnds, LearnerUnchanged, learnerQueues, trainVars, actorQueues, actorVars, Up
  <2> QED
    BY <2>1 DEF ActorWeights, LearnerWeights, Sorted
<1>6. CASE SendParameters
  <2> USE DEF WeightInv, WeightTypes
  <2>1. /\ parametersQueue # <<>> /\ Up /\ Up' = Up
        /\ parametersWire' = <<parametersQueue[Len(parametersQueue)]>> /\ parametersQueue' = <<>>
        /\ UNCHANGED <<policy, parametersIn, trained>>
    BY <1>6 DEF SendParameters, Newest, Last, Rest, ActorUnchanged, actorVars, actorQueues, trainVars, Up
  <2>2. Len(parametersQueue) \in 1..Len(parametersQueue)
    BY <2>1
  <2>3. ActorWeights'
    BY <2>1, <2>2 DEF ActorWeights, LearnerWeights, Sorted
  <2>4. LearnerWeights'
    BY <2>1, <2>2 DEF LearnerWeights, Sorted
  <2> QED
    BY <2>1, <2>2, <2>3, <2>4
<1>7. CASE Optimize
  <2> USE DEF WeightInv, WeightTypes
  <2>1. /\ Up /\ UNCHANGED <<policy, parametersIn, parametersWire>>
        /\ trained' \in Nat /\ trained' >= trained
        /\ parametersQueue' = parametersQueue \/ parametersQueue' = Append(parametersQueue, trained')
    BY <1>7 DEF Optimize, ServiceUnchanged, ActorUnchanged, actorVars, actorQueues, Up
  <2>2. LearnerWeights
    BY <2>1
  <2>3. CASE parametersQueue' = parametersQueue
    BY <2>1, <2>2, <2>3 DEF ActorWeights, LearnerWeights, Sorted
  <2>4. CASE parametersQueue' = Append(parametersQueue, trained')
    <3>1. /\ parametersQueue' \in Seq(Nat) /\ Len(parametersQueue') = Len(parametersQueue) + 1
          /\ \A i \in 1..Len(parametersQueue) : parametersQueue'[i] = parametersQueue[i]
          /\ parametersQueue'[Len(parametersQueue) + 1] = trained'
      BY <2>1, <2>4, Longer
    <3>2. /\ \A i \in 1..Len(parametersQueue) : parametersQueue[i] \in Nat
          /\ \A i \in 1..Len(parametersIn) : parametersIn[i] \in Nat
          /\ \A i \in 1..Len(parametersWire) : parametersWire[i] \in Nat
          /\ policy \in Nat /\ trained \in Nat
      BY ElementOfSeq
    <3> HIDE DEF WeightInv, WeightTypes
    <3>3. Sorted(parametersQueue')
      BY <2>1, <2>2, <3>1, <3>2, SMTT(20) DEF LearnerWeights, Sorted
    <3>5. ASSUME NEW j \in 1..Len(parametersQueue')
          PROVE  /\ policy <= parametersQueue'[j] /\ parametersQueue'[j] <= trained'
                 /\ \A i \in 1..Len(parametersIn) : parametersIn[i] <= parametersQueue'[j]
                 /\ \A i \in 1..Len(parametersWire) : parametersWire[i] <= parametersQueue'[j]
      <4>1. CASE j = Len(parametersQueue) + 1
        BY <2>1, <2>2, <3>1, <3>2, <4>1 DEF LearnerWeights
      <4>2. CASE j # Len(parametersQueue) + 1
        <5>1. j \in 1..Len(parametersQueue) /\ parametersQueue'[j] = parametersQueue[j]
          BY <3>1, <4>2
        <5>2. /\ policy <= parametersQueue[j] /\ parametersQueue[j] <= trained
              /\ \A i \in 1..Len(parametersIn) : parametersIn[i] <= parametersQueue[j]
              /\ \A i \in 1..Len(parametersWire) : parametersWire[i] <= parametersQueue[j]
          BY <2>2, <5>1 DEF LearnerWeights
        <5>3. parametersQueue[j] <= trained'
          BY <2>1, <3>2, <5>1, <5>2
        <5> QED
          BY <5>1, <5>2, <5>3
      <4> QED
        BY <4>1, <4>2
    <3>6. /\ policy <= trained'
          /\ \A i \in 1..Len(parametersIn) : parametersIn[i] <= trained'
          /\ \A i \in 1..Len(parametersWire) : parametersWire[i] <= trained'
      BY <2>1, <2>2, <3>2 DEF LearnerWeights
    <3>4. LearnerWeights'
      BY <2>1, <3>3, <3>5, <3>6 DEF LearnerWeights
    <3> QED
      BY <2>1, <3>1, <3>4 DEF ActorWeights, WeightInv, WeightTypes
  <2> QED
    BY <2>1, <2>3, <2>4
<1>8. CASE KillLearner
  <2> USE DEF WeightInv, WeightTypes
  <2>1. /\ ~Up' /\ parametersWire' = <<>> /\ parametersQueue' = <<>> /\ trained' = 0
        /\ UNCHANGED <<policy, parametersIn>>
    BY <1>8 DEF KillLearner, actorVars, actorQueues, Up
  <2> QED
    BY <2>1 DEF ActorWeights, Sorted
<1>9. CASE ProcessTransitions \/ WaitForTransitions \/ HandlerEnds \/ SignalActor \/ SignalLearner
             \/ ReceiveTransitions
  <2>1. Same
    BY <1>9 DEF ProcessTransitions, WaitForTransitions, HandlerEnds, SignalActor, SignalLearner,
       ReceiveTransitions, ServiceUnchanged, ActorUnchanged, LearnerUnchanged, learnerQueues, trainVars,
       actorQueues, actorVars, weightVars, Up
  <2> QED
    BY <2>1, <1>s
<1>10. CASE UNCHANGED vars
  <2>1. Same
    BY <1>10 DEF vars, learnerQueues, trainVars, actorQueues, actorVars, weightVars, Up
  <2> QED
    BY <2>1, <1>s
<1> QED
  BY NextCases, <1>1, <1>2, <1>3, <1>4, <1>5, <1>6, <1>7, <1>8, <1>9, <1>10, <1>11

\* The actor never goes back to older weights (actor.py:659, queue.py:25): what waits for it,
\* what is on its way and what the learner has pushed are in order, each kept by one side.
THEOREM NeverOlder == Spec => WeightsOnlyNewer
<1>1. WeightInv /\ [Next]_vars => WeightInv'
  BY WeightStep
<1>2. WeightInv /\ [Next]_vars => [policy' >= policy]_vars
  BY WeightStep
<1> QED
  BY WeightInit, <1>1, <1>2, PTL DEF Spec, WeightsOnlyNewer

-----------------------------------------------------------------------------
(* Order.                                                                  *)

\* Items put after those that are numbered on from n.
LEMMA ConsecutiveAppend ==
  ASSUME NEW n \in Nat, NEW items \in Seq(Nat), Consecutive(items, n)
  PROVE  Consecutive(Append(items, n + Len(items) + 1), n)
<1> DEFINE x == n + Len(items) + 1
           more == Append(items, x)
<1>1. x \in Nat
  OBVIOUS
<1>2. /\ more \in Seq(Nat) /\ Len(more) = Len(items) + 1
      /\ \A i \in 1..Len(items) : more[i] = items[i]
      /\ more[Len(items) + 1] = x
  <2> HIDE DEF x
  <2> QED
    BY <1>1, Longer
<1>3. DOMAIN more = 1..(Len(items) + 1)
  <2> HIDE DEF more
  <2> QED
    BY <1>2
<1> HIDE DEF more
<1>4. ASSUME NEW i \in 1..(Len(items) + 1) PROVE more[i] = n + i
  <2>1. CASE i = Len(items) + 1
    BY <1>2, <2>1
  <2>2. CASE i # Len(items) + 1
    <3>1. i \in 1..Len(items) /\ i \in DOMAIN items
      BY <2>2
    <3> QED
      BY <1>2, <3>1 DEF Consecutive
  <2> QED
    BY <2>1, <2>2
<1>5. Consecutive(more, n)
  BY <1>3, <1>4 DEF Consecutive
<1> QED
  BY <1>5 DEF more

\* One sequence of items and the one that goes on from its end.
LEMMA ConsecutiveConcat ==
  ASSUME NEW s \in Seq(Nat), NEW t \in Seq(Nat), Consecutive(s, 0), Consecutive(t, Len(s))
  PROVE  Consecutive(s \o t, 0) /\ s \o t \in Seq(Nat) /\ Len(s \o t) = Len(s) + Len(t)
<1> DEFINE st == s \o t
<1>1. /\ st \in Seq(Nat) /\ Len(st) = Len(s) + Len(t)
      /\ \A i \in 1..(Len(s) + Len(t)) : st[i] = IF i <= Len(s) THEN s[i] ELSE t[i - Len(s)]
  BY ConcatProperties
<1>2. DOMAIN st = 1..(Len(s) + Len(t)) /\ DOMAIN s = 1..Len(s) /\ DOMAIN t = 1..Len(t)
  <2> HIDE DEF st
  <2> QED
    BY <1>1
<1> HIDE DEF st
<1>3. ASSUME NEW i \in 1..(Len(s) + Len(t)) PROVE st[i] = i
  <2>1. CASE i <= Len(s)
    <3>1. i \in DOMAIN s /\ st[i] = s[i]
      BY <1>1, <1>2, <2>1
    <3>2. s[i] = 0 + i
      BY <3>1 DEF Consecutive
    <3> QED
      BY <3>1, <3>2
  <2>2. CASE i > Len(s)
    <3>1. i - Len(s) \in 1..Len(t) /\ st[i] = t[i - Len(s)]
      BY <1>1, <2>2
    <3>2. t[i - Len(s)] = Len(s) + (i - Len(s))
      BY <1>2, <3>1 DEF Consecutive
    <3> QED
      BY <3>1, <3>2
  <2> QED
    BY <2>1, <2>2
<1>4. Consecutive(st, 0)
  BY <1>2, <1>3 DEF Consecutive
<1> QED
  BY <1>1, <1>4 DEF st

\* The end of messages is a number.
LEMMA EndNat ==
  ASSUME NEW n \in Nat, NEW messages \in Seq(Seq(Nat)), Chained(messages, n)
  PROVE  EndOf(messages, n) \in Nat
<1>1. CASE messages = <<>>
  BY <1>1 DEF EndOf
<1>2. CASE messages # <<>>
  <2>1. Len(messages) \in DOMAIN messages
    BY <1>2, NotEmpty
  <2>2. messages[Len(messages)] \in Seq(Nat) /\ messages[Len(messages)] # <<>>
    <3>1. messages[Len(messages)] \in Seq(Nat)
      BY <1>2, NotEmpty
    <3> QED
      BY <2>1, <3>1 DEF Chained
  <2>3. messages[Len(messages)][Len(messages[Len(messages)])] \in Nat
    BY <2>2, NotEmpty
  <2> QED
    BY <1>2, <2>3 DEF EndOf, Last
<1> QED
  BY <1>1, <1>2

\* The last of items numbered on from n.
LEMMA LastConsecutive ==
  ASSUME NEW n \in Nat, NEW items \in Seq(Nat), items # <<>>, Consecutive(items, n)
  PROVE  Last(items) = n + Len(items)
<1>1. Len(items) \in DOMAIN items
  BY NotEmpty
<1> QED
  BY <1>1 DEF Consecutive, Last

\* A message that goes on from the end of the others.
LEMMA ChainAppend ==
  ASSUME NEW n \in Nat, NEW messages \in Seq(Seq(Nat)), NEW m \in Seq(Nat), m # <<>>,
         Chained(messages, n), Consecutive(m, EndOf(messages, n))
  PROVE  /\ Append(messages, m) \in Seq(Seq(Nat))
         /\ Chained(Append(messages, m), n)
         /\ EndOf(Append(messages, m), n) = EndOf(messages, n) + Len(m)
<1> DEFINE more == Append(messages, m)
<1>1. /\ more \in Seq(Seq(Nat)) /\ Len(more) = Len(messages) + 1
      /\ \A i \in 1..Len(messages) : more[i] = messages[i]
      /\ more[Len(messages) + 1] = m /\ more # <<>>
  <2> DEFINE S == Seq(Nat)
  <2>1. messages \in Seq(S) /\ m \in S
    OBVIOUS
  <2> HIDE DEF S
  <2>2. /\ more \in Seq(S) /\ Len(more) = Len(messages) + 1
        /\ \A i \in 1..Len(messages) : more[i] = messages[i]
        /\ more[Len(messages) + 1] = m /\ more # <<>>
    BY <2>1, Longer
  <2> QED
    BY <2>2 DEF S
<1>2. more # <<>>
  BY <1>1
<1> HIDE DEF more
<1>3. DOMAIN more = 1..(Len(messages) + 1) /\ DOMAIN messages = 1..Len(messages)
  BY <1>1
<1>4. EndOf(messages, n) \in Nat
  BY EndNat
<1>5. EndOf(more, n) = EndOf(messages, n) + Len(m)
  BY <1>1, <1>2, <1>4, LastConsecutive, SMTT(20) DEF EndOf, Last
<1>6. ASSUME NEW k \in 1..(Len(messages) + 1)
      PROVE  more[k] # <<>> /\ Consecutive(more[k], IF k = 1 THEN n ELSE Last(more[k - 1]))
  <2>1. CASE k \in 1..Len(messages)
    <3>1. messages[k] # <<>> /\ Consecutive(messages[k], IF k = 1 THEN n ELSE Last(messages[k - 1]))
      BY <1>3, <2>1 DEF Chained
    <3>2. k # 1 => k - 1 \in 1..Len(messages)
      BY <2>1
    <3>3. more[k] = messages[k] /\ (k # 1 => more[k - 1] = messages[k - 1])
      BY <1>1, <2>1, <3>2
    <3> QED
      BY <3>1, <3>3
  <2>2. CASE k = Len(messages) + 1 /\ messages = <<>>
    BY <1>1, <2>2 DEF EndOf
  <2>3. CASE k = Len(messages) + 1 /\ messages # <<>>
    <3>1. Len(messages) \in Nat /\ Len(messages) # 0
      BY <2>3, EmptySeq
    <3>2. k # 1 /\ k - 1 = Len(messages) /\ Len(messages) \in 1..Len(messages)
      BY <2>3, <3>1
    <3>3. more[k] = m /\ more[k - 1] = messages[Len(messages)]
      BY <1>1, <2>3, <3>2
    <3>4. EndOf(messages, n) = Last(more[k - 1])
      BY <2>3, <3>3 DEF EndOf, Last
    <3> QED
      BY <3>2, <3>3, <3>4
  <2> QED
    BY <2>1, <2>2, <2>3
<1>7. Chained(more, n)
  BY <1>3, <1>6 DEF Chained
<1> QED
  BY <1>1, <1>5, <1>7 DEF more

\* The first of messages, and the others.
LEMMA ChainTail ==
  ASSUME NEW n \in Nat, NEW messages \in Seq(Seq(Nat)), messages # <<>>, Chained(messages, n)
  PROVE  /\ Head(messages) \in Seq(Nat) /\ Head(messages) # <<>> /\ Consecutive(Head(messages), n)
         /\ Tail(messages) \in Seq(Seq(Nat))
         /\ Chained(Tail(messages), n + Len(Head(messages)))
         /\ EndOf(Tail(messages), n + Len(Head(messages))) = EndOf(messages, n)
<1> DEFINE rest == Tail(messages)
<1>1. Len(messages) \in Nat /\ Len(messages) # 0 /\ DOMAIN messages = 1..Len(messages)
  BY NotEmpty
<1>2. 1 \in DOMAIN messages /\ Head(messages) = messages[1] /\ messages[1] \in Seq(Nat)
  BY <1>1
<1>3. messages[1] # <<>> /\ Consecutive(messages[1], n)
  BY <1>2 DEF Chained
<1>4. Last(messages[1]) = n + Len(messages[1])
  BY <1>2, <1>3, LastConsecutive
<1>5. /\ rest \in Seq(Seq(Nat)) /\ Len(rest) = Len(messages) - 1
      /\ \A i \in 1..Len(rest) : rest[i] = messages[i + 1]
  BY HeadTailProperties
<1> HIDE DEF rest
<1>6. DOMAIN rest = 1..(Len(messages) - 1)
  BY <1>5
<1>7. ASSUME NEW k \in 1..(Len(messages) - 1)
      PROVE  /\ rest[k] # <<>>
             /\ Consecutive(rest[k], IF k = 1 THEN Last(messages[1]) ELSE Last(rest[k - 1]))
  <2>1. k + 1 \in DOMAIN messages /\ k + 1 # 1 /\ (k + 1) - 1 = k
    BY <1>1
  <2>2. messages[k + 1] # <<>> /\ Consecutive(messages[k + 1], Last(messages[k]))
    BY <2>1 DEF Chained
  <2>3. rest[k] = messages[k + 1]
    BY <1>5, <1>1
  <2>4. CASE k = 1
    BY <2>2, <2>3, <2>4
  <2>5. CASE k # 1
    <3>1. k - 1 \in 1..Len(rest) /\ (k - 1) + 1 = k
      BY <1>1, <1>5, <2>5
    <3>2. rest[k - 1] = messages[k]
      BY <1>5, <3>1
    <3> QED
      BY <2>2, <2>3, <2>5, <3>2
  <2> QED
    BY <2>4, <2>5
<1>8. Chained(rest, n + Len(messages[1]))
  BY <1>4, <1>6, <1>7 DEF Chained
<1>9. EndOf(rest, n + Len(messages[1])) = EndOf(messages, n)
  <2>1. CASE rest = <<>>
    <3>1. Len(messages) = 1
      <4>1. Len(rest) = 0
        BY <2>1
      <4>2. \A k \in Nat : 0 = k - 1 => k = 1
        OBVIOUS
      <4> QED
        BY <1>1, <1>5, <4>1, <4>2
    <3> QED
      BY <1>4, <2>1, <3>1 DEF EndOf, Last
  <2>2. CASE rest # <<>>
    <3>1. Len(rest) \in Nat /\ Len(rest) # 0
      BY <1>5, <2>2, EmptySeq
    <3>2. rest[Len(rest)] = messages[Len(messages)]
      BY <1>1, <1>5, <3>1, SMTT(20)
    <3> QED
      BY <2>2, <3>2 DEF EndOf, Last
  <2> QED
    BY <2>1, <2>2
<1> QED
  BY <1>2, <1>3, <1>5, <1>8, <1>9 DEF rest

-----------------------------------------------------------------------------
(* The stream of transitions.                                              *)

Chunk == [state : {"begin", "middle", "end"}, data : Nat]

OrderTypes ==
  /\ step \in Nat /\ episode \in Seq(Nat) /\ Len(episode) <= step
  /\ stream \in [Streams -> {"off", "open", "broken", "ended"}]
  /\ transitionsQueue \in Seq(Seq(Nat)) /\ transitionQueue \in Seq(Seq(Nat))
  /\ toSend \in Seq(Chunk) /\ wire \in Seq(Chunk)
  /\ assembled \in Seq(Nat) /\ received \in Seq(Nat)

\* Nothing has been done before the actor is connected.
Unconnected ==
  actor = "connect" =>
    /\ step = 0 /\ episode = <<>> /\ transitionsQueue = <<>>
    /\ toSend = <<>> /\ wire = <<>> /\ assembled = <<>>
    /\ transitionQueue = <<>> /\ received = <<>>
    /\ stream["transitions"] = "off"

\* How many transitions the learner has whole, has, has or are on their way, and have been
\* taken to be sent.
Queued == EndOf(transitionQueue, Len(received))
Held   == Queued + Len(assembled)
Sent   == Held + Len(wire)
Cut    == Sent + Len(toSend)

ChunksInOrder ==
  /\ Consecutive(assembled, Queued)
  /\ \A i \in 1..Len(wire) : wire[i].data = Held + i
  /\ \A i \in 1..Len(toSend) : toSend[i].data = Sent + i

\* A message begins only where the one before has ended, and what is sent ends one.
ChunksWhole ==
  /\ wire # <<>> /\ wire[1].state = "begin" => assembled = <<>>
  /\ \A i \in 1..(Len(wire) - 1) : wire[i + 1].state = "begin" => wire[i].state = "end"
  /\ toSend # <<>> /\ toSend[1].state = "begin" =>
       /\ wire = <<>> => assembled = <<>>
       /\ wire # <<>> => wire[Len(wire)].state = "end"
  /\ \A i \in 1..(Len(toSend) - 1) : toSend[i + 1].state # "begin"
  /\ toSend # <<>> => toSend[Len(toSend)].state = "end"
  /\ toSend = <<>> /\ wire # <<>> => wire[Len(wire)].state = "end"
  /\ toSend = <<>> /\ wire = <<>> => assembled = <<>>

\* What the actor has still to send goes on from there, up to its last step.
ActorInOrder ==
  /\ Chained(transitionsQueue, Cut)
  /\ Consecutive(episode, EndOf(transitionsQueue, Cut))
  /\ step = EndOf(transitionsQueue, Cut) + Len(episode)
  /\ Cut <= step - Len(episode)
  /\ \A k \in 1..Len(transitionsQueue) : Last(transitionsQueue[k]) <= step - Len(episode)

StreamInOrder == stream["transitions"] = "open" => ChunksInOrder /\ ChunksWhole /\ ActorInOrder

OrderInv == OrderTypes /\ Unconnected /\ TransitionsInOrder /\ StreamInOrder

\* The chunks of a message: its items in order, the last one its end, none after the first
\* its beginning.
LEMMA MessageChunks ==
  ASSUME NEW m \in Seq(Nat), m # <<>>
  PROVE  /\ Chunked!Chunks(m) \in Seq(Chunk) /\ Len(Chunked!Chunks(m)) = Len(m)
         /\ \A i \in 1..Len(m) : Chunked!Chunks(m)[i].data = m[i]
         /\ \A i \in 1..Len(m) : i > 1 => Chunked!Chunks(m)[i].state # "begin"
         /\ Chunked!Chunks(m)[Len(m)].state = "end"
<1>1. ASSUME NEW i \in 1..Len(m)
      PROVE  /\ Chunked!State(m, i) \in {"begin", "middle", "end"}
             /\ i > 1 => Chunked!State(m, i) # "begin"
             /\ i = Len(m) => Chunked!State(m, i) = "end"
  <2>1. CASE i = Len(m)
    <3>0. ~(i = 1 /\ Len(m) > 1)
      BY <2>1
    <3>1. Chunked!State(m, i) = "end"
      BY <2>1, <3>0, Zenon DEF Chunked!State
    <3> QED
      BY <3>1
  <2>2. CASE i # Len(m) /\ i = 1
    <3>0. Len(m) \in Nat /\ Len(m) # 0 /\ Len(m) # 1
      BY <2>2, NotEmpty
    <3>1. Len(m) > 1
      <4>1. \A k \in Nat : k # 0 /\ k # 1 => k > 1
        OBVIOUS
      <4> QED
        BY <3>0, <4>1
    <3>2. Chunked!State(m, i) = "begin"
      BY <2>2, <3>1, Zenon DEF Chunked!State
    <3> QED
      BY <2>2, <3>2
  <2>3. CASE i # Len(m) /\ i # 1
    <3>1. Chunked!State(m, i) = "middle"
      BY <2>3, Zenon DEF Chunked!State
    <3> QED
      BY <2>3, <3>1
  <2> QED
    BY <2>1, <2>2, <2>3
<1> DEFINE c(i) == [state |-> Chunked!State(m, i), data |-> m[i]]
           cs == [i \in 1..Len(m) |-> c(i)]
<1>2. Chunked!Chunks(m) = cs
  BY DEF Chunked!Chunks
<1>3. \A i \in 1..Len(m) : m[i] \in Nat
  BY ElementOfSeq
<1>4. ASSUME NEW i \in 1..Len(m) PROVE c(i) \in Chunk
  BY <1>1, <1>3 DEF Chunk
<1>5. \A i \in 1..Len(m) : c(i).state = Chunked!State(m, i) /\ c(i).data = m[i]
  OBVIOUS
<1> HIDE DEF c
<1>6. Len(m) \in Nat
  OBVIOUS
<1>7. cs \in Seq(Chunk)
  BY <1>4, <1>6
<1>8. Len(cs) = Len(m)
  BY <1>6
<1>9. \A i \in 1..Len(m) : cs[i] = c(i)
  OBVIOUS
<1>10. Len(m) \in 1..Len(m)
  BY NotEmpty
<1> HIDE DEF cs
<1> QED
  BY <1>1, <1>2, <1>5, <1>7, <1>8, <1>9, <1>10

\* What the buffer of the receiver holds after a chunk.
LEMMA ReceivedChunk ==
  ASSUME Chunked!ReceiveChunk, wire \in Seq(Chunk), wire # <<>>, wire[1].state \in {"begin", "middle", "end"}
  PROVE  \/ wire[1].state = "begin" /\ assembled' = <<wire[1].data>>
         \/ wire[1].state = "middle" /\ assembled' = Append(assembled, wire[1].data)
         \/ wire[1].state = "end" /\ assembled' = <<>>
<1>0. Head(wire) = wire[1]
  OBVIOUS
<1>1. CASE wire[1].state = "begin"
  BY <1>0, <1>1, Zenon DEF Chunked!ReceiveChunk
<1>2. CASE wire[1].state = "middle"
  <2>1. wire[1].state # "begin"
    BY <1>2
  <2> QED
    BY <1>0, <1>2, <2>1, Zenon DEF Chunked!ReceiveChunk
<1>3. CASE wire[1].state = "end"
  <2>1. wire[1].state # "begin" /\ wire[1].state # "middle"
    BY <1>3
  <2> QED
    BY <1>0, <1>3, <2>1, Zenon DEF Chunked!ReceiveChunk, Chunked!AfterEnd
<1> QED
  BY <1>1, <1>2, <1>3

-----------------------------------------------------------------------------
(* The invariant.                                                          *)

orderVars == <<step, episode, transitionsQueue, transitionQueue, toSend, wire, assembled, received>>

\* A step that leaves transitions alone, but may close their stream.
LEMMA OrderSame ==
  ASSUME OrderInv, UNCHANGED orderVars, OrderTypes', actor' = actor \/ actor' # "connect",
         \/ stream'["transitions"] = stream["transitions"]
         \/ actor # "connect" /\ stream'["transitions"] # "open"
  PROVE  OrderInv'
<1>1. Unconnected'
  BY DEF OrderInv, Unconnected, orderVars
<1>2. TransitionsInOrder'
  BY DEF OrderInv, TransitionsInOrder, orderVars, Consecutive, Chained, EndOf
<1>3. StreamInOrder'
  <2> SUFFICES ASSUME stream'["transitions"] = "open" PROVE ChunksInOrder' /\ ChunksWhole' /\ ActorInOrder'
    BY DEF StreamInOrder
  <2>1. ChunksInOrder /\ ChunksWhole /\ ActorInOrder
    BY DEF OrderInv, StreamInOrder
  <2>2. ChunksInOrder'
    BY <2>1 DEF ChunksInOrder, orderVars, Consecutive, EndOf, Queued, Held, Sent
  <2>3. ChunksWhole'
    BY <2>1 DEF ChunksWhole, orderVars
  <2>4. ActorInOrder'
    BY <2>1 DEF ActorInOrder, orderVars, Consecutive, Chained, EndOf, Queued, Held, Sent, Cut
  <2> QED
    BY <2>2, <2>3, <2>4
<1> QED
  BY <1>1, <1>2, <1>3 DEF OrderInv

LEMMA OrderInit == Init => OrderInv
<1> SUFFICES ASSUME Init PROVE OrderInv
  OBVIOUS
<1>1. OrderTypes
  BY DEF Init, OrderTypes, Chunked!Idle
<1>2. Unconnected
  BY DEF Init, Unconnected, Chunked!Idle, Streams
<1>3. TransitionsInOrder
  BY DEF Init, TransitionsInOrder, Consecutive, Chained, EndOf
<1>4. StreamInOrder
  BY DEF Init, StreamInOrder, Streams
<1> QED
  BY <1>1, <1>2, <1>3, <1>4 DEF OrderInv

LEMMA OrderTypesStep ==
  ASSUME OrderTypes, Next
  PROVE  OrderTypes'
<1> USE DEF OrderTypes, Streams
<1>1. CASE Connect
  BY <1>1 DEF Connect, actorQueues, chunkVars, LearnerUnchanged, learnerQueues, trainVars
<1>2. CASE GiveUp
  BY <1>2 DEF GiveUp, actorQueues, chunkVars, LearnerUnchanged, learnerQueues, trainVars
<1>3. CASE Act
  <2>1. /\ step' = step + 1 /\ UNCHANGED <<stream, toSend, wire, assembled, transitionQueue, received>>
        /\ \/ episode' = Append(episode, step + 1) /\ transitionsQueue' = transitionsQueue
           \/ /\ episode' = <<>>
              /\ transitionsQueue' = Append(transitionsQueue, Append(episode, step + 1))
    BY <1>3 DEF Act, actorQueues, chunkVars, LearnerUnchanged, learnerQueues, trainVars
  <2>2. Append(episode, step + 1) \in Seq(Nat) /\ Len(Append(episode, step + 1)) = Len(episode) + 1
    BY Longer
  <2> HIDE DEF Streams
  <2>3. CASE episode' = Append(episode, step + 1) /\ transitionsQueue' = transitionsQueue
    BY <2>1, <2>2, <2>3
  <2>4. CASE episode' = <<>> /\ transitionsQueue' = Append(transitionsQueue, Append(episode, step + 1))
    <3>1. transitionsQueue' \in Seq(Seq(Nat))
      BY <2>2, <2>4, Longer
    <3> QED
      BY <2>1, <2>4, <3>1
  <2> QED
    BY <2>1, <2>3, <2>4
<1>4. CASE LeaveLoop \/ JoinTransitions \/ JoinInteractions \/ JoinParameters
  BY <1>4 DEF LeaveLoop, JoinTransitions, JoinInteractions, JoinParameters, Goto, actorQueues, chunkVars,
     LearnerUnchanged, learnerQueues, trainVars
<1>5. CASE ProcessTransitions
  <2>1. /\ received' = received \o Head(transitionQueue) /\ transitionQueue' = Tail(transitionQueue)
        /\ transitionQueue # <<>>
        /\ UNCHANGED <<step, episode, stream, transitionsQueue, toSend, wire, assembled>>
    BY <1>5 DEF ProcessTransitions, ServiceUnchanged, ActorUnchanged, actorVars, actorQueues, chunkVars
  <2>2. Head(transitionQueue) \in Seq(Nat) /\ Tail(transitionQueue) \in Seq(Seq(Nat))
    BY <2>1, HeadTailProperties
  <2>3. received \o Head(transitionQueue) \in Seq(Nat)
    BY <2>2, ConcatProperties
  <2> QED
    BY <2>1, <2>2, <2>3
<1>6. CASE WaitForTransitions \/ Optimize
  BY <1>6 DEF WaitForTransitions, Optimize, ServiceUnchanged, ActorUnchanged, actorVars, actorQueues, chunkVars,
     learnerQueues, trainVars
<1>7. CASE HandlerEnds
  BY <1>7 DEF HandlerEnds, actorVars, actorQueues, chunkVars, LearnerUnchanged, learnerQueues, trainVars
<1>8. CASE SignalActor
  BY <1>8 DEF SignalActor, actorQueues, chunkVars, LearnerUnchanged, learnerQueues, trainVars
<1>9. CASE SignalLearner
  BY <1>9 DEF SignalLearner, ActorUnchanged, actorVars, actorQueues, chunkVars, learnerQueues, trainVars
<1>10. CASE KillLearner
  BY <1>10 DEF KillLearner, Chunked!Break, actorVars, actorQueues
<1>11. CASE ReceiveTransitions
  <2>1. /\ wire # <<>> /\ wire' = Tail(wire) /\ Chunked!ReceiveChunk
        /\ transitionQueue' = transitionQueue
           \/ transitionQueue' = Append(transitionQueue, Append(assembled, wire[1].data))
        /\ UNCHANGED <<step, episode, stream, transitionsQueue, toSend, received>>
    <3>1. wire # <<>> /\ wire' = Tail(wire) /\ Chunked!ReceiveChunk
      BY <1>11 DEF ReceiveTransitions, Chunked!ReceiveChunk
    <3>2. Head(wire) = wire[1]
      BY <3>1
    <3>3. transitionQueue' = transitionQueue
           \/ transitionQueue' = Append(transitionQueue, Append(assembled, Head(wire).data))
      BY <1>11, Zenon DEF ReceiveTransitions, Chunked!Message
    <3>4. UNCHANGED <<step, episode, stream, transitionsQueue, toSend, received>>
      BY <1>11 DEF ReceiveTransitions, Chunked!ReceiveChunk, ActorUnchanged, actorVars, actorQueues, trainVars
    <3> QED
      BY <3>1, <3>2, <3>3, <3>4
  <2>2. wire[1] \in Chunk /\ Tail(wire) \in Seq(Chunk)
    BY <2>1, HeadTailProperties, NotEmpty
  <2>3. wire[1].data \in Nat /\ wire[1].state \in {"begin", "middle", "end"}
    BY <2>2 DEF Chunk
  <2>4. Append(assembled, wire[1].data) \in Seq(Nat) /\ <<wire[1].data>> \in Seq(Nat)
    BY <2>3, Longer
  <2>5. assembled' \in Seq(Nat)
    <3>1. \/ assembled' = <<wire[1].data>>
          \/ assembled' = Append(assembled, wire[1].data)
          \/ assembled' = <<>>
      BY <2>1, <2>3, ReceivedChunk
    <3>2. <<>> \in Seq(Nat)
      OBVIOUS
    <3> HIDE DEF OrderTypes
    <3> QED
      BY <2>4, <3>1, <3>2, Zenon
  <2>6. transitionQueue' \in Seq(Seq(Nat))
    <3> DEFINE S == Seq(Nat)
               m == Append(assembled, wire[1].data)
    <3>1. transitionQueue \in Seq(S) /\ m \in S
      BY <2>4
    <3>2. transitionQueue' = transitionQueue \/ transitionQueue' = Append(transitionQueue, m)
      BY <2>1
    <3> HIDE DEF S, m, OrderTypes
    <3>3. Append(transitionQueue, m) \in Seq(S)
      BY <3>1, Longer
    <3>4. transitionQueue' \in Seq(S)
      BY <3>1, <3>2, <3>3, Zenon
    <3> QED
      BY <3>4 DEF S
  <2> QED
    BY <2>1, <2>2, <2>5, <2>6
<1>12. CASE SendParameters
  BY <1>12 DEF SendParameters, ActorUnchanged, actorVars, actorQueues, chunkVars, trainVars
<1>13. CASE TakeTransitions
  <2>1. /\ transitionsQueue # <<>> /\ transitionsQueue' = Tail(transitionsQueue)
        /\ toSend' = Chunked!Chunks(Head(transitionsQueue))
        /\ UNCHANGED <<step, episode, stream, transitionQueue, wire, assembled, received>>
    BY <1>13 DEF TakeTransitions, Chunked!StartMessage, actorVars, LearnerUnchanged, learnerQueues, trainVars
  <2>2. Head(transitionsQueue) \in Seq(Nat) /\ Tail(transitionsQueue) \in Seq(Seq(Nat))
    BY <2>1, HeadTailProperties
  <2>3. toSend' \in Seq(Chunk)
    <3>1. CASE Head(transitionsQueue) # <<>>
      BY <2>1, <2>2, <3>1, MessageChunks
    <3>2. CASE Head(transitionsQueue) = <<>>
      <4>1. toSend' = <<>>
        BY <2>1, <3>2, SMTT(20) DEF Chunked!Chunks
      <4> QED
        BY <4>1
    <3> QED
      BY <3>1, <3>2
  <2> QED
    BY <2>1, <2>2, <2>3
<1>14. CASE SendTransitionsChunk
  <2>1. /\ toSend # <<>> /\ toSend' = Tail(toSend) /\ wire' = Append(wire, Head(toSend))
        /\ UNCHANGED <<step, episode, stream, transitionsQueue, transitionQueue, assembled, received>>
    BY <1>14 DEF SendTransitionsChunk, Chunked!SendChunk, ActorUnchanged, actorVars, actorQueues, LearnerUnchanged, learnerQueues, trainVars
  <2>2. Head(toSend) \in Chunk /\ Tail(toSend) \in Seq(Chunk)
    BY <2>1, HeadTailProperties
  <2>3. wire' \in Seq(Chunk)
    BY <2>1, <2>2, Longer
  <2> QED
    BY <2>1, <2>2, <2>3
<1>18. CASE NoTransitions
  BY <1>18 DEF NoTransitions, actorVars, chunkVars, LearnerUnchanged, learnerQueues, trainVars
<1>15. CASE TransitionsEnd
  BY <1>15 DEF TransitionsEnd, Chunked!Break, ThreadEnds, actorVars, actorQueues, LearnerUnchanged, learnerQueues, trainVars
<1>16. CASE InteractionsEnd \/ ParametersEnd
  BY <1>16 DEF InteractionsEnd, ParametersEnd, ThreadEnds, actorVars, actorQueues, chunkVars, LearnerUnchanged, learnerQueues, trainVars
<1>17. CASE ReceiveParameters
  BY <1>17 DEF ReceiveParameters, actorVars, chunkVars, LearnerUnchanged, learnerQueues, trainVars
<1> QED
  BY NextCases, <1>1, <1>2, <1>3, <1>4, <1>5, <1>6, <1>7, <1>8, <1>9, <1>10, <1>11, <1>12, <1>13,
     <1>14, <1>15, <1>16, <1>17, <1>18

\* The actor's step: its transition is the next of the episode, which may end with it.
LEMMA ActStep ==
  ASSUME OrderInv, OrderTypes', Act
  PROVE  OrderInv'
<1> USE DEF OrderInv
<1> DEFINE all == Append(episode, step + 1)
<1>1. /\ actor = "act" /\ actor' = "act" /\ step' = step + 1
      /\ UNCHANGED <<stream, toSend, wire, assembled, transitionQueue, received>>
      /\ \/ episode' = all /\ transitionsQueue' = transitionsQueue
         \/ episode' = <<>> /\ transitionsQueue' = Append(transitionsQueue, all)
  BY DEF Act, actorQueues, chunkVars, LearnerUnchanged, learnerQueues, trainVars
<1>2. /\ step \in Nat /\ episode \in Seq(Nat) /\ Len(episode) <= step /\ transitionsQueue \in Seq(Seq(Nat))
      /\ transitionQueue \in Seq(Seq(Nat)) /\ received \in Seq(Nat) /\ assembled \in Seq(Nat)
      /\ toSend \in Seq(Chunk) /\ wire \in Seq(Chunk)
  BY DEF OrderTypes
<1>3. all \in Seq(Nat) /\ Len(all) = Len(episode) + 1 /\ all # <<>>
  <2>1. all \in Seq(Nat) /\ Len(all) = Len(episode) + 1
    BY <1>2
  <2>2. all # <<>>
    <3>1. Len(episode) + 1 # 0
      BY <1>2
    <3> HIDE DEF all
    <3> QED
      BY <2>1, <3>1
  <2> QED
    BY <2>1, <2>2
<1>4. step - Len(episode) <= step' - Len(episode')
  BY <1>1, <1>2, <1>3
<1> HIDE DEF all
<1>5. Unconnected'
  BY <1>1 DEF Unconnected
<1>6. Queued \in Nat /\ Queued' = Queued /\ Held' = Held /\ Sent' = Sent /\ Cut' = Cut /\ Cut \in Nat
  <2>1. Queued \in Nat
    BY <1>2, EndNat DEF TransitionsInOrder, Queued
  <2> QED
    BY <1>1, <1>2, <2>1 DEF Queued, Held, Sent, Cut
<1>7. TransitionsInOrder'
  <2>1. EndOf(transitionQueue, Len(received)) <= step - Len(episode)
    BY DEF TransitionsInOrder
  <2>2. EndOf(transitionQueue, Len(received)) <= step' - Len(episode')
    BY <1>1, <1>2, <1>3, <1>4, <1>6, <2>1 DEF Queued
  <2> QED
    BY <1>1, <2>2 DEF TransitionsInOrder
<1>8. ASSUME stream["transitions"] = "open" PROVE ChunksInOrder' /\ ChunksWhole' /\ ActorInOrder'
  <2>1. ChunksInOrder /\ ChunksWhole /\ ActorInOrder
    BY <1>8 DEF StreamInOrder
  <2>2. ChunksInOrder'
    BY <1>1, <1>6, <2>1 DEF ChunksInOrder
  <2>3. ChunksWhole'
    BY <1>1, <2>1 DEF ChunksWhole
  <2> DEFINE end == EndOf(transitionsQueue, Cut)
  <2>4. end \in Nat /\ step = end + Len(episode) /\ Consecutive(episode, end)
    BY <1>2, <1>6, <2>1, EndNat DEF ActorInOrder
  <2> HIDE DEF end
  <2>5. Consecutive(all, end)
    <3>1. step + 1 = end + Len(episode) + 1
      BY <1>2, <2>4
    <3> QED
      BY <1>2, <2>4, <3>1, ConsecutiveAppend DEF all
  <2>6. CASE episode' = all /\ transitionsQueue' = transitionsQueue
    <3>1. step' = end + Len(all)
      BY <1>1, <1>2, <1>3, <2>4
    <3>2. step' - Len(episode') = step - Len(episode)
      <4>1. Len(episode') = Len(episode) + 1 /\ step' = step + 1
        BY <1>1, <1>3, <2>6
      <4>2. Len(episode) \in Nat
        BY <1>2
      <4> QED
        BY <1>2, <4>1, <4>2
    <3> QED
      BY <1>6, <2>1, <2>2, <2>3, <2>5, <2>6, <3>1, <3>2 DEF ActorInOrder, end
  <2>7. CASE episode' = <<>> /\ transitionsQueue' = Append(transitionsQueue, all)
    <3>1. Chained(transitionsQueue', Cut) /\ EndOf(transitionsQueue', Cut) = end + Len(all)
      BY <1>2, <1>3, <1>6, <2>1, <2>5, <2>7, ChainAppend DEF ActorInOrder, end
    <3>2. step' = end + Len(all) /\ step' - Len(episode') = step + 1 /\ Len(episode') = 0
      BY <1>1, <1>2, <1>3, <2>4, <2>7
    <3>3. Consecutive(episode', EndOf(transitionsQueue', Cut))
      BY <2>7 DEF Consecutive
    <3>4. Cut <= step' - Len(episode')
      BY <1>2, <1>6, <2>1, <3>2 DEF ActorInOrder
    <3>5. ASSUME NEW k \in 1..Len(transitionsQueue') PROVE Last(transitionsQueue'[k]) <= step' - Len(episode')
      <4>1. /\ Len(transitionsQueue') = Len(transitionsQueue) + 1
            /\ \A i \in 1..Len(transitionsQueue) : transitionsQueue'[i] = transitionsQueue[i]
            /\ transitionsQueue'[Len(transitionsQueue) + 1] = all
        BY <1>2, <1>3, <2>7, Longer
      <4>2. CASE k = Len(transitionsQueue) + 1
        <5>1. Last(all) = end + Len(all)
          BY <1>3, <2>4, <2>5, LastConsecutive
        <5> QED
          BY <1>1, <1>2, <1>3, <2>4, <3>2, <4>1, <4>2, <5>1
      <4>3. CASE k # Len(transitionsQueue) + 1
        <5>0. k \in 1..(Len(transitionsQueue) + 1) /\ Len(transitionsQueue) \in Nat
          BY <1>2, <4>1
        <5>1. k \in 1..Len(transitionsQueue) /\ transitionsQueue'[k] = transitionsQueue[k]
          BY <4>1, <4>3, <5>0
        <5>2. Last(transitionsQueue[k]) <= step - Len(episode)
          BY <2>1, <5>1 DEF ActorInOrder
        <5>3. Last(transitionsQueue[k]) \in Nat
          <6>1. transitionsQueue[k] \in Seq(Nat)
            BY <1>2, <5>1
          <6>2. k \in DOMAIN transitionsQueue
            BY <1>2, <5>1
          <6>3. transitionsQueue[k] # <<>>
            BY <2>1, <6>2 DEF ActorInOrder, Chained
          <6> QED
            BY <6>1, <6>3, NotEmpty DEF Last
        <5> QED
          BY <1>2, <3>2, <5>1, <5>2, <5>3
      <4> QED
        BY <4>2, <4>3
    <3>6. ActorInOrder'
      BY <1>6, <3>1, <3>2, <3>3, <3>4, <3>5 DEF ActorInOrder
    <3> QED
      BY <2>2, <2>3, <3>6
  <2> QED
    BY <1>1, <2>6, <2>7
<1> QED
  BY <1>1, <1>5, <1>7, <1>8 DEF StreamInOrder

\* process_transitions takes a message into the replay buffer.
LEMMA ProcessStep ==
  ASSUME OrderInv, OrderTypes', ProcessTransitions
  PROVE  OrderInv'
<1> USE DEF OrderInv
<1>1. /\ transitionQueue # <<>>
      /\ received' = received \o Head(transitionQueue) /\ transitionQueue' = Tail(transitionQueue)
      /\ UNCHANGED <<actor, step, episode, stream, transitionsQueue, toSend, wire, assembled>>
  BY DEF ProcessTransitions, ServiceUnchanged, ActorUnchanged, actorVars, actorQueues, chunkVars
<1>2. /\ step \in Nat /\ episode \in Seq(Nat) /\ received \in Seq(Nat) /\ transitionQueue \in Seq(Seq(Nat))
  BY DEF OrderTypes
<1>3. Consecutive(received, 0) /\ Chained(transitionQueue, Len(received))
  BY DEF TransitionsInOrder
<1>4. /\ Head(transitionQueue) \in Seq(Nat) /\ Consecutive(Head(transitionQueue), Len(received))
      /\ Chained(transitionQueue', Len(received) + Len(Head(transitionQueue)))
      /\ EndOf(transitionQueue', Len(received) + Len(Head(transitionQueue))) = EndOf(transitionQueue, Len(received))
  BY <1>1, <1>2, <1>3, ChainTail
<1>5. Consecutive(received', 0) /\ Len(received') = Len(received) + Len(Head(transitionQueue))
  BY <1>1, <1>2, <1>3, <1>4, ConsecutiveConcat
<1>6. Queued' = Queued /\ Held' = Held /\ Sent' = Sent /\ Cut' = Cut
  BY <1>1, <1>4, <1>5 DEF Queued, Held, Sent, Cut
<1>7. TransitionsInOrder'
  BY <1>1, <1>4, <1>5 DEF TransitionsInOrder
<1>8. Unconnected'
  BY <1>1 DEF Unconnected
<1>9. ChunksInOrder /\ ChunksWhole /\ ActorInOrder => ChunksInOrder' /\ ChunksWhole' /\ ActorInOrder'
  <2>1. ChunksInOrder => ChunksInOrder'
    BY <1>1, <1>6 DEF ChunksInOrder
  <2>2. ChunksWhole => ChunksWhole'
    BY <1>1 DEF ChunksWhole
  <2>3. ActorInOrder => ActorInOrder'
    BY <1>1, <1>6 DEF ActorInOrder
  <2> QED
    BY <2>1, <2>2, <2>3
<1> QED
  BY <1>1, <1>7, <1>8, <1>9 DEF StreamInOrder

\* The actor connects: nothing has been done, the first message begins the stream.
LEMMA ConnectStep ==
  ASSUME OrderInv, OrderTypes', Connect
  PROVE  OrderInv'
<1>1. /\ actor' = "act" /\ actor = "connect"
      /\ UNCHANGED <<step, episode, transitionsQueue, transitionQueue, toSend, wire, assembled, received>>
  BY DEF Connect, actorQueues, chunkVars, LearnerUnchanged, learnerQueues, trainVars
<1>2. /\ step' = 0 /\ episode' = <<>> /\ transitionsQueue' = <<>>
      /\ toSend' = <<>> /\ wire' = <<>> /\ assembled' = <<>>
      /\ transitionQueue' = <<>> /\ received' = <<>>
  BY <1>1 DEF OrderInv, Unconnected
<1>3. Unconnected'
  BY <1>1 DEF Unconnected
<1>4. TransitionsInOrder'
  BY <1>2 DEF TransitionsInOrder, Consecutive, Chained, EndOf
<1>5. Queued' = 0 /\ Held' = 0 /\ Sent' = 0 /\ Cut' = 0
  BY <1>2 DEF Queued, Held, Sent, Cut, EndOf
<1>6. ChunksInOrder'
  BY <1>2 DEF ChunksInOrder, Consecutive
<1>7. ChunksWhole'
  BY <1>2 DEF ChunksWhole
<1>8. ActorInOrder'
  BY <1>2, <1>5 DEF ActorInOrder, Consecutive, Chained, EndOf
<1> QED
  BY <1>3, <1>4, <1>6, <1>7, <1>8 DEF OrderInv, StreamInOrder

\* The learner is killed and what it had is gone, with the stream.
LEMMA KillStep ==
  ASSUME OrderInv, OrderTypes', KillLearner
  PROVE  OrderInv'
<1>1. /\ UNCHANGED <<actor, step, episode, transitionsQueue>>
      /\ toSend' = <<>> /\ wire' = <<>> /\ assembled' = <<>>
      /\ transitionQueue' = <<>> /\ received' = <<>>
      /\ stream'["transitions"] = IF stream["transitions"] = "open" THEN "broken" ELSE stream["transitions"]
  BY DEF KillLearner, Chunked!Break, actorVars, actorQueues, Streams
<1>2. Unconnected'
  BY <1>1 DEF OrderInv, Unconnected
<1>3. TransitionsInOrder'
  <2>1. 0 <= step - Len(episode)
    BY DEF OrderInv, OrderTypes
  <2>2. EndOf(transitionQueue', Len(received')) = 0
    BY <1>1 DEF EndOf
  <2>3. Consecutive(received', 0) /\ Chained(transitionQueue', Len(received'))
    BY <1>1 DEF Consecutive, Chained
  <2> QED
    BY <1>1, <2>1, <2>2, <2>3 DEF TransitionsInOrder
<1>4. StreamInOrder'
  BY <1>1 DEF StreamInOrder
<1> QED
  BY <1>2, <1>3, <1>4 DEF OrderInv

\* The call of the stream returns, or is broken.
LEMMA TransitionsEndStep ==
  ASSUME OrderInv, OrderTypes', TransitionsEnd
  PROVE  OrderInv'
<1>1. /\ UNCHANGED <<actor, step, episode, transitionsQueue, transitionQueue, received>>
      /\ stream["transitions"] \in {"open", "broken"}
      /\ stream' = [stream EXCEPT !["transitions"] = "ended"]
  BY DEF TransitionsEnd, ThreadEnds, actorVars, actorQueues, LearnerUnchanged, learnerQueues, trainVars
<1>2. stream'["transitions"] = "ended"
  BY <1>1 DEF OrderInv, OrderTypes, Streams
<1>3. actor # "connect"
  BY <1>1 DEF OrderInv, Unconnected
<1>4. Unconnected'
  BY <1>1, <1>3 DEF Unconnected
<1>5. TransitionsInOrder'
  BY <1>1 DEF OrderInv, TransitionsInOrder
<1>6. StreamInOrder'
  BY <1>2 DEF StreamInOrder
<1> QED
  BY <1>4, <1>5, <1>6 DEF OrderInv

\* What is open is not that of an actor that has not connected.
LEMMA OpenStream ==
  ASSUME OrderInv, stream["transitions"] = "open"
  PROVE  /\ actor # "connect" /\ ChunksInOrder /\ ChunksWhole /\ ActorInOrder
         /\ Queued \in Nat /\ Held \in Nat /\ Sent \in Nat /\ Cut \in Nat
         /\ Held = Queued + Len(assembled) /\ Sent = Held + Len(wire) /\ Cut = Sent + Len(toSend)
<1>1. /\ transitionQueue \in Seq(Seq(Nat)) /\ received \in Seq(Nat) /\ assembled \in Seq(Nat)
      /\ toSend \in Seq(Chunk) /\ wire \in Seq(Chunk)
  BY DEF OrderInv, OrderTypes
<1>2. Chained(transitionQueue, Len(received)) /\ Len(received) \in Nat
  BY <1>1 DEF OrderInv, TransitionsInOrder
<1>3. Queued \in Nat
  BY <1>1, <1>2, EndNat DEF Queued
<1>4. actor # "connect" /\ ChunksInOrder /\ ChunksWhole /\ ActorInOrder
  BY DEF OrderInv, Unconnected, StreamInOrder
<1> QED
  BY <1>1, <1>3, <1>4 DEF Held, Sent, Cut

\* The next message is cut into chunks.
LEMMA TakeStep ==
  ASSUME OrderInv, OrderTypes', TakeTransitions
  PROVE  OrderInv'
<1> DEFINE m == Head(transitionsQueue)
<1>1. /\ stream["transitions"] = "open" /\ toSend = <<>> /\ transitionsQueue # <<>>
      /\ transitionsQueue' = Tail(transitionsQueue) /\ toSend' = Chunked!Chunks(m)
      /\ UNCHANGED <<actor, step, episode, stream, transitionQueue, wire, assembled, received>>
  BY DEF TakeTransitions, Chunked!StartMessage, actorVars, LearnerUnchanged, learnerQueues, trainVars
<1>2. /\ actor # "connect" /\ ChunksInOrder /\ ChunksWhole /\ ActorInOrder
      /\ Queued \in Nat /\ Held \in Nat /\ Sent \in Nat /\ Cut \in Nat
      /\ Held = Queued + Len(assembled) /\ Sent = Held + Len(wire) /\ Cut = Sent
  <2>1. Len(toSend) = 0
    BY <1>1
  <2> QED
    BY <1>1, <2>1, OpenStream
<1>3. /\ transitionsQueue \in Seq(Seq(Nat)) /\ step \in Nat /\ episode \in Seq(Nat)
  BY DEF OrderInv, OrderTypes
<1>4. /\ m \in Seq(Nat) /\ m # <<>> /\ Consecutive(m, Cut)
      /\ Chained(transitionsQueue', Cut + Len(m))
      /\ EndOf(transitionsQueue', Cut + Len(m)) = EndOf(transitionsQueue, Cut)
  BY <1>1, <1>2, <1>3, ChainTail DEF ActorInOrder
<1>5. /\ m = transitionsQueue[1] /\ 1 \in 1..Len(transitionsQueue)
      /\ Len(transitionsQueue) \in Nat /\ Len(transitionsQueue') = Len(transitionsQueue) - 1
      /\ \A k \in 1..Len(transitionsQueue') : transitionsQueue'[k] = transitionsQueue[k + 1]
  BY <1>1, <1>3, NotEmpty, HeadTailProperties
<1> HIDE DEF m
<1>6. /\ Len(m) \in Nat /\ Len(m) # 0 /\ Len(m) \in 1..Len(m) /\ 1 \in 1..Len(m) /\ DOMAIN m = 1..Len(m)
  BY <1>4, NotEmpty
<1>7. /\ toSend' \in Seq(Chunk) /\ Len(toSend') = Len(m)
      /\ \A i \in 1..Len(m) : toSend'[i].data = m[i]
      /\ \A i \in 1..Len(m) : i > 1 => toSend'[i].state # "begin"
      /\ toSend'[Len(m)].state = "end"
  BY <1>1, <1>4, MessageChunks
<1>8. Queued' = Queued /\ Held' = Held /\ Sent' = Sent /\ Cut' = Cut + Len(m)
  <2>1. Queued' = Queued /\ Held' = Held /\ Sent' = Sent
    BY <1>1 DEF Queued, Held, Sent
  <2> QED
    BY <1>2, <1>7, <2>1 DEF Cut
<1>9. ChunksInOrder'
  <2>1. ASSUME NEW i \in 1..Len(m) PROVE toSend'[i].data = Sent + i
    <3>1. m[i] = Cut + i
      BY <1>4, <1>6 DEF Consecutive
    <3> QED
      BY <1>2, <1>7, <3>1
  <2> QED
    BY <1>1, <1>2, <1>7, <1>8, <2>1 DEF ChunksInOrder
<1>10. ChunksWhole'
  <2>1. ASSUME NEW i \in 1..(Len(toSend') - 1) PROVE toSend'[i + 1].state # "begin"
    <3>1. i + 1 \in 1..Len(m) /\ i + 1 > 1
      BY <1>6, <1>7
    <3> QED
      BY <1>7, <3>1
  <2>2. toSend' # <<>>
    BY <1>6, <1>7
  <2>3. /\ wire = <<>> => assembled = <<>>
        /\ wire # <<>> => wire[Len(wire)].state = "end"
    BY <1>1, <1>2 DEF ChunksWhole
  <2>4. /\ wire # <<>> /\ wire[1].state = "begin" => assembled = <<>>
        /\ \A i \in 1..(Len(wire) - 1) : wire[i + 1].state = "begin" => wire[i].state = "end"
    BY <1>2 DEF ChunksWhole
  <2> QED
    BY <1>1, <1>7, <2>1, <2>2, <2>3, <2>4 DEF ChunksWhole
<1>11. ActorInOrder'
  <2>1. Cut + Len(m) <= step - Len(episode)
    <3>1. Last(m) = Cut + Len(m)
      BY <1>2, <1>4, LastConsecutive
    <3>2. Last(m) <= step - Len(episode)
      BY <1>2, <1>5 DEF ActorInOrder
    <3> QED
      BY <3>1, <3>2
  <2>2. ASSUME NEW k \in 1..Len(transitionsQueue') PROVE Last(transitionsQueue'[k]) <= step - Len(episode)
    <3>1. k + 1 \in 1..Len(transitionsQueue)
      BY <1>5
    <3>2. Last(transitionsQueue[k + 1]) <= step - Len(episode)
      BY <1>2, <3>1 DEF ActorInOrder
    <3> QED
      BY <1>5, <3>2
  <2> QED
    BY <1>1, <1>2, <1>4, <1>8, <2>1, <2>2 DEF ActorInOrder
<1>12. Unconnected'
  BY <1>1, <1>2 DEF Unconnected
<1>13. TransitionsInOrder'
  BY <1>1 DEF OrderInv, TransitionsInOrder
<1> QED
  BY <1>9, <1>10, <1>11, <1>12, <1>13 DEF OrderInv, StreamInOrder

\* A chunk is sent.
LEMMA SendChunkStep ==
  ASSUME OrderInv, OrderTypes', SendTransitionsChunk
  PROVE  OrderInv'
<1>1. /\ stream["transitions"] = "open" /\ toSend # <<>>
      /\ wire' = Append(wire, Head(toSend)) /\ toSend' = Tail(toSend)
      /\ UNCHANGED <<actor, step, episode, stream, transitionsQueue, transitionQueue, assembled, received>>
  BY DEF SendTransitionsChunk, Chunked!SendChunk, ActorUnchanged, actorVars, actorQueues,
     LearnerUnchanged, learnerQueues, trainVars
<1>2. /\ actor # "connect" /\ ChunksInOrder /\ ChunksWhole /\ ActorInOrder
      /\ Queued \in Nat /\ Held \in Nat /\ Sent \in Nat /\ Cut \in Nat
      /\ Held = Queued + Len(assembled) /\ Sent = Held + Len(wire) /\ Cut = Sent + Len(toSend)
  BY <1>1, OpenStream
<1>3. toSend \in Seq(Chunk) /\ wire \in Seq(Chunk)
  BY DEF OrderInv, OrderTypes
<1>4. /\ Len(toSend) \in Nat /\ Len(toSend) # 0 /\ Len(toSend) \in 1..Len(toSend) /\ 1 \in 1..Len(toSend)
      /\ Head(toSend) = toSend[1] /\ toSend[1] \in Chunk
  BY <1>1, <1>3, NotEmpty
<1>5. /\ Len(toSend') = Len(toSend) - 1
      /\ \A i \in 1..Len(toSend') : toSend'[i] = toSend[i + 1]
  BY <1>1, <1>3, HeadTailProperties
<1>6. /\ Len(wire') = Len(wire) + 1 /\ wire'[Len(wire) + 1] = toSend[1] /\ Len(wire) \in Nat
      /\ \A i \in 1..Len(wire) : wire'[i] = wire[i]
  BY <1>1, <1>3, <1>4, Longer
<1>7. Queued' = Queued /\ Held' = Held /\ Sent' = Sent + 1 /\ Cut' = Cut
  <2>1. Queued' = Queued /\ Held' = Held
    BY <1>1 DEF Queued, Held
  <2>2. Sent' = Sent + 1
    BY <1>2, <1>6, <2>1 DEF Sent
  <2> QED
    BY <1>2, <1>4, <1>5, <2>1, <2>2 DEF Cut
<1>8. ChunksInOrder'
  <2>1. ASSUME NEW i \in 1..(Len(wire) + 1) PROVE wire'[i].data = Held + i
    <3>1. CASE i = Len(wire) + 1
      <4>1. toSend[1].data = Sent + 1
        BY <1>2, <1>4 DEF ChunksInOrder
      <4> QED
        BY <1>2, <1>6, <3>1, <4>1
    <3>2. CASE i # Len(wire) + 1
      <4>1. i \in 1..Len(wire)
        BY <1>6, <3>2
      <4> QED
        BY <1>2, <1>6, <4>1 DEF ChunksInOrder
    <3> QED
      BY <3>1, <3>2
  <2>2. ASSUME NEW i \in 1..Len(toSend') PROVE toSend'[i].data = (Sent + 1) + i
    <3>1. i + 1 \in 1..Len(toSend)
      BY <1>4, <1>5
    <3>2. toSend[i + 1].data = Sent + (i + 1)
      BY <1>2, <3>1 DEF ChunksInOrder
    <3>3. toSend'[i] = toSend[i + 1]
      BY <1>5
    <3>4. Sent + (i + 1) = (Sent + 1) + i
      BY <1>2
    <3> QED
      BY <3>2, <3>3, <3>4
  <2>3. Consecutive(assembled', Queued')
    BY <1>1, <1>2, <1>7 DEF ChunksInOrder
  <2> QED
    BY <1>6, <1>7, <2>1, <2>2, <2>3 DEF ChunksInOrder
<1>9. ChunksWhole'
  <2>1. wire' # <<>> /\ Len(wire') = Len(wire) + 1
    BY <1>6
  <2>2. wire'[1].state = "begin" => assembled' = <<>>
    <3>1. CASE wire = <<>>
      <4>1. wire'[1] = toSend[1]
        BY <1>6, <3>1
      <4> QED
        BY <1>1, <1>2, <3>1, <4>1 DEF ChunksWhole
    <3>2. CASE wire # <<>>
      <4>1. 1 \in 1..Len(wire)
        BY <1>3, <3>2, NotEmpty
      <4>2. wire'[1] = wire[1]
        BY <1>6, <4>1
      <4> QED
        BY <1>1, <1>2, <3>2, <4>2 DEF ChunksWhole
    <3> QED
      BY <3>1, <3>2
  <2>3. ASSUME NEW i \in 1..(Len(wire') - 1), wire'[i + 1].state = "begin" PROVE wire'[i].state = "end"
    <3>0. i \in 1..Len(wire) /\ wire'[i] = wire[i]
      BY <1>6
    <3>1. CASE i = Len(wire)
      <4>1. toSend[1].state = "begin" /\ wire # <<>>
        BY <1>6, <2>3, <3>0, <3>1
      <4> QED
        BY <1>1, <1>2, <3>0, <3>1, <4>1 DEF ChunksWhole
    <3>2. CASE i # Len(wire)
      <4>1. i \in 1..(Len(wire) - 1) /\ i + 1 \in 1..Len(wire)
        BY <1>6, <3>0, <3>2
      <4>2. wire'[i + 1] = wire[i + 1]
        BY <1>6, <4>1
      <4> QED
        BY <1>2, <2>3, <3>0, <4>1, <4>2 DEF ChunksWhole
    <3> QED
      BY <3>1, <3>2
  <2>4. ASSUME NEW i \in 1..Len(toSend') PROVE toSend'[i].state # "begin"
    <3>1. i \in 1..(Len(toSend) - 1)
      BY <1>4, <1>5
    <3> QED
      BY <1>2, <1>5, <3>1 DEF ChunksWhole
  <2>5. toSend' # <<>> => toSend'[1].state # "begin" /\ toSend'[Len(toSend')].state = "end"
    <3> SUFFICES ASSUME toSend' # <<>> PROVE toSend'[1].state # "begin" /\ toSend'[Len(toSend')].state = "end"
      OBVIOUS
    <3>1. toSend' \in Seq(Chunk)
      BY DEF OrderTypes
    <3>2. 1 \in 1..Len(toSend') /\ Len(toSend') \in 1..Len(toSend')
      BY <3>1, NotEmpty
    <3>3. toSend'[Len(toSend')] = toSend[Len(toSend)]
      <4>1. Len(toSend') + 1 = Len(toSend)
        BY <1>4, <1>5
      <4> QED
        BY <1>5, <3>2, <4>1
    <3>4. toSend[Len(toSend)].state = "end"
      BY <1>1, <1>2 DEF ChunksWhole
    <3> QED
      BY <2>4, <3>2, <3>3, <3>4
  <2>6. toSend' = <<>> => wire'[Len(wire')].state = "end"
    <3> SUFFICES ASSUME toSend' = <<>> PROVE wire'[Len(wire')].state = "end"
      OBVIOUS
    <3>1. Len(toSend) = 1
      <4>1. Len(toSend') = 0
        OBVIOUS
      <4>2. \A n \in Nat : 0 = n - 1 => n = 1
        OBVIOUS
      <4> QED
        BY <1>4, <1>5, <4>1, <4>2
    <3>2. toSend[Len(toSend)].state = "end"
      BY <1>1, <1>2 DEF ChunksWhole
    <3> QED
      BY <1>6, <3>1, <3>2
  <2>7. \A i \in 1..(Len(toSend') - 1) : toSend'[i + 1].state # "begin"
    <3>1. ASSUME NEW i \in 1..(Len(toSend') - 1) PROVE i + 1 \in 1..Len(toSend')
      BY <1>4, <1>5
    <3> QED
      BY <2>4, <3>1
  <2> QED
    BY <2>1, <2>2, <2>3, <2>5, <2>6, <2>7 DEF ChunksWhole
<1>10. ActorInOrder'
  BY <1>1, <1>2, <1>7 DEF ActorInOrder
<1>11. Unconnected'
  BY <1>1, <1>2 DEF Unconnected
<1>12. TransitionsInOrder'
  BY <1>1 DEF OrderInv, TransitionsInOrder
<1> QED
  BY <1>8, <1>9, <1>10, <1>11, <1>12 DEF OrderInv, StreamInOrder

\* The learner reads a chunk; the one that ends a message completes it.
LEMMA ReceiveStep ==
  ASSUME OrderInv, OrderTypes', ReceiveTransitions
  PROVE  OrderInv'
<1> DEFINE d == wire[1].data
           whole == Append(assembled, d)
<1>1. /\ stream["transitions"] = "open" /\ wire # <<>> /\ wire' = Tail(wire) /\ Chunked!ReceiveChunk
      /\ UNCHANGED <<actor, step, episode, stream, transitionsQueue, toSend, received>>
  BY DEF ReceiveTransitions, Chunked!ReceiveChunk, ActorUnchanged, actorVars, actorQueues, trainVars
<1>2. /\ actor # "connect" /\ ChunksInOrder /\ ChunksWhole /\ ActorInOrder
      /\ Queued \in Nat /\ Held \in Nat /\ Sent \in Nat /\ Cut \in Nat
      /\ Held = Queued + Len(assembled) /\ Sent = Held + Len(wire) /\ Cut = Sent + Len(toSend)
  BY <1>1, OpenStream
<1>3. /\ wire \in Seq(Chunk) /\ assembled \in Seq(Nat) /\ transitionQueue \in Seq(Seq(Nat))
      /\ received \in Seq(Nat) /\ Len(received) \in Nat /\ toSend \in Seq(Chunk)
      /\ wire' \in Seq(Chunk) /\ step \in Nat /\ episode \in Seq(Nat)
  BY DEF OrderInv, OrderTypes
<1>4. /\ Len(wire) \in Nat /\ Len(wire) # 0 /\ 1 \in 1..Len(wire) /\ Len(wire) \in 1..Len(wire)
      /\ wire[1] \in Chunk
  BY <1>1, <1>3, NotEmpty
<1>5. Head(wire) = wire[1]
  BY <1>1, <1>3
<1>6. /\ Len(wire') = Len(wire) - 1
      /\ \A i \in 1..Len(wire') : wire'[i] = wire[i + 1]
  BY <1>1, <1>3, HeadTailProperties
<1>7. d \in Nat /\ d = Held + 1 /\ wire[1].state \in {"begin", "middle", "end"}
  <2>1. wire[1].data \in Nat /\ wire[1].state \in {"begin", "middle", "end"}
    BY <1>4 DEF Chunk
  <2>2. wire[1].data = Held + 1
    BY <1>2, <1>4 DEF ChunksInOrder
  <2> QED
    BY <2>1, <2>2
<1> HIDE DEF d
<1>8. whole \in Seq(Nat) /\ Len(whole) = Len(assembled) + 1 /\ whole # <<>>
  <2>1. whole \in Seq(Nat) /\ Len(whole) = Len(assembled) + 1 /\ Len(assembled) + 1 # 0
    BY <1>3, <1>7
  <2> HIDE DEF whole
  <2> QED
    BY <2>1
<1>9. Consecutive(whole, Queued)
  <2>1. d = Queued + Len(assembled) + 1
    BY <1>2, <1>3, <1>7
  <2> QED
    BY <1>2, <1>3, <2>1, ConsecutiveAppend DEF ChunksInOrder
<1>10. transitionQueue' = IF wire[1].state = "end" THEN Append(transitionQueue, whole) ELSE transitionQueue
  <2>1. Chunked!Complete <=> wire[1].state = "end"
    BY <1>1, <1>5 DEF Chunked!Complete
  <2>2. Chunked!Message = whole
    BY <1>5 DEF Chunked!Message, d
  <2>3. transitionQueue' = IF Chunked!Complete THEN Append(transitionQueue, Chunked!Message) ELSE transitionQueue
    BY DEF ReceiveTransitions
  <2> QED
    BY <2>1, <2>2, <2>3
<1>11. wire[1].state = "begin" => assembled = <<>>
  BY <1>1, <1>2 DEF ChunksWhole
\* A beginning is put into an empty buffer, as what is in the middle is to what is there.
<1>12. \/ wire[1].state # "end" /\ assembled' = whole /\ transitionQueue' = transitionQueue
       \/ wire[1].state = "end" /\ assembled' = <<>> /\ transitionQueue' = Append(transitionQueue, whole)
  <2>1. \/ wire[1].state = "begin" /\ assembled' = <<d>>
        \/ wire[1].state = "middle" /\ assembled' = whole
        \/ wire[1].state = "end" /\ assembled' = <<>>
    BY <1>1, <1>3, <1>7, ReceivedChunk DEF d
  <2>2. assembled = <<>> => whole = <<d>>
    BY <1>7
  <2> HIDE DEF whole
  <2>3. CASE wire[1].state = "begin" /\ assembled' = <<d>>
    BY <1>10, <1>11, <2>2, <2>3
  <2>4. CASE wire[1].state = "middle" /\ assembled' = whole
    BY <1>10, <2>4
  <2>5. CASE wire[1].state = "end" /\ assembled' = <<>>
    BY <1>10, <2>5
  <2> QED
    BY <2>1, <2>3, <2>4, <2>5
<1> HIDE DEF whole
<1>13. /\ Queued' + Len(assembled') = Held + 1 /\ Consecutive(assembled', Queued')
       /\ Chained(transitionQueue', Len(received)) /\ Queued' <= Held + 1 /\ Queued' \in Nat
  <2>0. Chained(transitionQueue, Len(received))
    BY DEF OrderInv, TransitionsInOrder
  <2>1. CASE assembled' = whole /\ transitionQueue' = transitionQueue
    <3>1. Queued' = Queued
      BY <1>1, <2>1 DEF Queued
    <3>2. Len(assembled') = Len(assembled) + 1 /\ Len(assembled) \in Nat
      BY <1>3, <1>8, <2>1
    <3>3. Queued' + Len(assembled') = Held + 1 /\ Queued' <= Held + 1 /\ Queued' \in Nat
      BY <1>2, <3>1, <3>2
    <3> QED
      BY <1>9, <2>0, <2>1, <3>1, <3>3
  <2>2. CASE assembled' = <<>> /\ transitionQueue' = Append(transitionQueue, whole)
    <3>1. /\ Chained(transitionQueue', Len(received))
          /\ EndOf(transitionQueue', Len(received)) = Queued + Len(whole)
      BY <1>3, <1>8, <1>9, <2>0, <2>2, ChainAppend DEF Queued
    <3>2. Queued' = Queued + Len(whole)
      BY <1>1, <3>1 DEF Queued
    <3>3. Queued' = Held + 1
      BY <1>2, <1>3, <1>8, <3>2
    <3>4. Len(assembled') = 0 /\ Consecutive(assembled', Queued')
      BY <2>2 DEF Consecutive
    <3> QED
      BY <1>2, <3>1, <3>3, <3>4
  <2> QED
    BY <1>12, <2>1, <2>2
<1>14. Held' = Held + 1 /\ Sent' = Sent /\ Cut' = Cut
  <2>1. Held' = Held + 1
    BY <1>13 DEF Held
  <2>2. Sent' = Sent
    BY <1>2, <1>4, <1>6, <2>1 DEF Sent
  <2> QED
    BY <1>1, <2>1, <2>2 DEF Cut
<1>15. ChunksInOrder'
  <2>1. ASSUME NEW i \in 1..Len(wire') PROVE wire'[i].data = (Held + 1) + i
    <3>1. i + 1 \in 1..Len(wire)
      BY <1>4, <1>6
    <3>2. wire[i + 1].data = Held + (i + 1)
      BY <1>2, <3>1 DEF ChunksInOrder
    <3> QED
      BY <1>2, <1>6, <3>2
  <2> QED
    BY <1>1, <1>2, <1>13, <1>14, <2>1 DEF ChunksInOrder
<1>16. ChunksWhole'
  <2>1. wire' # <<>> /\ wire'[1].state = "begin" => assembled' = <<>>
    <3> SUFFICES ASSUME wire' # <<>>, wire'[1].state = "begin" PROVE assembled' = <<>>
      OBVIOUS
    <3>1. 1 \in 1..Len(wire')
      BY <1>3, NotEmpty
    <3>2. 1 \in 1..(Len(wire) - 1) /\ wire'[1] = wire[2]
      BY <1>4, <1>6, <3>1
    <3>3. wire[1].state = "end"
      BY <1>2, <3>2 DEF ChunksWhole
    <3> QED
      BY <1>12, <3>3
  <2>2. ASSUME NEW i \in 1..(Len(wire') - 1), wire'[i + 1].state = "begin" PROVE wire'[i].state = "end"
    <3>1. i + 1 \in 1..(Len(wire) - 1) /\ i \in 1..Len(wire') /\ i + 1 \in 1..Len(wire')
      BY <1>4, <1>6
    <3>2. wire'[i] = wire[i + 1] /\ wire'[i + 1] = wire[(i + 1) + 1]
      BY <1>6, <3>1
    <3> QED
      BY <1>2, <2>2, <3>1, <3>2 DEF ChunksWhole
  <2>3. wire' # <<>> => wire'[Len(wire')] = wire[Len(wire)]
    <3> SUFFICES ASSUME wire' # <<>> PROVE wire'[Len(wire')] = wire[Len(wire)]
      OBVIOUS
    <3>1. Len(wire') \in 1..Len(wire') /\ Len(wire') + 1 = Len(wire)
      <4>1. Len(wire') \in 1..Len(wire')
        BY <1>3, NotEmpty
      <4> QED
        BY <1>4, <1>6, <4>1
    <3> QED
      BY <1>6, <3>1
  <2>4. wire' = <<>> => wire[1] = wire[Len(wire)]
    <3>1. wire' = <<>> => Len(wire') = 0
      OBVIOUS
    <3>2. \A n \in Nat : 0 = n - 1 => n = 1
      OBVIOUS
    <3> QED
      BY <1>4, <1>6, <3>1, <3>2
  <2>5. wire[1].state = "end" => assembled' = <<>>
    BY <1>12
  <2>6. toSend' # <<>> /\ toSend'[1].state = "begin" =>
          /\ wire' = <<>> => assembled' = <<>>
          /\ wire' # <<>> => wire'[Len(wire')].state = "end"
    BY <1>1, <1>2, <2>3, <2>4, <2>5 DEF ChunksWhole
  <2>7. /\ toSend' = <<>> /\ wire' # <<>> => wire'[Len(wire')].state = "end"
        /\ toSend' = <<>> /\ wire' = <<>> => assembled' = <<>>
    BY <1>1, <1>2, <2>3, <2>4, <2>5 DEF ChunksWhole
  <2>8. /\ \A i \in 1..(Len(toSend') - 1) : toSend'[i + 1].state # "begin"
        /\ toSend' # <<>> => toSend'[Len(toSend')].state = "end"
    BY <1>1, <1>2 DEF ChunksWhole
  <2> QED
    BY <2>1, <2>2, <2>6, <2>7, <2>8 DEF ChunksWhole
<1>17. ActorInOrder'
  BY <1>1, <1>2, <1>14 DEF ActorInOrder
<1>18. Unconnected'
  BY <1>1, <1>2 DEF Unconnected
<1>19. TransitionsInOrder'
  <2>1. Held + 1 <= Cut
    BY <1>2, <1>3, <1>4
  <2>2. Cut <= step - Len(episode)
    BY <1>2 DEF ActorInOrder
  <2>3. Queued' <= step - Len(episode)
    <3>1. Len(episode) \in Nat
      BY <1>3
    <3> QED
      BY <1>2, <1>3, <1>13, <2>1, <2>2, <3>1, SMTT(20)
  <2>4. Consecutive(received, 0)
    BY DEF OrderInv, TransitionsInOrder
  <2> QED
    BY <1>1, <1>13, <2>3, <2>4 DEF TransitionsInOrder, Queued
<1> QED
  BY <1>15, <1>16, <1>17, <1>18, <1>19 DEF OrderInv, StreamInOrder

LEMMA OrderStep ==
  ASSUME OrderInv, [Next]_vars
  PROVE  OrderInv'
<1>0. OrderTypes'
  <2>1. OrderTypes
    BY DEF OrderInv
  <2>2. CASE Next
    BY <2>1, <2>2, OrderTypesStep
  <2>3. CASE UNCHANGED vars
    BY <2>1, <2>3 DEF OrderTypes, vars, actorVars, actorQueues, chunkVars, learnerQueues, trainVars
  <2> QED
    BY <2>2, <2>3
<1>s. ASSUME UNCHANGED orderVars, actor' = actor \/ actor' # "connect",
             stream'["transitions"] = stream["transitions"]
      PROVE  OrderInv'
  BY <1>0, <1>s, OrderSame
<1>1. CASE GiveUp \/ LeaveLoop \/ JoinTransitions \/ JoinInteractions \/ JoinParameters
  <2>1. UNCHANGED orderVars /\ stream' = stream
    BY <1>1 DEF GiveUp, LeaveLoop, JoinTransitions, JoinInteractions, JoinParameters, Goto, orderVars,
       actorQueues, chunkVars, LearnerUnchanged, learnerQueues, trainVars
  <2>2. actor' # "connect"
    BY <1>1 DEF GiveUp, LeaveLoop, JoinTransitions, JoinInteractions, JoinParameters, Goto
  <2> QED
    BY <2>1, <2>2, <1>s
<1>2. CASE WaitForTransitions \/ Optimize \/ SignalActor \/ SignalLearner \/ SendParameters
             \/ ReceiveParameters \/ NoTransitions
  <2>1. UNCHANGED orderVars /\ stream' = stream /\ actor' = actor
    BY <1>2 DEF WaitForTransitions, Optimize, SignalActor, SignalLearner, SendParameters, ReceiveParameters,
       NoTransitions,
       orderVars, ServiceUnchanged, ActorUnchanged, actorVars, actorQueues, chunkVars, LearnerUnchanged,
       learnerQueues, trainVars
  <2> QED
    BY <2>1, <1>s
<1>3. CASE HandlerEnds
  <2>1. UNCHANGED orderVars /\ actor' = actor
    BY <1>3 DEF HandlerEnds, orderVars, actorVars, actorQueues, chunkVars, LearnerUnchanged, learnerQueues, trainVars
  <2>2. PICK s \in Streams : stream[s] = "open" /\ stream' = [stream EXCEPT ![s] = "broken"]
    BY <1>3 DEF HandlerEnds
  <2>0. stream \in [Streams -> {"off", "open", "broken", "ended"}] /\ "transitions" \in Streams
    BY DEF OrderInv, OrderTypes, Streams
  <2>3. CASE s = "transitions"
    <3>1. actor # "connect"
      BY <2>2, <2>3 DEF OrderInv, Unconnected
    <3>2. stream'["transitions"] = "broken"
      BY <2>0, <2>2, <2>3
    <3>3. stream'["transitions"] # "open"
      BY <3>2
    <3> QED
      BY <1>0, <2>1, <3>1, <3>3, OrderSame
  <2>4. CASE s # "transitions"
    <3>1. stream'["transitions"] = stream["transitions"]
      BY <2>0, <2>2, <2>4
    <3> QED
      BY <2>1, <3>1, <1>s
  <2> QED
    BY <2>3, <2>4
<1>4. CASE InteractionsEnd \/ ParametersEnd
  <2>1. UNCHANGED orderVars /\ actor' = actor
    BY <1>4 DEF InteractionsEnd, ParametersEnd, ThreadEnds, orderVars, actorVars, actorQueues, chunkVars,
       LearnerUnchanged, learnerQueues, trainVars
  <2>2. stream'["transitions"] = stream["transitions"]
    <3>1. stream \in [Streams -> {"off", "open", "broken", "ended"}] /\ "transitions" \in Streams
      BY DEF OrderInv, OrderTypes, Streams
    <3>2. PICK s \in {"interactions", "parameters"} : stream' = [stream EXCEPT ![s] = "ended"]
      BY <1>4 DEF InteractionsEnd, ParametersEnd, ThreadEnds
    <3> QED
      BY <3>1, <3>2
  <2> QED
    BY <2>1, <2>2, <1>s
<1>5. CASE UNCHANGED vars
  <2>1. UNCHANGED orderVars /\ stream' = stream /\ actor' = actor
    BY <1>5 DEF vars, orderVars, actorVars, actorQueues, chunkVars, learnerQueues, trainVars
  <2> QED
    BY <2>1, <1>s
<1>6. CASE Connect
  BY <1>0, <1>6, ConnectStep
<1>7. CASE Act
  BY <1>0, <1>7, ActStep
<1>8. CASE TakeTransitions
  BY <1>0, <1>8, TakeStep
<1>9. CASE SendTransitionsChunk
  BY <1>0, <1>9, SendChunkStep
<1>10. CASE ReceiveTransitions
  BY <1>0, <1>10, ReceiveStep
<1>11. CASE TransitionsEnd
  BY <1>0, <1>11, TransitionsEndStep
<1>12. CASE ProcessTransitions
  BY <1>0, <1>12, ProcessStep
<1>13. CASE KillLearner
  BY <1>0, <1>13, KillStep
<1> QED
  BY NextCases, <1>1, <1>2, <1>3, <1>4, <1>5, <1>6, <1>7, <1>8, <1>9, <1>10, <1>11, <1>12, <1>13

\* The learner has the actor's transitions in order, without a gap or a repetition
\* (send_bytes_in_chunks, receive_bytes_in_chunks, process_transitions), for every size of
\* the messages and however much of them is on its way when a side ends: what the learner
\* has whole, what it has in its buffer, what is on its way, what is being sent and what the
\* actor has still to send follow each other while the stream is open.
THEOREM AlwaysInOrder == Spec => []TransitionsInOrder
<1>1. OrderInv => TransitionsInOrder
  BY DEF OrderInv
<1> QED
  BY OrderInit, OrderStep, <1>1, PTL DEF Spec
=============================================================================
