------------------------- MODULE ScenePublisherProofs -------------------------
(***************************************************************************)
(* Proofs about ScenePublisher, for every value of its constants: the type *)
(* invariant, the account of records, the absence of lost wakeups and the  *)
(* refinement of LatestMailbox.  All follow from one inductive invariant.  *)
(***************************************************************************)
EXTENDS ScenePublisher, TLAPS

ClosingPoints == {"close_notify", "abort", "reconcile", "closed"}

(* Where the threads are determines what they hold. *)
Positions ==
  /\ closed <=> owner \in ClosingPoints
  /\ closed => latest = NoSegment
  /\ task = "done" => closed
  /\ task \in {"encode", "write"} => in_flight # NoSegment
  /\ in_flight # NoSegment =>
       \/ task \in {"encode", "write"}
       \/ task = "done" /\ owner \in {"abort", "reconcile"}
  /\ owner \in {"reconcile", "closed"} => task \in {"unspawned", "done"}
  /\ owner = "closed" => in_flight = NoSegment

(* Segments are numbered in the order in which they move through the slot  *)
(* and the task's hands to the wire.                                       *)
Order ==
  /\ latest.sequence < next_sequence
  /\ in_flight.sequence < next_sequence
  /\ last_sent.sequence < next_sequence
  /\ latest # NoSegment => latest.sequence > in_flight.sequence /\ latest.sequence > last_sent.sequence
  /\ in_flight # NoSegment => in_flight.sequence > last_sent.sequence

(* The counters stay below the numbers given out, so they never saturate.  *)
Accounts ==
  /\ accepted_records < next_sequence
  /\ accepted_records = sent_records + dropped_records + Count(latest) + Count(in_flight)

IInv == TypeOK /\ Positions /\ Order /\ Accounts /\ NoLostWakeup

-----------------------------------------------------------------------------
LEMMA SegmentFacts ==
  ASSUME NEW s \in Segment \cup {NoSegment}
  PROVE  /\ s.sequence \in 0..MaxSequence
         /\ s # NoSegment <=> s.sequence # 0
         /\ s # NoSegment <=> s.sequence \in 1..MaxSequence
         /\ Count(s) = IF s.sequence = 0 THEN 0 ELSE 1
         /\ Count(s) \in {0, 1}
  BY ConstantsAssumption DEF Segment, NoSegment, Count

(* Below the maximum the counters do not saturate. *)
LEMMA SaturateFacts ==
  ASSUME NEW n \in Nat
  PROVE  /\ Saturate(n) \in 0..CounterMax
         /\ n <= CounterMax => Saturate(n) = n
         /\ Increment(n) \in 0..CounterMax
         /\ n < CounterMax => Increment(n) = n + 1
  BY ConstantsAssumption DEF Saturate, Increment

(* The initial state satisfies the inductive invariant. *)
LEMMA InitIInv == Init => IInv
<1> SUFFICES ASSUME Init PROVE IInv
  OBVIOUS
<1>1. TypeOK
  <2>1. /\ next_sequence \in 1..(MaxSequence + 1)
        /\ previous_keyframe \in Keyframe
        /\ accepted_records \in 0..CounterMax /\ sent_records \in 0..CounterMax
        /\ dropped_records \in 0..CounterMax /\ connection_failures \in 0..CounterMax
        /\ delay_cap \in InitialDelay..MaximumDelay
    BY ConstantsAssumption DEF Init, Keyframe
  <2>2. QED
    BY <2>1 DEF Init, TypeOK, OwnerPoints, TaskPoints, AwaitPoints
<1>2. Positions
  BY DEF Init, Positions, ClosingPoints
<1>3. Order /\ Accounts
  BY DEF Init, Order, Accounts, Count, NoSegment
<1>4. NoLostWakeup
  BY DEF Init, NoLostWakeup
<1>5. QED
  BY <1>1, <1>2, <1>3, <1>4 DEF IInv

-----------------------------------------------------------------------------
(* The steps that move no segment preserve the inductive invariant. *)
ControlStep ==
  \/ Start
  \/ PublishInvalid
  \/ PublishExhausted
  \/ NotifyPublished
  \/ NotifyClosed
  \/ AbortTask
  \/ JoinTask
  \/ CheckPending
  \/ Wake
  \/ Connect
  \/ WriteHeader
  \/ ConnectionFails
  \/ EncodeSegment
  \/ EndConnection
  \/ SleepEnds

LEMMA ControlStepIInv ==
  ASSUME IInv, ControlStep
  PROVE  IInv'
<1> USE DEF IInv, state, counters
<1>1. CASE Start
  <2>1. TypeOK'
    BY <1>1, ConstantsAssumption DEF Start, TypeOK, OwnerPoints, TaskPoints, AwaitPoints
  <2>2. Positions'
    BY <1>1 DEF Start, Positions, ClosingPoints, TypeOK, OwnerPoints, TaskPoints, AwaitPoints
  <2>3. Order' /\ Accounts'
    BY <1>1, ConstantsAssumption DEF Start, Order, Accounts, Count, TypeOK
  <2>4. NoLostWakeup'
    BY <1>1 DEF Start, NoLostWakeup, Positions, ClosingPoints, TypeOK, OwnerPoints, TaskPoints, AwaitPoints
  <2>5. QED
    BY <2>1, <2>2, <2>3, <2>4
<1>2. CASE PublishInvalid
  <2>1. TypeOK'
    BY <1>2, ConstantsAssumption DEF PublishInvalid, TypeOK, OwnerPoints, TaskPoints, AwaitPoints
  <2>2. Positions'
    BY <1>2 DEF PublishInvalid, Positions, ClosingPoints, TypeOK, OwnerPoints, TaskPoints, AwaitPoints
  <2>3. Order' /\ Accounts'
    <3>1. /\ latest.sequence \in Nat /\ in_flight.sequence \in Nat /\ last_sent.sequence \in Nat
          /\ next_sequence \in Nat /\ accepted_records \in Nat
      BY SegmentFacts, ConstantsAssumption DEF TypeOK
    <3>2. QED
      BY <1>2, <3>1 DEF PublishInvalid, Order, Accounts, Count
  <2>4. NoLostWakeup'
    BY <1>2 DEF PublishInvalid, NoLostWakeup, Positions, ClosingPoints, TypeOK, OwnerPoints, TaskPoints, AwaitPoints
  <2>5. QED
    BY <2>1, <2>2, <2>3, <2>4
<1>3. CASE PublishExhausted
  <2>1. TypeOK'
    BY <1>3, ConstantsAssumption DEF PublishExhausted, TypeOK, OwnerPoints, TaskPoints, AwaitPoints
  <2>2. Positions'
    BY <1>3 DEF PublishExhausted, Positions, ClosingPoints, TypeOK, OwnerPoints, TaskPoints, AwaitPoints
  <2>3. Order' /\ Accounts'
    BY <1>3, ConstantsAssumption DEF PublishExhausted, Order, Accounts, Count, TypeOK
  <2>4. NoLostWakeup'
    BY <1>3 DEF PublishExhausted, NoLostWakeup, Positions, ClosingPoints, TypeOK, OwnerPoints, TaskPoints, AwaitPoints
  <2>5. QED
    BY <2>1, <2>2, <2>3, <2>4
<1>4. CASE NotifyPublished
  <2>1. TypeOK'
    BY <1>4, ConstantsAssumption DEF NotifyPublished, TypeOK, OwnerPoints, TaskPoints, AwaitPoints, NotifyOne
  <2>2. Positions'
    BY <1>4 DEF NotifyPublished, Positions, ClosingPoints, TypeOK, OwnerPoints, TaskPoints, AwaitPoints, NotifyOne
  <2>3. Order' /\ Accounts'
    BY <1>4, ConstantsAssumption DEF NotifyPublished, Order, Accounts, Count, TypeOK, NotifyOne
  <2>4. NoLostWakeup'
    BY <1>4 DEF NotifyPublished, NoLostWakeup, Positions, ClosingPoints, TypeOK, OwnerPoints, TaskPoints, AwaitPoints, NotifyOne
  <2>5. QED
    BY <2>1, <2>2, <2>3, <2>4
<1>5. CASE NotifyClosed
  <2>1. TypeOK'
    BY <1>5, ConstantsAssumption DEF NotifyClosed, TypeOK, OwnerPoints, TaskPoints, AwaitPoints, NotifyOne
  <2>2. Positions'
    BY <1>5 DEF NotifyClosed, Positions, ClosingPoints, TypeOK, OwnerPoints, TaskPoints, AwaitPoints, NotifyOne
  <2>3. Order' /\ Accounts'
    BY <1>5, ConstantsAssumption DEF NotifyClosed, Order, Accounts, Count, TypeOK, NotifyOne
  <2>4. NoLostWakeup'
    BY <1>5 DEF NotifyClosed, NoLostWakeup, Positions, ClosingPoints, TypeOK, OwnerPoints, TaskPoints, AwaitPoints, NotifyOne
  <2>5. QED
    BY <2>1, <2>2, <2>3, <2>4
<1>6. CASE AbortTask
  <2>1. TypeOK'
    BY <1>6, ConstantsAssumption DEF AbortTask, TypeOK, OwnerPoints, TaskPoints, AwaitPoints
  <2>2. Positions'
    BY <1>6 DEF AbortTask, Positions, ClosingPoints, TypeOK, OwnerPoints, TaskPoints, AwaitPoints
  <2>3. Order' /\ Accounts'
    BY <1>6, ConstantsAssumption DEF AbortTask, Order, Accounts, Count, TypeOK
  <2>4. NoLostWakeup'
    BY <1>6 DEF AbortTask, NoLostWakeup, Positions, ClosingPoints, TypeOK, OwnerPoints, TaskPoints, AwaitPoints
  <2>5. QED
    BY <2>1, <2>2, <2>3, <2>4
<1>7. CASE JoinTask
  <2>1. TypeOK'
    BY <1>7, ConstantsAssumption DEF JoinTask, TypeOK, OwnerPoints, TaskPoints, AwaitPoints
  <2>2. Positions'
    BY <1>7 DEF JoinTask, Positions, ClosingPoints, TypeOK, OwnerPoints, TaskPoints, AwaitPoints
  <2>3. Order' /\ Accounts'
    BY <1>7, ConstantsAssumption DEF JoinTask, Order, Accounts, Count, TypeOK
  <2>4. NoLostWakeup'
    BY <1>7 DEF JoinTask, NoLostWakeup, Positions, ClosingPoints, TypeOK, OwnerPoints, TaskPoints, AwaitPoints
  <2>5. QED
    BY <2>1, <2>2, <2>3, <2>4
<1>8. CASE CheckPending
  <2>1. TypeOK'
    BY <1>8, ConstantsAssumption DEF CheckPending, TypeOK, OwnerPoints, TaskPoints, AwaitPoints
  <2>2. Positions'
    BY <1>8 DEF CheckPending, Positions, ClosingPoints, TypeOK, OwnerPoints, TaskPoints, AwaitPoints
  <2>3. Order' /\ Accounts'
    BY <1>8, ConstantsAssumption DEF CheckPending, Order, Accounts, Count, TypeOK
  <2>4. NoLostWakeup'
    BY <1>8 DEF CheckPending, NoLostWakeup, Positions, ClosingPoints, TypeOK, OwnerPoints, TaskPoints, AwaitPoints
  <2>5. QED
    BY <2>1, <2>2, <2>3, <2>4
<1>9. CASE Wake
  <2>1. TypeOK'
    BY <1>9, ConstantsAssumption DEF Wake, TypeOK, OwnerPoints, TaskPoints, AwaitPoints
  <2>2. Positions'
    BY <1>9 DEF Wake, Positions, ClosingPoints, TypeOK, OwnerPoints, TaskPoints, AwaitPoints
  <2>3. Order' /\ Accounts'
    BY <1>9, ConstantsAssumption DEF Wake, Order, Accounts, Count, TypeOK
  <2>4. NoLostWakeup'
    BY <1>9 DEF Wake, NoLostWakeup, Positions, ClosingPoints, TypeOK, OwnerPoints, TaskPoints, AwaitPoints
  <2>5. QED
    BY <2>1, <2>2, <2>3, <2>4
<1>10. CASE Connect
  <2>1. TypeOK'
    BY <1>10, ConstantsAssumption DEF Connect, TypeOK, OwnerPoints, TaskPoints, AwaitPoints
  <2>2. Positions'
    BY <1>10 DEF Connect, Positions, ClosingPoints, TypeOK, OwnerPoints, TaskPoints, AwaitPoints
  <2>3. Order' /\ Accounts'
    BY <1>10, ConstantsAssumption DEF Connect, Order, Accounts, Count, TypeOK
  <2>4. NoLostWakeup'
    BY <1>10 DEF Connect, NoLostWakeup, Positions, ClosingPoints, TypeOK, OwnerPoints, TaskPoints, AwaitPoints
  <2>5. QED
    BY <2>1, <2>2, <2>3, <2>4
<1>11. CASE WriteHeader
  <2>1. TypeOK'
    BY <1>11, ConstantsAssumption DEF WriteHeader, TypeOK, OwnerPoints, TaskPoints, AwaitPoints
  <2>2. Positions'
    BY <1>11 DEF WriteHeader, Positions, ClosingPoints, TypeOK, OwnerPoints, TaskPoints, AwaitPoints
  <2>3. Order' /\ Accounts'
    BY <1>11, ConstantsAssumption DEF WriteHeader, Order, Accounts, Count, TypeOK
  <2>4. NoLostWakeup'
    BY <1>11 DEF WriteHeader, NoLostWakeup, Positions, ClosingPoints, TypeOK, OwnerPoints, TaskPoints, AwaitPoints
  <2>5. QED
    BY <2>1, <2>2, <2>3, <2>4
<1>12. CASE ConnectionFails
  <2>1. TypeOK'
    <3>1. connection_failures' \in 0..CounterMax
      BY <1>12, SaturateFacts DEF ConnectionFails, TypeOK
    <3>2. QED
      BY <1>12, <3>1 DEF ConnectionFails, TypeOK, OwnerPoints, TaskPoints, AwaitPoints
  <2>2. Positions'
    BY <1>12 DEF ConnectionFails, Positions, ClosingPoints, TypeOK, OwnerPoints, TaskPoints, AwaitPoints
  <2>3. Order' /\ Accounts'
    BY <1>12, ConstantsAssumption DEF ConnectionFails, Order, Accounts, Count, TypeOK
  <2>4. NoLostWakeup'
    BY <1>12 DEF ConnectionFails, NoLostWakeup, Positions, ClosingPoints, TypeOK, OwnerPoints, TaskPoints, AwaitPoints
  <2>5. QED
    BY <2>1, <2>2, <2>3, <2>4
<1>13. CASE EncodeSegment
  <2>1. TypeOK'
    BY <1>13, ConstantsAssumption DEF EncodeSegment, TypeOK, OwnerPoints, TaskPoints, AwaitPoints
  <2>2. Positions'
    BY <1>13 DEF EncodeSegment, Positions, ClosingPoints, TypeOK, OwnerPoints, TaskPoints, AwaitPoints
  <2>3. Order' /\ Accounts'
    BY <1>13, ConstantsAssumption DEF EncodeSegment, Order, Accounts, Count, TypeOK
  <2>4. NoLostWakeup'
    BY <1>13 DEF EncodeSegment, NoLostWakeup, Positions, ClosingPoints, TypeOK, OwnerPoints, TaskPoints, AwaitPoints
  <2>5. QED
    BY <2>1, <2>2, <2>3, <2>4
<1>14. CASE EndConnection
  <2>1. TypeOK'
    BY <1>14, ConstantsAssumption DEF EndConnection, TypeOK, OwnerPoints, TaskPoints, AwaitPoints, NextDelayCap
  <2>2. Positions'
    BY <1>14 DEF EndConnection, Positions, ClosingPoints, TypeOK, OwnerPoints, TaskPoints, AwaitPoints, NextDelayCap
  <2>3. Order' /\ Accounts'
    BY <1>14, ConstantsAssumption DEF EndConnection, Order, Accounts, Count, TypeOK, NextDelayCap
  <2>4. NoLostWakeup'
    BY <1>14 DEF EndConnection, NoLostWakeup, Positions, ClosingPoints, TypeOK, OwnerPoints, TaskPoints, AwaitPoints, NextDelayCap
  <2>5. QED
    BY <2>1, <2>2, <2>3, <2>4
<1>15. CASE SleepEnds
  <2>1. TypeOK'
    BY <1>15, ConstantsAssumption DEF SleepEnds, TypeOK, OwnerPoints, TaskPoints, AwaitPoints
  <2>2. Positions'
    BY <1>15 DEF SleepEnds, Positions, ClosingPoints, TypeOK, OwnerPoints, TaskPoints, AwaitPoints
  <2>3. Order' /\ Accounts'
    BY <1>15, ConstantsAssumption DEF SleepEnds, Order, Accounts, Count, TypeOK
  <2>4. NoLostWakeup'
    BY <1>15 DEF SleepEnds, NoLostWakeup, Positions, ClosingPoints, TypeOK, OwnerPoints, TaskPoints, AwaitPoints
  <2>5. QED
    BY <2>1, <2>2, <2>3, <2>4
<1>16. QED
  BY <1>1, <1>2, <1>3, <1>4, <1>5, <1>6, <1>7, <1>8, <1>9, <1>10, <1>11, <1>12, <1>13, <1>14, <1>15 DEF ControlStep

-----------------------------------------------------------------------------
(* The steps that move a segment preserve the inductive invariant. *)

(* The slot's new segment is later than every segment seen so far. *)
LEMMA PublishIInv ==
  ASSUME IInv, NEW keyframe \in Keyframe, Publish(keyframe)
  PROVE  IInv'
<1> DEFINE new == [sequence |-> next_sequence, left |-> previous_keyframe, right |-> keyframe]
<1> USE DEF IInv
<1>1. /\ next_sequence \in 1..MaxSequence
      /\ latest' = new /\ next_sequence' = next_sequence + 1
      /\ in_flight' = in_flight /\ last_sent' = last_sent
  BY ConstantsAssumption DEF Publish, TypeOK
<1>2. new \in Segment /\ new.sequence = next_sequence /\ new # NoSegment
  BY <1>1 DEF Segment, NoSegment, TypeOK, Publish
<1>3. /\ Count(latest) \in {0, 1} /\ Count(in_flight) \in {0, 1} /\ Count(latest') = 1
      /\ in_flight.sequence \in Nat /\ last_sent.sequence \in Nat
  BY <1>1, <1>2, SegmentFacts DEF TypeOK, Count
<1>4. /\ accepted_records \in Nat /\ sent_records \in Nat /\ dropped_records \in Nat
      /\ accepted_records < next_sequence
      /\ accepted_records = sent_records + dropped_records + Count(latest) + Count(in_flight)
  BY ConstantsAssumption DEF TypeOK, Accounts
<1>5. /\ dropped_records + Count(latest) \in Nat
      /\ dropped_records + Count(latest) <= CounterMax
      /\ accepted_records < CounterMax
  BY <1>1, <1>3, <1>4, ConstantsAssumption
<1>6. /\ dropped_records' = dropped_records + Count(latest)
      /\ accepted_records' = accepted_records + 1
      /\ sent_records' = sent_records
  BY <1>4, <1>5, SaturateFacts DEF Publish, Replaced
<1>7. TypeOK'
  <2>1. /\ next_sequence' \in 1..(MaxSequence + 1)
        /\ accepted_records' \in 0..CounterMax /\ dropped_records' \in 0..CounterMax
    BY <1>1, <1>4, <1>5, <1>6, ConstantsAssumption
  <2>2. QED
    BY <1>1, <1>2, <2>1 DEF Publish, TypeOK, OwnerPoints
<1>8. Positions'
  BY <1>1, <1>2 DEF Publish, Positions, ClosingPoints
<1>9. Order'
  BY <1>1, <1>2, <1>3 DEF Order
<1>10. Accounts'
  BY <1>1, <1>3, <1>4, <1>6 DEF Accounts
<1>11. NoLostWakeup'
  BY DEF Publish, NoLostWakeup
<1>12. QED
  BY <1>7, <1>8, <1>9, <1>10, <1>11

LEMMA CloseSharedIInv ==
  ASSUME IInv, CloseShared
  PROVE  IInv'
<1> USE DEF IInv
<1>1. /\ Count(latest) \in {0, 1} /\ Count(in_flight) \in {0, 1} /\ Count(latest') = 0
      /\ latest' = NoSegment /\ NoSegment.sequence = 0
      /\ latest.sequence \in Nat /\ in_flight.sequence \in Nat
  BY SegmentFacts DEF TypeOK, Count, CloseShared, NoSegment
<1>2. /\ accepted_records \in Nat /\ sent_records \in Nat /\ dropped_records \in Nat
      /\ accepted_records <= CounterMax /\ next_sequence \in Nat /\ next_sequence > 0
      /\ accepted_records = sent_records + dropped_records + Count(latest) + Count(in_flight)
  BY ConstantsAssumption DEF TypeOK, Accounts
<1>3. /\ dropped_records + Count(latest) \in Nat
      /\ dropped_records + Count(latest) <= CounterMax
  BY <1>1, <1>2, ConstantsAssumption
<1>4. dropped_records' = dropped_records + Count(latest)
  BY <1>3, SaturateFacts DEF CloseShared, Replaced
<1>5. TypeOK'
  <2>1. dropped_records' \in 0..CounterMax
    BY <1>3, <1>4, ConstantsAssumption
  <2>2. QED
    BY <2>1 DEF CloseShared, TypeOK, OwnerPoints
<1>6. Positions'
  BY DEF CloseShared, Positions, ClosingPoints
<1>7. Order'
  BY <1>1, <1>2 DEF CloseShared, Order
<1>8. Accounts'
  <2>1. /\ accepted_records' = accepted_records /\ sent_records' = sent_records
        /\ in_flight' = in_flight /\ next_sequence' = next_sequence
    BY DEF CloseShared
  <2>2. accepted_records < next_sequence
    BY DEF Accounts
  <2>3. Count(in_flight') = Count(in_flight)
    BY <2>1
  <2>4. QED
    BY <1>1, <1>2, <1>4, <2>1, <2>2, <2>3 DEF Accounts
<1>9. NoLostWakeup'
  BY DEF CloseShared, NoLostWakeup
<1>10. QED
  BY <1>5, <1>6, <1>7, <1>8, <1>9

LEMMA ReconcileIInv ==
  ASSUME IInv, ReconcileAcceptedRecords
  PROVE  IInv'
<1> USE DEF IInv
<1>1. /\ Count(in_flight) \in {0, 1} /\ Count(in_flight') = 0
      /\ in_flight' = NoSegment /\ latest' = NoSegment /\ latest = NoSegment
      /\ Count(latest) = 0 /\ Count(latest') = 0 /\ NoSegment.sequence = 0
  BY SegmentFacts DEF TypeOK, Positions, ClosingPoints, Count, ReconcileAcceptedRecords, NoSegment, state
<1>2. /\ accepted_records \in Nat /\ sent_records \in Nat /\ dropped_records \in Nat
      /\ accepted_records <= CounterMax /\ CounterMax \in Nat
      /\ accepted_records = sent_records + dropped_records + Count(in_flight)
  BY <1>1, ConstantsAssumption DEF TypeOK, Accounts
<1>3. Saturate(sent_records + dropped_records) = sent_records + dropped_records
  BY <1>1, <1>2, SaturateFacts
<1>4. dropped_records' = dropped_records + Count(in_flight)
  <2>1. dropped_records' = Saturate(dropped_records + Count(in_flight))
    BY <1>1, <1>2, <1>3 DEF ReconcileAcceptedRecords
  <2>2. dropped_records + Count(in_flight) \in Nat /\ dropped_records + Count(in_flight) <= CounterMax
    BY <1>1, <1>2
  <2>3. QED
    BY <2>1, <2>2, SaturateFacts
<1>5. TypeOK'
  <2>1. dropped_records' \in 0..CounterMax
    BY <1>1, <1>2, <1>4
  <2>2. QED
    BY <2>1, <1>1 DEF ReconcileAcceptedRecords, TypeOK, OwnerPoints, state
<1>6. Positions'
  BY <1>1 DEF ReconcileAcceptedRecords, Positions, ClosingPoints, TypeOK, TaskPoints, AwaitPoints, state
<1>7. Order'
  BY <1>1 DEF ReconcileAcceptedRecords, Order, state
<1>8. Accounts'
  BY <1>1, <1>2, <1>4 DEF ReconcileAcceptedRecords, Accounts, state
<1>9. NoLostWakeup'
  BY DEF ReconcileAcceptedRecords, NoLostWakeup, Positions, state
<1>10. QED
  BY <1>5, <1>6, <1>7, <1>8, <1>9

LEMMA TakeLatestIInv ==
  ASSUME IInv, TakeLatest
  PROVE  IInv'
<1> USE DEF IInv, counters
<1>1. /\ in_flight = NoSegment /\ in_flight' = latest /\ latest' = NoSegment
      /\ NoSegment.sequence = 0
  BY DEF TakeLatest, Positions, NoSegment
<1>2. Count(NoSegment) = 0 /\ Count(latest) \in {0, 1} /\ next_sequence \in Nat /\ next_sequence > 0
  BY SegmentFacts DEF TypeOK, Count
<1>3. TypeOK'
  BY <1>1 DEF TakeLatest, TypeOK, TaskPoints, AwaitPoints
<1>4. Positions'
  BY <1>1 DEF TakeLatest, Positions, ClosingPoints
<1>5. Order'
  BY <1>1, <1>2 DEF TakeLatest, Order
<1>6. Accounts'
  <2>1. /\ accepted_records \in Nat /\ sent_records \in Nat /\ dropped_records \in Nat
        /\ Count(latest') = 0 /\ Count(in_flight') = Count(latest) /\ Count(in_flight) = 0
    BY <1>1, <1>2, ConstantsAssumption DEF TypeOK
  <2>2. QED
    BY <1>2, <2>1 DEF TakeLatest, Accounts
<1>7. NoLostWakeup'
  BY DEF TakeLatest, NoLostWakeup
<1>8. QED
  BY <1>3, <1>4, <1>5, <1>6, <1>7

(* The task finishes with the segment in its hands: it counts it as sent   *)
(* or as dropped.                                                          *)
FinishStep == EncodeFails \/ WriteSegment \/ WriteFails

LEMMA FinishStepIInv ==
  ASSUME IInv, FinishStep
  PROVE  IInv'
<1> USE DEF IInv, state
<1>1. /\ task \in {"encode", "write"} /\ in_flight # NoSegment /\ in_flight' = NoSegment
      /\ latest' = latest /\ next_sequence' = next_sequence /\ NoSegment.sequence = 0
  BY DEF FinishStep, EncodeFails, WriteSegment, WriteFails, Positions, NoSegment
<1>2. /\ Count(in_flight) = 1 /\ Count(in_flight') = 0
      /\ Count(latest) \in {0, 1} /\ Count(latest') = Count(latest)
      /\ next_sequence \in Nat /\ next_sequence > 0 /\ CounterMax \in Nat
      /\ latest.sequence \in Nat /\ in_flight.sequence \in Nat /\ last_sent.sequence \in Nat
  BY <1>1, SegmentFacts, ConstantsAssumption DEF TypeOK, Count
<1>3. /\ accepted_records \in Nat /\ sent_records \in Nat /\ dropped_records \in Nat
      /\ connection_failures \in Nat
      /\ accepted_records = sent_records + dropped_records + Count(latest) + 1
      /\ sent_records < CounterMax /\ dropped_records < CounterMax
      /\ accepted_records' = accepted_records
  BY <1>1, <1>2, ConstantsAssumption
  DEF TypeOK, Accounts, FinishStep, EncodeFails, WriteSegment, WriteFails
<1>4. /\ Increment(sent_records) = sent_records + 1 /\ Increment(sent_records) \in 0..CounterMax
      /\ Increment(dropped_records) = dropped_records + 1 /\ Increment(dropped_records) \in 0..CounterMax
      /\ Increment(connection_failures) \in 0..CounterMax
  BY <1>3, SaturateFacts
<1>5. TypeOK'
  <2>1. delay_cap' \in InitialDelay..MaximumDelay
    BY ConstantsAssumption DEF TypeOK, FinishStep, EncodeFails, WriteSegment, WriteFails
  <2>2. QED
    BY <1>1, <1>4, <2>1
    DEF TypeOK, TaskPoints, AwaitPoints, FinishStep, EncodeFails, WriteSegment, WriteFails
<1>6. Positions'
  BY <1>1 DEF Positions, ClosingPoints, FinishStep, EncodeFails, WriteSegment, WriteFails
<1>7. Order'
  <2>1. last_sent' = last_sent \/ last_sent' = in_flight
    BY DEF FinishStep, EncodeFails, WriteSegment, WriteFails
  <2>2. QED
    BY <1>1, <1>2, <2>1 DEF Order
<1>8. Accounts'
  <2>1. \/ sent_records' = sent_records + 1 /\ dropped_records' = dropped_records
        \/ sent_records' = sent_records /\ dropped_records' = dropped_records + 1
    BY <1>4 DEF FinishStep, EncodeFails, WriteSegment, WriteFails
  <2>2. Count(latest) \in Nat
    BY <1>2
  <2>3. accepted_records < next_sequence
    BY DEF Accounts
  <2>4. accepted_records' = sent_records' + dropped_records' + Count(latest') + Count(in_flight')
    <3> HIDE DEF IInv
    <3>1. Count(latest') + Count(in_flight') = Count(latest)
      BY <1>2, <2>2
    <3>2. accepted_records = sent_records' + dropped_records' + Count(latest)
      BY <1>3, <2>1, <2>2
    <3>3. QED
      BY <1>2, <1>3, <2>1, <2>2, <3>2
  <2>5. QED
    BY <1>1, <1>3, <2>3, <2>4 DEF Accounts
<1>9. NoLostWakeup'
  BY DEF NoLostWakeup, FinishStep, EncodeFails, WriteSegment, WriteFails
<1>10. QED
  BY <1>5, <1>6, <1>7, <1>8, <1>9

(* Every step preserves the inductive invariant. *)
LEMMA NextIInv == IInv /\ [Next]_vars => IInv'
<1> SUFFICES ASSUME IInv, [Next]_vars PROVE IInv'
  OBVIOUS
<1>1. CASE UNCHANGED vars
  BY <1>1 DEF vars, state, counters, IInv, TypeOK, Positions, Order, Accounts, NoLostWakeup
<1>2. CASE Owner
  <2>1. CASE \E keyframe \in Keyframe : Publish(keyframe)
    BY <2>1, PublishIInv
  <2>2. CASE CloseShared
    BY <2>2, CloseSharedIInv
  <2>3. CASE ReconcileAcceptedRecords
    BY <2>3, ReconcileIInv
  <2>4. QED
    BY <1>2, <2>1, <2>2, <2>3, ControlStepIInv DEF Owner, ControlStep
<1>3. CASE Task
  <2>1. CASE TakeLatest
    BY <2>1, TakeLatestIInv
  <2>2. CASE FinishStep
    BY <2>2, FinishStepIInv
  <2>3. QED
    BY <1>3, <2>1, <2>2, ControlStepIInv DEF Task, ControlStep, FinishStep
<1>4. QED
  BY <1>1, <1>2, <1>3 DEF Next

THEOREM Inductive == Spec => []IInv
  BY InitIInv, NextIInv, PTL DEF Spec

(* Every variable keeps its type and the backoff its bounds. *)
THEOREM TypeCorrect == Spec => []TypeOK
  BY Inductive, PTL DEF IInv

(* Every accepted segment is sent, dropped, waiting or in the task's hands. *)
THEOREM AccountingCorrect == Spec => []RecordAccounting
<1>1. IInv => RecordAccounting
  BY DEF IInv, RecordAccounting, Accounts, Positions, ClosingPoints
<1>2. QED
  BY <1>1, Inductive, PTL

(* The task never waits over a pending segment or a close. *)
THEOREM WakeupCorrect == Spec => []NoLostWakeup
  BY Inductive, PTL DEF IInv

-----------------------------------------------------------------------------
(* The publisher implements LatestMailbox.  Publishing offers, taking      *)
(* takes, writing delivers; an encoding or write failure and the abort's   *)
(* reconciliation lose; every other step of the two threads is invisible.  *)

MailboxNext == [Mailbox!Next]_(Mailbox!vars)

LEMMA MailboxInit == Init => Mailbox!Init
  BY DEF Init, Mailbox!Init, NoSegment

(* The mailbox counts an item as the publisher counts a segment. *)
LEMMA SameCount ==
  ASSUME NEW s \in Segment \cup {NoSegment}
  PROVE  Mailbox!Count(s.sequence) = Count(s)
  BY SegmentFacts DEF Mailbox!Count

LEMMA PublishOffers ==
  ASSUME IInv, NEW keyframe \in Keyframe, Publish(keyframe)
  PROVE  Mailbox!Offer
<1>1. /\ latest'.sequence = next_sequence /\ next_sequence \in Nat
      /\ latest.sequence < next_sequence /\ in_flight.sequence < next_sequence
      /\ last_sent.sequence < next_sequence
  BY DEF Publish, IInv, TypeOK, Order
<1>2. Mailbox!Count(latest.sequence) = Count(latest) /\ Count(latest) \in {0, 1}
  BY SameCount, SegmentFacts DEF IInv, TypeOK
<1>3. /\ accepted_records \in Nat /\ dropped_records \in Nat
      /\ accepted_records < CounterMax
      /\ dropped_records + Count(latest) \in Nat /\ dropped_records + Count(latest) <= CounterMax
  <2>1. accepted_records \in Nat /\ sent_records \in Nat /\ dropped_records \in Nat
    BY ConstantsAssumption DEF IInv, TypeOK
  <2>2. accepted_records < next_sequence /\ next_sequence <= MaxSequence
    BY DEF IInv, Accounts, Publish
  <2>3. accepted_records = sent_records + dropped_records + Count(latest) + Count(in_flight)
    BY DEF IInv, Accounts
  <2>4. Count(in_flight) \in {0, 1}
    BY SegmentFacts DEF IInv, TypeOK
  <2>5. QED
    BY <1>1, <1>2, <2>1, <2>2, <2>3, <2>4, ConstantsAssumption
<1>4. /\ accepted_records' = accepted_records + 1
      /\ dropped_records' = dropped_records + Mailbox!Count(latest.sequence)
  BY <1>2, <1>3, SaturateFacts DEF Publish, Replaced
<1>5. QED
  BY <1>1, <1>4 DEF Publish, Mailbox!Offer

LEMMA CloseShuts ==
  ASSUME IInv, CloseShared
  PROVE  Mailbox!Shut
<1>1. Mailbox!Count(latest.sequence) = Count(latest) /\ Count(latest) \in {0, 1}
  BY SameCount, SegmentFacts DEF IInv, TypeOK
<1>2. /\ dropped_records + Count(latest) \in Nat /\ dropped_records + Count(latest) <= CounterMax
  <2>1. /\ accepted_records \in Nat /\ sent_records \in Nat /\ dropped_records \in Nat
        /\ accepted_records <= CounterMax /\ CounterMax \in Nat
    BY ConstantsAssumption DEF IInv, TypeOK
  <2>2. accepted_records = sent_records + dropped_records + Count(latest) + Count(in_flight)
    BY DEF IInv, Accounts
  <2>3. Count(in_flight) \in {0, 1}
    BY SegmentFacts DEF IInv, TypeOK
  <2>4. QED
    BY <1>1, <2>1, <2>2, <2>3
<1>3. dropped_records' = dropped_records + Mailbox!Count(latest.sequence)
  BY <1>1, <1>2, SaturateFacts DEF CloseShared, Replaced
<1>4. QED
  BY <1>3 DEF CloseShared, Mailbox!Shut, NoSegment

LEMMA TakeTakes ==
  ASSUME IInv, TakeLatest
  PROVE  MailboxNext
<1>1. in_flight = NoSegment /\ in_flight' = latest /\ latest' = NoSegment
  BY DEF IInv, Positions, TakeLatest
<1>2. CASE latest = NoSegment
  BY <1>1, <1>2 DEF TakeLatest, counters, MailboxNext, Mailbox!vars
<1>3. CASE latest # NoSegment
  <2>1. latest.sequence # 0 /\ NoSegment.sequence = 0
    BY <1>3, SegmentFacts DEF IInv, TypeOK, NoSegment
  <2>2. Mailbox!Take
    BY <1>1, <2>1 DEF TakeLatest, counters, Mailbox!Take
  <2>3. QED
    BY <2>2 DEF MailboxNext, Mailbox!Next
<1>4. QED
  BY <1>2, <1>3

LEMMA FinishDeliversOrLoses ==
  ASSUME IInv, FinishStep
  PROVE  Mailbox!Deliver \/ Mailbox!Lose
<1>1. /\ in_flight # NoSegment /\ in_flight' = NoSegment /\ NoSegment.sequence = 0
      /\ in_flight.sequence # 0 /\ in_flight.sequence > last_sent.sequence
  <2>1. in_flight # NoSegment /\ in_flight' = NoSegment
    BY DEF FinishStep, EncodeFails, WriteSegment, WriteFails, IInv, Positions
  <2>2. QED
    BY <2>1, SegmentFacts DEF IInv, TypeOK, Order, NoSegment
<1>2. /\ sent_records \in Nat /\ dropped_records \in Nat
      /\ sent_records < CounterMax /\ dropped_records < CounterMax
  <2>1. /\ accepted_records \in Nat /\ sent_records \in Nat /\ dropped_records \in Nat
        /\ accepted_records <= CounterMax /\ CounterMax \in Nat
    BY ConstantsAssumption DEF IInv, TypeOK
  <2>2. accepted_records = sent_records + dropped_records + Count(latest) + Count(in_flight)
    BY DEF IInv, Accounts
  <2>3. Count(in_flight) = 1 /\ Count(latest) \in {0, 1}
    BY <1>1, SegmentFacts DEF IInv, TypeOK, Count
  <2>4. QED
    BY <2>1, <2>2, <2>3
<1>3. Increment(sent_records) = sent_records + 1 /\ Increment(dropped_records) = dropped_records + 1
  BY <1>2, SaturateFacts
<1>4. CASE WriteSegment
  BY <1>1, <1>3, <1>4 DEF WriteSegment, state, Mailbox!Deliver
<1>5. CASE EncodeFails
  BY <1>1, <1>3, <1>5 DEF EncodeFails, state, Mailbox!Lose
<1>6. CASE WriteFails
  BY <1>1, <1>3, <1>6 DEF WriteFails, state, Mailbox!Lose
<1>7. QED
  BY <1>4, <1>5, <1>6 DEF FinishStep

LEMMA ReconcileLoses ==
  ASSUME IInv, ReconcileAcceptedRecords
  PROVE  MailboxNext
<1>1. latest = NoSegment /\ in_flight' = NoSegment /\ NoSegment.sequence = 0 /\ Count(latest) = 0
  BY SegmentFacts DEF IInv, TypeOK, Positions, ClosingPoints, ReconcileAcceptedRecords, NoSegment
<1>2. /\ accepted_records \in Nat /\ sent_records \in Nat /\ dropped_records \in Nat
      /\ accepted_records <= CounterMax /\ CounterMax \in Nat
      /\ Count(in_flight) \in {0, 1}
      /\ accepted_records = sent_records + dropped_records + Count(in_flight)
  BY <1>1, SegmentFacts, ConstantsAssumption DEF IInv, TypeOK, Accounts
<1>3. dropped_records' = dropped_records + Count(in_flight)
  <2>1. Saturate(sent_records + dropped_records) = sent_records + dropped_records
    BY <1>2, SaturateFacts
  <2>2. dropped_records' = Saturate(dropped_records + Count(in_flight))
    BY <1>2, <2>1 DEF ReconcileAcceptedRecords
  <2>3. dropped_records + Count(in_flight) \in Nat /\ dropped_records + Count(in_flight) <= CounterMax
    BY <1>2
  <2>4. QED
    BY <2>2, <2>3, SaturateFacts
<1>4. CASE in_flight = NoSegment
  <2>1. Count(in_flight) = 0
    BY <1>4 DEF Count
  <2>2. dropped_records' = dropped_records
    BY <1>2, <1>3, <2>1
  <2>3. QED
    BY <1>1, <1>4, <2>2 DEF ReconcileAcceptedRecords, state, MailboxNext, Mailbox!vars
<1>5. CASE in_flight # NoSegment
  <2>1. Count(in_flight) = 1 /\ in_flight.sequence # 0
    BY <1>5, SegmentFacts DEF IInv, TypeOK, Count
  <2>2. Mailbox!Lose
    BY <1>1, <1>3, <2>1 DEF ReconcileAcceptedRecords, state, Mailbox!Lose
  <2>3. QED
    BY <2>2 DEF MailboxNext, Mailbox!Next
<1>6. QED
  BY <1>4, <1>5

(* A step of the two threads is a step of the mailbox or none of its. *)
LEMMA StepRefines == IInv /\ [Next]_vars => MailboxNext
<1> SUFFICES ASSUME IInv, [Next]_vars PROVE MailboxNext
  OBVIOUS
<1>1. CASE UNCHANGED vars
  BY <1>1 DEF vars, state, counters, MailboxNext, Mailbox!vars
<1>2. CASE \E keyframe \in Keyframe : Publish(keyframe)
  BY <1>2, PublishOffers DEF MailboxNext, Mailbox!Next
<1>3. CASE CloseShared
  BY <1>3, CloseShuts DEF MailboxNext, Mailbox!Next
<1>4. CASE TakeLatest
  BY <1>4, TakeTakes
<1>5. CASE FinishStep
  BY <1>5, FinishDeliversOrLoses DEF MailboxNext, Mailbox!Next
<1>6. CASE ReconcileAcceptedRecords
  BY <1>6, ReconcileLoses
<1>7. CASE ControlStep
  <2>1. UNCHANGED Mailbox!vars
    BY <1>7
    DEF ControlStep, Start, PublishInvalid, PublishExhausted, NotifyPublished, NotifyClosed,
        AbortTask, JoinTask, CheckPending, Wake, Connect, WriteHeader, ConnectionFails,
        EncodeSegment, EndConnection, SleepEnds, state, counters, Mailbox!vars
  <2>2. QED
    BY <2>1 DEF MailboxNext
<1>8. QED
  BY <1>1, <1>2, <1>3, <1>4, <1>5, <1>6, <1>7 DEF Next, Owner, Task, ControlStep, FinishStep

(* The publisher is a latest-only hand-over for every value of the constants. *)
THEOREM PublisherImplementsMailbox == Spec => MailboxSpec
<1>1. IInv /\ [Next]_vars => [Mailbox!Next]_(Mailbox!vars)
  BY StepRefines DEF MailboxNext
<1>2. QED
  BY <1>1, MailboxInit, Inductive, PTL DEF Spec, MailboxSpec, Mailbox!Spec
=============================================================================
