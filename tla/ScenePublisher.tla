---------------------------- MODULE ScenePublisher ----------------------------
(***************************************************************************)
(* The simulator's TCP scene publisher (simulation-server,                 *)
(* src/scene_stream.rs).  The application's thread (the owner) publishes   *)
(* keyframes; publish joins the previous keyframe and the new one into a   *)
(* numbered segment and leaves it in a slot of one.  A Tokio task connects *)
(* to the Visualizer, writes the stream header and then each segment it    *)
(* takes from the slot.  Owner and task run on different threads: they     *)
(* share the slot under a mutex, a Notify, and counters that are not under *)
(* the mutex.  One action is one stretch of code between two lock          *)
(* operations or two awaits of its thread.                                 *)
(***************************************************************************)
EXTENDS Naturals

CONSTANTS
  MaxSequence,   (* MAX_SCENE_SEQUENCE, the last number a segment can have  *)
  MaxKeyframe,   (* bound: the latest elapsed time of a keyframe            *)
  CounterMax,    (* u64::MAX, where the counters saturate                   *)
  InitialDelay,  (* reconnect_initial_delay_s                               *)
  MaximumDelay   (* reconnect_max_delay_s                                   *)

ASSUME ConstantsAssumption ==
  /\ MaxSequence \in Nat /\ MaxKeyframe \in Nat
  /\ CounterMax \in Nat /\ MaxSequence <= CounterMax
  /\ InitialDelay \in Nat \ {0} /\ MaximumDelay \in Nat
  /\ InitialDelay <= MaximumDelay

VARIABLES
  \* PublisherState, under the mutex
  closed,
  latest,             (* the slot: a segment or NoSegment                     *)
  next_sequence,
  previous_keyframe,  (* the elapsed time of the last accepted keyframe       *)
  \* PublisherCounters
  accepted_records, sent_records, dropped_records, connection_failures,
  \* the Notify
  permit,             (* a wakeup is stored                                   *)
  \* the owner
  owner,              (* where the owner is                                   *)
  \* the task
  task,               (* where the task is                                    *)
  connected,          (* the task is inside use_next_connection, connected    *)
  in_flight,          (* the segment the task took and has not finished       *)
  delay_cap,          (* ReconnectBackoff.current_delay_cap_s                 *)
  \* history
  last_sent           (* the last segment written completely                  *)

state == <<closed, latest, next_sequence, previous_keyframe>>
counters == <<accepted_records, sent_records, dropped_records, connection_failures>>
vars == <<state, counters, permit, owner, task, connected, in_flight, delay_cap, last_sent>>

Keyframe == 0..MaxKeyframe

(* A segment joins two keyframes; left_sequence is sequence - 1. *)
Segment == [sequence : 1..MaxSequence, left : Keyframe, right : Keyframe]
NoSegment == [sequence |-> 0, left |-> 0, right |-> 0]

(* Tokio can cancel the task where it awaits and nowhere else. *)
AwaitPoints == {"await", "connect", "header", "write", "sleep"}
TaskPoints == AwaitPoints \cup {"unspawned", "check", "take", "encode", "ended", "done"}
OwnerPoints == {"open", "notify", "failed", "close_notify", "abort", "reconcile", "closed"}

(* increment and add: saturating additions. *)
Saturate(n) == IF n > CounterMax THEN CounterMax ELSE n
Increment(n) == Saturate(n + 1)
Count(segment) == IF segment = NoSegment THEN 0 ELSE 1

(* The segment publish or close removes from the slot, as dropped. *)
ReplacedUncounted == 0
Replaced == Count(latest)

(* wakeup.notify_one(): the permit stays until the task uses it. *)
NotifyForgotten == UNCHANGED permit
NotifyOne == permit' = TRUE

(* ReconnectBackoff.next_delay_after_failure: the cap doubles up to the maximum. *)
NextDelayCap(cap) == IF 2 * cap > MaximumDelay THEN MaximumDelay ELSE 2 * cap

Init ==
  /\ closed = FALSE
  /\ latest = NoSegment
  /\ next_sequence = 1
  /\ previous_keyframe = 0
  /\ accepted_records = 0 /\ sent_records = 0 /\ dropped_records = 0
  /\ connection_failures = 0
  /\ permit = FALSE
  /\ owner = "open"
  /\ task = "unspawned"
  /\ connected = FALSE
  /\ in_flight = NoSegment
  /\ delay_cap = InitialDelay
  /\ last_sent = NoSegment

-----------------------------------------------------------------------------
(* The owner's side. *)

(* Broken variants named in PROJECT.json stand before the definition they  *)
(* vary; no specification uses them.                                       *)

(* start: spawns the task once; on a running publisher it does nothing, on *)
(* a closed one it is an error.                                            *)
Start ==
  /\ owner = "open" /\ ~closed
  /\ task = "unspawned"
  /\ task' = "check"
  /\ UNCHANGED <<state, counters, permit, owner, connected, in_flight, delay_cap, last_sent>>

(* publish up to the unlock, for a keyframe later than the previous one: a *)
(* segment still in the slot is replaced and counted as dropped.           *)
Publish(keyframe) ==
  /\ owner = "open" /\ ~closed
  /\ next_sequence <= MaxSequence
  /\ keyframe > previous_keyframe
  /\ latest' = [sequence |-> next_sequence, left |-> previous_keyframe, right |-> keyframe]
  /\ next_sequence' = next_sequence + 1
  /\ previous_keyframe' = keyframe
  /\ dropped_records' = Saturate(dropped_records + Replaced)
  /\ accepted_records' = Increment(accepted_records)
  /\ owner' = "notify"
  /\ UNCHANGED <<closed, sent_records, connection_failures, permit, task, connected,
                 in_flight, delay_cap, last_sent>>

(* publish with a keyframe no segment can end in: the sequence number is   *)
(* spent before SceneSegment::new fails.  The application stops publishing *)
(* and closes on the first error.                                          *)
PublishInvalid ==
  /\ owner = "open" /\ ~closed
  /\ next_sequence <= MaxSequence
  /\ next_sequence' = next_sequence + 1
  /\ owner' = "failed"
  /\ UNCHANGED <<closed, latest, previous_keyframe, counters, permit, task, connected,
                 in_flight, delay_cap, last_sent>>

(* publish after the last sequence number: SequenceExhausted. *)
PublishExhausted ==
  /\ owner = "open" /\ ~closed
  /\ next_sequence > MaxSequence
  /\ owner' = "failed"
  /\ UNCHANGED <<state, counters, permit, task, connected, in_flight, delay_cap, last_sent>>

(* publish's notify_one, after the unlock. *)
NotifyPublished ==
  /\ owner = "notify"
  /\ NotifyOne
  /\ owner' = "open"
  /\ UNCHANGED <<state, counters, task, connected, in_flight, delay_cap, last_sent>>

(* close, first step: close_shared under the mutex. *)
CloseShared ==
  /\ owner \in {"open", "failed"} /\ ~closed
  /\ closed' = TRUE
  /\ latest' = NoSegment
  /\ dropped_records' = Saturate(dropped_records + Replaced)
  /\ owner' = "close_notify"
  /\ UNCHANGED <<next_sequence, previous_keyframe, accepted_records, sent_records,
                 connection_failures, permit, task, connected, in_flight, delay_cap, last_sent>>

NotifyClosed ==
  /\ owner = "close_notify"
  /\ NotifyOne
  /\ owner' = "abort"
  /\ UNCHANGED <<state, counters, task, connected, in_flight, delay_cap, last_sent>>

(* close, second step: task.abort() stops the task where it awaits.  The   *)
(* segment it held is gone with it; in_flight keeps it until reconcile.    *)
AbortTask ==
  /\ owner = "abort"
  /\ task \in AwaitPoints
  /\ task' = "done"
  /\ connected' = FALSE
  /\ UNCHANGED <<state, counters, permit, owner, in_flight, delay_cap, last_sent>>

(* Broken variant: a publisher that never spawned its task has none to await. *)
JoinSpawnedTask ==
  /\ owner = "abort" /\ task = "done"
  /\ owner' = "reconcile"
  /\ UNCHANGED <<state, counters, permit, task, connected, in_flight, delay_cap, last_sent>>

(* close, third step: the await of the task returns once it is over. *)
JoinTask ==
  /\ owner = "abort"
  /\ task \in {"unspawned", "done"}
  /\ owner' = "reconcile"
  /\ UNCHANGED <<state, counters, permit, task, connected, in_flight, delay_cap, last_sent>>

(* close, last step: what was accepted and is neither sent nor dropped is  *)
(* counted as dropped.  saturating_sub hides an account that is already    *)
(* too high.                                                               *)
ReconcileAcceptedRecords ==
  /\ owner = "reconcile"
  /\ LET accounted == Saturate(sent_records + dropped_records)
         missing == IF accepted_records > accounted THEN accepted_records - accounted ELSE 0
     IN  dropped_records' = Saturate(dropped_records + missing)
  /\ in_flight' = NoSegment
  /\ owner' = "closed"
  /\ UNCHANGED <<state, accepted_records, sent_records, connection_failures, permit, task,
                 connected, delay_cap, last_sent>>

Owner ==
  \/ Start
  \/ \E keyframe \in Keyframe : Publish(keyframe)
  \/ PublishInvalid \/ PublishExhausted \/ NotifyPublished
  \/ CloseShared \/ NotifyClosed \/ AbortTask \/ JoinTask \/ ReconcileAcceptedRecords

-----------------------------------------------------------------------------
(* The task's side: run_publisher and use_next_connection. *)

(* wait_for_pending looks at the state under the mutex; the Notified       *)
(* future it made before is only polled when nothing is pending.           *)
CheckPending ==
  /\ task = "check"
  /\ task' = IF closed THEN (IF connected THEN "ended" ELSE "done")
             ELSE IF latest # NoSegment THEN (IF connected THEN "take" ELSE "connect")
             ELSE "await"
  /\ connected' = (connected /\ ~closed)
  /\ UNCHANGED <<state, counters, permit, owner, in_flight, delay_cap, last_sent>>

(* notified.await returns: the stored wakeup is used up. *)
Wake ==
  /\ task = "await" /\ permit
  /\ permit' = FALSE
  /\ task' = "check"
  /\ UNCHANGED <<state, counters, owner, connected, in_flight, delay_cap, last_sent>>

Connect ==
  /\ task = "connect"
  /\ connected' = TRUE
  /\ task' = "header"
  /\ UNCHANGED <<state, counters, permit, owner, in_flight, delay_cap, last_sent>>

WriteHeader ==
  /\ task = "header"
  /\ task' = "check"
  /\ UNCHANGED <<state, counters, permit, owner, connected, in_flight, delay_cap, last_sent>>

(* The connect or the header's write fails or times out. *)
ConnectionFails ==
  /\ task \in {"connect", "header"}
  /\ connection_failures' = Increment(connection_failures)
  /\ connected' = FALSE
  /\ task' = "ended"
  /\ UNCHANGED <<state, accepted_records, sent_records, dropped_records, permit, owner,
                 in_flight, delay_cap, last_sent>>

(* Broken variant: the segment is read and stays in the slot. *)
PeekLatest ==
  /\ task = "take"
  /\ in_flight' = latest
  /\ task' = IF latest = NoSegment THEN "check" ELSE "encode"
  /\ UNCHANGED <<state, counters, permit, owner, connected, delay_cap, last_sent>>

(* take_latest; the slot may have been emptied by close since the check. *)
TakeLatest ==
  /\ task = "take"
  /\ in_flight' = latest
  /\ latest' = NoSegment
  /\ task' = IF latest = NoSegment THEN "check" ELSE "encode"
  /\ UNCHANGED <<closed, next_sequence, previous_keyframe, counters, permit, owner, connected,
                 delay_cap, last_sent>>

EncodeSegment ==
  /\ task = "encode"
  /\ task' = "write"
  /\ UNCHANGED <<state, counters, permit, owner, connected, in_flight, delay_cap, last_sent>>

(* The frame is over the line limit: the connection goes on without it. *)
EncodeFails ==
  /\ task = "encode"
  /\ dropped_records' = Increment(dropped_records)
  /\ in_flight' = NoSegment
  /\ task' = "check"
  /\ UNCHANGED <<state, accepted_records, sent_records, connection_failures, permit, owner,
                 connected, delay_cap, last_sent>>

WriteSegment ==
  /\ task = "write"
  /\ sent_records' = Increment(sent_records)
  /\ last_sent' = in_flight
  /\ in_flight' = NoSegment
  /\ delay_cap' = InitialDelay
  /\ task' = "check"
  /\ UNCHANGED <<state, accepted_records, dropped_records, connection_failures, permit, owner,
                 connected>>

(* The write fails or times out: the segment and the connection are lost. *)
WriteFails ==
  /\ task = "write"
  /\ dropped_records' = Increment(dropped_records)
  /\ connection_failures' = Increment(connection_failures)
  /\ in_flight' = NoSegment
  /\ connected' = FALSE
  /\ task' = "ended"
  /\ UNCHANGED <<state, accepted_records, sent_records, permit, owner, delay_cap, last_sent>>

(* run_publisher after a connection: stop when closed, else sleep for less *)
(* than the cap, which doubles for the next failure.                       *)
EndConnection ==
  /\ task = "ended"
  /\ \/ closed /\ task' = "done" /\ UNCHANGED delay_cap
     \/ /\ ~closed /\ task' = "sleep"
        /\ delay_cap' = NextDelayCap(delay_cap)
  /\ UNCHANGED <<state, counters, permit, owner, connected, in_flight, last_sent>>

SleepEnds ==
  /\ task = "sleep"
  /\ task' = "check"
  /\ UNCHANGED <<state, counters, permit, owner, connected, in_flight, delay_cap, last_sent>>

Task ==
  \/ CheckPending \/ Wake \/ Connect \/ WriteHeader \/ ConnectionFails
  \/ TakeLatest \/ EncodeSegment \/ EncodeFails \/ WriteSegment \/ WriteFails
  \/ EndConnection \/ SleepEnds

Next == Owner \/ Task

(* The runtime polls a task that can run; a connect and a write end within *)
(* their timeouts.  The owner finishes the call it is in and, once it has  *)
(* begun to close, the close; nothing makes it publish or close.           *)
Fairness ==
  /\ WF_vars(Task)
  /\ WF_vars(NotifyPublished) /\ WF_vars(NotifyClosed)
  /\ WF_vars(AbortTask) /\ WF_vars(JoinTask) /\ WF_vars(ReconcileAcceptedRecords)

Spec == Init /\ [][Next]_vars /\ Fairness

-----------------------------------------------------------------------------
(* Properties. *)

(* Every variable has the values its declaration describes; the backoff's  *)
(* cap stays between the configured delays.                                *)
TypeOK ==
  /\ closed \in BOOLEAN
  /\ latest \in Segment \cup {NoSegment}
  /\ next_sequence \in 1..(MaxSequence + 1)
  /\ previous_keyframe \in Keyframe
  /\ accepted_records \in 0..CounterMax /\ sent_records \in 0..CounterMax
  /\ dropped_records \in 0..CounterMax /\ connection_failures \in 0..CounterMax
  /\ permit \in BOOLEAN
  /\ owner \in OwnerPoints
  /\ task \in TaskPoints
  /\ connected \in BOOLEAN
  /\ in_flight \in Segment \cup {NoSegment}
  /\ delay_cap \in InitialDelay..MaximumDelay
  /\ last_sent \in Segment \cup {NoSegment}

(* Every accepted segment is sent, dropped, in the slot or in the task's   *)
(* hands, at every step of both threads; after close nothing is left, so   *)
(* reconcile_accepted_records only ever adds the one segment an abort lost *)
(* and its saturating_sub hides nothing.                                   *)
RecordAccounting ==
  /\ accepted_records = sent_records + dropped_records + Count(latest) + Count(in_flight)
  /\ owner = "closed" => latest = NoSegment /\ in_flight = NoSegment

(* The task never sleeps in notified.await over a pending segment or a     *)
(* close: unless the owner is on its way to notify_one, either the slot is *)
(* empty and the publisher open, or a wakeup is stored.  The slot is set   *)
(* under the mutex and the notification follows after the unlock.          *)
NoLostWakeup ==
  (task = "await" /\ ~permit) =>
    \/ latest = NoSegment /\ ~closed
    \/ owner \in {"notify", "close_notify"}

(* The publisher keeps the promise of a latest-only hand-over: records     *)
(* leave in the order of their sequence numbers, a newer one replaces the  *)
(* waiting one, none is written twice and none escapes the counters.       *)
Mailbox == INSTANCE LatestMailbox WITH
  offered <- accepted_records, delivered <- sent_records, dropped <- dropped_records,
  waiting <- latest.sequence, taken <- in_flight.sequence, last <- last_sent.sequence,
  shut <- closed
MailboxSpec == Mailbox!Spec

(* A pending segment is never left alone by a started task: it leads to a  *)
(* connection attempt or is taken, or the publisher is closed.             *)
PendingIsAttempted ==
  (latest # NoSegment /\ task # "unspawned") ~> (task \in {"connect", "take"} \/ closed)

(* close() returns, wherever the task was, started or not. *)
CloseEnds == (owner = "close_notify") ~> (owner = "closed")
=============================================================================
