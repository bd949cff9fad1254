----------------------------- MODULE SimulatorRun -----------------------------
(***************************************************************************)
(* The life of the simulator process (simulation-server,                   *)
(* src/runtime/application.rs).  A coordinator thread generates a batch of *)
(* scans ahead of time, waits until the batch is due and sends it through  *)
(* a channel of one.  run's loop takes the batches, publishes their scans  *)
(* to the sensors' endpoints and their keyframes to the scene publisher,   *)
(* and leaves when a signal comes or the thread has ended.  Then it stops  *)
(* the thread and closes the outputs.  Generation itself, the endpoints    *)
(* and the publisher are modules of their own: here a call of them is a    *)
(* step, since their calls return (EveryCallReturns, CloseEnds).           *)
(*                                                                         *)
(* Signals come the way the tokio crate delivers them: the operating       *)
(* system marks a signal as raised, and the runtime's driver, on a thread  *)
(* of its own, passes it to the listeners that exist at that moment.       *)
(***************************************************************************)
EXTENDS Integers, Sequences

CONSTANTS
  Window,      (* batches are told apart modulo Window, which is more than  *)
               (* can be under way at once                                  *)
  MaxSignals   (* bound: how many signals the process is sent               *)

ASSUME RunAssumption == Window \in Nat /\ Window > 3 /\ MaxSignals \in Nat

VARIABLES
  \* the coordinator thread
  thread,      (* where it is                                               *)
  batch,       (* the last batch it generated                               *)
  outcome,     (* what the thread returns: "ok" or "failed"                 *)
  \* shared by the thread and the loop
  stop,        (* the AtomicBool                                            *)
  queue,       (* the channel of GENERATION_OUTPUT_CAPACITY                 *)
  closed,      (* receiver.close() was called                               *)
  \* the loop
  app,         (* where run is                                              *)
  current,     (* the batch it took last                                    *)
  published,   (* the last batch whose scan each endpoint was given         *)
  keyframes,   (* the last batch whose keyframes the scene publisher got    *)
  lost,        (* the endpoints whose task has ended with an error          *)
  execution,   (* why the loop was left                                     *)
  reported,    (* what run returns                                          *)
  \* the signals
  handler,     (* tokio's signal handler is installed                       *)
  signals,     (* how many signals were sent                                *)
  raised,      (* the driver has a signal to pass on                        *)
  notified     (* the loop's listener was given a signal                    *)

generation == <<thread, batch, outcome>>
channel == <<queue, closed>>
outputs == <<current, published, keyframes, lost>>
result == <<execution, reported>>
signalling == <<handler, signals, raised, notified>>
runVars == <<generation, stop, channel, app, outputs, result, signalling>>

Sensor == 1..2
Capacity == 1
Batch == 0..(Window - 1)
After(n) == (n + 1) % Window

RunInit ==
  /\ thread = "check" /\ batch = 0 /\ outcome = "ok"
  /\ stop = FALSE /\ queue = <<>> /\ closed = FALSE
  /\ app = "select"
  /\ current = 0 /\ published = [s \in Sensor |-> 0] /\ keyframes = 0 /\ lost = {}
  /\ execution = "none" /\ reported = "none"
  /\ handler = FALSE /\ signals = 0 /\ raised = FALSE /\ notified = FALSE

-----------------------------------------------------------------------------
(* The coordinator thread: run_generation_worker, then runtime.shutdown.   *)

(* Broken variants named in PROJECT.json stand before the definition they  *)
(* vary; no specification uses them.                                       *)

CheckStop ==
  /\ thread = "check"
  /\ thread' = IF stop THEN "shutdown" ELSE "generate"
  /\ UNCHANGED <<batch, outcome, stop, channel, app, outputs, result, signalling>>

Generate ==
  /\ thread = "generate"
  /\ batch' = After(batch)
  /\ thread' = "wait"
  /\ UNCHANGED <<outcome, stop, channel, app, outputs, result, signalling>>

(* next_completed_scans returns an error, or the thread panics. *)
GenerateFails ==
  /\ thread = "generate"
  /\ outcome' = "failed"
  /\ thread' = "shutdown"
  /\ UNCHANGED <<batch, stop, channel, app, outputs, result, signalling>>

(* The thread parks for at most 20 ms at a time until the batch is due. *)
Due ==
  /\ thread = "wait"
  /\ thread' = IF stop THEN "shutdown" ELSE "send"
  /\ UNCHANGED <<batch, outcome, stop, channel, app, outputs, result, signalling>>

(* sender.blocking_send: waits for room, and fails on a closed channel.    *)
SendOrSkip ==
  /\ thread = "send"
  /\ IF closed THEN thread' = "shutdown" /\ UNCHANGED queue
     ELSE /\ queue' = IF Len(queue) < Capacity THEN Append(queue, batch) ELSE queue
          /\ thread' = "check"
  /\ UNCHANGED <<batch, outcome, stop, closed, app, outputs, result, signalling>>
Send ==
  /\ thread = "send"
  /\ IF closed THEN thread' = "shutdown" /\ UNCHANGED queue
     ELSE /\ Len(queue) < Capacity
          /\ queue' = Append(queue, batch)
          /\ thread' = "check"
  /\ UNCHANGED <<batch, outcome, stop, closed, app, outputs, result, signalling>>

(* The thread returns, and its end of the channel is dropped. *)
ThreadEnds ==
  /\ thread = "shutdown"
  /\ thread' = "done"
  /\ UNCHANGED <<batch, outcome, stop, channel, app, outputs, result, signalling>>

Thread == CheckStop \/ Generate \/ GenerateFails \/ Due \/ Send \/ ThreadEnds

-----------------------------------------------------------------------------
(* run: the loop.  Each round of its select makes a new shutdown_signal    *)
(* future, which is dropped when the other branch is taken.                *)

(* The signal branch is polled: its listeners are registered. *)
Listen ==
  /\ app = "select"
  /\ handler' = TRUE
  /\ app' = "listen"
  /\ UNCHANGED <<generation, stop, channel, outputs, result, signals, raised, notified>>

LeaveLoop(why) == app' = "stop" /\ execution' = why /\ UNCHANGED reported

ListenFails ==
  /\ app = "select"
  /\ LeaveLoop("signal registration")
  /\ UNCHANGED <<generation, stop, channel, outputs, signalling>>

TakeSignal ==
  /\ app = "listen" /\ notified
  /\ LeaveLoop("ok")
  /\ UNCHANGED <<generation, stop, channel, outputs, signalling>>

(* The output branch is ready; select polls its branches in random order.  *)
TakeBatch ==
  /\ app \in {"select", "listen"} /\ queue # <<>>
  /\ current' = Head(queue)
  /\ queue' = Tail(queue)
  /\ app' = "scans"
  /\ notified' = FALSE
  /\ UNCHANGED <<generation, stop, closed, published, keyframes, lost, result, handler, signals,
                 raised>>

(* coordinator.next() is None: the channel is empty and has no sender left;*)
(* in the broken variant run keeps a sender of its own.                    *)
SenderKept == FALSE
SenderGone == thread = "done"

GenerationStopped ==
  /\ app \in {"select", "listen"} /\ queue = <<>> /\ SenderGone
  /\ LeaveLoop("generation stopped")
  /\ UNCHANGED <<generation, stop, channel, outputs, signalling>>

(* s2e.publish for the scans of the batch, one per sensor and in order; an *)
(* endpoint without a task is published to as well.                        *)
PublishScan ==
  /\ app = "scans"
  /\ \E s \in Sensor :
       /\ published[s] # current /\ \A earlier \in 1..(s - 1) : published[earlier] = current
       /\ published' = [published EXCEPT ![s] = current]
  /\ UNCHANGED <<generation, stop, channel, app, current, keyframes, lost, result, signalling>>

(* scene.publish for the batch's keyframes; then the next round. *)
PublishKeyframes ==
  /\ app = "scans" /\ \A s \in Sensor : published[s] = current
  /\ keyframes' = current
  /\ app' = "select"
  /\ UNCHANGED <<generation, stop, channel, current, published, lost, result, signalling>>

(* scene.publish refuses a keyframe (ScenePublisher's PublishInvalid and   *)
(* PublishExhausted).                                                      *)
PublishFails ==
  /\ app = "scans" /\ \A s \in Sensor : published[s] = current
  /\ LeaveLoop("scene")
  /\ UNCHANGED <<generation, stop, channel, outputs, signalling>>

-----------------------------------------------------------------------------
(* run: the end.  coordinator.shutdown, scene.close, s2e.close.            *)

SetStop ==
  /\ app = "stop"
  /\ stop' = TRUE
  /\ app' = "close"
  /\ UNCHANGED <<generation, channel, outputs, result, signalling>>

LeaveChannelOpen ==
  /\ app = "close"
  /\ app' = "join"
  /\ UNCHANGED <<generation, stop, channel, outputs, result, signalling>>
CloseChannel ==
  /\ app = "close"
  /\ closed' = TRUE
  /\ app' = "join"
  /\ UNCHANGED <<generation, stop, queue, outputs, result, signalling>>

JoinThread ==
  /\ app = "join" /\ thread = "done"
  /\ app' = "outputs"
  /\ UNCHANGED <<generation, stop, channel, outputs, result, signalling>>

(* execution?, generation_shutdown?, s2e_shutdown?, then the summary. *)
ResultOfGeneration ==
  IF execution # "ok" THEN execution ELSE IF outcome # "ok" THEN "generation" ELSE "ok"
Result ==
  IF execution # "ok" THEN execution
  ELSE IF outcome # "ok" THEN "generation"
  ELSE IF lost # {} THEN "endpoint" ELSE "ok"

CloseOutputs ==
  /\ app = "outputs"
  /\ reported' = Result
  /\ app' = "ended"
  /\ UNCHANGED <<generation, stop, channel, outputs, execution, signalling>>

Loop ==
  \/ Listen \/ ListenFails \/ TakeSignal \/ TakeBatch \/ GenerationStopped
  \/ PublishScan \/ PublishKeyframes \/ PublishFails
  \/ SetStop \/ CloseChannel \/ JoinThread \/ CloseOutputs

(* An I/O error ends an endpoint's task (S2eEndpoint's ReceiveFails and    *)
(* SendFails); nobody looks at it before the endpoints are closed.         *)
EndpointFails ==
  /\ app # "ended"
  /\ \E s \in Sensor \ lost : lost' = lost \cup {s}
  /\ UNCHANGED <<generation, stop, channel, app, current, published, keyframes, result, signalling>>

-----------------------------------------------------------------------------
(* The signals.  Before the handler is installed a signal ends the process *)
(* at once.                                                                *)

Raise ==
  /\ handler /\ signals < MaxSignals
  /\ signals' = signals + 1
  /\ raised' = TRUE
  /\ UNCHANGED <<generation, stop, channel, app, outputs, result, handler, notified>>

Broadcast ==
  /\ raised
  /\ raised' = FALSE
  /\ notified' = (notified \/ app = "listen")
  /\ UNCHANGED <<generation, stop, channel, app, outputs, result, handler, signals>>

RunNext == Thread \/ Loop \/ EndpointFails \/ Raise \/ Broadcast

(* The threads run, the clock reaches a batch's time, and calls return;    *)
(* nothing makes generation fail or a signal come.                         *)
LoopProgress ==
  \/ Listen \/ TakeSignal \/ TakeBatch \/ GenerationStopped \/ PublishScan \/ PublishKeyframes
  \/ SetStop \/ CloseChannel \/ JoinThread \/ CloseOutputs
RunFairness ==
  /\ WF_runVars(CheckStop \/ Generate \/ Due \/ Send \/ ThreadEnds)
  /\ WF_runVars(LoopProgress) /\ WF_runVars(Broadcast)

RunSpec == RunInit /\ [][RunNext]_runVars /\ RunFairness

-----------------------------------------------------------------------------
ThreadTypes ==
  /\ thread \in {"check", "generate", "wait", "send", "shutdown", "done"}
  /\ batch \in Batch /\ outcome \in {"ok", "failed"}
  /\ stop \in BOOLEAN /\ closed \in BOOLEAN
  /\ queue \in Seq(Batch) /\ Len(queue) <= Capacity
LoopTypes ==
  /\ app \in {"select", "listen", "scans", "stop", "close", "join", "outputs", "ended"}
  /\ current \in Batch /\ keyframes \in Batch
  /\ published \in [Sensor -> Batch] /\ lost \subseteq Sensor
  /\ execution \in {"none", "ok", "signal registration", "generation stopped", "scene"}
  /\ reported \in {"none", "ok", "signal registration", "generation stopped", "scene",
                   "generation", "endpoint"}
SignalTypes ==
  /\ handler \in BOOLEAN /\ raised \in BOOLEAN /\ notified \in BOOLEAN
  /\ signals \in 0..MaxSignals

(* The variables have their types. *)
RunTypeOK == ThreadTypes /\ LoopTypes /\ SignalTypes

(* The batches reach the outputs whole, in order and without a gap: what   *)
(* the scene has, what the endpoints have, what the channel holds and what *)
(* the thread holds follow each other, however far the thread is ahead.    *)
BatchesInOrder ==
  /\ app \in {"select", "listen"} => keyframes = current
  /\ app = "scans" => current = After(keyframes)
  /\ \A s \in Sensor : published[s] \in {current} \cup (IF app = "scans" THEN {keyframes} ELSE {})
  /\ queue # <<>> => Head(queue) = After(current)
  /\ thread \in {"wait", "send"} =>
       batch = After(IF queue = <<>> THEN current ELSE Head(queue))
  /\ thread \in {"check", "generate"} =>
       batch = IF queue = <<>> THEN current ELSE Head(queue)

(* A summary is only returned when neither generation nor an endpoint has  *)
(* failed, even if the endpoint failed many batches before or a signal came*)
(* first and the failure of generation is only known after the join.       *)
SummaryOnlyAfterSuccess == reported = "ok" => outcome = "ok" /\ thread = "done" /\ lost = {}

(* Once the loop is left run returns, wherever the thread was: generating, *)
(* parked, or waiting for room in a channel nobody reads any more.         *)
RunReturns == (app = "stop") ~> (app = "ended")

(* run does not outlive its thread: when generation fails the loop learns  *)
(* it from the channel, after the batches that are still in it.            *)
FailureEndsRun == (thread = "done") ~> (app = "ended")

(* The container is stopped with SIGTERM (Dockerfile: STOPSIGNAL SIGTERM). *)
SignalEndsRun == raised ~> (app = "ended")
=============================================================================
