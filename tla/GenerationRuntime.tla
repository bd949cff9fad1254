-------------------------- MODULE GenerationRuntime --------------------------
(***************************************************************************)
(* The scan generation of the simulator (simulation-server,                *)
(* src/runtime/generation.rs with measurement/snapshots.rs and             *)
(* measurement/rotation.rs).  The coordinator thread advances the scenario *)
(* to the next completion of a rotation, hands each sensor's scan to that  *)
(* sensor's worker thread together with the surface history, schedules the *)
(* following scans meanwhile, and collects the results.  Each worker has a *)
(* request and a response channel of one.  Both sensors use the configured *)
(* rates, so their rotations end at the same times.                        *)
(*                                                                         *)
(* Time is counted in ticks of which the periods are multiples.  One       *)
(* action is one channel operation of a thread with the local work around  *)
(* it, or one surface event of the scenario.                               *)
(***************************************************************************)
EXTENDS Integers, Sequences, SequencesExt, FiniteSetsExt

CONSTANTS
  RotationTicks,   (* 1 / rotation_rate_hz                                  *)
  SampleTicks,     (* 1 / sample_rate_hz                                    *)
  UpdateTicks,     (* surface_update_interval_s                             *)
  PhaseTicks,      (* bound: how long a filling or collecting phase may be  *)
  EventLimit,      (* event_output_limit                                    *)
  MaxScan,         (* MAX_SCAN_ID                                           *)
  Spatial          (* spatial distortions are enabled                       *)

ASSUME GenerationAssumption ==
  /\ RotationTicks \in Nat \ {0} /\ SampleTicks \in 1..RotationTicks
  /\ UpdateTicks \in Nat \ {0}
  /\ PhaseTicks \subseteq Nat \ {0} /\ PhaseTicks # {}
  /\ EventLimit \in Nat /\ MaxScan \in Nat \ {0}
  /\ Spatial \in BOOLEAN

VARIABLES
  \* the coordinator thread
  pc,          (* where it is                                               *)
  model,       (* the scenario, the surface history and the distortions     *)
  draft,       (* the copies advance_scenario_and_distortions works on      *)
  scheduled,   (* the last scan each sensor's scheduler has given out       *)
  pending,     (* the scheduled scan of each sensor, 0 for None             *)
  dispatched,  (* the scans that were requested, in order                   *)
  scans,       (* the results collected in this call                        *)
  failed,      (* first_error is set                                        *)
  stopping,    (* the sensors shutdown has still to send Stop to            *)
  joined,      (* the sensors whose worker was joined                       *)
  terminal, shutdown,
  completed_batches,
  \* the workers and their channels
  request, response, worker, job,
  \* history
  happened,    (* the times of all committed surface events                 *)
  fault        (* a worker failed, or a limit was reached                   *)

calls == <<dispatched, scans, failed>>
ends == <<stopping, joined, terminal, shutdown>>
channels == <<request, response>>
workers == <<channels, worker, job>>
vars == <<pc, model, draft, scheduled, pending, calls, ends, completed_batches, workers,
          happened, fault>>

Sensor == 1..2

(* Scan n has the samples Boundary(n - 1) to Boundary(n) - 1; a rotation   *)
(* need not be a whole number of samples long.                             *)
Boundary(n) == (n * RotationTicks + SampleTicks - 1) \div SampleTicks
PointTimes(scan) == {i * SampleTicks : i \in Boundary(scan - 1)..(Boundary(scan) - 1)}
CapturedAt(scan) == Boundary(scan - 1) * SampleTicks
CompletedAt(scan) == scan * RotationTicks

NoWork == [scan |-> 0, model |-> <<>>]
NoCommand == [kind |-> "none", work |-> NoWork]
StopCommand == [kind |-> "stop", work |-> NoWork]
GenerateCommand(scan) == [kind |-> "generate", work |-> [scan |-> scan, model |-> model]]
NoResponse == [scan |-> 0, ok |-> FALSE]

(* from_inputs, when it succeeds. *)
Init ==
  /\ pc = "idle"
  /\ \E ticks \in PhaseTicks :
       model = [elapsed |-> 0, next_update |-> UpdateTicks, phase_end |-> ticks,
                snapshots |-> <<0>>, advanced |-> 0, retained |-> 0]
  /\ draft = [model |-> model, times |-> {}]
  /\ scheduled = [s \in Sensor |-> 1] /\ pending = [s \in Sensor |-> 1]
  /\ dispatched = <<>> /\ scans = {} /\ failed = FALSE
  /\ stopping = {} /\ joined = {}
  /\ terminal = FALSE /\ shutdown = FALSE /\ completed_batches = 0
  /\ request = [s \in Sensor |-> NoCommand] /\ response = [s \in Sensor |-> NoResponse]
  /\ worker = [s \in Sensor |-> "idle"] /\ job = [s \in Sensor |-> NoWork]
  /\ happened = {0} /\ fault = FALSE

-----------------------------------------------------------------------------
(* The coordinator advances the scenario. *)

(* Broken variants named in PROJECT.json stand before the definition they  *)
(* vary; no specification uses them.                                       *)

NextCompletion == Min({CompletedAt(pending[s]) : s \in Sensor})

(* A call of next_completed_scans begins; the work goes on with copies. *)
NextCompletedScans ==
  /\ pc = "idle" /\ ~terminal /\ ~shutdown
  /\ pc' = "advance"
  /\ draft' = [model |-> model, times |-> {}]
  /\ UNCHANGED <<model, scheduled, pending, calls, ends, completed_batches, workers, happened, fault>>

(* A surface event comes at an update and at the end of a phase. *)
EventAt(m) == Min({m.next_update, m.phase_end})
PhaseEnds(m) ==
  IF EventAt(m) = m.phase_end THEN {m.phase_end + ticks : ticks \in PhaseTicks} ELSE {m.phase_end}

(* An event: the scenario and the distortions reach its time, and the      *)
(* surface history gets an entry.                                          *)
AfterUpdatesOnly(m, phase_end) ==
  [m EXCEPT !.elapsed = EventAt(m), !.advanced = EventAt(m), !.phase_end = phase_end,
            !.next_update = IF EventAt(m) = @ THEN @ + UpdateTicks ELSE @,
            !.snapshots = IF EventAt(m) = m.next_update THEN Append(@, EventAt(m)) ELSE @]
AfterEvent(m, phase_end) ==
  [m EXCEPT !.elapsed = EventAt(m), !.advanced = EventAt(m), !.phase_end = phase_end,
            !.next_update = IF EventAt(m) = @ THEN @ + UpdateTicks ELSE @,
            !.snapshots = Append(@, EventAt(m))]

AdvanceEvent ==
  /\ pc = "advance"
  /\ EventAt(draft.model) <= NextCompletion
  /\ Cardinality(draft.times) < EventLimit
  /\ \E phase_end \in PhaseEnds(draft.model) :
       draft' = [model |-> AfterEvent(draft.model, phase_end),
                 times |-> draft.times \cup {EventAt(draft.model)}]
  /\ UNCHANGED <<pc, model, scheduled, pending, calls, ends, completed_batches, workers,
                 happened, fault>>

(* The loop has reached the completion: the copies replace the originals. *)
Advanced ==
  /\ pc = "advance"
  /\ EventAt(draft.model) > NextCompletion
  /\ model' = [draft.model EXCEPT !.elapsed = NextCompletion, !.advanced = NextCompletion]
  /\ happened' = happened \cup draft.times
  /\ pc' = "dispatch"
  /\ UNCHANGED <<draft, scheduled, pending, calls, ends, completed_batches, workers, fault>>

(* An error ends the call; next_completed_scans makes the runtime terminal. *)
EndCall(ok) ==
  /\ pc' = "idle"
  /\ terminal' = ~ok
  /\ dispatched' = <<>> /\ scans' = {} /\ failed' = FALSE
  /\ UNCHANGED <<stopping, joined, shutdown>>

(* A limit of the events, of the distortions or of the memory, or a state  *)
(* the scenario refuses: the copies are given up.                          *)
KeepDraft == model' = draft.model
KeepModel == UNCHANGED model
AdvanceFails ==
  /\ pc = "advance"
  /\ fault' = TRUE
  /\ EndCall(FALSE)
  /\ KeepModel
  /\ UNCHANGED <<draft, scheduled, pending, completed_batches, workers, happened>>

-----------------------------------------------------------------------------
(* The coordinator requests the due scans, schedules the next ones and     *)
(* collects the results.                                                   *)

Due == {s \in Sensor : pending[s] # 0 /\ CompletedAt(pending[s]) = model.elapsed}

(* request.send: waits while the channel is full, fails when the worker's  *)
(* end of it is gone.                                                      *)
Dispatch ==
  /\ pc = "dispatch" /\ Due # {}
  /\ LET s == Min(Due) IN
     /\ pending' = [pending EXCEPT ![s] = 0]
     /\ IF worker[s] = "gone"
        THEN failed' = TRUE /\ UNCHANGED <<dispatched, request>>
        ELSE /\ request[s] = NoCommand
             /\ request' = [request EXCEPT ![s] = GenerateCommand(pending[s])]
             /\ dispatched' = Append(dispatched, [sensor |-> s, scan |-> pending[s]])
             /\ UNCHANGED failed
  /\ UNCHANGED <<pc, model, draft, scheduled, scans, ends, completed_batches, response, worker,
                 job, happened, fault>>

(* scheduler.next_scan for every dispatched sensor, until the scan ids end. *)
HasNext(s) == scheduled[s] + 1 <= MaxScan
ScheduleNext ==
  /\ pc = "dispatch" /\ Due = {}
  /\ LET requested == {d.sensor : d \in Range(dispatched)}
         next == {s \in requested : HasNext(s)} IN
     /\ scheduled' = [s \in Sensor |-> IF s \in next THEN scheduled[s] + 1 ELSE scheduled[s]]
     /\ pending' = [s \in Sensor |-> IF s \in next THEN scheduled[s] + 1 ELSE pending[s]]
     /\ failed' = (failed \/ next # requested)
     /\ fault' = (fault \/ next # requested)
  /\ pc' = "receive"
  /\ UNCHANGED <<model, draft, dispatched, scans, ends, completed_batches, workers, happened>>

(* response.recv fails when the worker ended and left no response; the      *)
(* broken variant keeps another sender of the channel.                     *)
SenderKept(s) == FALSE
Disconnected(s) == response[s] = NoResponse /\ worker[s] = "gone"

(* receive_worker_response: the response, or the end of the worker, which  *)
(* is joined.  Every dispatched scan is waited for, also after an error.   *)
Receive ==
  /\ pc = "receive" /\ dispatched # <<>>
  /\ LET expected == Head(dispatched)
         s == expected.sensor IN
     \/ /\ response[s] # NoResponse
        /\ response' = [response EXCEPT ![s] = NoResponse]
        /\ IF response[s].ok /\ response[s].scan = expected.scan
           THEN scans' = scans \cup {expected} /\ UNCHANGED failed
           ELSE failed' = TRUE /\ UNCHANGED scans
        /\ UNCHANGED joined
     \/ /\ Disconnected(s)
        /\ failed' = TRUE
        /\ joined' = joined \cup {s}
        /\ UNCHANGED <<scans, response>>
  /\ dispatched' = Tail(dispatched)
  /\ UNCHANGED <<pc, model, draft, scheduled, pending, stopping, terminal, shutdown,
                 completed_batches, request, worker, job, happened, fault>>

(* discard_before_earliest_pending keeps the last entry that is not later. *)
Retained(snapshots, time) ==
  LET last == SelectLastInSeq(snapshots, LAMBDA started : started <= time)
  IN IF last = 0 THEN snapshots ELSE SubSeq(snapshots, last, Len(snapshots))

CollectedOrFailed == dispatched = <<>> \/ failed
Collected == dispatched = <<>>

EarliestPendingCompletion == Min({CompletedAt(pending[s]) : s \in Sensor})
EarliestPending == Min({CapturedAt(pending[s]) : s \in Sensor})

(* The distortions refuse to drop what they have not generated yet. *)
SucceedsAnyway == Spatial => EarliestPending \in model.retained..model.advanced
Succeeds == ~failed /\ (Spatial => EarliestPending \in model.retained..model.advanced)

(* All responses are there; history that no pending scan needs is dropped. *)
FinishCall ==
  /\ pc = "receive" /\ Collected
  /\ model' = IF failed THEN model
              ELSE [model EXCEPT !.snapshots = Retained(@, EarliestPending),
                                 !.retained = IF Succeeds /\ Spatial THEN EarliestPending ELSE @]
  /\ completed_batches' = IF Succeeds THEN completed_batches + 1 ELSE completed_batches
  /\ EndCall(Succeeds)
  /\ UNCHANGED <<draft, scheduled, pending, workers, happened, fault>>

-----------------------------------------------------------------------------
(* A worker. *)

TakeRequest(s) ==
  /\ worker[s] = "idle" /\ request[s].kind = "generate"
  /\ job' = [job EXCEPT ![s] = request[s].work]
  /\ request' = [request EXCEPT ![s] = NoCommand]
  /\ worker' = [worker EXCEPT ![s] = "busy"]
  /\ UNCHANGED <<pc, model, draft, scheduled, pending, calls, ends, completed_batches, response,
                 happened, fault>>

TakeStop(s) ==
  /\ worker[s] = "idle" /\ request[s].kind = "stop"
  /\ request' = [request EXCEPT ![s] = NoCommand]
  /\ worker' = [worker EXCEPT ![s] = "gone"]
  /\ UNCHANGED <<pc, model, draft, scheduled, pending, calls, ends, completed_batches, response,
                 job, happened, fault>>

(* generate_with_snapshots and generate: every point needs a surface, and  *)
(* the distortions must have been generated for all of the scan.           *)
Measurable(work) ==
  /\ \A time \in PointTimes(work.scan) : work.model.snapshots[1] <= time
  /\ Spatial => /\ CompletedAt(work.scan) <= work.model.advanced
                /\ CapturedAt(work.scan) >= work.model.retained

Answer(s, ok) ==
  /\ worker[s] = "busy" /\ response[s] = NoResponse
  /\ response' = [response EXCEPT ![s] = [scan |-> job[s].scan, ok |-> ok]]
  /\ worker' = [worker EXCEPT ![s] = "idle"]
  /\ job' = [job EXCEPT ![s] = NoWork]
  /\ UNCHANGED <<pc, model, draft, scheduled, pending, calls, ends, completed_batches, request,
                 happened>>

Respond(s) == Answer(s, Measurable(job[s])) /\ UNCHANGED fault

MeasurementFails(s) == Answer(s, FALSE) /\ fault' = TRUE

Panic(s) ==
  /\ worker[s] = "busy"
  /\ worker' = [worker EXCEPT ![s] = "gone"]
  /\ job' = [job EXCEPT ![s] = NoWork]
  /\ fault' = TRUE
  /\ UNCHANGED <<pc, model, draft, scheduled, pending, calls, ends, completed_batches, channels,
                 happened>>

-----------------------------------------------------------------------------
(* The coordinator shuts the runtime down. *)

Shutdown ==
  /\ pc = "idle" /\ ~shutdown
  /\ terminal' = TRUE /\ shutdown' = TRUE
  /\ stopping' = Sensor \ joined
  /\ pc' = "stop"
  /\ UNCHANGED <<model, draft, scheduled, pending, calls, joined, completed_batches, workers,
                 happened, fault>>

SendStop ==
  /\ pc = "stop" /\ stopping # {}
  /\ LET s == Min(stopping) IN
     /\ stopping' = stopping \ {s}
     /\ IF worker[s] = "gone" THEN UNCHANGED request
        ELSE request[s] = NoCommand /\ request' = [request EXCEPT ![s] = StopCommand]
  /\ UNCHANGED <<pc, model, draft, scheduled, pending, calls, joined, terminal, shutdown,
                 completed_batches, response, worker, job, happened, fault>>

Join ==
  /\ pc = "stop" /\ stopping = {} /\ joined # Sensor
  /\ LET s == Min(Sensor \ joined) IN worker[s] = "gone" /\ joined' = joined \cup {s}
  /\ UNCHANGED <<pc, model, draft, scheduled, pending, calls, stopping, terminal, shutdown,
                 completed_batches, workers, happened, fault>>

Ended ==
  /\ pc = "stop" /\ stopping = {} /\ joined = Sensor
  /\ pc' = "ended"
  /\ UNCHANGED <<model, draft, scheduled, pending, calls, ends, completed_batches, workers,
                 happened, fault>>

CoordinatorStep ==
  \/ AdvanceEvent \/ Advanced \/ Dispatch \/ ScheduleNext \/ Receive \/ FinishCall
  \/ SendStop \/ Join \/ Ended
WorkerStep(s) == TakeRequest(s) \/ TakeStop(s) \/ Respond(s)

Next ==
  \/ NextCompletedScans \/ Shutdown \/ CoordinatorStep \/ AdvanceFails
  \/ \E s \in Sensor : WorkerStep(s) \/ MeasurementFails(s) \/ Panic(s)

(* The operating system runs the threads; nothing makes a worker fail or   *)
(* the owner call again.                                                   *)
Fairness ==
  WF_vars(CoordinatorStep \/ AdvanceFails) /\ \A s \in Sensor : WF_vars(WorkerStep(s))

Spec == Init /\ [][Next]_vars /\ Fairness

-----------------------------------------------------------------------------
(* The surface snapshot_at finds for a time. *)
SurfaceAt(snapshots, time) ==
  LET entry == SelectLastInSeq(snapshots, LAMBDA started : started <= time)
  IN IF entry = 0 THEN -1 ELSE snapshots[entry]

(* "Point timestamp에서 최신 keyframe을 선택" (docs/architecture.md): each  *)
(* point of each scan that is measured gets the surface of the last event  *)
(* up to its time, however the history was cut back before, and although   *)
(* the coordinator goes on while the workers measure.                      *)
PointsSeeTheLatestSurface ==
  \A s \in Sensor : worker[s] = "busy" =>
    \A time \in PointTimes(job[s].scan) :
      SurfaceAt(job[s].model.snapshots, time) = Max({e \in happened : e <= time})

(* Between two calls, failed ones too, no request, result or busy worker   *)
(* is left that the next call or shutdown would meet, and unless a call    *)
(* failed both sensors wait for the scan after the last batch.             *)
NothingLeftBehind ==
  pc = "idle" =>
    /\ \A s \in Sensor : /\ request[s] = NoCommand /\ response[s] = NoResponse
                         /\ worker[s] # "busy"
                         /\ worker[s] = "gone" => s \in joined
    /\ terminal \/ \A s \in Sensor : pending[s] = completed_batches + 1

(* The scenario, the surface history and the distortions are committed     *)
(* together or not at all: they always stand at the same time, with every  *)
(* surface event up to it in the history and none after it.                *)
ModelIsWhole ==
  /\ model.advanced = model.elapsed
  /\ EventAt(model) > model.elapsed
  /\ Last(model.snapshots) = Max(happened) /\ Max(happened) <= model.elapsed
  /\ pc = "idle" /\ ~terminal => model.elapsed = completed_batches * RotationTicks

(* A batch that is returned has the next scan of each sensor, exactly. *)
BatchesInStep ==
  [][completed_batches' # completed_batches =>
       /\ completed_batches' = completed_batches + 1
       /\ scans = {[sensor |-> s, scan |-> completed_batches'] : s \in Sensor}]_vars

(* Every call and shutdown return, whichever worker failed where. *)
EveryCallReturns == (pc # "idle") ~> (pc \in {"idle", "ended"})

(* The generation goes on until a worker fails or a limit is reached: the  *)
(* scheduler's rotations, of whole numbers of samples or not, never end it.*)
OnlyFaultsAreTerminal == terminal /\ ~shutdown => fault
=============================================================================
