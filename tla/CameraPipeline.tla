---------------------------- MODULE CameraPipeline ----------------------------
(***************************************************************************)
(* The synthetic camera of the Visualizer: the target scheduler and stores *)
(* of SyntheticCameraPipeline (synthetic_camera/pipeline.py), its render   *)
(* process behind a slot of one (worker.py), and LiveCoordinator (live.py) *)
(* between the scene receiver and both.  Receiver callbacks and polls run  *)
(* on one event loop, the render process runs beside it.  A keyframe's     *)
(* time is counted in ticks, a target's id is its time in units of the     *)
(* frame period.  Things of which there is at most one (a pending request, *)
(* an outcome, a stored frame) are sets.                                   *)
(***************************************************************************)
EXTENDS Integers, Sequences

CONSTANTS
  KeyTime,           (* the times of the keyframes: segment n joins n, n+1 *)
  TargetTicks,       (* ticks of a frame period                            *)
  MaxGap,            (* timing.max_interpolation_gap_s in ticks            *)
  MaxSegmentFrames,  (* timing.max_segment_frames                          *)
  MaxRuns,           (* bound: runs of the simulator                       *)
  MaxGeneration,     (* bound: invalidations of the worker                 *)
  MaxImage           (* bound: JPEG images a render can give               *)

ASSUME CameraAssumption ==
  /\ {TargetTicks, MaxGap, MaxSegmentFrames, MaxRuns, MaxGeneration, MaxImage}
       \subseteq Nat \ {0}
  /\ KeyTime \in Seq(Nat) /\ Len(KeyTime) > 1
  /\ \A i, j \in DOMAIN KeyTime : i < j => KeyTime[i] < KeyTime[j]

VARIABLES
  exec,             (* ExecutionState: header run, segment, connected; and *)
                    (* accepted_header of the receiver's connection        *)
  run_id,           (* _run_id, 0 for none                                 *)
  last_segment,     (* _last_segment_sequence, and with it _last_frame     *)
  segment,          (* the segment of _segment, 0 for none                 *)
  due,              (* how many of its targets are due by the clock        *)
  next_frame,       (* _next_frame_index                                   *)
  schedule_changed, (* the event _schedule_changed                         *)
  generation,       (* LatestSyntheticRenderWorker._generation             *)
  slot,             (* what submit and poll keep, see NoSlot               *)
  rendering,        (* what the render process works on                    *)
  outcomes,         (* the outcome queue                                   *)
  alive,            (* the render process runs                             *)
  jpeg,             (* LatestJpegStore._frame                              *)
  visual,           (* LatestVisualStore._snapshot                         *)
  renderer,         (* the task of run: "running", "stopped", "failed"     *)
  closing,          (* close: "no", "put", "join", "done"                  *)
  rendered          (* history: run and target of the last render that counted *)

schedule == <<run_id, last_segment, segment, due, next_frame>>
process == <<rendering, outcomes, alive>>
stores == <<jpeg, visual, rendered>>
ending == <<renderer, closing>>
vars == <<exec, schedule, schedule_changed, generation, slot, process, stores, ending>>

Sequence == 1..(Len(KeyTime) - 1)

(* A target's id is floor(elapsed_s * fps). *)
TargetAt(i) == KeyTime[i] \div TargetTicks
FirstTarget(n) == TargetAt(n) + 1
LastTarget(n) == TargetAt(n + 1)
TargetCount(n) == LastTarget(n) - TargetAt(n)
Target == 0..TargetAt(Len(KeyTime))

(* validate_interpolation_segment refuses it. *)
Gap(n) == KeyTime[n + 1] - KeyTime[n] > MaxGap
(* schedule_segment gives one "hold" target instead of a schedule. *)
Held(n) == Gap(n) \/ KeyTime[n + 1] - KeyTime[n] > MaxSegmentFrames * TargetTicks
(* FrameTarget's default: schedule_segment gives a hold no id. *)
HoldTarget == 0

(* "exact" stands for interpolated targets too. *)
Request == [generation : 0..MaxGeneration, run : 1..MaxRuns, target : Target, mode : {"exact", "hold"}]
(* What a render gives: an image or an error. *)
Image == 1..MaxImage
NoImage == 0
Outcome == [request : Request, image : Image \cup {NoImage}]
Frame == [run : 1..MaxRuns, target : Target, image : Image]

(* The envelope None that ends the render process. *)
Stop == [generation |-> 0, run |-> 0, target |-> 0, mode |-> "exact"]

NoSlot == [last_submitted |-> -1, mode |-> "none", frames |-> {},
           pending |-> {}, inflight |-> FALSE, requests |-> {}]

Init ==
  /\ exec = [run |-> 0, segment |-> 0, connected |-> FALSE, accepted_header |-> FALSE]
  /\ run_id = 0 /\ last_segment = 0
  /\ segment = 0 /\ due = 0 /\ next_frame = 0
  /\ schedule_changed = FALSE
  /\ generation = 0
  /\ slot = NoSlot
  /\ rendering = {} /\ outcomes = {} /\ alive = TRUE
  /\ jpeg = {} /\ visual = {}
  /\ rendered = <<0, -1>>
  /\ renderer = "running" /\ closing = "no"

-----------------------------------------------------------------------------
(* The worker's slot: submit and _flush_pending. *)

Flush(s) ==
  IF s.pending = {} \/ s.inflight \/ s.requests # {} THEN s
  ELSE [s EXCEPT !.requests = s.pending, !.inflight = TRUE, !.pending = {}]

(* Broken variant: the frame of a replaced request is kept. *)
KeepReplaced(s) == {}
Replaced(s) == {request.target : request \in s.pending}

(* _submit, to which a target that is not new is nothing. *)
Submit(s, target, mode) ==
  IF target <= s.last_submitted THEN s
  ELSE Flush([s EXCEPT !.last_submitted = target,
                       !.mode = mode,
                       !.frames = (@ \ Replaced(s)) \cup {target},
                       !.pending = {[generation |-> generation, run |-> run_id,
                                     target |-> target, mode |-> mode]}])

(* _submit_due: only the last of the targets that are due. *)
SubmitDue(s) ==
  IF segment # 0 /\ due > next_frame THEN Submit(s, TargetAt(segment) + due, "exact") ELSE s

(* _submit_segment_end, after _submit_due. *)
SubmitSegmentEnd(s) ==
  IF segment # 0 /\ due < TargetCount(segment)
  THEN Submit(s, LastTarget(segment), "exact") ELSE s

Invalidated(s) == [s EXCEPT !.pending = {}, !.frames = {}]

-----------------------------------------------------------------------------
(* What the receiver tells: LiveCoordinator.state_changed. *)

(* Broken variant: the new run keeps the old one's last target. *)
KeepSubmitted(s) == [Invalidated(s) EXCEPT !.mode = "none"]
(* _reset_run. *)
ResetRun(s) == [Invalidated(s) EXCEPT !.mode = "none", !.last_submitted = -1]

AcceptNewRun(r) ==
  /\ ~exec.accepted_header /\ closing = "no"
  /\ r # exec.run
  /\ generation < MaxGeneration
  /\ exec' = [run |-> r, segment |-> 0, connected |-> TRUE, accepted_header |-> TRUE]
  /\ run_id' = r /\ last_segment' = 0
  /\ segment' = 0 /\ due' = 0 /\ next_frame' = 0
  /\ generation' = generation + 1
  /\ slot' = ResetRun(slot)
  /\ jpeg' = {} /\ visual' = {}
  /\ schedule_changed' = TRUE
  /\ UNCHANGED <<process, rendered, ending>>

(* Broken variant: the end of a connection forgets the run. *)
ForgetRun == slot' = ResetRun(slot) /\ last_segment' = 0
KeepRun == slot' = Invalidated(slot) /\ UNCHANGED last_segment

(* The branch of a state that is not connected, in camera and coordinator. *)
Disconnected ==
  /\ generation < MaxGeneration
  /\ generation' = generation + 1
  /\ KeepRun
  /\ segment' = 0 /\ due' = 0 /\ next_frame' = 0
  /\ jpeg' = {} /\ visual' = {}
  /\ schedule_changed' = TRUE
  /\ UNCHANGED <<run_id, process, rendered, ending>>

Disconnect ==
  /\ exec.accepted_header /\ closing = "no"
  /\ exec' = [exec EXCEPT !.connected = FALSE, !.accepted_header = FALSE]
  /\ Disconnected

(* The first segment of a run is interpolated at its start, whether it can *)
(* be or not: state_changed raises, and the error leaves handle_client.    *)
Raises(n) == last_segment = 0 /\ n # 0 /\ Gap(n)

(* What a new segment leaves in the slot: the initial target of a run, the *)
(* rest of the previous segment, and the target of a segment that is held. *)
WithInitial(s, n) == IF last_segment = 0 THEN Submit(s, TargetAt(n), "exact") ELSE s
WithHold(s, n) == IF Held(n) THEN Submit(s, HoldTarget, "hold") ELSE s

Schedule(n) ==
  /\ slot' = WithHold(SubmitSegmentEnd(SubmitDue(WithInitial(slot, n))), n)
  /\ segment' = IF Held(n) THEN 0 ELSE n
  /\ due' = 0 /\ next_frame' = 0
  /\ last_segment' = n
  /\ UNCHANGED run_id

(* state_changed of a connected state whose run is known and whose segment *)
(* is n.  It schedules n unless it has; with no segment the coordinator    *)
(* clears the visual.                                                      *)
StateChanged(n) ==
  /\ exec' = [exec EXCEPT !.segment = n, !.connected = TRUE, !.accepted_header = TRUE]
  /\ IF n \in {0, last_segment} THEN UNCHANGED <<schedule, slot>> ELSE Schedule(n)
  /\ visual' = IF n = 0 THEN {} ELSE visual
  /\ schedule_changed' = TRUE
  /\ UNCHANGED <<generation, process, jpeg, rendered, ending>>

(* state_changed raises inside _read_header: the header does not count as  *)
(* accepted, so handle_client ends without disconnect.                     *)
HeaderRaises ==
  /\ exec' = [exec EXCEPT !.connected = TRUE]
  /\ schedule_changed' = TRUE
  /\ UNCHANGED <<schedule, generation, slot, process, stores, ending>>

(* The run's last segment comes again with the header. *)
AcceptSameRun ==
  /\ ~exec.accepted_header /\ exec.run # 0 /\ closing = "no"
  /\ IF Raises(exec.segment) THEN HeaderRaises ELSE StateChanged(exec.segment)

(* Where it raises for a segment, handle_client's finally disconnects. *)
AcceptSegment(n) ==
  /\ exec.accepted_header /\ n > exec.segment /\ closing = "no"
  /\ IF Raises(n)
     THEN /\ exec' = [exec EXCEPT !.segment = n, !.connected = FALSE, !.accepted_header = FALSE]
          /\ Disconnected
     ELSE StateChanged(n)

Receiver ==
  \/ \E r \in {exec.run + 1} \cap (1..MaxRuns) : AcceptNewRun(r)
  \/ AcceptSameRun
  \/ \E n \in Sequence : AcceptSegment(n)
  \/ Disconnect

-----------------------------------------------------------------------------
(* The render process: _worker_main. *)

Receive ==
  /\ alive /\ rendering = {} /\ slot.requests # {}
  /\ slot' = [slot EXCEPT !.requests = {}]
  /\ IF slot.requests = {Stop}
     THEN alive' = FALSE /\ UNCHANGED rendering
     ELSE rendering' = slot.requests /\ UNCHANGED alive
  /\ UNCHANGED <<exec, schedule, schedule_changed, generation, outcomes, stores, ending>>

Render ==
  /\ alive /\ outcomes = {}
  /\ \E request \in rendering, image \in Image \cup {NoImage} :
       outcomes' = {[request |-> request, image |-> image]}
  /\ rendering' = {}
  /\ UNCHANGED <<exec, schedule, schedule_changed, generation, slot, alive, stores, ending>>

(* No renderer can be made, or the process is killed. *)
ProcessDies ==
  /\ alive
  /\ alive' = FALSE
  /\ rendering' = {}
  /\ UNCHANGED <<exec, schedule, schedule_changed, generation, slot, outcomes, stores, ending>>

-----------------------------------------------------------------------------
(* The pipeline's task: run and poll. *)

Tick ==
  /\ segment # 0 /\ due < TargetCount(segment)
  /\ due' = due + 1
  /\ UNCHANGED <<exec, run_id, last_segment, segment, next_frame, schedule_changed,
                 generation, slot, process, stores, ending>>

(* What run waits for. *)
Woken ==
  schedule_changed \/ outcomes # {} \/ ~alive \/ (segment # 0 /\ due > next_frame)

(* Broken variant: every outcome counts. *)
AnyOutcome == outcomes
(* An outcome counts if it is of the current generation. *)
Current == {outcome \in outcomes : outcome.request.generation = generation}

FrameOf(outcome) ==
  [run |-> outcome.request.run, target |-> outcome.request.target, image |-> outcome.image]

(* LatestJpegStore: an error clears it, an equal image leaves it alone. *)
PublishJpeg(outcome) ==
  IF outcome.image = NoImage THEN {}
  ELSE IF \E frame \in jpeg : frame.image = outcome.image THEN jpeg
  ELSE {FrameOf(outcome)}

(* LatestVisualStore: a target that is not newer leaves it alone. *)
PublishVisual(outcome) ==
  IF \/ outcome.image = NoImage
     \/ outcome.request.target \notin slot.frames
     \/ \E frame \in visual : outcome.request.target <= frame.target
  THEN visual
  ELSE {FrameOf(outcome)}

(* _publish. *)
PublishCurrent ==
  IF Current = {} THEN UNCHANGED stores
  ELSE \E outcome \in Current :
         /\ jpeg' = PublishJpeg(outcome)
         /\ visual' = PublishVisual(outcome)
         /\ rendered' = <<outcome.request.run, outcome.request.target>>

(* worker.poll and _publish: what they leave in the slot. *)
Polled ==
  LET flushed == Flush(IF outcomes = {} THEN slot ELSE [slot EXCEPT !.inflight = FALSE])
      modes == {outcome.request.mode : outcome \in {o \in Current : o.image # NoImage}}
  IN  [flushed EXCEPT !.frames = @ \ {outcome.request.target : outcome \in Current},
                      !.mode = IF modes = {} THEN @ ELSE CHOOSE mode \in modes : TRUE]

Poll ==
  /\ renderer = "running" /\ closing = "no"
  /\ Woken
  /\ schedule_changed' = FALSE
  /\ outcomes' = {}
  /\ PublishCurrent
  /\ IF alive
     THEN /\ slot' = SubmitDue(Polled)
          /\ next_frame' = IF segment = 0 THEN next_frame ELSE due
          /\ segment' = IF segment # 0 /\ due >= TargetCount(segment) THEN 0 ELSE segment
          /\ UNCHANGED renderer
     ELSE /\ slot' = Polled
          /\ renderer' = "failed"
          /\ UNCHANGED <<segment, next_frame>>
  /\ UNCHANGED <<exec, run_id, last_segment, due, generation, rendering, alive, closing>>

(* The HTTP server has ended and run_live sets the stop event. *)
StopRenderer ==
  /\ renderer = "running"
  /\ renderer' = "stopped"
  /\ UNCHANGED <<exec, schedule, schedule_changed, generation, slot, process, stores, closing>>

-----------------------------------------------------------------------------
(* close, which holds the event loop until it is done. *)

Close ==
  /\ renderer # "running" /\ closing = "no"
  /\ closing' = "put"
  /\ schedule_changed' = TRUE
  /\ segment' = 0
  /\ slot' = [slot EXCEPT !.pending = {}]
  /\ UNCHANGED <<exec, run_id, last_segment, due, next_frame, generation, process, stores, renderer>>

(* A full queue is given up after the timeout. *)
PutStop ==
  /\ closing = "put"
  /\ closing' = "join"
  /\ slot' = IF slot.requests = {} THEN [slot EXCEPT !.requests = {Stop}] ELSE slot
  /\ UNCHANGED <<exec, schedule, schedule_changed, generation, process, stores, renderer>>

(* Broken variant: a process that does not end is waited for. *)
NoTerminate == ~alive /\ UNCHANGED <<alive, rendering>>
(* After the timeout the process is terminated. *)
Terminate == alive' = FALSE /\ rendering' = {}

JoinProcess ==
  /\ closing = "join"
  /\ Terminate
  /\ closing' = "done"
  /\ UNCHANGED <<exec, schedule, schedule_changed, generation, slot, outcomes, stores, renderer>>

Closer == Close \/ PutStop \/ JoinProcess

Next == Receiver \/ Receive \/ Render \/ ProcessDies \/ Tick \/ Poll \/ StopRenderer \/ Closer

(* The loop runs a task that is woken, the process renders what it is      *)
(* given, the clock goes on, and run_live closes the camera.               *)
Fairness ==
  /\ WF_vars(Poll) /\ WF_vars(Tick) /\ WF_vars(Receive) /\ WF_vars(Render) /\ WF_vars(Closer)

Spec == Init /\ [][Next]_vars /\ Fairness

-----------------------------------------------------------------------------
(* Properties. *)

(* What the two streams offer is of the run and connection that are live,  *)
(* and both offer the same JPEG (docs/architecture.md): a render that was  *)
(* under way at the end of a run or connection never reaches them.         *)
StoresAgree ==
  /\ \A frame \in jpeg \cup visual : exec.connected /\ frame.run = exec.run
  /\ \A frame \in jpeg : \E other \in visual : other.image = frame.image

(* The worker has one request at most outside the slot, so its queues are  *)
(* never full, and the frames kept for publishing are those of the current *)
(* generation's requests: none is missing when its outcome comes, none is  *)
(* kept for an outcome that never comes.                                   *)
Flight == slot.requests \cup rendering \cup {outcome.request : outcome \in outcomes}
SlotAccounting ==
  alive /\ closing = "no" =>
    /\ slot.inflight = (Flight # {})
    /\ \A r, s \in Flight : r = s
    /\ slot.frames = {request.target : request \in
                         {r \in slot.pending \cup Flight : r.generation = generation}}

(* Renders count in the order of their targets within a run, also across   *)
(* reconnections, and run after run: no stream ever steps back.            *)
RenderedInOrder ==
  [][ \/ rendered' = rendered
      \/ rendered'[1] > rendered[1]
      \/ rendered'[1] = rendered[1] /\ rendered'[2] > rendered[2] ]_vars

(* A segment's last target is submitted and its render ends, however late  *)
(* the task is and whatever the worker still works on, unless the run, the *)
(* connection or the task ends before: no wakeup is missed and nothing     *)
(* that an earlier run left behind holds up the next.                      *)
SegmentIsRendered ==
  \A r \in 1..MaxRuns, n \in Sequence :
    (run_id = r /\ segment = n /\ TargetCount(n) > 0) ~>
      \/ rendered[1] = r /\ rendered[2] >= LastTarget(n)
      \/ run_id # r \/ ~exec.connected \/ renderer # "running"

(* However the task ends, with a process that lives, is dead or is stuck   *)
(* with an outcome nobody reads, closing ends and leaves no process.       *)
CloseEnds == renderer # "running" ~> closing = "done" /\ ~alive

(* A segment that must not be interpolated is held: its keyframe goes to   *)
(* the worker at once (tests/unit/test_synthetic_interpolation.py).        *)
GapIsHeld ==
  [][ exec'.segment # exec.segment /\ exec'.segment # 0 /\ Held(exec'.segment)
        => slot'.mode = "hold" ]_vars
=============================================================================
