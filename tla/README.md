# A TLA+ verification of scrap-monitoring-simulator

The repository simulates a scrap bunker that two lidar sensors watch. Four
programs run at once and exchange messages: the simulation server (Rust), the
Visualizer (Python), its browser page (TypeScript) and the camera edge bridge
(Rust). This directory holds TLA+ modules that model the concurrent core of the
system and the simulation it runs, TLC configurations that check them on small instances, and proofs that
TLAPS checks for every value of the constants. Paths below are relative to the
repository; `SS` is `services/simulation-server/src`, `VZ` is
`services/visualizer/src/scrap_monitoring_visualizer`.

## 1. Inventory

| part | state it keeps | operations | talks to |
| --- | --- | --- | --- |
| simulator process (`SS/runtime/application.rs`) | stop flag, channel of one, loop position | set up, publish a batch, react to a signal, shut down | generation thread (channel), endpoints, publisher (calls) |
| scan generation (`SS/runtime/generation.rs`, `SS/measurement/{rotation,snapshots}.rs`) | scenario, surface history, distortions, pending scan per sensor, terminal flags | next batch, shutdown | two worker threads (a request and a response channel of one each) |
| scenario (`SS/scenario`, `SS/rate_profile.rs`, `SS/decimal_ratio.rs`) | phase plan, inlet, height field, update schedule | advance to a time | called by generation |
| measurement (`SS/measurement`) | distortion timeline, dropout state of each sensor | advance and cut back the timeline, measure a scan | called by generation and the workers |
| S2E endpoints (`SS/s2e.rs`) | per sensor: active client, stream flag, encoder tail, latest scan | publish, commands of UDP clients, close | clients (UDP), the loop (watch channel) |
| scene publisher (`SS/scene_stream.rs`) | slot of one, sequence, counters, backoff | start, publish, close; a task that connects and writes | the loop (mutex, Notify), the Visualizer (TCP) |
| scene receiver (`VZ/receiver`, `VZ/state/machine.py`) | one active producer, execution state | accept, read header, read segments, end | publisher (TCP), live application (callback) |
| live application (`VZ/live.py`) | status, servers | state changed, status, start and end | receiver, camera, visual stream |
| synthetic camera (`VZ/synthetic_camera`) | targets submitted, render worker and its slot, frame store | state changed, submit, poll, publish, stream | render process, bridge (WebSocket) |
| visual stream (`VZ/visual_stream.py`) | latest visual, clients | publish, clear, route | browsers (WebSocket) |
| browser page (`services/visualizer/web/src`) | connection, retry, queue of one, bitmaps | foreground, decode, present | visual stream |
| edge bridge (`services/camera-edge-bridge/src`) | session, last frame, frame grid, backoff | connect, read, write the device | camera stream, v4l2 device |
| configuration, numeric helpers, contract parser, geometry, probes, deployment | none that lasts | parse, compute | everything |

What is hard in it, and what makes each part correct:

* **Two threads over one slot** (publisher): the wakeup follows the unlock, and
  close aborts the task anywhere. Correct when no segment waits beside a
  sleeping task, every accepted record is accounted for, and close returns.
* **Two processes that restart and reconnect** (publisher and receiver): correct
  when a segment of another run or an older one never reaches the scene, and gaps
  are counted.
* **Streams of several clients over one encoder** (endpoint): correct when no
  sample is repeated or joined across a gap, nothing of one stream reaches the
  next, and the latest scan is delivered.
* **A coordinator that runs ahead of its workers** (generation): correct when
  history is kept as long as a worker needs it, every failure leaves nothing
  behind, and batches come in step.
* **Callbacks, polls and a render process over two stores** (camera): correct when
  a frame of an older run or connection never appears, both streams carry the same
  JPEG, and the last target of a segment is rendered.
* **A loop with a thread, a channel and signals** (process): correct when batches
  come in order and every end of it ends all of it.
* **A session with a server that may do anything** (bridge): correct when the
  writes stay on the frame grid however late the polls come, only checked frames
  of the present session are shown, and silence, errors and signals end what
  they should.
* **A schedule in exact decimals over volumes that must add up** (scenario):
  correct when events come on schedule through any sequence of calls, and the
  surface keeps the planned volume through pours, slides, bumps and removals.
* **A timeline that grows ahead of the scans that read it** (distortions):
  correct when what was generated does not change, events fit the surface and
  each other, and every scan that is due still finds what it needs.

`PROJECT.json` lists each such hazard at its line, with the properties that
cover it or the reason why none does yet.

## 2. The modules

| module | models | kind |
| --- | --- | --- |
| `LatestMailbox` | what a latest-only hand-over promises | abstract |
| `ScenePublisher` | `SS/scene_stream.rs`: owner and task | detailed, implements `LatestMailbox` |
| `SceneLink` | publisher's hand-over, TCP connections, receiver and execution state | composition |
| `CapsuleStream` | what a client of an endpoint may rely on | abstract |
| `S2eEndpoint` | `SS/s2e.rs`: one sensor's endpoint | detailed, implements `CapsuleStream` |
| `GenerationRuntime` | `SS/runtime/generation.rs`, `snapshots.rs`, `rotation.rs` | detailed |
| `SimulatorRun` | `SS/runtime/application.rs` from the end of its setup | detailed |
| `CameraPipeline` | `VZ/synthetic_camera/{pipeline,worker,scheduler,store}.py`, the stores and callbacks of `VZ/visual_stream.py` and `VZ/live.py` | detailed |
| `EdgeBridge` | `services/camera-edge-bridge/src` | detailed |
| `DecimalRatio` | `SS/decimal_ratio.rs` | pure |
| `RateProfile` | `SS/rate_profile.rs` | pure |
| `Totals` | the sums that `Grid`, `HeightField` and `RateProfile` take over nodes, triangles and segments | pure |
| `Grid` | `SS/scenario/grid.rs`, `SS/geometry/polygon.rs` | pure |
| `HeightField` | `SS/scenario/height_field.rs`; on `Grid` | pure |
| `ScenarioSimulator` | `SS/scenario/simulator.rs`; on the five above | detailed |
| `SpatialDistortions` | `SS/measurement/{spatial,generation}.rs`, the order of calls of `SS/runtime/generation.rs`; on `Grid` | detailed |
| `...Proofs` | theorems about the module of the same name; `SimulatorProofs` about `S2eEndpoint` and `SimulatorRun`, `HeightFieldProofs` about the operators of `Grid`, `HeightField`, `RateProfile` and `DecimalRatio`, `SimulationProofs` about `SpatialDistortions` and `ScenarioSimulator` | proofs |
| `MC...` | instances for TLC | checking |

Definitions with names of their own that no specification uses (`PeekLatest`,
`KeepTail`, ...) are variants with a plausible bug. `PROJECT.json` says which
definition each replaces and which property then fails: that is how each
property is known to depend on the code.

### ScenePublisher

`state` is `PublisherState` under the mutex, `counters` the atomics beside it,
`permit` the token a `tokio::sync::Notify` stores. `owner` and `task` are the two
program counters. One action is the code between two lock operations or awaits:
`Publish` ends at the unlock and `NotifyPublished` is the `notify_one` after it,
so the window between them is in the model. `AbortTask` can stop the task at an
await and nowhere else, and leaves the segment it held to
`ReconcileAcceptedRecords`. The delay's random fraction and the line formats are
left out; an encoding succeeds or fails. The drop of a publisher without close
(an error during set-up) is not modelled.

### SceneLink

`Publish`, `TakeSegment`, `WriteSegment` and `EncodeFails` are the operations of
`LatestMailbox`, which `ScenePublisher` is proved to implement, here with
connections. `conns[c]` is what the server can still read of a connection.
`Ended` covers the ways a connection stops: an orderly end, an end within a
line, a reset that loses unread lines, and a silent one that the server never
sees. `RestartSimulator` is a new `run_id` with an empty publisher;
`RestartVisualizer` forgets everything. The server side is one action per
stretch of `handle_client` between awaits. Of the receiver's callback only its error
is modelled: `Raises` is the `InterpolationError` of a run's first segment over the
camera's limit (`Gapped`), as in `CameraPipeline`. When a segment raises it, the
connection ends with a disconnect. When the header of a reconnection does,
`accepted_header` is not yet set and there is no disconnect (`server.py` 80,
109-113, 134-137): the state stays connected without a producer, and the last part of
`SceneAccounting` says that this is the only way to get there. A segment's sequence
also stands for its time: both increase together in the publisher, so the check of the
simulation time in `accept_segment` refuses nothing the sequence check does not.

### S2eEndpoint

One action per pass of `run_endpoint` from an await to the next, with the biased
order of its `select!` in the guards (`Stop`, then `Take`, then `ScanChanged`
only with an empty inbox). Samples are numbers, so a capsule that repeats, skips
or mixes samples is visible. `seen` is the receiver's version in the watch
channel. Commands are the classes that `parse_command` and the match tell apart.
The counters are left out.

### GenerationRuntime

Time is counted in ticks; rotations, samples, updates and phases are multiples
of one. `model` is the committed scenario, surface history and distortions,
`draft` the copies of `advance_scenario_and_distortions`. A request carries the
model as it was when it was sent, as the `Arc`s do. Channels hold one item;
`worker[s] = "gone"` is a thread whose channel ends are dropped. A worker may
fail to measure or panic at any scan. `happened` and `fault` are history
variables for the properties. A ray's distance and the distortions' randomness
are left out: a measurement succeeds when the history covers it.

### SimulatorRun

The coordinator thread (`thread`) and the loop (`app`) over a stop flag and a
channel of one. Batches are numbered modulo `Window`, so that the run has no end
in the model either. `lost` holds the endpoints whose task ended with an I/O
error: the loop goes on publishing to them, nobody sends what it stores, and the
error is reported when the outputs are closed (unless an earlier one takes
precedence). `handler`, `raised` and `notified` model how the tokio
crate delivers signals (external): its driver wakes the listeners that exist at
that moment, and `run` makes new ones in every round of its `select!`.

### CameraPipeline

Receiver callbacks (`AcceptNewRun`, `AcceptSameRun`, `AcceptSegment`,
`Disconnect`) and `Poll` run on one event loop and are one action each; the
render process (`Receive`, `Render`, `ProcessDies`) interleaves with them.
`slot` is what `submit` and `poll` change together, so that the several calls of
`_submit` in one callback compose (`Schedule`). The clock is abstract: `due`
counts how many of a segment's targets have come due, and `Poll` needs one of the
events `run` waits for. `Raises` is the `InterpolationError` of a first segment
that is too long. Raised by a segment it leaves `handle_client`, whose `finally`
disconnects at once (`AcceptSegment`); raised by the header of a reconnection, which brings
the run's last segment again, it leaves it before `accepted_header` is set, and the
state stays connected without a disconnect (`HeaderRaises`).
An image is a number, so renders of different targets may be equal, which
`LatestJpegStore` treats as no change. Interpolated surfaces, rates and timings
are left out. `schedule_segment`'s third hold, by the count of targets, cannot be
reached by a segment that passed its limit on the duration.

### EdgeBridge

The bridge's thread from `BridgeConfig::from_lookup` to its exit code; `pc` is
the point between two steps, `processor` the `MessageProcessor`. One action is
the code between two points at which time may pass: the top of the session loop,
a read, what follows a message, the sleep. `Tick` may happen at each, any number
of times, so a poll comes late by any amount. All clocks are relative to now. A
deadline that is two intervals late is folded onto one interval late, for which
`next_periodic_deadline` gives the same slot; this keeps the model finite without
a bound on time. A message may arrive in pieces (`Piece`), each of which is
read with the timeout of a poll. The TCP connect and the WebSocket handshake are
one step that succeeds or fails after any time up to its timeout. A URL, a
descriptor, a JPEG and a device are records of what the code tells apart;
`Dimensions` is the scan over a JPEG's markers. `offered`, `failures`,
`slot_age`, `slot_writes` and `shown` are history variables for the properties.

### Totals, Grid, HeightField, RateProfile, DecimalRatio, ScenarioSimulator

All but the last are functions; `ScenarioSimulator` is the state machine over
them. Coordinates and volumes are integers. A boundary is such that the edges of
its triangles cross the grid at integer coordinates, so cutting and weighing is
exact. A result that the code computes in floating point is computed exactly and
rounded once onto whole volumes without a change of the sum (`Apportioned`); the
tolerances of the code, there for rounding, are zero. The Gaussian of a
pile is an operator constant that falls with the distance. A profile's squared
sine is used only at its middle and ends, where its integral is half and all of
the segment's: the run's segments last at most two ticks. Of longer segments,
which the theorems admit, the model takes the integral in proportion to the time
gone by; their proofs need of it that it starts at zero, ends at the segment's
integral and never falls faster than the average rate rises, and of `TicksAddUp` and
`PlansAreFollowed` that a tick's share is whole (`WholeRates`). A profile of more than
`MaxSegments` segments (`MAX_RATE_SEGMENTS`) is refused with `SegmentLimit`
(`TooManySegments`), by the constructor or by a call that reaches the phase it was drawn
for; its other errors, of times too far apart for floating point to advance
(`NoProgress`) and of a random source, are left out. Draws of a random stream are the ends
of their ranges. Decimal numbers are digits and an exponent, of which trailing zeros
and common divisors are taken out as `decimal_parts` and `gcd` do, and
`multiple_to_f64` rounds half to even onto ticks, as it does onto floats.

`Build` fails as the constructor does, or makes the grid and the first plan.
`Advance` is the entry of `advance_to`: a copy of the simulator, the `candidate`,
goes from event to event (`Event`) and replaces the simulator only when nothing
failed (`Finish`). An event is a surface update, at a multiple of the interval,
the end of a phase, or both at once. `delivered`, the events the callers were
given, is a history variable. The specification is `ScenarioSpec`, its other
names are chosen so that one module of proofs can extend it and
`SpatialDistortions`, which share a grid.

### SpatialDistortions

The timeline is a set of events per kind, the voids, how far it was advanced and
from where it is kept, and a generator per kind: the phase it has seen and its
next candidate. `advance_to` works on a copy, the `draft`, and its loops are
actions: `StartInterval` takes the end of the interval (the next surface update,
phase end or completion), closes the voids that are covered and observes the
phase; `GenerateEvent` is one turn of `generate_falling` or
`generate_collection`; `OpenVoid` one void of `fill_void_coverage`, which may also
give up; `NextExpiry` moves the cursor of `maintain_void_coverage`; and
`CommitInterval` checks what was drawn and replaces the timeline. A scan that is
due is measured on a copy of its dropout scheduler, the `scan`: `StartScan` has the
checks of `resolve_distances` and `active_mask`, `MaskPoints` is one turn of the
loop of `active_mask`, and `Measure` reads the points, keeps the scheduler and
schedules the sensor's next rotation. `Discard` follows when no scan is due. A refused
call sets `outcome` to "invalid" and ends the run.

The scenario is an input here: phases, surface updates, and the height at a time
and place. A draw is a choice from a small set, a distance is a number of half
resolution steps, a tick is a sample. `None` for a kind's settings also stands for
an event rate of zero. The limits on events in one advance and in one batch are
not modelled, nor is a sample's quality value. `drawn`, the dropouts a sensor went
through, is a history variable.

## 3. What the runs check

| run | instance | properties |
| --- | --- | --- |
| `scene_publisher` | 3 sequence numbers, keyframes 0..4, counters that saturate at 3 | accounting, no lost wakeup, implements the mailbox, pending is attempted, close ends |
| `scene_link` | 2 runs of 3 segments, three of them over the camera's limit, 3 connections, 1 restart of the Visualizer | nothing rejected, gaps accounted, receiver comes free |
| `s2e_endpoint` | 2 clients, 3 datagrams, 4 scans of 1 to 4 samples, capsules of 3 | streams separate, nothing forgotten, implements the stream, latest delivered |
| `generation_runtime` | 4 rotations of 2 samples, updates every 3 ticks, phases of 3 or 5, with distortions | surface of each point, nothing left behind, model whole, batches in step, only faults are terminal, every call returns |
| `generation_fractional` | the same with 5 ticks to a rotation and 2 to a sample | violated: see findings |
| `simulator_run` | batches modulo 4, 2 signals | order, result, return, end with the thread |
| `simulator_signal` | 1 signal | violated: see findings |
| `camera_pipeline` | 2 runs of 4 segments, with 2, 0 and 3 targets and one over the interpolation limit, 3 invalidations, 2 images | both streams agree, slot accounting, renders in order, segments are rendered, close ends |
| `edge_bridge` | a frame interval of 3 polls, a message timeout of 4, delays from 1 to 5, messages in up to 3 parts; 8 configurations, 2 descriptors, 4 JPEGs, 3 devices | slot accounting, backoff, latest frame shown, shutdown ends, silence ends the session |
| `scenario` | a square and a triangle with phases of 2 to 4 ticks, updates every 2.5 and three inlets, calls at 1, 3, 7 and 9; changes of 1 or 2 ticks and at most 2 in a profile; every simple quadrilateral on a 3 by 3 lattice and a concave polygon of seven vertices for the grid | planes integrated exactly, events on schedule, volume follows the plan, only limits fail |
| `distortions` | a boundary of 8 by 4 with 4 places, filling, collecting and filling up to tick 8, sensors with rotations of 4 and of 1 or 3 ticks; each kind of distortion alone, and all together | voids fit the surface, scans resolve, dropouts cover their points, history is settled |
| `camera_gap` | interpolation limit below the keyframes' distance | violated: see findings |

Why the bounds are enough. The publisher's slot, task and owner hold at most one
segment each, so three numbers fill all of them, and a fourth publish meets the
exhausted sequence; five keyframes let the same number join different times. In
`scene_link` three connections let one be live, one be a leftover that is still
read and one wait, over a restart of either side; the segments over the limit come first
in a run, second after a skipped one, and later, where they are held. In `s2e_endpoint` scans are
smaller than, equal to and larger than a capsule, four scans let one be skipped
with a tail before and after it, and three commands of two clients reach every
branch of the match twice. In `generation_runtime` updates and phase ends fall
within a rotation, on its end and on each other, and the last scan is the limit
of the ids. In `simulator_run` at most three batches are under way, so they are
distinct modulo four. In `camera_pipeline` a request can be pending, queued,
rendered and answered at once with targets left to submit; keyframes lie on and
between frame times, one segment has no target, one ends the connection when it
comes first and again when its run reconnects, and three invalidations leave a
render under way over a reconnection and over a new run. In `edge_bridge` polls
may be on time, late within a slot, or late by several; the silence after a
message can be a poll short of the timeout and reach it; the delay doubles to a
value that the maximum cuts; every configuration and device error occurs; a
JPEG's frame header comes first, after other markers, with a wrong size, and
after the scan has begun, where it no longer counts. In
`scenario` the schedule has updates that a call just reaches, that it stops
short of and that fall on the end of a phase, and halves of a tick are rounded up
and down; a call over three events reaches the limit and one over more fails; a phase of
four ticks with changes of one takes four, more than the limit of two, in the first phase
and in a later one. The lattice has convex, concave and straight-angled quadrilaterals in both
orientations, and the polygon of seven vertices needs ears that are not the first
candidate. In `distortions` rotations of the sensors overlap, so events must be kept for
the slower one; voids expire, are covered by a rising surface and are ended by the
collection; dropouts begin and end within a scan, on its border, and last over it.

Deadlock is not checked where the system may stop: a closed publisher or
endpoint, a runtime that was shut down, a run that returned, a closed camera, a bridge that
ended, a scenario that failed or whose call times are used up, a distortion
timeline at its last phase, and a link whose bounds are used up. Types are not
checked by the runs but shown by the proofs.

### Findings

* **A sample rate that is not a multiple of the rotation rate stops the
  generation** (`generation_fractional`). After each batch the distortions drop
  what no pending scan needs, up to the first sample of the next scan. With a
  fraction of a sample left over that sample lies after the completion, where
  nothing was generated yet, and `discard_before` refuses. The configuration
  accepts these rates and the scheduler's tests cover them.
* **A signal can be lost** (`simulator_signal`). `run` registers its signal
  listeners inside each `select!` round and drops them while it publishes.
* **A first segment over the interpolation limit ends the connection**
  (`camera_gap`). `state_changed` interpolates the initial target before the
  scheduler decides that the segment is held; the error is not one that
  `handle_client` expects, and every reconnection repeats it, now without a disconnect: the
  receiver's state stays connected with no producer.

### Fairness

Weak fairness for a thread, a task or a handler that can run: the operating
system, tokio and asyncio run what is ready; a connect and a write end within
their timeouts. Nothing obliges the environment: no client has to send, no
connection to succeed, no generation to fail, no owner to publish or to close.
Once a call has begun (close, shutdown, the end of run), the thread that is in it
goes on. The clock goes on, and a render
ends, with an image or an error. The bridge's thread runs, its timeouts expire because time
passes (`Tick`), and nothing obliges the server to send. The scenario and the
distortions are called and have safety properties only, without fairness. Where a step can fail, fairness is on the step or its failure together
(the publisher's task) or on the success alone where a failure only ends the
thing the property speaks of and is excepted there (the endpoint).

## 4. What is proved

| module | theorems | from |
| --- | --- | --- |
| `ScenePublisherProofs` | `TypeCorrect`, `AccountingCorrect`, `WakeupCorrect`, `PublisherImplementsMailbox` | `ConstantsAssumption` |
| `SimulatorProofs` | endpoint: `TypeCorrect`, `SeparationCorrect`, `NothingForgottenCorrect`, `EndpointImplementsStream` | the assumption on its constants |
| `SimulatorProofs` | run: `RunTypeCorrect`, `OrderCorrect`, `SummaryCorrect` | `RunAssumption` |
| `SceneLinkProofs` | `TypeCorrect`, `NothingRejectedCorrect`, `AccountingCorrect` | `LinkAssumption` |
| `EdgeBridgeProofs` | `TypeCorrect`, `GridCorrect`, `LatestCorrect`, `BackoffCorrect` | `EdgeBridgeAssumption` |
| `CameraPipelineProofs` | `StoresCorrect`, `SlotCorrect`, `OrderCorrect` | `CameraAssumption` |
| `GenerationRuntimeProofs` | `CallsAreDrained`, `ModelCorrect`, `SurfacesCorrect`, `BatchesCorrect`, `FaultsCorrect` | `GenerationAssumption`; the last also `WholeSamples` |
| `SimulationProofs` | distortions: `TypeCorrect`, `HistoryCorrect`, `VoidsCorrect`, `ScansCorrect`, `DropoutsCorrect` | `PhasesAssumption`, `SurfaceAssumption`, `SensorsAssumption` |
| `SimulationProofs` | scenario: `ScheduleCorrect` | `InputsAssumption`, `ScenarioSimulatorAssumption`, `RateProfileAssumption` |
| `SimulationProofs` | load: `CallsNeverFail`, `SurfacesAlwaysFit`, `PlansAreFollowed`, `TicksAddUp`; `OnlyLimits` under `Triangulable` | these and `GridAssumption`, `HeightFieldAssumption`, `ResolutionAssumption`, `KernelAssumption` |
| `HeightFieldProofs` | `AddVolumeFacts`, `RemoveVolumeFacts`, `RelaxSlopesFacts`, `ApplyLocalRoughnessFacts`, `SolveHeightDeltaFacts`, `ApportionedFacts`, `ProfilesFacts`, `IntegratedFactorFacts`, `WeightsAreWhole` | `GridAssumption`, `HeightFieldAssumption`, `RateProfileAssumption` |

Each module proves `Init => IInv` and `IInv /\ [Next]_vars => IInv'` with one
step per action, then `Spec => []IInv` (`Inductive`) and the properties from it.
In `SimulatorProofs` the run's definitions have names of their own (`RunSpec`, `RunInv`,
`RunInductive`), in `SimulationProofs` the scenario's (`ScenarioSpec`, `ScheduleInv`,
`LoadInv`, `VolumeInv`); `HeightFieldProofs` is about operators and has no state.

* Publisher: accounting alone is not inductive. A counter saturates and
  `reconcile_accepted_records` subtracts, so it needs that no more than
  `next_sequence - 1` records were accepted and that the ends of task and owner
  fit (`Positions`): a task that holds a segment is writing, encoding or was
  aborted, and the owner that reconciles has seen the task end. The refinement
  needs `Order`: last sent, held and waiting records have increasing numbers below
  `next_sequence`.
* Endpoint: the refinement needs `Encoded`, that the encoder's samples are
  consecutive, end with the last sample of `last_scan_id`, and follow the last
  capsule directly or begin a later rotation; the separation of streams gives
  that a new stream starts from nothing.
* Run: `Ending` couples the two threads: the loop is past the join only with a
  thread that is done, and a thread leaves its loop only by the stop flag, a
  closed channel or a failure.
* Link: that nothing is rejected depends on the order of all lines over all
  connections, read or not. `InOrder` says that what an older connection still
  holds precedes what a newer one holds, by run and then by sequence, and that
  what the scene has seen precedes both. `Handlers` adds that at most one handler has the
  server's slot and the state is connected only for it, or after the camera's error in a
  header, and `Simulator` that the publisher's sequence is ahead of
  everything it wrote. Accounting follows from the same order.
* Bridge: deadlines move by polls, not by slots, so the grid is proved from
  `Grid`: the age of the slot and the time to the deadline add up to -2, -1, 0 or
  1 intervals, whatever the time between two steps. `Session` says that the
  latest frame is the last one offered and passed the checks, and that a session
  runs only on a device that was found usable. `Backoff` relates the delay, which the
  code doubles step by step, to the number of failures: the delay is the smaller of
  the maximum and the first delay times `Doubled[failures]`. That `Doubled`, a
  recursive function, satisfies its own equation and grows is proved by an
  induction over sets of numbers (`Induction`), which follows from the order of
  the numbers being well-founded; the library's rule, which takes a predicate as
  parameter, cannot be used.
* Camera: a property of the slot, `SlotOK`, that `submit`, the flush, an invalidation and
  a poll each keep, so that the several submits of one callback compose. It says
  that a request of the current generation is of the current run, comes after
  everything shown (`Shown`) and before the one that waits, and that the frames kept
  are its frames; one inclusion also holds for a process that died, since a
  last poll still publishes its outcome. While disconnected nothing is of the current
  generation.
* Generation: `Control` says where in a call each sensor is (`Dispatching(n)`,
  `Receiving(n)`): of the two scans the first n were requested, or received, and
  a requested one is in the request channel, at the worker, in the response
  channel, or lost with a worker that is gone. Only the model of the call is
  handed out, so a busy worker's model is the coordinator's. `Scenario` says
  that the history is strictly increasing, has every event from its own first
  one on, and begins no later than the first sample of the scan that is due;
  that survives the cut after a batch because a rotation's first sample is never
  before the end of the one before (`BoundaryFacts`), whole number of samples
  or not.

  `FaultsCorrect` needs that a rotation is a whole number of samples long
  (`WholeSamples`): then a scan begins exactly where the one before it completes,
  and the distortions are never asked to drop what they have not generated. Run
  `generation_fractional` shows that the assumption cannot be left out.

* Distortions: `Timeline` says that every void is well formed, clear of the
  boundary and not covered before the timeline's end, and that two voids that are
  open at one time are apart. That survives an interval because of `Draft`: the
  surface of the interval is the one at its start (`SurfaceIsKept`), so a void
  is covered at the start of an interval, where it is closed, or not at all in it;
  a new void begins at the cursor, so what it meets later is open there; and the
  copy has the past of the timeline (`Happening`). A void begins before the
  end of its interval, since the cursor stays below it: otherwise the next
  interval could close it at the tick it begins, and every scan after that would be
  refused for an invalid event. `Generating` says that a generator has seen the
  current phase unless that begins now, which `SamePhase` and `NextPhase` carry
  over the end of an interval. For the dropouts, `Scheduling` says that of the
  dropouts drawn only the scheduled one can reach into the sensor's next scan, with
  the end it was drawn with; `Scan` carries that through the loop. The pending
  scans begin neither before what is kept nor after what is advanced (`Rotations`).

  The three assumptions say that the phases follow one another from zero to the
  horizon, that the surface changes with its updates and phases only, and that
  times between draws and lengths of rotations are positive, as `require_range`,
  the scenario's events and the rotation's schedule have it. That the surface is
  what the scenario makes of it is not proved here: it is an input. In this model
  a scan starts as the one before it completes, so `ScansCorrect` is about
  rotations of a whole number of samples, as `FaultsCorrect` of the generation is.

* Scenario: `ScheduleInv` says of the simulator between calls (`SimulatorFits`) and
  of its copy during one (`CandidateFits`) that the events so far are strictly
  increasing and that their updates are exactly those before
  `next_update_index`. The next one is still to come only between calls: during a call
  it may be due, and with an interval so short that two updates fall on one tick
  the code's check fails the call, which then leaves the simulator as it was
  (`ScheduleCorrect` holds of such intervals too, `ResolutionAssumption` is not
  used for it). The
  schedule in the property is that of the decimal interval, not of the ratio the
  code reduces it to: `RatioIsDecimal` says that the two are proportional, whether
  the power of ten ends up in the numerator or the denominator, and
  `RoundedIsNearest` that the rounded quotient is the nearest tick, the even one of
  two. `InputsAssumption` only says that the model's numbers are integers.

* Load: what happens to the volume on the surface, for every grid, profile,
  kernel and sequence of calls. It rests on what the surface's operations do to a
  surface that `Fills` the grid, which has no node below the floor or over
  `Top`: `AddVolumeFacts` and `RemoveVolumeFacts` (the sum changes by exactly what
  was asked for, however many nodes run out of room on the way),
  `RelaxSlopesFacts` and `ApplyLocalRoughnessFacts` (the sum does not change), and
  that a result is again within bounds. Under these lie `SolveHeightDeltaFacts`,
  that the sweep over the nodes in the order in which they run out of room finds
  the level with the sum asked for; `ApportionedFacts`, that rounding shares onto
  whole volumes loses nothing; and for a slide that what passes through a node in
  one round is no more than it has, or has room for, since each pair moves the
  smaller of what its two ends allow (`MovedFacts`, `ThroughFacts`). The grid is
  made from the boundary, so `WeightsAreWhole` follows cutting, clipping and
  weighing of the triangles down to the typing of every recursion.

  `ProfilesFacts` says that every profile that can be drawn is in order and
  balanced, and has no more segments than shortest changes fit its phase (`Sparse`); `IntegratedFactorFacts` that its integral starts at zero, never falls
  and ends at the average rate, so that a phase moves its whole volume; and
  `TicksAddUp` that the integral is the sum of the factors of its ticks.

  The invariant is `LoadInv`: of the simulator, and of its copy during a call,
  that the surface is within bounds (`Fills`), that the time lies within the
  phase, the plan's profile is balanced and its volume fits the grid, and that
  while filling the load is not ahead of the plan (`SurfaceFits`), with the next
  update ahead (`LoadFits`). The part about the plan is what makes it inductive:
  to know that the volume of the next event fits, one needs that the volumes so
  far, each rounded down, are not more than the integral gives; and at the end of
  the phase what is missing is poured, so the end state is reached and
  `transition_phase` accepts it. `SurfacesAlwaysFit` and `CallsNeverFail` are read
  off it: once a simulator is built only the limit on events, a time in the
  past and the limit on segments make a call fail, the last only where a phase has room
  for more than `MaxSegments` shortest changes (`ChangesAreLong` is its negation), which
  `Sparse` gives.

  `OnlyLimits` states the run's `OnlyLimitsFail`, which also covers the
  constructor. That every simple polygon has an ear is the two-ears theorem of
  plane geometry, which is not proved here; it is the hypothesis `Triangulable`.
  Without it the constructor's refusal of the boundary is the only other failure.

  `PlansAreFollowed` states the run's `VolumeFollowsThePlan` wherever the plans
  come out whole (`PlansAreWhole`). The code's volumes are floating point, the
  model's are integers: a planned volume that is not whole would be rounded down
  by the model and the plan be followed only up to a unit, so the equation has to
  say for which plans it holds. Its invariant, `FollowsPlan`, says of a whole plan
  that the volume moved is exactly the integral up to the last event, which does
  not depend on how calls and updates cut up the time.
  On run `scenario` both hypotheses hold: every boundary that is valid has triangles,
  and the plans are whole in every reachable state, so the property is checked
  there without them.

  `ResolutionAssumption` says that updates, and the ends of phases, are told apart by
  the ticks of the model, as they are by the floating-point times of any
  configuration that runs at all; `KernelAssumption` is the floor that the code
  puts under the Gaussian (`KERNEL_WEIGHT_FLOOR`). The sums are folds over finite sets;
  the induction over a finite set that their lemmas need is `FiniteInduction`,
  which takes the property as a set, and the recursions' is `Descent`: a function
  defined through an argument of smaller length exists and has the type its step
  keeps.

Only model-checked: liveness (the prover has no fairness), and of the safety
properties `PlanesAreIntegratedExactly`: that the weights integrate every plane
exactly is a theorem of plane geometry (the triangles cover the polygon once, the
cells cover each triangle once, and the bilinear weights have the moments of the
clipped polygon). Proving it needs an induction over ears, clipped edges and cells
with a measure of area that the prover's libraries do not have. So does
`Triangulable`, which the run checks on its boundaries by never failing to
build, and with it the unconditional `OnlyLimitsFail`.

## 5. Plan

Done: the components above and the theorems about them. What could follow, in this order:

1. The camera's slot against `LatestMailbox`: a poll is up to three steps of the
   mailbox (deliver, take, offer), so the model needs its states in between.
2. `VisualStream` with the browser: one store and several clients, foreground
   and background, decoding and bitmaps; composed like `SceneLink`.
3. `LiveApplication`: the status, what a disconnect leaves of it, and the start
   and end of the servers.
4. `ScenarioSimulator` and `SpatialDistortions` as an instance of what
   `GenerationRuntime` assumes of them.

Not planned: ray casting, meshes and rendering (floating point), the
distribution of random streams, the parsing of JSON and of the command line
(pure), developer probes and deployment scripts.
