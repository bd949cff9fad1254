------------------------- MODULE SpatialDistortions -------------------------
(***************************************************************************)
(* Distortions of the measured distances (measurement/spatial.rs): scrap   *)
(* that falls through a beam, voids in the surface, and the machine that   *)
(* collects, each an event with a lifetime and a place.  The timeline is   *)
(* advanced surface event by surface event up to the completion of the     *)
(* next scan (runtime/generation.rs), the scans that are due are measured  *)
(* (measurement/generation.rs), and the events no pending scan can meet    *)
(* are discarded.                                                          *)
(*                                                                         *)
(* Time is in ticks, a sample is taken on every tick, and a scan starts as *)
(* its predecessor completes.  Distances are in half steps of the sensor's *)
(* resolution.  A draw of a random stream is a choice from a small set.    *)
(***************************************************************************)
EXTENDS Grid

CONSTANTS
  Boundary,         (* the polygon                                          *)
  Lattice,          (* bound: the points centers are drawn from             *)
  Phases,           (* the scenario's phases, one after the other           *)
  SurfaceUpdates,   (* the times of its surface updates                     *)
  SurfaceAt(_, _),  (* height of the surface at a time and a point          *)
  Delays,           (* bound: draws of the exponential distribution         *)
  AllSettings,      (* distortion and measurement settings to choose from   *)
  Sensors,
  PointAt(_, _),    (* what a sensor's beam hits at a time                  *)
  ScanLengths       (* bound: sensor -> the ticks a rotation may take       *)

None == [none |-> TRUE]
Never == -1
Horizon == Last(Phases).ends_at
Phase(t) == CHOOSE p \in ToSet(Phases) : p.started_at <= t /\ t < p.ends_at

(* The phases follow each other without a gap from zero to the horizon. *)
ASSUME PhasesAssumption ==
  /\ Horizon \in Nat
  /\ \A p \in ToSet(Phases) :
       /\ p.phase \in {"filling", "collecting"}
       /\ p.started_at \in Nat /\ p.ends_at \in Nat /\ p.started_at < p.ends_at
       /\ p.ends_at <= Horizon
       /\ \A q \in ToSet(Phases) \ {p} :
            p.ends_at <= q.started_at \/ q.ends_at <= p.started_at
  /\ \A t \in 0..(Horizon - 1) : \E p \in ToSet(Phases) : p.started_at <= t /\ t < p.ends_at

(* The surface changes with its updates and with the phase only. *)
ASSUME SurfaceAssumption ==
  /\ SurfaceUpdates \subseteq Nat
  /\ Lattice \subseteq Int \X Int
  /\ \A t \in 0..Horizon : \A q \in Lattice : SurfaceAt(t, q) \in Int
  /\ \A from, t \in 0..(Horizon - 1) :
       /\ from <= t /\ t < Phase(from).ends_at
       /\ \A u \in SurfaceUpdates : u <= from \/ t < u
       => \A q \in Lattice : SurfaceAt(t, q) = SurfaceAt(from, q)

ASSUME SensorsAssumption ==
  /\ Delays \subseteq Nat \ {0}
  /\ Sensors # {}
  /\ \A s \in Sensors : ScanLengths[s] \subseteq Nat \ {0}

VARIABLES
  settings,      (* the settings in force                                   *)
  events,        (* "falling", "collection" -> the events of that kind      *)
  voids,         (* the voids                                               *)
  advanced_to, retained_from,
  generators,    (* kind -> the phase its generator has seen, by its start, *)
                 (* and when its next candidate is                          *)
  pending,       (* sensor -> [captured, completed] of its pending schedule *)
  dropout,       (* sensor -> SensorDropoutScheduler                        *)
  stage,         (* "idle", or the loop a call is in                        *)
  draft,         (* the advance a call is working on                        *)
  scan,          (* the measurement a call is working on                    *)
  outcome,       (* how the last call ended                                 *)
  measured,      (* the scan measured last: point time -> what it may read  *)
  \* history
  drawn          (* sensor -> the dropouts drawn that a point can still meet *)

timeline == <<events, voids, advanced_to, retained_from, generators>>
sensors == <<pending, dropout, measured, drawn>>
vars == <<settings, timeline, sensors, stage, draft, scan, outcome>>

Kinds == {"falling", "collection"}
Kind(p) == IF p.phase = "filling" THEN "falling" ELSE "collection"
Current == Phase(advanced_to)

Active(known, t) == {e \in known : e.started_at <= t /\ t < e.ends_at}
Distance2(p, q) == (p[1] - q[1]) * (p[1] - q[1]) + (p[2] - q[2]) * (p[2] - q[2])
Area(open) == MapThenSumSet(LAMBDA e : e.radius * e.radius, open)   \* over pi

-----------------------------------------------------------------------------
(* Distances to the boundary: point_segment_distance and segment_distance  *)
(* compared with a radius.                                                 *)
ClearOf(p, a, b, radius) ==
  LET along == (p[1] - a[1]) * (b[1] - a[1]) + (p[2] - a[2]) * (b[2] - a[2])
  IN IF along <= 0 THEN Distance2(p, a) >= radius * radius
     ELSE IF along >= Distance2(a, b) THEN Distance2(p, b) >= radius * radius
     ELSE Cross(a, b, p) * Cross(a, b, p) >= radius * radius * Distance2(a, b)
ClearOfBoundary(p, radius) ==
  \A i \in DOMAIN Boundary : ClearOf(p, Boundary[i], Following(Boundary, i), radius)
PathClearOfBoundary(from, to, radius) ==
  \A i \in DOMAIN Boundary :
    LET a == Boundary[i]
        b == Following(Boundary, i)
    IN /\ ~Intersects(from, to, a, b)
       /\ ClearOf(from, a, b, radius) /\ ClearOf(to, a, b, radius)
       /\ ClearOf(a, from, to, radius) /\ ClearOf(b, from, to, radius)

-----------------------------------------------------------------------------
(* Settings: SpatialDistortionTimeline::new and validate_settings.         *)
PositiveRange(values) == values \subseteq Nat \ {0}
ValidSettings(s) ==
  /\ s.falling # None =>
       /\ PositiveRange(s.falling.radius) /\ PositiveRange(s.falling.duration)
       /\ PositiveRange(s.falling.reduction) /\ s.falling.placement_radius > 0
       /\ s.falling.inlet_positions # <<>>
       /\ \A p \in ToSet(s.falling.inlet_positions) : ContainsPoint(Boundary, p)
  /\ s.voids # None =>
       /\ s.voids.cover_height \in Nat
       /\ PositiveRange(s.voids.radius) /\ PositiveRange(s.voids.duration)
       /\ PositiveRange(s.voids.increase)
  /\ s.collection # None =>
       /\ PositiveRange(s.collection.interval) /\ PositiveRange(s.collection.radius)
       /\ PositiveRange(s.collection.duration) /\ PositiveRange(s.collection.reduction)
  /\ {s.min_distance, s.max_distance, s.noise_limit} \subseteq Nat
  /\ 0 < s.min_distance /\ s.min_distance <= s.max_distance /\ PositiveRange(s.reflection)
  /\ s.dropout # None =>
       PositiveRange(s.dropout.interval) /\ PositiveRange(s.dropout.duration)

Init ==
  /\ settings \in {s \in AllSettings : ValidSettings(s)}
  /\ events = [kind \in Kinds |-> {}] /\ voids = {}
  /\ advanced_to = 0 /\ retained_from = 0
  /\ generators = [kind \in Kinds |-> [seen |-> Never, next |-> Never]]
  /\ pending \in {[s \in Sensors |-> [captured |-> 0, completed |-> first[s]]] :
                     first \in {f \in [Sensors -> UNION Range(ScanLengths)] :
                                   \A s \in Sensors : f[s] \in ScanLengths[s]}}
  /\ dropout \in IF settings.dropout = None THEN [Sensors -> {None}]
                 ELSE [Sensors -> {[start |-> at, end |-> Never, last |-> Never] :
                                     at \in settings.dropout.interval}]
  /\ stage = "idle" /\ draft = None /\ scan = None
  /\ outcome = "ok" /\ measured = None
  /\ drawn = [s \in Sensors |-> {}]

-----------------------------------------------------------------------------
(* An event ends with its phase at the latest. *)
EndsAt(at, duration, p) == Min({p.ends_at, at + duration})

(* generate_falling: candidates at the highest rate of the phase, each     *)
(* taken with the share its tick's rate has of the highest.                *)
MaximumFactor(p) == Max({p.unit} \cup ToSet(p.factors))
Inlet(t, p) == p.inlets[t - p.started_at + 1]   \* current_inlet_index
FallingCenters(inlet) ==
  {q \in Lattice : /\ Distance2(q, inlet) <= settings.falling.placement_radius
                                               * settings.falling.placement_radius
                   /\ ContainsPoint(Boundary, q)}
FallingAt(at, inlet, p) ==
  LET factor == p.factors[at - p.started_at + 1]
      accepted ==
        {{[started_at |-> at, ends_at |-> EndsAt(at, duration, p),
           center |-> center, radius |-> radius, change |-> reduction]} :
            duration \in settings.falling.duration, radius \in settings.falling.radius,
            center \in FallingCenters(settings.falling.inlet_positions[inlet]),
            reduction \in settings.falling.reduction}
  IN (IF factor > 0 THEN accepted ELSE {}) \cup (IF factor < MaximumFactor(p) THEN {{}} ELSE {})

(* generate_collection: a path per event, or none after too many attempts. *)
CollectionPoints(radius) ==
  {q \in Lattice : ContainsPoint(Boundary, q) /\ ClearOfBoundary(q, radius)}
CollectionPaths(radius) ==
  {path \in CollectionPoints(radius) \X CollectionPoints(radius) :
     PathClearOfBoundary(path[1], path[2], radius)}
CollectionAt(at, p) ==
  {{}} \cup
  UNION {{{[started_at |-> at, ends_at |-> EndsAt(at, duration, p),
            start_center |-> path[1], end_center |-> path[2],
            radius |-> radius, change |-> reduction]} :
            path \in CollectionPaths(radius), duration \in settings.collection.duration,
            reduction \in settings.collection.reduction} : radius \in settings.collection.radius}


(* One turn of the loops of generate_falling and generate_collection. *)
EventsAt(at, p) ==
  IF p.phase = "filling" THEN FallingAt(at, Inlet(advanced_to, p), p) ELSE CollectionAt(at, p)
Gaps(p) == IF p.phase = "filling" THEN Delays ELSE settings.collection.interval

-----------------------------------------------------------------------------
(* Voids. *)
SynchronizeVoids(known, at, p) ==
  LET rise(e) == SurfaceAt(at, e.center) - e.height
      close(e) == /\ e \in Active(known, at)
                  /\ p.phase = "filling"
                       => rise(e) > 0 /\ rise(e) >= settings.voids.cover_height
  IN IF settings.voids = None THEN known
     ELSE {IF close(e) THEN [e EXCEPT !.ends_at = at] ELSE e : e \in known}

VoidCenters(from, radius, active) ==
  {q \in Lattice :
     /\ ContainsPoint(Boundary, q) /\ ClearOfBoundary(q, radius)
     /\ \A e \in active : Distance2(q, e.center) >= (radius + e.radius) * (radius + e.radius)
     /\ SurfaceAt(from, q) > 0}
VoidsAt(at, from, active, p) ==
  UNION {{[started_at |-> at, expires_at |-> EndsAt(at, duration, p),
           ends_at |-> EndsAt(at, duration, p), center |-> center,
           height |-> SurfaceAt(from, center), radius |-> radius, change |-> increase] :
            duration \in settings.voids.duration, increase \in settings.voids.increase,
            center \in VoidCenters(from, radius, active)} : radius \in settings.voids.radius}

(* Voids that are open at the cursor: known, or new in this interval. *)
AdvancedVoids(known, output) == known
KnownVoids(known, output) == known \cup output
Open == Active(KnownVoids(draft.voids, draft.output), draft.cursor)
Expiries == {e.ends_at : e \in Open}

-----------------------------------------------------------------------------
(* The timeline: advance_to for one interval of the runtime's loop.  The   *)
(* scans due are measured before the next.                                 *)
EarliestCompletion == Min({pending[s].completed : s \in Sensors})
LatestPending == Max({pending[s].captured : s \in Sensors})
EarliestPending == Min({pending[s].captured : s \in Sensors})
Due == {s \in Sensors : pending[s].completed <= advanced_to}
IntervalEnd ==
  Min({EarliestCompletion, Current.ends_at} \cup {u \in SurfaceUpdates : u > advanced_to})

ValidEvents(new) == \A e \in new : 0 <= e.started_at /\ e.started_at < e.ends_at
ValidVoids(new) == ValidEvents(new) /\ \A e \in new : e.ends_at <= e.expires_at

(* A phase that a generator has not seen must be met at its start.         *)
SeenFromStart(generator, p) == generator.seen = p.started_at \/ advanced_to = p.started_at
Observed(generator, p) ==
  IF generator.seen = p.started_at THEN {generator}
  ELSE {[seen |-> p.started_at, next |-> p.started_at + gap] : gap \in Gaps(p)}

(* advance_to works on a copy: it closes voids that are covered, then      *)
(* draws the events of the phase.                                          *)
StartInterval ==
  /\ stage = "idle" /\ outcome = "ok"
  /\ Due = {} /\ measured = None /\ EarliestCompletion <= Horizon
  /\ LET p == Current
         generator == generators[Kind(p)]
         generates == settings[Kind(p)] # None
     IN IF generates /\ ~SeenFromStart(generator, p)
        THEN outcome' = "invalid" /\ UNCHANGED <<stage, draft>>
        ELSE \E observed \in IF generates THEN Observed(generator, p) ELSE {generator} :
               /\ draft' = [until |-> IntervalEnd, events |-> {}, generator |-> observed,
                            voids |-> SynchronizeVoids(voids, advanced_to, p), output |-> {},
                            cursor |-> advanced_to]
               /\ stage' = IF generates THEN "events" ELSE "voids"
               /\ UNCHANGED outcome
  /\ UNCHANGED <<settings, timeline, sensors, scan>>

GenerateEvent ==
  /\ stage = "events" /\ draft.generator.next < draft.until
  /\ \E new \in EventsAt(draft.generator.next, Current), gap \in Gaps(Current) :
       draft' = [draft EXCEPT !.events = @ \cup new, !.generator.next = @ + gap]
  /\ UNCHANGED <<settings, timeline, sensors, stage, scan, outcome>>

EventsGenerated ==
  /\ stage = "events" /\ draft.generator.next >= draft.until
  /\ stage' = "voids"
  /\ UNCHANGED <<settings, timeline, sensors, draft, scan, outcome>>

(* maintain_void_coverage: at the start and whenever a void expires,       *)
(* fill_void_coverage opens voids one by one until they cover the target   *)
(* or too many attempts found no place.                                    *)
MaintainsVoids == Current.phase = "filling" /\ settings.voids # None
OpenVoid ==
  /\ stage = "voids" /\ MaintainsVoids
  /\ Area(Open) < settings.voids.target_area
  /\ \E e \in VoidsAt(draft.cursor, advanced_to, Open, Current) :
       draft' = [draft EXCEPT !.output = @ \cup {e}]
  /\ UNCHANGED <<settings, timeline, sensors, stage, scan, outcome>>

ExpiresWithin == MaintainsVoids /\ \E end \in Expiries : end < draft.until
NextExpiry ==
  /\ stage = "voids" /\ ExpiresWithin
  /\ draft' = [draft EXCEPT !.cursor = Min(Expiries)]
  /\ UNCHANGED <<settings, timeline, sensors, stage, scan, outcome>>

(* advance_with_events: what was drawn joins the timeline. *)
StartWithin ==
  /\ \A e \in draft.events : advanced_to <= e.started_at /\ e.started_at < draft.until
  /\ \A e \in draft.output : advanced_to <= e.started_at /\ e.started_at <= draft.until
CommitInterval ==
  /\ stage = "voids" /\ ~ExpiresWithin
  /\ stage' = "idle" /\ draft' = None
  /\ IF StartWithin /\ ValidEvents(draft.events) /\ ValidVoids(draft.output)
     THEN /\ events' = [events EXCEPT ![Kind(Current)] = @ \cup draft.events]
          /\ voids' = draft.voids \cup draft.output
          /\ generators' = [generators EXCEPT ![Kind(Current)] = draft.generator]
          /\ advanced_to' = draft.until
          /\ UNCHANGED <<retained_from, outcome>>
     ELSE outcome' = "invalid" /\ UNCHANGED timeline
  /\ UNCHANGED <<settings, sensors, scan>>

-----------------------------------------------------------------------------
(* resolve_distances.  A point is [surface, hit, distance, static]: the    *)
(* surface hit in front of the static scene, where, how far, and how far   *)
(* the static scene is behind it.                                          *)
Within(p, center, radius) == Distance2(p, center) <= radius * radius

(* center_at, both sides of the comparison scaled by the event's duration. *)
MetBy(p, t, e) ==
  LET lasts == e.ends_at - e.started_at
      along(axis) == lasts * e.start_center[axis]
                       + (t - e.started_at) * (e.end_center[axis] - e.start_center[axis])
  IN Within(<<lasts * p[1], lasts * p[2]>>, <<along(1), along(2)>>, lasts * e.radius)

Foreground(point, t) ==
  {point.distance - e.change :
     e \in {e \in Active(events["falling"], t) : Within(point.hit, e.center, e.radius)}
             \cup {e \in Active(events["collection"], t) : MetBy(point.hit, t, e)}}
Behind(point, t) ==
  {d \in {point.distance + e.change :
            e \in {e \in Active(voids, t) : Within(point.hit, e.center, e.radius)}} :
     d <= settings.max_distance /\ d <= point.static}
Resolved(point, t) ==
  LET near == {d \in Foreground(point, t) : d >= settings.min_distance}
      far == Behind(point, t)
  IN IF ~point.surface THEN point.distance
     ELSE IF near # {} THEN Min(near)
     ELSE IF far # {} THEN Min(far) ELSE point.distance

(* apply_reflection: the distances it may leave. *)
Reflected(point, distance) ==
  LET lower == Min(settings.reflection)
      maximum == Min({Max(settings.reflection), point.distance - settings.min_distance})
  IN {distance} \cup
     (IF point.surface /\ settings.reflects /\ maximum >= lower
      THEN {Min({distance, point.distance - reduction}) : reduction \in {lower, maximum}} ELSE {})

(* A dropout that outlasts the scan keeps its end. *)
Forgotten(d, end) == d
Kept(d, end) == [d EXCEPT !.end = end]
Ends(d) ==
  IF d.end # Never THEN {d.end} ELSE {d.start + duration : duration \in settings.dropout.duration}
Meets(dropouts, t) == \E d \in dropouts : d.start <= t /\ t < d.end

(* quantize_hq_distance_ticks, half up; a step out of range is none.       *)
Quantized(distance) == 2 * ((Max({distance, 0}) + 1) \div 2)
InRange(step) ==
  IF settings.min_distance <= step /\ step <= settings.max_distance THEN step ELSE 0
Noise == {-settings.noise_limit, settings.noise_limit}
Noisy(distance, noise) == IF distance > 0 THEN distance + noise ELSE distance

Values(point, t, masked) ==
  UNION {{InRange(Quantized(Noisy(distance, noise))) : noise \in Noise} :
           distance \in IF masked THEN {0} ELSE Reflected(point, Resolved(point, t))}

(* MeasurementGenerator::generate for a scan that is due works on a copy   *)
(* of the dropout scheduler.                                               *)
Times(s) == pending[s].captured..(pending[s].completed - 1)
Through(s) == pending[s].completed - 1
Resolvable(s) ==
  /\ pending[s].completed <= advanced_to
  /\ pending[s].captured >= retained_from
  /\ (\A kind \in Kinds : ValidEvents(events[kind])) /\ ValidVoids(voids)
Maskable(s) == settings.dropout # None => pending[s].captured > dropout[s].last

StartScan(s) ==
  /\ stage = "idle" /\ s \in Due /\ outcome = "ok"
  /\ IF Resolvable(s) /\ Maskable(s)
     THEN /\ stage' = "mask" /\ scan' = [sensor |-> s, scheduler |-> dropout[s], masks |-> {}]
          /\ UNCHANGED outcome
     ELSE outcome' = "invalid" /\ UNCHANGED <<stage, scan>>
  /\ UNCHANGED <<settings, timeline, sensors, draft>>

(* One turn of the loop of active_mask: the next dropout ends after the    *)
(* scan, or with it and another is scheduled.                              *)
Masking ==
  stage = "mask" /\ settings.dropout # None /\ scan.scheduler.start <= Through(scan.sensor)
MaskPoints ==
  /\ Masking
  /\ \E end \in Ends(scan.scheduler) :
       LET d == scan.scheduler
           masks == scan.masks \cup {[start |-> d.start, end |-> end]}
       IN \/ /\ end > Through(scan.sensor)
             /\ scan' = [scan EXCEPT !.scheduler = Kept(d, end), !.masks = masks]
             /\ stage' = "points"
          \/ /\ end <= Through(scan.sensor)
             /\ \E gap \in settings.dropout.interval :
                  scan' = [scan EXCEPT !.scheduler = [d EXCEPT !.start = end + gap, !.end = Never],
                                       !.masks = masks]
             /\ UNCHANGED stage
  /\ UNCHANGED <<settings, timeline, sensors, draft, outcome>>

(* The points are read and the sensor's next rotation is scheduled. *)
Measure ==
  /\ stage = "points" \/ (stage = "mask" /\ ~Masking)
  /\ LET s == scan.sensor IN
     /\ measured' = [sensor |-> s, values |->
                      [t \in Times(s) |-> Values(PointAt(s, t), t, Meets(scan.masks, t))]]
     /\ dropout' = [dropout EXCEPT ![s] = IF settings.dropout = None THEN @
                                          ELSE [scan.scheduler EXCEPT !.last = Through(s)]]
     /\ drawn' = [drawn EXCEPT ![s] = {d \in @ \cup scan.masks : d.end > pending[s].captured}]
     /\ \E length \in ScanLengths[s] :
          pending' = [pending EXCEPT ![s] = [captured |-> @.completed,
                                             completed |-> @.completed + length]]
  /\ stage' = "idle" /\ scan' = None
  /\ UNCHANGED <<settings, timeline, draft, outcome>>

(* discard_before the earliest pending scan, once no scan is due. *)
StartsAfter(e, t) == e.started_at >= t
Outlives(e, t) == e.ends_at > t
StillPending(kept, t) == {e \in kept : Outlives(e, t)}
Discard ==
  /\ stage = "idle" /\ Due = {} /\ outcome = "ok" /\ measured # None
  /\ LET t == EarliestPending IN
     IF retained_from <= t /\ t <= advanced_to
     THEN /\ events' = [kind \in Kinds |-> StillPending(events[kind], t)]
          /\ voids' = StillPending(voids, t)
          /\ retained_from' = t
          /\ UNCHANGED <<advanced_to, generators, outcome>>
     ELSE outcome' = "invalid" /\ UNCHANGED timeline
  /\ measured' = None
  /\ UNCHANGED <<settings, pending, dropout, drawn, stage, draft, scan>>

AdvanceTimeline ==
  \/ StartInterval \/ GenerateEvent \/ EventsGenerated
  \/ OpenVoid \/ NextExpiry \/ CommitInterval
MeasureScan == (\E s \in Sensors : StartScan(s)) \/ MaskPoints \/ Measure

Next == AdvanceTimeline \/ MeasureScan \/ Discard

Spec == Init /\ [][Next]_vars

-----------------------------------------------------------------------------
(* What is checked. *)

Settled == retained_from..(advanced_to - 1)

(* What happened at a time the timeline has passed never changes, as long  *)
(* as a pending scan may have a point there: advancing closes voids only   *)
(* from now on and adds no event in the past, and discarding takes only    *)
(* events that are over, so that a scan resolves to the same distances     *)
(* whenever it is measured (advance_to, synchronize_voids,                 *)
(* discard_before).                                                        *)
Happening(known, t) == {[e EXCEPT !.ends_at = Never] : e \in Active(known, t)}
HistoryIsSettled ==
  [][\A t \in retained_from'..(advanced_to - 1) :
       /\ \A kind \in Kinds : Happening(events'[kind], t) = Happening(events[kind], t)
       /\ Happening(voids', t) = Happening(voids, t)]_vars

(* At every such time the open voids keep clear of each other and of the   *)
(* boundary, and none is under a surface that has risen over it, though    *)
(* they are placed one by one, expire within an interval and are kept in   *)
(* two lists while it lasts (sample_void_center, maintain_void_coverage).  *)
VoidsFitTheSurface ==
  \A t \in Settled :
    \A e \in Active(voids, t) :
      /\ ClearOfBoundary(e.center, e.radius)
      /\ SurfaceAt(t, e.center) - e.height < Max({settings.voids.cover_height, 1})
      /\ \A f \in Active(voids, t) \ {e} :
           Distance2(e.center, f.center) >= (e.radius + f.radius) * (e.radius + f.radius)

(* No interval of the runtime's loop is refused, and every scan that is    *)
(* due can be resolved: its events are known up to its completion, still   *)
(* kept from its first point on, and valid (advance_with_events,           *)
(* resolve_distances, discard_before).                                     *)
ScansResolve == outcome = "ok"

(* Every point in a dropout reads as zero, however the sensor's scans cut  *)
(* the dropout and whatever reflections and noise come after it            *)
(* (active_mask, generate).                                                *)
DropoutsCoverTheirPoints ==
  measured # None =>
    \A t \in DOMAIN measured.values : Meets(drawn[measured.sensor], t) => measured.values[t] = {0}
=============================================================================
