-------------------------- MODULE SimulationProofs --------------------------
(***************************************************************************)
(* Proofs about what a simulation computes.  SpatialDistortions, for any   *)
(* boundary, places, phases, surface, settings, sensors and scan lengths:  *)
(* what happened before the timeline's end is settled, the open voids fit  *)
(* each other and the surface, every interval and every due scan is        *)
(* accepted, and a dropout covers all of its points.  ScenarioSimulator,   *)
(* for any boundary, scenario and calls: the events are on schedule, the   *)
(* surface stays between floor and top, what falls, slides and is taken    *)
(* adds up, no call fails but for its limits, and phases move the volume   *)
(* that their plans give them.                                             *)
(***************************************************************************)
EXTENDS SpatialDistortions, ScenarioSimulator, HeightFieldProofs

-----------------------------------------------------------------------------
(* The inductive invariant. *)

FallingEvents ==
  [started_at : Nat, ends_at : Nat, center : Lattice, radius : Nat, change : Nat]

CollectionEvents ==
  [started_at : Nat, ends_at : Nat, start_center : Lattice, end_center : Lattice, radius : Nat,
   change : Nat]

Events == FallingEvents \cup CollectionEvents

VoidEvents ==
  [started_at : Nat, expires_at : Nat, ends_at : Nat, center : Lattice, height : Int,
   radius : Nat, change : Nat]

Generators == [seen : Int, next : Int]
Schedulers == [start : Nat, end : Nat \cup {Never}, last : Int]
Dropouts == [start : Nat, end : Nat]

Drafts ==
  [until : Nat, events : SUBSET Events, generator : Generators, voids : SUBSET VoidEvents,
   output : SUBSET VoidEvents, cursor : Nat]

TypeOK ==
  /\ ValidSettings(settings)
  /\ events \in [Kinds -> SUBSET Events] /\ voids \in SUBSET VoidEvents
  /\ advanced_to \in 0..Horizon /\ retained_from \in Nat
  /\ generators \in [Kinds -> Generators]
  /\ pending \in [Sensors -> [captured : Nat, completed : Nat]]
  /\ settings.dropout # None => dropout \in [Sensors -> Schedulers]
  /\ drawn \in [Sensors -> SUBSET Dropouts]
  /\ stage \in {"idle", "events", "voids", "mask", "points"}
  /\ stage \in {"events", "voids"} => draft \in Drafts
  /\ stage \in {"mask", "points"} =>
       /\ scan.sensor \in Sensors /\ scan.masks \in SUBSET Dropouts
       /\ settings.dropout # None =>
            scan \in [sensor : Sensors, scheduler : Schedulers, masks : SUBSET Dropouts]

(* A void is well formed, clear of the boundary, and until this time not   *)
(* covered; two voids that are open at one time are apart.                 *)
OpenAt(e, t) == e.started_at <= t /\ t < e.ends_at

CoverHeight == Max({settings.voids.cover_height, 1})

Uncovered(e, until) ==
  \A t \in Nat : t < until /\ OpenAt(e, t) => SurfaceAt(t, e.center) - e.height < CoverHeight

Fits(e, until) ==
  /\ e.started_at < e.ends_at /\ e.ends_at <= e.expires_at
  /\ ClearOfBoundary(e.center, e.radius)
  /\ settings.voids # None /\ Uncovered(e, until)

Distant(e, f) == Distance2(e.center, f.center) >= (e.radius + f.radius) * (e.radius + f.radius)

Apart(open) ==
  \A e, f \in open : e # f => \A t \in Nat : OpenAt(e, t) /\ OpenAt(f, t) => Distant(e, f)

Timeline ==
  /\ retained_from <= advanced_to
  /\ \A kind \in Kinds : ValidEvents(events[kind])
  /\ \A e \in voids : Fits(e, advanced_to) /\ e.started_at < advanced_to
  /\ Apart(voids)

(* A generator has seen the phase the timeline is in, unless that begins;  *)
(* its next candidate is not in the past.                                  *)
Generating ==
  \A kind \in Kinds :
    /\ generators[kind].seen < advanced_to
    /\ settings[kind] # None /\ advanced_to < Horizon /\ Kind(Current) = kind =>
         /\ generators[kind].seen = Current.started_at => generators[kind].next >= advanced_to
         /\ Current.started_at < advanced_to => generators[kind].seen = Current.started_at

Draft ==
  stage \in {"events", "voids"} =>
    /\ advanced_to < Horizon /\ advanced_to < draft.until /\ draft.until <= Current.ends_at
    /\ \A u \in SurfaceUpdates : u <= advanced_to \/ draft.until <= u
    /\ advanced_to <= draft.cursor /\ draft.cursor < draft.until
    /\ \A e \in draft.voids : Fits(e, draft.until) /\ e.started_at < advanced_to
    /\ \A e \in draft.output :
         Fits(e, draft.until) /\ advanced_to <= e.started_at /\ e.started_at <= draft.cursor
    /\ Apart(draft.voids \cup draft.output)
    /\ \A t \in Nat : t < advanced_to => Happening(draft.voids, t) = Happening(voids, t)
    /\ \A e \in draft.events :
         advanced_to <= e.started_at /\ e.started_at < draft.until /\ e.started_at < e.ends_at
    /\ IF settings[Kind(Current)] = None
       THEN stage = "voids" /\ draft.generator = generators[Kind(Current)]
       ELSE /\ draft.generator.seen = Current.started_at
            /\ draft.generator.next >= IF stage = "voids" THEN draft.until ELSE advanced_to

Rotations ==
  \A s \in Sensors :
    /\ retained_from <= pending[s].captured /\ pending[s].captured <= advanced_to
    /\ pending[s].captured < pending[s].completed

(* The dropouts a sensor's next points can meet are the scheduled one. *)
Scheduled(scheduler, d) ==
  settings.dropout # None /\ scheduler.start = d.start /\ scheduler.end = d.end

Scheduling ==
  \A s \in Sensors :
    /\ settings.dropout # None => dropout[s].last < pending[s].captured
    /\ \A d \in drawn[s] : d.end > pending[s].captured => Scheduled(dropout[s], d)

Scan ==
  stage \in {"mask", "points"} =>
    LET s == scan.sensor IN
    /\ pending[s].completed <= advanced_to
    /\ \A d \in drawn[s] :
         d.end > pending[s].captured => d \in scan.masks \/ Scheduled(scan.scheduler, d)
    /\ IF stage = "mask" THEN \A d \in scan.masks : d.end <= Through(s)
       ELSE /\ settings.dropout # None
            /\ [start |-> scan.scheduler.start, end |-> scan.scheduler.end] \in scan.masks
            /\ \A d \in scan.masks : d.end > Through(s) => Scheduled(scan.scheduler, d)

IInv ==
  /\ TypeOK /\ Timeline /\ Generating /\ Draft /\ Rotations /\ Scheduling /\ Scan
  /\ ScansResolve /\ DropoutsCoverTheirPoints

-----------------------------------------------------------------------------
(* Phases and places. *)

LEMMA PairFacts ==
  ASSUME NEW a \in Int, NEW b \in Int
  PROVE  /\ Min({a, b}) = IF a <= b THEN a ELSE b
         /\ Max({a, b}) = IF a >= b THEN a ELSE b
  BY DEF Min, Max

LEMMA PhaseFacts ==
  ASSUME NEW t \in Nat, t < Horizon
  PROVE  LET p == Phase(t)
         IN  /\ p \in ToSet(Phases) /\ p.started_at <= t /\ t < p.ends_at /\ p.ends_at <= Horizon
             /\ p.started_at \in Nat /\ p.ends_at \in Nat /\ p.phase \in {"filling", "collecting"}
             /\ Kind(p) \in Kinds
<1>1. Horizon \in Nat /\ t \in 0..(Horizon - 1)
  BY PhasesAssumption
<1>2. \E p \in ToSet(Phases) : p.started_at <= t /\ t < p.ends_at
  BY <1>1, PhasesAssumption
<1>3. Phase(t) \in ToSet(Phases) /\ Phase(t).started_at <= t /\ t < Phase(t).ends_at
  BY <1>2 DEF Phase
<1>4. QED
  BY <1>3, PhasesAssumption DEF Kind, Kinds

(* A time is in one phase only. *)
LEMMA SamePhase ==
  ASSUME NEW t \in Nat, t < Horizon, NEW u \in Nat, u < Horizon,
         Phase(t).started_at <= u, u < Phase(t).ends_at
  PROVE  Phase(u) = Phase(t)
<1> DEFINE p == Phase(t)
<1> DEFINE q == Phase(u)
<1>1. /\ p \in ToSet(Phases) /\ q \in ToSet(Phases) /\ q.started_at <= u /\ u < q.ends_at
      /\ {p.started_at, p.ends_at, q.started_at, q.ends_at} \subseteq Nat
  BY PhaseFacts
<1>2. p # q => p.ends_at <= q.started_at \/ q.ends_at <= p.started_at
  BY <1>1, PhasesAssumption
<1>3. QED
  BY <1>1, <1>2

(* The next phase begins where one ends. *)
LEMMA NextPhase ==
  ASSUME NEW t \in Nat, t < Horizon, Phase(t).ends_at < Horizon
  PROVE  Phase(Phase(t).ends_at).started_at = Phase(t).ends_at
<1> DEFINE p == Phase(t)
<1> DEFINE q == Phase(p.ends_at)
<1>1. /\ p \in ToSet(Phases) /\ p.started_at <= t /\ t < p.ends_at
      /\ p.started_at \in Nat /\ p.ends_at \in Nat
  BY PhaseFacts
<1>2. /\ q \in ToSet(Phases) /\ q.started_at <= p.ends_at /\ p.ends_at < q.ends_at
      /\ q.started_at \in Nat /\ q.ends_at \in Nat
  BY <1>1, PhaseFacts
<1>3. p # q
  BY <1>1, <1>2
<1>4. p.ends_at <= q.started_at \/ q.ends_at <= p.started_at
  BY <1>1, <1>2, <1>3, PhasesAssumption
<1>5. QED
  BY <1>1, <1>2, <1>4

(* The surface of an interval is the one at its start. *)
LEMMA SurfaceIsKept ==
  ASSUME NEW from \in Nat, from < Horizon, NEW t \in Nat, from <= t, t < Phase(from).ends_at,
         \A u \in SurfaceUpdates : u <= from \/ t < u, NEW q \in Lattice
  PROVE  SurfaceAt(t, q) = SurfaceAt(from, q) /\ SurfaceAt(from, q) \in Int
<1>1. Phase(from).ends_at \in Nat /\ Phase(from).ends_at <= Horizon /\ Horizon \in Nat
  BY PhaseFacts, PhasesAssumption
<1>2. from \in 0..(Horizon - 1) /\ t \in 0..(Horizon - 1) /\ from \in 0..Horizon
  BY <1>1
<1>3. QED
  BY <1>2, SurfaceAssumption

LEMMA DistanceFacts ==
  ASSUME NEW p \in Lattice, NEW q \in Lattice
  PROVE  Distance2(p, q) = Distance2(q, p) /\ Distance2(p, q) \in Int
<1>1. p \in Int \X Int /\ q \in Int \X Int
  BY SurfaceAssumption
<1>2. ASSUME NEW a \in Int, NEW b \in Int PROVE (a - b) * (a - b) = (b - a) * (b - a)
  BY <1>2
<1>3. /\ (p[1] - q[1]) * (p[1] - q[1]) = (q[1] - p[1]) * (q[1] - p[1])
      /\ (p[2] - q[2]) * (p[2] - q[2]) = (q[2] - p[2]) * (q[2] - p[2])
  BY <1>1, <1>2
<1>4. QED
  BY <1>1, <1>3 DEF Distance2

LEMMA DistantFacts ==
  ASSUME NEW e \in VoidEvents, NEW f \in VoidEvents
  PROVE  Distant(e, f) <=> Distant(f, e)
<1>1. Distance2(e.center, f.center) = Distance2(f.center, e.center)
  BY DistanceFacts DEF VoidEvents
<1>2. e.radius + f.radius = f.radius + e.radius
  BY DEF VoidEvents
<1>3. QED
  BY <1>1, <1>2 DEF Distant

-----------------------------------------------------------------------------
(* What is drawn. *)

LEMMA EndsAtFacts ==
  ASSUME NEW at \in Nat, NEW duration \in Nat \ {0}, NEW p, p.ends_at \in Nat, at < p.ends_at
  PROVE  EndsAt(at, duration, p) \in Nat /\ at < EndsAt(at, duration, p)
<1>1. EndsAt(at, duration, p) = Min({p.ends_at, at + duration})
  BY DEF EndsAt
<1>2. QED
  BY <1>1, PairFacts

(* A new event begins at its candidate's time, within its phase. *)
LEMMA EventFacts ==
  ASSUME ValidSettings(settings), NEW p, settings[Kind(p)] # None,
         NEW at \in Nat, p.ends_at \in Nat, at < p.ends_at,
         NEW new \in EventsAt(at, p), NEW e \in new
  PROVE  e \in Events /\ e.started_at = at /\ at < e.ends_at
<1>1. CASE p.phase = "filling"
  <2>1. new \in FallingAt(at, Inlet(advanced_to, p), p)
    BY <1>1 DEF EventsAt
  <2>2. PICK duration \in settings.falling.duration, radius \in settings.falling.radius,
             center \in FallingCenters(settings.falling.inlet_positions[Inlet(advanced_to, p)]),
             reduction \in settings.falling.reduction :
          new = {[started_at |-> at, ends_at |-> EndsAt(at, duration, p),
                  center |-> center, radius |-> radius, change |-> reduction]}
    BY <2>1 DEF FallingAt
  <2>3. settings.falling # None
    BY <1>1 DEF Kind
  <2>4. duration \in Nat \ {0} /\ radius \in Nat /\ reduction \in Nat /\ center \in Lattice
    BY <2>2, <2>3 DEF ValidSettings, PositiveRange, FallingCenters
  <2>5. EndsAt(at, duration, p) \in Nat /\ at < EndsAt(at, duration, p)
    BY <2>4, EndsAtFacts
  <2>6. QED
    BY <2>2, <2>4, <2>5 DEF Events, FallingEvents
<1>2. CASE p.phase # "filling"
  <2>1. new \in CollectionAt(at, p)
    BY <1>2 DEF EventsAt
  <2>2. PICK radius \in settings.collection.radius :
          \E path \in CollectionPaths(radius), duration \in settings.collection.duration,
             reduction \in settings.collection.reduction :
            new = {[started_at |-> at, ends_at |-> EndsAt(at, duration, p),
                    start_center |-> path[1], end_center |-> path[2],
                    radius |-> radius, change |-> reduction]}
    BY <2>1 DEF CollectionAt
  <2>3. PICK path \in CollectionPaths(radius), duration \in settings.collection.duration,
             reduction \in settings.collection.reduction :
          new = {[started_at |-> at, ends_at |-> EndsAt(at, duration, p),
                  start_center |-> path[1], end_center |-> path[2],
                  radius |-> radius, change |-> reduction]}
    BY <2>2
  <2>4. settings.collection # None
    BY <1>2 DEF Kind
  <2>5. duration \in Nat \ {0} /\ radius \in Nat /\ reduction \in Nat
    BY <2>2, <2>3, <2>4 DEF ValidSettings, PositiveRange
  <2>6. path[1] \in Lattice /\ path[2] \in Lattice
    BY <2>3 DEF CollectionPaths, CollectionPoints
  <2>7. EndsAt(at, duration, p) \in Nat /\ at < EndsAt(at, duration, p)
    BY <2>5, EndsAtFacts
  <2>8. QED
    BY <2>3, <2>5, <2>6, <2>7 DEF Events, CollectionEvents
<1>3. QED
  BY <1>1, <1>2

LEMMA GapFacts ==
  ASSUME ValidSettings(settings), NEW p, settings[Kind(p)] # None
  PROVE  Gaps(p) \subseteq Nat \ {0}
<1>1. CASE p.phase = "filling"
  BY <1>1, SensorsAssumption DEF Gaps
<1>2. CASE p.phase # "filling"
  BY <1>2 DEF Gaps, Kind, ValidSettings, PositiveRange
<1>3. QED
  BY <1>1, <1>2

(* A new void lies clear of the boundary and of the voids that are open. *)
LEMMA VoidFacts ==
  ASSUME ValidSettings(settings), settings.voids # None,
         NEW from \in Nat, from < Horizon, NEW p, NEW at \in Nat, p.ends_at \in Nat, at < p.ends_at,
         NEW open, NEW e \in VoidsAt(at, from, open, p)
  PROVE  /\ e \in VoidEvents /\ e.started_at = at /\ at < e.ends_at /\ e.ends_at = e.expires_at
         /\ ClearOfBoundary(e.center, e.radius) /\ e.height = SurfaceAt(from, e.center)
         /\ \A f \in open : Distant(e, f)
<1>1. PICK radius \in settings.voids.radius :
        \E duration \in settings.voids.duration, increase \in settings.voids.increase,
           center \in VoidCenters(from, radius, open) :
          e = [started_at |-> at, expires_at |-> EndsAt(at, duration, p),
               ends_at |-> EndsAt(at, duration, p), center |-> center,
               height |-> SurfaceAt(from, center), radius |-> radius, change |-> increase]
  BY DEF VoidsAt
<1>2. PICK duration \in settings.voids.duration, increase \in settings.voids.increase,
           center \in VoidCenters(from, radius, open) :
        e = [started_at |-> at, expires_at |-> EndsAt(at, duration, p),
             ends_at |-> EndsAt(at, duration, p), center |-> center,
             height |-> SurfaceAt(from, center), radius |-> radius, change |-> increase]
  BY <1>1
<1>3. duration \in Nat \ {0} /\ radius \in Nat /\ increase \in Nat
  BY <1>1, <1>2 DEF ValidSettings, PositiveRange
<1>4. /\ center \in Lattice /\ ClearOfBoundary(center, radius)
      /\ \A f \in open : Distance2(center, f.center) >= (radius + f.radius) * (radius + f.radius)
  BY <1>2 DEF VoidCenters
<1>5. EndsAt(at, duration, p) \in Nat /\ at < EndsAt(at, duration, p)
  BY <1>3, EndsAtFacts
<1>6. SurfaceAt(from, center) \in Int
  <2>1. from \in 0..Horizon
    BY PhasesAssumption
  <2>2. QED
    BY <1>4, <2>1, SurfaceAssumption
<1>7. e \in VoidEvents
  BY <1>2, <1>3, <1>4, <1>5, <1>6 DEF VoidEvents
<1>8. QED
  BY <1>2, <1>4, <1>5, <1>7 DEF Distant

LEMMA CoverHeightFacts ==
  ASSUME ValidSettings(settings), settings.voids # None
  PROVE  /\ settings.voids.cover_height \in Nat
         /\ CoverHeight = IF settings.voids.cover_height >= 1 THEN settings.voids.cover_height ELSE 1
<1>1. settings.voids.cover_height \in Nat
  BY DEF ValidSettings
<1>2. Max({settings.voids.cover_height, 1})
        = IF settings.voids.cover_height >= 1 THEN settings.voids.cover_height ELSE 1
  <2>1. ASSUME NEW c \in Nat PROVE Max({c, 1}) = IF c >= 1 THEN c ELSE 1
    BY PairFacts
  <2>2. QED
    BY <1>1, <2>1
<1>3. QED
  BY <1>1, <1>2 DEF CoverHeight

-----------------------------------------------------------------------------
(* Closing the covered voids: synchronize_voids. *)

LEMMA SynchronizeFacts ==
  ASSUME TypeOK, Timeline, advanced_to < Horizon, NEW until \in Nat,
         advanced_to < until, until <= Current.ends_at,
         \A u \in SurfaceUpdates : u <= advanced_to \/ until <= u
  PROVE  LET known == SynchronizeVoids(voids, advanced_to, Current)
         IN  /\ known \in SUBSET VoidEvents
             /\ \A e \in known : Fits(e, until) /\ e.started_at < advanced_to
             /\ Apart(known)
             /\ \A t \in Nat : t < advanced_to => Happening(known, t) = Happening(voids, t)
<1> DEFINE p == Current
<1> DEFINE rise(e) == SurfaceAt(advanced_to, e.center) - e.height
<1> DEFINE close(e) == /\ e \in Active(voids, advanced_to)
                       /\ p.phase = "filling"
                            => rise(e) > 0 /\ rise(e) >= settings.voids.cover_height
<1> DEFINE closed(e) == IF close(e) THEN [e EXCEPT !.ends_at = advanced_to] ELSE e
<1> DEFINE known == SynchronizeVoids(voids, advanced_to, p)
<1>1. /\ advanced_to \in Nat /\ voids \in SUBSET VoidEvents /\ ValidSettings(settings)
      /\ \A e \in voids : Fits(e, advanced_to) /\ e.started_at < advanced_to
      /\ Apart(voids)
  BY PhasesAssumption DEF TypeOK, Timeline
<1>2. \A e \in voids : settings.voids # None
  BY <1>1 DEF Fits
<1>3. known = {closed(e) : e \in voids}
  <2>1. CASE settings.voids = None
    BY <1>2, <2>1 DEF SynchronizeVoids
  <2>2. CASE settings.voids # None
    BY <2>2 DEF SynchronizeVoids
  <2>3. QED
    BY <2>1, <2>2
<1>4. ASSUME NEW e \in voids
      PROVE  /\ closed(e) \in VoidEvents /\ closed(e).center = e.center
             /\ closed(e).radius = e.radius /\ closed(e).height = e.height
             /\ closed(e).started_at = e.started_at /\ closed(e).expires_at = e.expires_at
             /\ closed(e).ends_at = IF close(e) THEN advanced_to ELSE e.ends_at
             /\ [closed(e) EXCEPT !.ends_at = Never] = [e EXCEPT !.ends_at = Never]
  <2> HIDE DEF close
  <2>1. e \in VoidEvents
    BY <1>1
  <2>2. CASE close(e)
    <3>1. closed(e) = [e EXCEPT !.ends_at = advanced_to]
      BY <2>2
    <3>2. [e EXCEPT !.ends_at = advanced_to] \in VoidEvents
      BY <1>1, <2>1 DEF VoidEvents
    <3>3. QED
      BY <1>1, <2>1, <2>2, <3>1, <3>2 DEF VoidEvents
  <2>3. CASE ~close(e)
    BY <2>1, <2>3
  <2>4. QED
    BY <2>2, <2>3
<1>5. ASSUME NEW e \in voids
      PROVE  /\ closed(e).ends_at <= e.ends_at /\ closed(e).started_at < advanced_to
             /\ {e.ends_at, e.started_at, e.expires_at, closed(e).ends_at} \subseteq Nat
             /\ \A t \in Nat : /\ OpenAt(closed(e), t) => OpenAt(e, t)
                               /\ t < advanced_to /\ OpenAt(e, t) => OpenAt(closed(e), t)
  <2>1. /\ {e.ends_at, e.started_at, e.expires_at} \subseteq Nat /\ e.started_at < advanced_to
        /\ e.started_at < e.ends_at
    BY <1>1 DEF VoidEvents, Fits
  <2>2. close(e) => advanced_to < e.ends_at
    BY DEF Active
  <2>3. /\ closed(e).started_at = e.started_at
        /\ closed(e).ends_at = IF close(e) THEN advanced_to ELSE e.ends_at
    BY <1>4
  <2> HIDE DEF close, closed
  <2>4. QED
    BY <1>1, <2>1, <2>2, <2>3 DEF OpenAt
<1>6. ASSUME NEW e \in voids PROVE Fits(closed(e), until)
  <2>1. /\ e.started_at < e.ends_at /\ e.ends_at <= e.expires_at
        /\ ClearOfBoundary(e.center, e.radius)
        /\ settings.voids # None /\ Uncovered(e, advanced_to) /\ e \in VoidEvents
        /\ e.started_at < advanced_to
    BY <1>1 DEF Fits
  <2>2. closed(e).started_at < closed(e).ends_at /\ closed(e).ends_at <= closed(e).expires_at
    <3>1. /\ closed(e).ends_at \in {advanced_to, e.ends_at} /\ closed(e).ends_at <= e.ends_at
          /\ closed(e).started_at = e.started_at /\ closed(e).expires_at = e.expires_at
          /\ {e.ends_at, e.started_at, e.expires_at} \subseteq Nat
      BY <1>4, <1>5
    <3> HIDE DEF closed
    <3>2. QED
      BY <1>1, <2>1, <3>1
  <2>3. ASSUME NEW t \in Nat, t < until, OpenAt(closed(e), t)
        PROVE  SurfaceAt(t, e.center) - e.height < CoverHeight
    <3>1. CASE t < advanced_to
      BY <1>5, <2>1, <2>3, <3>1 DEF Uncovered
    <3>2. CASE advanced_to <= t
      <4>1. ~close(e)
        <5>1. close(e) => closed(e).ends_at = advanced_to
          BY <1>4
        <5>2. t < closed(e).ends_at
          BY <2>3 DEF OpenAt
        <5> HIDE DEF close, closed
        <5>3. QED
          BY <1>1, <3>2, <5>1, <5>2
      <4>2. e \in Active(voids, advanced_to)
        <5>1. e.started_at <= advanced_to
          BY <1>1, <2>1 DEF VoidEvents
        <5>2. advanced_to < e.ends_at
          <6>1. t < e.ends_at /\ e.ends_at \in Nat
            BY <1>5, <2>3 DEF OpenAt
          <6>2. QED
            BY <1>1, <3>2, <6>1
        <5>3. QED
          BY <5>1, <5>2 DEF Active
      <4>3. ~(rise(e) > 0 /\ rise(e) >= settings.voids.cover_height)
        BY <4>1, <4>2
      <4>4. SurfaceAt(t, e.center) = SurfaceAt(advanced_to, e.center)
              /\ SurfaceAt(advanced_to, e.center) \in Int
        <5>1. t < Phase(advanced_to).ends_at
          <6>1. Current.ends_at \in Nat
            BY <1>1, PhaseFacts DEF Current
          <6>2. QED
            BY <2>3, <6>1 DEF Current
        <5>2. \A u \in SurfaceUpdates : u <= advanced_to \/ t < u
          BY <1>1, <2>3, SurfaceAssumption
        <5>3. e.center \in Lattice
          BY <2>1 DEF VoidEvents
        <5>4. QED
          BY <1>1, <3>2, <5>1, <5>2, <5>3, SurfaceIsKept
      <4>5. rise(e) \in Int /\ SurfaceAt(t, e.center) - e.height = rise(e)
        BY <2>1, <4>4 DEF VoidEvents
      <4> HIDE DEF rise
      <4>6. rise(e) < CoverHeight
        BY <1>1, <2>1, <4>3, <4>5, CoverHeightFacts
      <4>7. QED
        BY <4>5, <4>6
    <3>3. QED
      BY <1>1, <3>1, <3>2
  <2>4. Uncovered(closed(e), until)
    BY <1>4, <2>3 DEF Uncovered
  <2>5. QED
    BY <1>4, <2>1, <2>2, <2>4 DEF Fits
<1> HIDE DEF closed, known
<1>7. \A g \in known : Fits(g, until) /\ g.started_at < advanced_to /\ g \in VoidEvents
  BY <1>3, <1>4, <1>5, <1>6
<1>8. Apart(known)
  <2> SUFFICES ASSUME NEW g \in known, NEW h \in known, g # h, NEW t \in Nat,
                      OpenAt(g, t), OpenAt(h, t)
               PROVE  Distant(g, h)
    BY DEF Apart
  <2>1. PICK e \in voids, f \in voids : g = closed(e) /\ h = closed(f)
    BY <1>3
  <2>2. e # f /\ OpenAt(e, t) /\ OpenAt(f, t)
    BY <1>5, <2>1
  <2>3. Distant(e, f)
    BY <1>1, <2>2 DEF Apart
  <2>4. QED
    BY <1>4, <2>1, <2>3 DEF Distant
<1>9. ASSUME NEW t \in Nat, t < advanced_to PROVE Happening(known, t) = Happening(voids, t)
  <2>1. Active(known, t) = {closed(e) : e \in Active(voids, t)}
    <3>1. ASSUME NEW g \in Active(known, t)
          PROVE  \E e \in Active(voids, t) : g = closed(e)
      <4>1. PICK e \in voids : g = closed(e)
        BY <1>3, <3>1 DEF Active
      <4>2. OpenAt(e, t)
        BY <1>5, <3>1, <4>1 DEF Active, OpenAt
      <4>3. QED
        BY <4>1, <4>2 DEF Active, OpenAt
    <3>2. ASSUME NEW e \in Active(voids, t) PROVE closed(e) \in Active(known, t)
      <4>1. e \in voids /\ OpenAt(e, t)
        BY DEF Active, OpenAt
      <4>2. OpenAt(closed(e), t) /\ closed(e) \in known
        BY <1>3, <1>5, <1>9, <4>1
      <4>3. QED
        BY <4>2 DEF Active, OpenAt
    <3>3. QED
      BY <3>1, <3>2
  <2>2. \A e \in Active(voids, t) : [closed(e) EXCEPT !.ends_at = Never] = [e EXCEPT !.ends_at = Never]
    BY <1>4 DEF Active
  <2> DEFINE open(e) == [e EXCEPT !.ends_at = Never]
  <2>3. /\ Happening(known, t) = {open(g) : g \in Active(known, t)}
        /\ Happening(voids, t) = {open(e) : e \in Active(voids, t)}
        /\ \A e \in Active(voids, t) : open(closed(e)) = open(e)
    BY <2>2 DEF Happening
  <2> HIDE DEF open
  <2>4. QED
    BY <2>1, <2>3
<1>10. QED
  BY <1>7, <1>8, <1>9 DEF known

-----------------------------------------------------------------------------
(* What a step that leaves the timeline or the sensors alone keeps. *)

LEMMA TimelineKept ==
  ASSUME Timeline, Generating, UNCHANGED <<settings, timeline>>
  PROVE  Timeline' /\ Generating'
<1>1. UNCHANGED <<settings, events, voids, advanced_to, retained_from, generators>>
  BY DEF timeline
<1>2. Timeline'
  BY <1>1 DEF Timeline, Fits, Uncovered, CoverHeight
<1>3. Generating'
  BY <1>1 DEF Generating, Current
<1>4. QED
  BY <1>2, <1>3

LEMMA SensorsKept ==
  ASSUME Scheduling, DropoutsCoverTheirPoints, UNCHANGED <<settings, sensors>>
  PROVE  Scheduling' /\ DropoutsCoverTheirPoints'
<1>1. UNCHANGED <<settings, pending, dropout, measured, drawn>>
  BY DEF sensors
<1>2. Scheduling'
  BY <1>1 DEF Scheduling, Scheduled
<1>3. DropoutsCoverTheirPoints'
  BY <1>1 DEF DropoutsCoverTheirPoints
<1>4. QED
  BY <1>2, <1>3

LEMMA RotationsKept ==
  ASSUME Rotations, UNCHANGED <<advanced_to, retained_from, pending>>
  PROVE  Rotations'
  BY DEF Rotations

(* The turns of a call's loop change what the call works on only. *)
LEMMA TurnKept ==
  ASSUME IInv, UNCHANGED <<settings, timeline, sensors, outcome>>,
         TypeOK', Draft', Scan'
  PROVE  IInv'
<1>1. Timeline' /\ Generating'
  BY TimelineKept DEF IInv
<1>2. Scheduling' /\ DropoutsCoverTheirPoints'
  BY SensorsKept DEF IInv
<1>3. Rotations'
  BY RotationsKept DEF IInv, timeline, sensors
<1>4. ScansResolve'
  BY DEF IInv, ScansResolve
<1>5. QED
  BY <1>1, <1>2, <1>3, <1>4 DEF IInv

LEMMA TimelineFacts ==
  ASSUME TypeOK
  PROVE  /\ advanced_to \in Nat /\ Horizon \in Nat /\ retained_from \in Nat
         /\ advanced_to < Horizon =>
              /\ Current.started_at <= advanced_to /\ advanced_to < Current.ends_at
              /\ Current.started_at \in Nat /\ Current.ends_at \in Nat
              /\ Current.ends_at <= Horizon /\ Kind(Current) \in Kinds
<1>1. advanced_to \in Nat /\ Horizon \in Nat /\ retained_from \in Nat
  BY PhasesAssumption DEF TypeOK
<1>2. QED
  BY <1>1, PhaseFacts DEF Current

-----------------------------------------------------------------------------

LEMMA InitInvariant == Init => IInv
<1> SUFFICES ASSUME Init PROVE IInv
  OBVIOUS
<1>1. ValidSettings(settings) /\ stage = "idle" /\ outcome = "ok" /\ measured = None
  BY DEF Init
<1>2. /\ events = [kind \in Kinds |-> {}] /\ voids = {} /\ advanced_to = 0 /\ retained_from = 0
      /\ generators = [kind \in Kinds |-> [seen |-> -1, next |-> -1]]
      /\ drawn = [s \in Sensors |-> {}]
  BY DEF Init, Never
<1>3. PICK first : /\ pending = [s \in Sensors |-> [captured |-> 0, completed |-> first[s]]]
                   /\ \A s \in Sensors : first[s] \in ScanLengths[s]
  BY DEF Init
<1>4. /\ pending \in [Sensors -> [captured : Nat, completed : Nat]]
      /\ \A s \in Sensors : pending[s].captured = 0 /\ pending[s].captured < pending[s].completed
  BY <1>3, SensorsAssumption
<1>5. settings.dropout # None =>
        /\ dropout \in [Sensors -> Schedulers]
        /\ \A s \in Sensors : dropout[s].last = -1
  <2> SUFFICES ASSUME settings.dropout # None
               PROVE  /\ dropout \in [Sensors -> Schedulers]
                      /\ \A s \in Sensors : dropout[s].last = -1
    OBVIOUS
  <2> DEFINE S == {[start |-> at, end |-> Never, last |-> Never] : at \in settings.dropout.interval}
  <2>1. settings.dropout.interval \subseteq Nat
    BY <1>1 DEF ValidSettings, PositiveRange
  <2>2. \A x \in S : x \in Schedulers /\ x.last = -1
    BY <2>1 DEF Schedulers, Never
  <2>3. dropout \in [Sensors -> S]
    BY DEF Init
  <2> HIDE DEF S
  <2>4. QED
    BY <2>2, <2>3
<1>6. TypeOK
  <2>1. advanced_to \in 0..Horizon
    BY <1>2, PhasesAssumption
  <2>2. generators \in [Kinds -> Generators]
    BY <1>2 DEF Generators
  <2>3. QED
    BY <1>1, <1>2, <1>4, <1>5, <2>1, <2>2 DEF TypeOK
<1>7. Timeline
  BY <1>2 DEF Timeline, ValidEvents, Apart
<1>8. Generating
  <2>1. ASSUME NEW kind \in Kinds PROVE generators[kind].seen = -1 /\ generators[kind].next = -1
    BY <1>2
  <2>2. 0 < Horizon => Current.started_at \in Nat /\ Current = Phase(0)
    BY <1>2, PhaseFacts DEF Current
  <2>3. QED
    BY <1>2, <2>1, <2>2 DEF Generating
<1>9. Draft /\ Scan
  BY <1>1 DEF Draft, Scan
<1>10. Rotations
  BY <1>2, <1>4 DEF Rotations
<1>11. Scheduling
  BY <1>2, <1>4, <1>5 DEF Scheduling
<1>12. QED
  BY <1>1, <1>6, <1>7, <1>8, <1>9, <1>10, <1>11 DEF IInv, ScansResolve, DropoutsCoverTheirPoints

-----------------------------------------------------------------------------
(* An interval of the timeline. *)

LEMMA IntervalFacts ==
  ASSUME TypeOK, Due = {}, EarliestCompletion <= Horizon
  PROVE  /\ advanced_to < Horizon /\ IntervalEnd \in Nat /\ advanced_to < IntervalEnd
         /\ IntervalEnd <= Current.ends_at
         /\ \A u \in SurfaceUpdates : u <= advanced_to \/ IntervalEnd <= u
<1>1. advanced_to \in Nat /\ Horizon \in Nat
  BY TimelineFacts
<1>2. \A s \in Sensors : pending[s].completed \in Nat /\ pending[s].completed > advanced_to
  BY <1>1 DEF TypeOK, Due
<1> DEFINE completions == {pending[s].completed : s \in Sensors}
<1>3. completions \subseteq Nat /\ completions # {} /\ \A n \in completions : n > advanced_to
  BY <1>2, SensorsAssumption
<1>4. EarliestCompletion \in completions
  BY <1>3, LeastNumber DEF EarliestCompletion
<1>5. EarliestCompletion \in Nat /\ advanced_to < EarliestCompletion /\ advanced_to < Horizon
  BY <1>1, <1>3, <1>4
<1> DEFINE S == {EarliestCompletion, Current.ends_at} \cup {u \in SurfaceUpdates : u > advanced_to}
<1>6. Current.ends_at \in Nat /\ advanced_to < Current.ends_at
  BY <1>5, TimelineFacts
<1>7. S \subseteq Nat /\ S # {} /\ \A n \in S : advanced_to < n
  BY <1>5, <1>6, SurfaceAssumption
<1>8. Min(S) \in S /\ \A n \in S : Min(S) <= n
  <2> HIDE DEF S
  <2>1. QED
    BY <1>7, LeastNumber
<1>9. IntervalEnd = Min(S)
  BY DEF IntervalEnd
<1>10. ASSUME NEW u \in SurfaceUpdates PROVE u <= advanced_to \/ IntervalEnd <= u
  <2>1. u \in Nat
    BY SurfaceAssumption
  <2>2. u > advanced_to => u \in S
    OBVIOUS
  <2> HIDE DEF S
  <2>3. QED
    BY <1>1, <1>8, <1>9, <2>1, <2>2
<1>11. Current.ends_at \in S
  OBVIOUS
<1>12. QED
  <2> HIDE DEF S
  <2>1. IntervalEnd \in Nat /\ advanced_to < IntervalEnd /\ IntervalEnd <= Current.ends_at
    BY <1>7, <1>8, <1>9, <1>11
  <2>2. QED
    BY <1>5, <1>10, <2>1

(* What is observed of the phase begins there, and its first candidate is  *)
(* not in the past.                                                        *)
LEMMA ObservedFacts ==
  ASSUME TypeOK, Generating, advanced_to < Horizon, settings[Kind(Current)] # None
  PROVE  LET generator == generators[Kind(Current)]
         IN  /\ SeenFromStart(generator, Current)
             /\ \A observed \in Observed(generator, Current) :
                  /\ observed \in Generators /\ observed.seen = Current.started_at
                  /\ observed.next >= advanced_to
<1> DEFINE p == Current
<1> DEFINE generator == generators[Kind(p)]
<1>1. /\ advanced_to \in Nat /\ p.started_at <= advanced_to /\ p.started_at \in Nat
      /\ Kind(p) \in Kinds
  BY TimelineFacts
<1>2. generator \in Generators
  BY <1>1 DEF TypeOK
<1>3. generator.seen = p.started_at \/ advanced_to = p.started_at
  BY <1>1 DEF Generating
<1>4. generator.seen = p.started_at => generator.next >= advanced_to
  BY <1>1 DEF Generating, Current
<1>5. ASSUME NEW observed \in Observed(generator, p)
      PROVE  observed \in Generators /\ observed.seen = p.started_at /\ observed.next >= advanced_to
  <2>1. CASE generator.seen = p.started_at
    BY <1>2, <1>4, <2>1 DEF Observed
  <2>2. CASE generator.seen # p.started_at
    <3>1. PICK gap \in Gaps(p) :
            observed = [seen |-> p.started_at, next |-> p.started_at + gap]
      BY <2>2 DEF Observed
    <3>2. gap \in Nat /\ gap > 0
      BY GapFacts DEF TypeOK
    <3>3. advanced_to = p.started_at
      BY <1>3, <2>2
    <3> HIDE DEF p
    <3>4. QED
      BY <1>1, <3>1, <3>2, <3>3 DEF Generators
  <2>3. QED
    BY <2>1, <2>2
<1>6. QED
  BY <1>3, <1>5 DEF SeenFromStart

LEMMA StepStartInterval == IInv /\ StartInterval => IInv'
<1> SUFFICES ASSUME IInv, StartInterval PROVE IInv'
  OBVIOUS
<1> DEFINE p == Current
<1> DEFINE generator == generators[Kind(p)]
<1> DEFINE generates == settings[Kind(p)] # None
<1>1. TypeOK /\ Timeline /\ Generating /\ UNCHANGED <<settings, timeline, sensors, scan>>
  BY DEF IInv, StartInterval
<1>2. /\ advanced_to < Horizon /\ IntervalEnd \in Nat /\ advanced_to < IntervalEnd
      /\ IntervalEnd <= Current.ends_at
      /\ \A u \in SurfaceUpdates : u <= advanced_to \/ IntervalEnd <= u
  BY <1>1, IntervalFacts DEF StartInterval
<1>3. /\ advanced_to \in Nat /\ p.started_at \in Nat /\ p.started_at <= advanced_to
      /\ Kind(p) \in Kinds
  BY <1>1, <1>2, TimelineFacts
<1>4. ~(generates /\ ~SeenFromStart(generator, p))
  BY <1>1, <1>2, ObservedFacts
<1>5. PICK observed \in IF generates THEN Observed(generator, p) ELSE {generator} :
        /\ draft' = [until |-> IntervalEnd, events |-> {}, generator |-> observed,
                     voids |-> SynchronizeVoids(voids, advanced_to, p), output |-> {},
                     cursor |-> advanced_to]
        /\ stage' = IF generates THEN "events" ELSE "voids"
        /\ UNCHANGED outcome
  BY <1>4 DEF StartInterval
<1>6. /\ observed \in Generators
      /\ IF generates THEN observed.seen = p.started_at /\ observed.next >= advanced_to
                      ELSE observed = generator
  <2>1. CASE generates
    BY <1>1, <1>2, <1>5, <2>1, ObservedFacts
  <2>2. CASE ~generates
    BY <1>1, <1>3, <1>5, <2>2 DEF TypeOK
  <2>3. QED
    BY <2>1, <2>2
<1>named. PICK known, until : known = SynchronizeVoids(voids, advanced_to, p) /\ until = IntervalEnd
  OBVIOUS
<1>7. /\ known \in SUBSET VoidEvents
      /\ \A e \in known : Fits(e, until) /\ e.started_at < advanced_to
      /\ Apart(known)
      /\ \A t \in Nat : t < advanced_to => Happening(known, t) = Happening(voids, t)
  BY <1>1, <1>2, <1>named, SynchronizeFacts
<1>8. /\ UNCHANGED <<settings, events, voids, advanced_to, retained_from, generators>>
      /\ UNCHANGED <<pending, dropout, measured, drawn, scan>>
      /\ p' = p
  BY <1>1 DEF timeline, sensors, Current
<1>9. /\ draft'.until = until /\ draft'.events = {} /\ draft'.generator = observed
      /\ draft'.voids = known /\ draft'.output = {} /\ draft'.cursor = advanced_to
  BY <1>5, <1>named
<1>10. stage' \in {"events", "voids"} /\ (~generates => stage' = "voids")
       /\ (generates => stage' = "events")
  BY <1>5
<1>11. TypeOK'
  <2>1. draft' \in Drafts
    BY <1>2, <1>3, <1>5, <1>6, <1>7, <1>named DEF Drafts
  <2>2. QED
    BY <1>1, <1>8, <1>10, <2>1 DEF TypeOK
<1>12. Draft'
  <2>1. \A e \in known : Fits(e, until)' /\ e.started_at < advanced_to'
    BY <1>7, <1>8 DEF Fits, Uncovered, CoverHeight
  <2>3. (\A e \in draft.voids : Fits(e, draft.until) /\ e.started_at < advanced_to)'
    BY <1>9, <2>1
  <2>4. (\A t \in Nat : t < advanced_to => Happening(draft.voids, t) = Happening(voids, t))'
    BY <1>7, <1>8, <1>9
  <2>5. Apart(draft.voids \cup draft.output)'
    <3>1. draft'.voids \cup draft'.output = known
      BY <1>9
    <3>2. QED
      BY <1>7, <3>1 DEF Apart
  <2>6. IF settings'[Kind(p')] = None
        THEN stage' = "voids" /\ draft'.generator = generators'[Kind(p')]
        ELSE /\ draft'.generator.seen = p'.started_at
             /\ draft'.generator.next >= IF stage' = "voids" THEN draft'.until ELSE advanced_to'
    BY <1>6, <1>8, <1>9, <1>10
  <2>7. /\ advanced_to' < Horizon /\ advanced_to' < draft'.until /\ draft'.until <= p'.ends_at
        /\ \A u \in SurfaceUpdates : u <= advanced_to' \/ draft'.until <= u
        /\ advanced_to' <= draft'.cursor /\ draft'.cursor < draft'.until
    BY <1>2, <1>3, <1>8, <1>9, <1>named
  <2>8. draft'.events = {} /\ draft'.output = {}
    BY <1>9
  <2>9. QED
    BY <2>3, <2>4, <2>5, <2>6, <2>7, <2>8 DEF Draft
<1>13. Scan'
  BY <1>10 DEF Scan
<1>14. QED
  BY <1>1, <1>5, <1>11, <1>12, <1>13, TurnKept

(* What the turns of an interval share. *)
LEMMA IntervalTurn ==
  ASSUME IInv, stage \in {"events", "voids"}, stage' \in {"events", "voids"},
         UNCHANGED <<settings, timeline, sensors, scan, outcome>>, draft' \in Drafts, Draft'
  PROVE  IInv'
<1>1. /\ UNCHANGED <<settings, events, voids, advanced_to, retained_from, generators>>
      /\ UNCHANGED <<pending, dropout, measured, drawn, scan>>
  BY DEF timeline, sensors
<1>2. TypeOK'
  BY <1>1 DEF IInv, TypeOK
<1>3. Scan'
  BY DEF Scan
<1>4. QED
  BY <1>2, <1>3, TurnKept

LEMMA StepGenerateEvent == IInv /\ GenerateEvent => IInv'
<1> SUFFICES ASSUME IInv, GenerateEvent PROVE IInv'
  OBVIOUS
<1>1. /\ stage = "events" /\ draft.generator.next < draft.until
      /\ UNCHANGED <<settings, timeline, sensors, stage, scan, outcome>>
  BY DEF GenerateEvent
<1>2. PICK new \in EventsAt(draft.generator.next, Current), gap \in Gaps(Current) :
        draft' = [draft EXCEPT !.events = @ \cup new, !.generator.next = @ + gap]
  BY DEF GenerateEvent
<1>3. TypeOK /\ Draft /\ ValidSettings(settings) /\ draft \in Drafts
  BY <1>1 DEF IInv, TypeOK
<1>4. /\ advanced_to < Horizon /\ draft.until <= Current.ends_at
      /\ settings[Kind(Current)] # None
      /\ draft.generator.seen = Current.started_at /\ draft.generator.next >= advanced_to
  BY <1>1, <1>3 DEF Draft
<1>5. advanced_to \in Nat /\ Current.ends_at \in Nat
  BY <1>3, <1>4, TimelineFacts
<1>6. PICK next : next = draft.generator.next
  OBVIOUS
<1>7. next \in Nat /\ next < Current.ends_at /\ draft.until \in Nat /\ next < draft.until
  <2>1. draft.generator.next \in Int /\ draft.until \in Nat
    BY <1>3 DEF Drafts, Generators
  <2>2. QED
    BY <1>1, <1>4, <1>5, <1>6, <2>1
<1>8. gap \in Nat /\ gap > 0
  BY <1>3, <1>4, GapFacts
<1>9. \A e \in new : e \in Events /\ e.started_at = next /\ next < e.ends_at
  BY <1>2, <1>3, <1>4, <1>5, <1>6, <1>7, EventFacts
<1>10. /\ draft' \in Drafts
       /\ draft'.until = draft.until /\ draft'.voids = draft.voids /\ draft'.output = draft.output
       /\ draft'.cursor = draft.cursor /\ draft'.events = draft.events \cup new
       /\ draft'.generator.seen = draft.generator.seen /\ draft'.generator.next = next + gap
  <2>1. draft.generator \in Generators /\ new \subseteq Events /\ draft.events \subseteq Events
    BY <1>3, <1>9 DEF Drafts
  <2>2. draft' = [draft EXCEPT !.events = draft.events \cup new,
                               !.generator = [draft.generator EXCEPT !.next = next + gap]]
    BY <1>2, <1>3, <1>6 DEF Drafts
  <2>3. [draft.generator EXCEPT !.next = next + gap] \in Generators
        /\ [draft.generator EXCEPT !.next = next + gap].seen = draft.generator.seen
        /\ [draft.generator EXCEPT !.next = next + gap].next = next + gap
    BY <1>7, <1>8, <2>1 DEF Generators
  <2>4. QED
    BY <1>3, <2>1, <2>2, <2>3 DEF Drafts
<1>11. /\ UNCHANGED <<settings, events, voids, advanced_to, retained_from, generators>>
       /\ Current' = Current
  BY <1>1 DEF timeline, Current
<1>12. Draft'
  <2>1. \A e \in draft'.events :
          advanced_to <= e.started_at /\ e.started_at < draft.until /\ e.started_at < e.ends_at
    <3>1. ASSUME NEW e \in new
          PROVE  advanced_to <= e.started_at /\ e.started_at < draft.until /\ e.started_at < e.ends_at
      BY <1>4, <1>6, <1>7, <1>9
    <3>2. QED
      BY <1>1, <1>3, <1>10, <3>1 DEF Draft
  <2>2. draft'.generator.next >= advanced_to
    BY <1>4, <1>5, <1>6, <1>7, <1>8, <1>10
  <2>3. QED
    BY <1>1, <1>3, <1>4, <1>10, <1>11, <2>1, <2>2 DEF Draft, Fits, Uncovered, CoverHeight
<1>13. QED
  BY <1>1, <1>10, <1>12, IntervalTurn

LEMMA StepEventsGenerated == IInv /\ EventsGenerated => IInv'
<1> SUFFICES ASSUME IInv, EventsGenerated PROVE IInv'
  OBVIOUS
<1>1. /\ stage = "events" /\ draft.generator.next >= draft.until /\ stage' = "voids"
      /\ UNCHANGED <<settings, timeline, sensors, draft, scan, outcome>>
  BY DEF EventsGenerated
<1>2. Draft /\ draft \in Drafts
  BY <1>1 DEF IInv, TypeOK
<1>3. /\ UNCHANGED <<settings, events, voids, advanced_to, retained_from, generators>>
      /\ Current' = Current
  BY <1>1 DEF timeline, Current
<1>4. Draft'
  BY <1>1, <1>2, <1>3 DEF Draft, Fits, Uncovered, CoverHeight
<1>5. QED
  BY <1>1, <1>2, <1>4, IntervalTurn

LEMMA StepOpenVoid == IInv /\ OpenVoid => IInv'
<1> SUFFICES ASSUME IInv, OpenVoid PROVE IInv'
  OBVIOUS
<1>1. /\ stage = "voids" /\ settings.voids # None
      /\ UNCHANGED <<settings, timeline, sensors, stage, scan, outcome>>
  BY DEF OpenVoid, MaintainsVoids
<1>2. PICK e \in VoidsAt(draft.cursor, advanced_to, Open, Current) :
        draft' = [draft EXCEPT !.output = @ \cup {e}]
  BY DEF OpenVoid
<1>3. TypeOK /\ Draft /\ ValidSettings(settings) /\ draft \in Drafts
  BY <1>1 DEF IInv, TypeOK
<1>4. /\ advanced_to < Horizon /\ draft.until <= Current.ends_at
      /\ \A u \in SurfaceUpdates : u <= advanced_to \/ draft.until <= u
      /\ advanced_to <= draft.cursor /\ draft.cursor < draft.until
      /\ Apart(draft.voids \cup draft.output)
  BY <1>1, <1>3 DEF Draft
<1>5. /\ advanced_to \in Nat /\ Current.ends_at \in Nat /\ draft.cursor \in Nat /\ draft.until \in Nat
      /\ draft.voids \subseteq VoidEvents /\ draft.output \subseteq VoidEvents
  BY <1>3, <1>4, TimelineFacts DEF Drafts
<1>6. draft.cursor < Current.ends_at
  BY <1>4, <1>5
<1>7. /\ e \in VoidEvents /\ e.started_at = draft.cursor /\ e.started_at < e.ends_at
      /\ e.ends_at = e.expires_at
      /\ ClearOfBoundary(e.center, e.radius) /\ e.height = SurfaceAt(advanced_to, e.center)
      /\ \A f \in Open : Distant(e, f)
  BY <1>1, <1>2, <1>3, <1>4, <1>5, <1>6, VoidFacts
<1>8. Fits(e, draft.until)
  <2>1. ASSUME NEW t \in Nat, t < draft.until, OpenAt(e, t)
        PROVE  SurfaceAt(t, e.center) - e.height < CoverHeight
    <3>1. advanced_to <= t /\ t < Current.ends_at
      BY <1>4, <1>5, <1>7, <2>1 DEF OpenAt
    <3>2. \A u \in SurfaceUpdates : u <= advanced_to \/ t < u
      <4>1. ASSUME NEW u \in SurfaceUpdates PROVE u <= advanced_to \/ t < u
        <5>1. u \in Nat /\ (u <= advanced_to \/ draft.until <= u)
          BY <1>4, SurfaceAssumption
        <5>2. QED
          BY <1>5, <2>1, <5>1
      <4>2. QED
        BY <4>1
    <3>3. /\ SurfaceAt(t, e.center) = SurfaceAt(advanced_to, e.center)
          /\ SurfaceAt(advanced_to, e.center) \in Int
      <4>1. e.center \in Lattice /\ t < Phase(advanced_to).ends_at
        BY <1>7, <3>1 DEF VoidEvents, Current
      <4>2. QED
        BY <1>4, <1>5, <3>1, <3>2, <4>1, SurfaceIsKept
    <3>4. CoverHeight >= 1 /\ CoverHeight \in Nat
      BY <1>1, <1>3, CoverHeightFacts
    <3>5. QED
      BY <1>7, <3>3, <3>4
  <2>2. e.ends_at <= e.expires_at
    BY <1>7 DEF VoidEvents
  <2>3. QED
    BY <1>1, <1>7, <2>1, <2>2 DEF Fits, Uncovered
<1>9. /\ draft' \in Drafts
      /\ draft'.until = draft.until /\ draft'.voids = draft.voids
      /\ draft'.output = draft.output \cup {e} /\ draft'.cursor = draft.cursor
      /\ draft'.events = draft.events /\ draft'.generator = draft.generator
  BY <1>2, <1>3, <1>7 DEF Drafts
<1>10. Apart(draft'.voids \cup draft'.output)
  <2> DEFINE known == draft.voids \cup draft.output
  <2>1. ASSUME NEW f \in known, NEW t \in Nat, OpenAt(e, t), OpenAt(f, t)
        PROVE  Distant(e, f) /\ Distant(f, e)
    <3>1. f.started_at \in Nat /\ f.ends_at \in Nat /\ f \in VoidEvents
      BY <1>5 DEF VoidEvents
    <3>2. f.started_at <= draft.cursor
      <4>1. f.started_at < advanced_to \/ f.started_at <= draft.cursor
        BY <1>1, <1>3 DEF Draft
      <4>2. QED
        BY <1>4, <1>5, <3>1, <4>1
    <3>3. draft.cursor <= t /\ t < f.ends_at
      BY <1>7, <2>1 DEF OpenAt
    <3>4. draft.cursor < f.ends_at
      BY <1>5, <3>1, <3>3
    <3>5. f \in Open
      BY <3>2, <3>4 DEF Open, KnownVoids, Active
    <3>6. QED
      BY <1>7, <3>1, <3>5, DistantFacts
  <2>2. draft'.voids \cup draft'.output = known \cup {e}
    BY <1>9
  <2>3. Apart(known \cup {e})
    <3> SUFFICES ASSUME NEW g \in known \cup {e}, NEW h \in known \cup {e}, g # h, NEW t \in Nat,
                        OpenAt(g, t), OpenAt(h, t)
                 PROVE  Distant(g, h)
      BY DEF Apart
    <3>1. CASE g \in known /\ h \in known
      BY <1>4, <3>1 DEF Apart
    <3>2. CASE g = e /\ h \in known
      BY <2>1, <3>2
    <3>3. CASE g \in known /\ h = e
      BY <2>1, <3>3
    <3>4. QED
      BY <3>1, <3>2, <3>3
  <2>4. QED
    BY <2>2, <2>3
<1>11. /\ UNCHANGED <<settings, events, voids, advanced_to, retained_from, generators>>
       /\ Current' = Current
  BY <1>1 DEF timeline, Current
<1>12. Draft'
  <2>1. \A f \in draft'.output :
          Fits(f, draft.until) /\ advanced_to <= f.started_at /\ f.started_at <= draft.cursor
    <3>1. Fits(e, draft.until) /\ advanced_to <= e.started_at /\ e.started_at <= draft.cursor
      BY <1>4, <1>5, <1>7, <1>8
    <3>2. QED
      BY <1>1, <1>3, <1>9, <3>1 DEF Draft
  <2>2. Apart(draft.voids \cup draft.output)'
    BY <1>10 DEF Apart
  <2>3. QED
    BY <1>1, <1>3, <1>9, <1>11, <2>1, <2>2 DEF Draft, Fits, Uncovered, CoverHeight
<1>13. QED
  BY <1>1, <1>9, <1>12, IntervalTurn

LEMMA StepNextExpiry == IInv /\ NextExpiry => IInv'
<1> SUFFICES ASSUME IInv, NextExpiry PROVE IInv'
  OBVIOUS
<1>1. /\ stage = "voids" /\ draft' = [draft EXCEPT !.cursor = Min(Expiries)]
      /\ UNCHANGED <<settings, timeline, sensors, stage, scan, outcome>>
  BY DEF NextExpiry
<1>2. PICK end \in Expiries : end < draft.until
  BY DEF NextExpiry, ExpiresWithin
<1>3. TypeOK /\ Draft /\ draft \in Drafts
  BY <1>1 DEF IInv, TypeOK
<1>4. /\ advanced_to < Horizon /\ advanced_to <= draft.cursor /\ draft.cursor < draft.until
  BY <1>1, <1>3 DEF Draft
<1>5. advanced_to \in Nat /\ draft.cursor \in Nat /\ draft.until \in Nat
  BY <1>3, TimelineFacts DEF Drafts
<1>6. \A n \in Expiries : n \in Nat /\ draft.cursor < n
  <2>1. ASSUME NEW e \in Open PROVE e.ends_at \in Nat /\ draft.cursor < e.ends_at
    <3>1. e \in VoidEvents
      BY <1>3 DEF Open, KnownVoids, Active, Drafts
    <3>2. QED
      BY <3>1 DEF Open, Active, VoidEvents
  <2>2. QED
    BY <2>1 DEF Expiries
<1>7. Min(Expiries) \in Expiries /\ Min(Expiries) <= end
  BY <1>2, <1>6, LeastNumber
<1>8. PICK cursor : cursor = Min(Expiries)
  OBVIOUS
<1>9. cursor \in Nat /\ draft.cursor < cursor /\ cursor < draft.until
  BY <1>2, <1>5, <1>6, <1>7, <1>8
<1>10. /\ draft' \in Drafts
       /\ draft'.until = draft.until /\ draft'.voids = draft.voids /\ draft'.output = draft.output
       /\ draft'.cursor = cursor
       /\ draft'.events = draft.events /\ draft'.generator = draft.generator
  BY <1>1, <1>3, <1>8, <1>9 DEF Drafts
<1>11. /\ UNCHANGED <<settings, events, voids, advanced_to, retained_from, generators>>
       /\ Current' = Current
  BY <1>1 DEF timeline, Current
<1>12. Draft'
  <2>1. \A f \in draft'.output :
          Fits(f, draft.until) /\ advanced_to <= f.started_at /\ f.started_at <= cursor
    <3>1. ASSUME NEW f \in draft.output
          PROVE  Fits(f, draft.until) /\ advanced_to <= f.started_at /\ f.started_at <= draft.cursor
                 /\ f.started_at \in Nat
      BY <1>1, <1>3 DEF Draft, Drafts, VoidEvents
    <3>2. QED
      BY <1>5, <1>9, <1>10, <3>1
  <2>2. advanced_to <= cursor
    BY <1>4, <1>5, <1>9
  <2>3. QED
    BY <1>1, <1>3, <1>9, <1>10, <1>11, <2>1, <2>2 DEF Draft, Fits, Uncovered, CoverHeight
<1>13. QED
  BY <1>1, <1>10, <1>12, IntervalTurn

(* The interval's end is in the same phase, or begins the next one. *)
LEMMA IntervalEndFacts ==
  ASSUME TypeOK, Draft, stage = "voids", draft.until < Horizon
  PROVE  LET p == Phase(draft.until)
         IN  p = Current \/ p.started_at = draft.until
<1>1. /\ advanced_to < Horizon /\ advanced_to < draft.until /\ draft.until <= Current.ends_at
      /\ draft.until \in Nat
  BY DEF Draft, TypeOK, Drafts
<1>2. /\ advanced_to \in Nat /\ Current.started_at \in Nat /\ Current.started_at <= advanced_to
      /\ Current.ends_at \in Nat
  BY <1>1, TimelineFacts
<1>3. CASE draft.until < Current.ends_at
  <2>1. Phase(advanced_to).started_at <= draft.until /\ draft.until < Phase(advanced_to).ends_at
    BY <1>1, <1>2, <1>3 DEF Current
  <2>2. QED
    BY <1>1, <1>2, <2>1, SamePhase DEF Current
<1>4. CASE draft.until = Current.ends_at
  BY <1>1, <1>2, <1>4, NextPhase DEF Current
<1>5. QED
  BY <1>1, <1>2, <1>3, <1>4

(* What CommitInterval does, its checks being met. *)
LEMMA CommitFacts ==
  ASSUME IInv, CommitInterval
  PROVE  /\ stage = "voids" /\ stage' = "idle" /\ Kind(Current) \in Kinds
         /\ UNCHANGED <<settings, pending, dropout, measured, drawn, retained_from, scan, outcome>>
         /\ events' = [events EXCEPT ![Kind(Current)] = @ \cup draft.events]
         /\ voids' = draft.voids \cup draft.output
         /\ generators' = [generators EXCEPT ![Kind(Current)] = draft.generator]
         /\ advanced_to' = draft.until
<1>1. stage = "voids" /\ TypeOK /\ Draft /\ draft \in Drafts
  BY DEF CommitInterval, IInv, TypeOK
<1>2. /\ advanced_to < Horizon /\ advanced_to \in Nat /\ draft.until \in Nat
      /\ draft.cursor \in Nat /\ draft.cursor < draft.until /\ Kind(Current) \in Kinds
  BY <1>1, TimelineFacts DEF Draft, Drafts
<1>3. \A e \in draft.events :
        /\ e.started_at \in Nat /\ advanced_to <= e.started_at /\ e.started_at < draft.until
        /\ e.started_at < e.ends_at
  BY <1>1 DEF Draft, Drafts, Events, FallingEvents, CollectionEvents
<1>4. \A e \in draft.output :
        /\ e.started_at \in Nat /\ advanced_to <= e.started_at /\ e.started_at <= draft.cursor
        /\ e.started_at < e.ends_at /\ e.ends_at <= e.expires_at
  BY <1>1 DEF Draft, Drafts, VoidEvents, Fits
<1>5. StartWithin
  BY <1>2, <1>3, <1>4 DEF StartWithin
<1>6. ValidEvents(draft.events) /\ ValidVoids(draft.output)
  BY <1>3, <1>4 DEF ValidVoids, ValidEvents
<1>7. QED
  BY <1>1, <1>2, <1>5, <1>6 DEF CommitInterval, sensors

LEMMA StepCommitInterval == IInv /\ CommitInterval => IInv'
<1> SUFFICES ASSUME IInv, CommitInterval PROVE IInv'
  OBVIOUS
<1>1. /\ stage = "voids" /\ stage' = "idle" /\ Kind(Current) \in Kinds
      /\ UNCHANGED <<settings, pending, dropout, measured, drawn, retained_from, scan, outcome>>
      /\ events' = [events EXCEPT ![Kind(Current)] = @ \cup draft.events]
      /\ voids' = draft.voids \cup draft.output
      /\ generators' = [generators EXCEPT ![Kind(Current)] = draft.generator]
      /\ advanced_to' = draft.until
  BY CommitFacts
<1>2. TypeOK /\ Timeline /\ Generating /\ Draft /\ Rotations /\ draft \in Drafts
  BY <1>1 DEF IInv, TypeOK
<1>3. /\ advanced_to < Horizon /\ advanced_to < draft.until /\ draft.until <= Current.ends_at
      /\ draft.cursor < draft.until
  BY <1>1, <1>2 DEF Draft
<1>4. /\ advanced_to \in Nat /\ Horizon \in Nat /\ retained_from \in Nat
      /\ Current.started_at \in Nat /\ Current.started_at <= advanced_to
      /\ Current.ends_at \in Nat /\ Current.ends_at <= Horizon
      /\ draft.until \in Nat /\ draft.cursor \in Nat
  BY <1>2, <1>3, TimelineFacts DEF Drafts
<1>5. /\ draft.events \subseteq Events /\ draft.voids \subseteq VoidEvents
      /\ draft.output \subseteq VoidEvents /\ draft.generator \in Generators
  BY <1>2 DEF Drafts
<1>6. TypeOK'
  <2>1. events' \in [Kinds -> SUBSET Events] /\ generators' \in [Kinds -> Generators]
    BY <1>1, <1>2, <1>5 DEF TypeOK
  <2>2. voids' \in SUBSET VoidEvents /\ advanced_to' \in 0..Horizon
    BY <1>1, <1>3, <1>4, <1>5
  <2>3. QED
    BY <1>1, <1>2, <2>1, <2>2 DEF TypeOK
<1>7. Timeline'
  <2>1. retained_from' <= advanced_to'
    BY <1>1, <1>2, <1>3, <1>4 DEF Timeline
  <2>2. ASSUME NEW kind \in Kinds PROVE ValidEvents(events'[kind])
    <3>1. \A e \in draft.events : 0 <= e.started_at /\ e.started_at < e.ends_at
      BY <1>1, <1>2, <1>5 DEF Draft, Events, FallingEvents, CollectionEvents
    <3>2. events'[kind] \subseteq events[kind] \cup draft.events
      BY <1>1, <1>2 DEF TypeOK
    <3>3. QED
      BY <1>2, <3>1, <3>2 DEF Timeline, ValidEvents
  <2>3. ASSUME NEW e \in draft.voids \cup draft.output
        PROVE  Fits(e, draft.until) /\ e.started_at < draft.until
    <3>1. e.started_at \in Nat
      BY <1>5 DEF VoidEvents
    <3>2. Fits(e, draft.until) /\ (e.started_at < advanced_to \/ e.started_at <= draft.cursor)
      BY <1>1, <1>2 DEF Draft
    <3>3. QED
      BY <1>3, <1>4, <3>1, <3>2
  <2>4. (\A e \in voids : Fits(e, advanced_to) /\ e.started_at < advanced_to)'
    BY <1>1, <2>3 DEF Fits, Uncovered, CoverHeight
  <2>5. Apart(voids)'
    BY <1>1, <1>2 DEF Draft, Apart
  <2>6. QED
    BY <2>1, <2>2, <2>4, <2>5 DEF Timeline
<1>8. Generating'
  <2> SUFFICES ASSUME NEW kind \in Kinds
               PROVE  /\ generators'[kind].seen < draft.until
                      /\ /\ settings[kind] # None /\ draft.until < Horizon
                         /\ Kind(Phase(draft.until)) = kind
                         => LET p == Phase(draft.until) IN
                            /\ generators'[kind].seen = p.started_at
                                 => generators'[kind].next >= draft.until
                            /\ p.started_at < draft.until
                                 => generators'[kind].seen = p.started_at
    BY <1>1 DEF Generating, Current
  <2>1. generators'[kind] = IF kind = Kind(Current) THEN draft.generator ELSE generators[kind]
    BY <1>1, <1>2 DEF TypeOK
  <2>2. generators[kind].seen < advanced_to /\ generators[kind].seen \in Int
    BY <1>2 DEF Generating, TypeOK, Generators
  <2>3. kind = Kind(Current) =>
          IF settings[kind] = None THEN draft.generator = generators[kind]
          ELSE draft.generator.seen = Current.started_at /\ draft.generator.next >= draft.until
    BY <1>1, <1>2 DEF Draft
  <2>4. generators'[kind].seen < draft.until
    <3>1. CASE kind = Kind(Current) /\ settings[kind] # None
      BY <1>3, <1>4, <2>1, <2>3, <3>1
    <3>2. CASE ~(kind = Kind(Current) /\ settings[kind] # None)
      BY <1>3, <1>4, <2>1, <2>2, <2>3, <3>2
    <3>3. QED
      BY <3>1, <3>2
  <2>5. ASSUME settings[kind] # None, draft.until < Horizon, Kind(Phase(draft.until)) = kind
        PROVE  LET p == Phase(draft.until) IN
               /\ generators'[kind].seen = p.started_at => generators'[kind].next >= draft.until
               /\ p.started_at < draft.until => generators'[kind].seen = p.started_at
    <3>1. CASE Phase(draft.until) = Current
      BY <2>1, <2>3, <2>5, <3>1
    <3>2. CASE Phase(draft.until).started_at = draft.until
      BY <1>4, <2>4, <3>2
    <3>3. QED
      BY <1>1, <1>2, <2>5, <3>1, <3>2, IntervalEndFacts
  <2>6. QED
    BY <2>4, <2>5
<1>9. Rotations'
  <2>1. \A s \in Sensors : pending[s].captured \in Nat /\ pending[s].completed \in Nat
    BY <1>2 DEF TypeOK
  <2>2. QED
    BY <1>1, <1>2, <1>3, <1>4, <2>1 DEF Rotations
<1>10. Draft' /\ Scan'
  BY <1>1 DEF Draft, Scan
<1>11. Scheduling' /\ DropoutsCoverTheirPoints'
  BY <1>1, SensorsKept DEF IInv, sensors
<1>12. QED
  BY <1>1, <1>6, <1>7, <1>8, <1>9, <1>10, <1>11 DEF IInv, ScansResolve

-----------------------------------------------------------------------------
(* A scan. *)

LEMMA StepStartScan == \A s \in Sensors : IInv /\ StartScan(s) => IInv'
<1> SUFFICES ASSUME NEW s \in Sensors, IInv, StartScan(s) PROVE IInv'
  OBVIOUS
<1>1. TypeOK /\ Timeline /\ Rotations /\ Scheduling /\ ScansResolve
  BY DEF IInv
<1>2. Resolvable(s)
  <2>1. pending[s].completed <= advanced_to /\ pending[s].captured >= retained_from
    <3>1. pending[s].captured \in Nat /\ retained_from \in Nat
      BY <1>1 DEF TypeOK
    <3>2. QED
      BY <1>1, <3>1 DEF StartScan, Due, Rotations
  <2>2. ValidVoids(voids)
    BY <1>1 DEF ValidVoids, ValidEvents, Timeline, Fits, TypeOK, VoidEvents
  <2>3. QED
    BY <1>1, <2>1, <2>2 DEF Resolvable, Timeline
<1>3. Maskable(s)
  <2>1. settings.dropout # None => dropout[s].last \in Int /\ pending[s].captured \in Nat
    BY <1>1 DEF TypeOK, Schedulers
  <2>2. QED
    BY <1>1, <2>1 DEF Maskable, Scheduling
<1>4. /\ stage' = "mask" /\ scan' = [sensor |-> s, scheduler |-> dropout[s], masks |-> {}]
      /\ UNCHANGED <<settings, timeline, sensors, draft, outcome>> /\ s \in Due
  BY <1>2, <1>3 DEF StartScan
<1>5. /\ UNCHANGED <<settings, events, voids, advanced_to, retained_from, generators>>
      /\ UNCHANGED <<pending, dropout, measured, drawn, outcome>>
  BY <1>4 DEF timeline, sensors
<1>6. TypeOK'
  <2>1. scan'.sensor \in Sensors /\ scan'.masks \in SUBSET Dropouts
    BY <1>4
  <2>2. settings.dropout # None =>
          scan' \in [sensor : Sensors, scheduler : Schedulers, masks : SUBSET Dropouts]
    BY <1>1, <1>4 DEF TypeOK
  <2>3. QED
    BY <1>1, <1>4, <1>5, <2>1, <2>2 DEF TypeOK
<1>7. Draft'
  BY <1>4 DEF Draft
<1>8. Scan'
  <2>1. /\ scan'.sensor = s /\ scan'.scheduler = dropout[s] /\ scan'.masks = {}
    BY <1>4
  <2>2. pending[s].completed <= advanced_to
    BY <1>4 DEF Due
  <2>3. \A d \in drawn[s] : d.end > pending[s].captured => Scheduled(dropout[s], d)
    BY <1>1 DEF Scheduling
  <2>4. QED
    BY <1>4, <1>5, <2>1, <2>2, <2>3 DEF Scan, Scheduled
<1>9. QED
  BY <1>4, <1>6, <1>7, <1>8, TurnKept

LEMMA EndsFacts ==
  ASSUME ValidSettings(settings), settings.dropout # None,
         NEW d \in Schedulers, NEW end \in Ends(d)
  PROVE  end \in Nat /\ (d.end # Never => end = d.end)
<1>1. CASE d.end # Never
  BY <1>1 DEF Ends, Schedulers
<1>2. CASE d.end = Never
  BY <1>2 DEF Ends, Schedulers, ValidSettings, PositiveRange
<1>3. QED
  BY <1>1, <1>2

LEMMA StepMaskPoints == IInv /\ MaskPoints => IInv'
<1> SUFFICES ASSUME IInv, MaskPoints PROVE IInv'
  OBVIOUS
<1> DEFINE s == scan.sensor
<1>1. /\ stage = "mask" /\ settings.dropout # None /\ TypeOK /\ Scan /\ ValidSettings(settings)
      /\ UNCHANGED <<settings, timeline, sensors, draft, outcome>>
  BY DEF IInv, MaskPoints, Masking, TypeOK
<1>2. /\ scan \in [sensor : Sensors, scheduler : Schedulers, masks : SUBSET Dropouts]
      /\ s \in Sensors /\ scan.masks \subseteq Dropouts /\ scan.scheduler \in Schedulers
  BY <1>1 DEF TypeOK
<1>3. PICK d : d = scan.scheduler
  OBVIOUS
<1>4. PICK end \in Ends(d) :
        \/ /\ end > Through(s)
           /\ scan' = [scan EXCEPT !.scheduler = Kept(d, end),
                                   !.masks = scan.masks \cup {[start |-> d.start, end |-> end]}]
           /\ stage' = "points"
        \/ /\ end <= Through(s)
           /\ \E gap \in settings.dropout.interval :
                scan' = [scan EXCEPT !.scheduler = [d EXCEPT !.start = end + gap, !.end = Never],
                                     !.masks = scan.masks \cup {[start |-> d.start, end |-> end]}]
           /\ UNCHANGED stage
  BY <1>3 DEF MaskPoints
<1>5. d \in Schedulers /\ d.start \in Nat /\ end \in Nat /\ (d.end # Never => end = d.end)
  BY <1>1, <1>2, <1>3, EndsFacts DEF Schedulers
<1>6. PICK masks : masks = scan.masks \cup {[start |-> d.start, end |-> end]}
  OBVIOUS
<1>7. masks \subseteq Dropouts
  BY <1>2, <1>5, <1>6 DEF Dropouts
<1>8. /\ UNCHANGED <<settings, events, voids, advanced_to, retained_from, generators>>
      /\ UNCHANGED <<pending, dropout, measured, drawn>> /\ Through(s)' = Through(s')
  BY <1>1 DEF timeline, sensors, Through
<1>9. /\ pending[s].completed <= advanced_to /\ pending[s].completed \in Nat
      /\ Through(s) = pending[s].completed - 1
      /\ \A f \in scan.masks : f.end <= Through(s)
  BY <1>1, <1>2 DEF Scan, TypeOK, Through
<1>10. \A f \in drawn[s] : f.end > pending[s].captured => f \in masks
  <2> SUFFICES ASSUME NEW f \in drawn[s], f.end > pending[s].captured PROVE f \in masks
    OBVIOUS
  <2>1. f \in scan.masks \/ Scheduled(d, f)
    BY <1>1, <1>3 DEF Scan
  <2>2. ASSUME Scheduled(d, f) PROVE f = [start |-> d.start, end |-> end]
    <3>1. f \in Dropouts
      BY <1>1, <1>2 DEF TypeOK
    <3>2. f.start = d.start /\ f.end = d.end
      BY <2>2 DEF Scheduled
    <3>3. d.end # Never
      BY <3>1, <3>2 DEF Dropouts, Never
    <3>4. f.end = end
      BY <1>5, <3>2, <3>3
    <3>5. QED
      BY <3>1, <3>2, <3>4 DEF Dropouts
  <2>3. QED
    BY <1>6, <2>1, <2>2
<1>11. CASE end > Through(s) /\ stage' = "points"
            /\ scan' = [scan EXCEPT !.scheduler = Kept(d, end), !.masks = masks]
  <2>1. /\ scan' \in [sensor : Sensors, scheduler : Schedulers, masks : SUBSET Dropouts]
        /\ scan'.sensor = s /\ scan'.masks = masks
        /\ scan'.scheduler.start = d.start /\ scan'.scheduler.end = end
    <3>1. Kept(d, end) \in Schedulers /\ Kept(d, end).start = d.start /\ Kept(d, end).end = end
      BY <1>5 DEF Kept, Schedulers
    <3>2. QED
      BY <1>2, <1>7, <1>11, <3>1
  <2>2. TypeOK'
    BY <1>1, <1>8, <1>11, <2>1 DEF TypeOK
  <2>3. \A f \in masks : f.end > Through(s) => f.start = d.start /\ f.end = end
    <3> SUFFICES ASSUME NEW f \in masks, f.end > Through(s)
                 PROVE  f = [start |-> d.start, end |-> end]
      OBVIOUS
    <3>1. f.end \in Nat
      BY <1>7 DEF Dropouts
    <3>2. f \notin scan.masks
      BY <1>9, <3>1
    <3>3. QED
      BY <1>6, <3>2
  <2>4. Scan'
    BY <1>1, <1>6, <1>8, <1>9, <1>10, <1>11, <2>1, <2>3 DEF Scan, Scheduled, Through
  <2>5. Draft'
    BY <1>11 DEF Draft
  <2>6. QED
    BY <1>1, <2>2, <2>4, <2>5, TurnKept
<1>12. ASSUME end <= Through(s), stage' = "mask", NEW gap \in settings.dropout.interval,
              scan' = [scan EXCEPT !.scheduler = [d EXCEPT !.start = end + gap, !.end = Never],
                                   !.masks = masks]
       PROVE  IInv'
  <2>1. /\ scan' \in [sensor : Sensors, scheduler : Schedulers, masks : SUBSET Dropouts]
        /\ scan'.sensor = s /\ scan'.masks = masks
    <3>1. gap \in Nat
      BY <1>1 DEF ValidSettings, PositiveRange
    <3>2. [d EXCEPT !.start = end + gap, !.end = Never] \in Schedulers
      <4>1. PICK start : start = end + gap
        OBVIOUS
      <4>2. start \in Nat
        BY <1>5, <3>1, <4>1
      <4>3. [d EXCEPT !.start = start, !.end = Never] \in Schedulers
        BY <1>5, <4>2 DEF Schedulers
      <4>4. QED
        BY <4>1, <4>3
    <3>3. QED
      BY <1>2, <1>7, <1>12, <3>2
  <2>2. TypeOK'
    BY <1>1, <1>8, <1>12, <2>1 DEF TypeOK
  <2>3. \A f \in masks : f.end <= Through(s)
    BY <1>6, <1>9, <1>12
  <2>4. Scan'
    BY <1>8, <1>9, <1>10, <1>12, <2>1, <2>3 DEF Scan, Through
  <2>5. Draft'
    BY <1>12 DEF Draft
  <2>6. QED
    BY <1>1, <2>2, <2>4, <2>5, TurnKept
<1>13. QED
  BY <1>1, <1>4, <1>6, <1>11, <1>12

(* A masked point reads as zero, whatever the noise. *)
LEMMA MaskedValue ==
  ASSUME ValidSettings(settings), NEW point, NEW t
  PROVE  Values(point, t, TRUE) = {0}
<1>1. settings.min_distance \in Nat /\ 0 < settings.min_distance
  BY DEF ValidSettings
<1>2. InRange(0) = 0
  BY <1>1 DEF InRange
<1>3. Quantized(0) = 0
  <2>1. Max({0, 0}) = 0
    BY PairFacts
  <2>2. (0 + 1) \div 2 = 0
    OBVIOUS
  <2>3. QED
    BY <2>1, <2>2 DEF Quantized
<1>4. \A noise : Noisy(0, noise) = 0
  BY DEF Noisy
<1>5. {InRange(Quantized(Noisy(0, noise))) : noise \in Noise} = {0}
  <2>1. -settings.noise_limit \in Noise
    BY DEF Noise
  <2>2. QED
    BY <1>2, <1>3, <1>4, <2>1
<1> DEFINE around(distance) == {InRange(Quantized(Noisy(distance, noise))) : noise \in Noise}
<1>6. Values(point, t, TRUE) = UNION {around(distance) : distance \in {0}}
  BY DEF Values
<1>7. around(0) = {0}
  BY Zenon, <1>5
<1> HIDE DEF around
<1>8. UNION {around(distance) : distance \in {0}} = around(0)
  OBVIOUS
<1>9. QED
  BY Zenon, <1>6, <1>7, <1>8

(* The dropouts the scheduler had drawn end the masking, or the next one   *)
(* begins after the scan.                                                  *)
LEMMA MeasureFacts ==
  ASSUME IInv, Measure
  PROVE  LET s == scan.sensor
         IN  /\ s \in Sensors /\ scan.masks \subseteq Dropouts
             /\ pending[s].captured \in Nat /\ pending[s].completed \in Nat
             /\ pending[s].captured < pending[s].completed /\ pending[s].completed <= advanced_to
             /\ settings.dropout # None => scan.scheduler \in Schedulers
             /\ \A d \in scan.masks :
                  d.end > pending[s].completed => Scheduled(scan.scheduler, d)
             /\ \A d \in drawn[s] : d.end > pending[s].captured =>
                  \/ d \in scan.masks
                  \/ Scheduled(scan.scheduler, d) /\ d.start > Through(s)
<1> DEFINE s == scan.sensor
<1>1. TypeOK /\ Scan /\ Rotations /\ (stage = "points" \/ (stage = "mask" /\ ~Masking))
  BY DEF IInv, Measure
<1>2. /\ s \in Sensors /\ scan.masks \subseteq Dropouts
      /\ settings.dropout # None => scan.scheduler \in Schedulers
  BY <1>1 DEF TypeOK
<1>3. /\ pending[s].captured \in Nat /\ pending[s].completed \in Nat
      /\ pending[s].captured < pending[s].completed /\ pending[s].completed <= advanced_to
      /\ Through(s) = pending[s].completed - 1
  BY <1>1, <1>2 DEF TypeOK, Rotations, Scan, Through
<1>4. ASSUME NEW d \in scan.masks, d.end > pending[s].completed
      PROVE  Scheduled(scan.scheduler, d)
  <2>1. d.end \in Nat
    BY <1>2 DEF Dropouts
  <2>2. d.end > Through(s)
    BY <1>3, <1>4, <2>1
  <2>3. stage # "mask"
    <3>1. stage = "mask" => d.end <= Through(s)
      BY <1>1 DEF Scan
    <3>2. QED
      BY <1>3, <2>1, <2>2, <3>1
  <2>4. QED
    BY <1>1, <2>2, <2>3 DEF Scan
<1>5. ASSUME NEW d \in drawn[s], d.end > pending[s].captured, d \notin scan.masks
      PROVE  Scheduled(scan.scheduler, d) /\ d.start > Through(s)
  <2>1. Scheduled(scan.scheduler, d) /\ d \in Dropouts
    BY <1>1, <1>2, <1>5 DEF Scan, TypeOK
  <2>2. d = [start |-> scan.scheduler.start, end |-> scan.scheduler.end]
    BY <2>1 DEF Scheduled, Dropouts
  <2>3. stage = "mask" /\ ~Masking
    BY <1>1, <1>5, <2>2 DEF Scan
  <2>4. ~(scan.scheduler.start <= Through(s))
    BY <2>1, <2>3 DEF Masking, Scheduled
  <2>5. QED
    BY <1>3, <2>1, <2>4 DEF Scheduled, Dropouts
<1>6. QED
  BY <1>2, <1>3, <1>4, <1>5

LEMMA StepMeasure == IInv /\ Measure => IInv'
<1> SUFFICES ASSUME IInv, Measure PROVE IInv'
  OBVIOUS
<1>1. PICK s : s = scan.sensor
  OBVIOUS
<1>2. /\ s \in Sensors /\ scan.masks \subseteq Dropouts
      /\ pending[s].captured \in Nat /\ pending[s].completed \in Nat
      /\ pending[s].captured < pending[s].completed /\ pending[s].completed <= advanced_to
      /\ settings.dropout # None => scan.scheduler \in Schedulers
      /\ \A d \in scan.masks : d.end > pending[s].completed => Scheduled(scan.scheduler, d)
      /\ \A d \in drawn[s] : d.end > pending[s].captured =>
           \/ d \in scan.masks
           \/ Scheduled(scan.scheduler, d) /\ d.start > Through(s)
  BY <1>1, MeasureFacts
<1>3. /\ measured' = [sensor |-> s, values |->
                       [t \in Times(s) |-> Values(PointAt(s, t), t, Meets(scan.masks, t))]]
      /\ dropout' = [dropout EXCEPT ![s] = IF settings.dropout = None THEN @
                                           ELSE [scan.scheduler EXCEPT !.last = Through(s)]]
      /\ drawn' = [drawn EXCEPT ![s] = {d \in @ \cup scan.masks : d.end > pending[s].captured}]
      /\ stage' = "idle" /\ UNCHANGED <<settings, timeline, draft, outcome>>
  BY <1>1 DEF Measure
<1>4. PICK length \in ScanLengths[s] :
        pending' = [pending EXCEPT ![s] = [captured |-> @.completed,
                                           completed |-> @.completed + length]]
  BY <1>1 DEF Measure
<1>5. /\ TypeOK /\ Timeline /\ Generating /\ Rotations /\ Scheduling /\ ValidSettings(settings)
      /\ UNCHANGED <<settings, events, voids, advanced_to, retained_from, generators>>
  BY <1>3 DEF IInv, TypeOK, timeline
<1>6. length \in Nat /\ length > 0
  BY <1>2, SensorsAssumption
<1>7. /\ pending' \in [Sensors -> [captured : Nat, completed : Nat]]
      /\ pending'[s].captured = pending[s].completed
      /\ pending'[s].completed = pending[s].completed + length
      /\ \A r \in Sensors \ {s} : pending'[r] = pending[r]
  BY <1>2, <1>4, <1>5, <1>6 DEF TypeOK
<1>8. /\ Through(s) = pending[s].completed - 1 /\ Through(s) \in Int
      /\ Times(s) = pending[s].captured..Through(s)
  BY <1>2 DEF Through, Times
<1>9. settings.dropout # None =>
        /\ dropout' \in [Sensors -> Schedulers]
        /\ dropout'[s].last = Through(s) /\ dropout'[s].start = scan.scheduler.start
        /\ dropout'[s].end = scan.scheduler.end
        /\ \A r \in Sensors \ {s} : dropout'[r] = dropout[r]
  <2> SUFFICES ASSUME settings.dropout # None
               PROVE  /\ dropout' \in [Sensors -> Schedulers]
                      /\ dropout'[s].last = Through(s) /\ dropout'[s].start = scan.scheduler.start
                      /\ dropout'[s].end = scan.scheduler.end
                      /\ \A r \in Sensors \ {s} : dropout'[r] = dropout[r]
    OBVIOUS
  <2>1. PICK last : last = Through(s)
    OBVIOUS
  <2>2. /\ [scan.scheduler EXCEPT !.last = last] \in Schedulers
        /\ [scan.scheduler EXCEPT !.last = last].last = last
        /\ [scan.scheduler EXCEPT !.last = last].start = scan.scheduler.start
        /\ [scan.scheduler EXCEPT !.last = last].end = scan.scheduler.end
    BY <1>2, <1>8, <2>1 DEF Schedulers
  <2>3. dropout' = [dropout EXCEPT ![s] = [scan.scheduler EXCEPT !.last = last]]
    BY <1>3, <2>1
  <2>4. dropout \in [Sensors -> Schedulers]
    BY <1>5 DEF TypeOK
  <2>5. QED
    BY <1>2, <2>1, <2>2, <2>3, <2>4
<1>10. /\ drawn' \in [Sensors -> SUBSET Dropouts]
       /\ drawn'[s] = {d \in drawn[s] \cup scan.masks : d.end > pending[s].captured}
       /\ \A r \in Sensors \ {s} : drawn'[r] = drawn[r]
  <2>1. drawn \in [Sensors -> SUBSET Dropouts]
    BY <1>5 DEF TypeOK
  <2>2. QED
    BY <1>2, <1>3, <2>1
<1>11. TypeOK'
  BY <1>3, <1>5, <1>7, <1>9, <1>10 DEF TypeOK
<1>12. Timeline' /\ Generating'
  BY <1>3, <1>5, TimelineKept
<1>13. Draft' /\ Scan'
  BY <1>3 DEF Draft, Scan
<1>14. Rotations'
  <2> SUFFICES ASSUME NEW r \in Sensors
               PROVE  /\ retained_from <= pending'[r].captured /\ pending'[r].captured <= advanced_to
                      /\ pending'[r].captured < pending'[r].completed
    BY <1>5 DEF Rotations
  <2>1. CASE r = s
    <3>1. retained_from <= pending[s].captured /\ retained_from \in Nat /\ advanced_to \in Nat
      BY <1>2, <1>5, TimelineFacts DEF Rotations
    <3>2. QED
      BY <1>2, <1>6, <1>7, <2>1, <3>1
  <2>2. CASE r # s
    BY <1>5, <1>7, <2>2 DEF Rotations
  <2>3. QED
    BY <2>1, <2>2
<1>15. Scheduling'
  <2> SUFFICES ASSUME NEW r \in Sensors
               PROVE  /\ settings.dropout # None => dropout'[r].last < pending'[r].captured
                      /\ \A d \in drawn'[r] : d.end > pending'[r].captured =>
                           settings.dropout # None /\ dropout'[r].start = d.start
                             /\ dropout'[r].end = d.end
    BY <1>5 DEF Scheduling, Scheduled
  <2>1. CASE r = s
    <3>1. settings.dropout # None => dropout'[s].last < pending'[s].captured
      BY <1>2, <1>7, <1>8, <1>9
    <3>2. ASSUME NEW d \in drawn'[s], d.end > pending'[s].captured
          PROVE  Scheduled(scan.scheduler, d)
      <4>1. d \in drawn[s] \cup scan.masks /\ d.end \in Nat
        BY <1>2, <1>10 DEF Dropouts
      <4>2. d.end > pending[s].completed /\ d.end > pending[s].captured
        BY <1>2, <1>7, <3>2, <4>1
      <4>3. QED
        BY <1>2, <4>1, <4>2
    <3>3. QED
      BY <1>9, <2>1, <3>1, <3>2 DEF Scheduled
  <2>2. CASE r # s
    BY <1>5, <1>7, <1>9, <1>10, <2>2 DEF Scheduling, Scheduled
  <2>3. QED
    BY <2>1, <2>2
<1>16. DropoutsCoverTheirPoints'
  <2> SUFFICES ASSUME NEW t \in Times(s), Meets(drawn'[s], t)
               PROVE  measured'.values[t] = {0}
    <3>1. measured'.sensor = s /\ DOMAIN measured'.values = Times(s)
      BY <1>3
    <3>2. QED
      BY <3>1 DEF DropoutsCoverTheirPoints
  <2>1. PICK d \in drawn'[s] : d.start <= t /\ t < d.end
    BY DEF Meets
  <2>2. /\ d \in drawn[s] \cup scan.masks /\ d.end > pending[s].captured
        /\ d.start \in Nat /\ t \in Int /\ t <= Through(s)
    BY <1>2, <1>8, <1>10 DEF Dropouts
  <2>3. d \in scan.masks
    BY <1>2, <1>8, <2>1, <2>2
  <2>4. Meets(scan.masks, t) = TRUE
    BY <2>1, <2>3 DEF Meets
  <2>5. measured'.values[t] = Values(PointAt(s, t), t, Meets(scan.masks, t))
    BY <1>3
  <2>6. QED
    BY <1>5, <2>4, <2>5, MaskedValue
<1>17. ScansResolve'
  BY <1>3 DEF IInv, ScansResolve
<1>18. QED
  BY <1>11, <1>12, <1>13, <1>14, <1>15, <1>16, <1>17 DEF IInv

-----------------------------------------------------------------------------
(* Discarding what is over. *)

LEMMA EarliestFacts ==
  ASSUME TypeOK
  PROVE  /\ EarliestPending \in Nat
         /\ \E s \in Sensors : EarliestPending = pending[s].captured
         /\ \A s \in Sensors : EarliestPending <= pending[s].captured
<1> DEFINE S == {pending[s].captured : s \in Sensors}
<1>1. S \subseteq Nat /\ S # {}
  BY SensorsAssumption DEF TypeOK
<1>2. Min(S) \in S /\ \A n \in S : Min(S) <= n
  <2> HIDE DEF S
  <2>1. QED
    BY <1>1, LeastNumber
<1>3. QED
  BY <1>1, <1>2 DEF EarliestPending

(* What Discard does, its checks being met. *)
LEMMA DiscardFacts ==
  ASSUME IInv, Discard
  PROVE  /\ stage = "idle" /\ measured' = None
         /\ events' = [kind \in Kinds |-> StillPending(events[kind], EarliestPending)]
         /\ voids' = StillPending(voids, EarliestPending)
         /\ retained_from' = EarliestPending
         /\ retained_from <= EarliestPending /\ EarliestPending <= advanced_to
         /\ UNCHANGED <<advanced_to, generators, outcome>>
         /\ UNCHANGED <<settings, pending, dropout, drawn, stage, draft, scan>>
<1>1. TypeOK /\ Rotations
  BY DEF IInv
<1>2. retained_from <= EarliestPending /\ EarliestPending <= advanced_to
  BY <1>1, EarliestFacts DEF Rotations
<1>3. QED
  BY <1>2 DEF Discard

LEMMA StepDiscard == IInv /\ Discard => IInv'
<1> SUFFICES ASSUME IInv, Discard PROVE IInv'
  OBVIOUS
<1>1. /\ stage = "idle" /\ measured' = None
      /\ events' = [kind \in Kinds |-> StillPending(events[kind], EarliestPending)]
      /\ voids' = StillPending(voids, EarliestPending)
      /\ retained_from' = EarliestPending
      /\ retained_from <= EarliestPending /\ EarliestPending <= advanced_to
      /\ UNCHANGED <<advanced_to, generators, outcome>>
      /\ UNCHANGED <<settings, pending, dropout, drawn, stage, draft, scan>>
  BY DiscardFacts
<1>2. TypeOK /\ Timeline /\ Generating /\ Rotations /\ Scheduling
  BY DEF IInv
<1>3. /\ EarliestPending \in Nat
      /\ \A s \in Sensors : EarliestPending <= pending[s].captured
  BY <1>2, EarliestFacts
<1>4. voids' \subseteq voids /\ \A kind \in Kinds : events'[kind] \subseteq events[kind]
  BY <1>1 DEF StillPending
<1>5. TypeOK'
  <2>1. events' \in [Kinds -> SUBSET Events] /\ voids' \in SUBSET VoidEvents
    BY <1>1, <1>2, <1>4 DEF TypeOK
  <2>2. QED
    BY <1>1, <1>2, <1>3, <2>1 DEF TypeOK
<1>6. Timeline'
  <2>1. (\A e \in voids : Fits(e, advanced_to) /\ e.started_at < advanced_to)'
    BY <1>1, <1>2, <1>4 DEF Timeline, Fits, Uncovered, CoverHeight
  <2>2. Apart(voids)'
    BY <1>2, <1>4 DEF Timeline, Apart
  <2>3. \A kind \in Kinds : ValidEvents(events'[kind])
    BY <1>2, <1>4 DEF Timeline, ValidEvents
  <2>4. QED
    BY <1>1, <2>1, <2>2, <2>3 DEF Timeline
<1>7. Generating'
  BY <1>1, <1>2 DEF Generating, Current
<1>8. Draft' /\ Scan'
  BY <1>1 DEF Draft, Scan
<1>9. Rotations'
  BY <1>1, <1>2, <1>3 DEF Rotations
<1>10. Scheduling'
  BY <1>1, <1>2 DEF Scheduling, Scheduled
<1>11. DropoutsCoverTheirPoints' /\ ScansResolve'
  BY <1>1 DEF IInv, DropoutsCoverTheirPoints, ScansResolve
<1>12. QED
  BY <1>5, <1>6, <1>7, <1>8, <1>9, <1>10, <1>11 DEF IInv

LEMMA Stutter == IInv /\ UNCHANGED vars => IInv'
<1> SUFFICES ASSUME IInv, UNCHANGED vars PROVE IInv'
  OBVIOUS
<1>1. /\ UNCHANGED <<settings, timeline, sensors, outcome>>
      /\ UNCHANGED <<settings, events, voids, advanced_to, retained_from, generators>>
      /\ UNCHANGED <<pending, dropout, measured, drawn, stage, draft, scan>>
  BY DEF vars, timeline, sensors
<1>2. TypeOK'
  BY <1>1 DEF IInv, TypeOK
<1>3. Draft'
  BY <1>1 DEF IInv, Draft, Fits, Uncovered, CoverHeight, Current
<1>4. Scan'
  BY <1>1 DEF IInv, Scan, Through, Scheduled
<1>5. QED
  BY <1>1, <1>2, <1>3, <1>4, TurnKept

-----------------------------------------------------------------------------

(* Every step keeps the invariant. *)
LEMMA NextInvariant == IInv /\ [Next]_vars => IInv'
<1> SUFFICES ASSUME IInv, [Next]_vars PROVE IInv'
  OBVIOUS
<1>1. CASE StartInterval
  BY <1>1, StepStartInterval
<1>2. CASE GenerateEvent
  BY <1>2, StepGenerateEvent
<1>3. CASE EventsGenerated
  BY <1>3, StepEventsGenerated
<1>4. CASE OpenVoid
  BY <1>4, StepOpenVoid
<1>5. CASE NextExpiry
  BY <1>5, StepNextExpiry
<1>6. CASE CommitInterval
  BY <1>6, StepCommitInterval
<1>7. CASE \E s \in Sensors : StartScan(s)
  BY <1>7, StepStartScan
<1>8. CASE MaskPoints
  BY <1>8, StepMaskPoints
<1>9. CASE Measure
  BY <1>9, StepMeasure
<1>10. CASE Discard
  BY <1>10, StepDiscard
<1>11. CASE UNCHANGED vars
  BY <1>11, Stutter
<1>12. QED
  BY <1>1, <1>2, <1>3, <1>4, <1>5, <1>6, <1>7, <1>8, <1>9, <1>10, <1>11
  DEF Next, AdvanceTimeline, MeasureScan

(* The invariant the results below follow from holds of every state        *)
(* advance_to, generate and discard_before can reach.                      *)
THEOREM Inductive == Spec => []IInv
<1>1. Init => IInv
  BY InitInvariant
<1>2. IInv /\ [Next]_vars => IInv'
  BY NextInvariant
<1>3. QED
  BY <1>1, <1>2, PTL DEF Spec

(* The timeline, the schedulers and what a call works on stay within their *)
(* types: times are never negative and the timeline never passes the       *)
(* horizon (SpatialDistortionTimeline, SensorDropoutScheduler).            *)
THEOREM TypeCorrect == Spec => []TypeOK
<1>1. IInv => TypeOK
  BY DEF IInv
<1>2. QED
  BY <1>1, Inductive, PTL

(* No interval of the runtime's loop is refused, and every due scan finds  *)
(* its events known up to its completion and still kept from its first     *)
(* point on (advance_with_events, resolve_distances, discard_before).      *)
THEOREM ScansCorrect == Spec => []ScansResolve
<1>1. IInv => ScansResolve
  BY DEF IInv
<1>2. QED
  BY <1>1, Inductive, PTL

(* Every point in a dropout reads as zero, however the sensor's scans cut  *)
(* the dropout (active_mask, generate).                                    *)
THEOREM DropoutsCorrect == Spec => []DropoutsCoverTheirPoints
<1>1. IInv => DropoutsCoverTheirPoints
  BY DEF IInv
<1>2. QED
  BY <1>1, Inductive, PTL

LEMMA FittingVoids == IInv => VoidsFitTheSurface
<1> SUFFICES ASSUME IInv, NEW t \in Settled, NEW e \in Active(voids, t)
             PROVE  /\ ClearOfBoundary(e.center, e.radius)
                    /\ SurfaceAt(t, e.center) - e.height < Max({settings.voids.cover_height, 1})
                    /\ \A f \in Active(voids, t) \ {e} :
                         Distance2(e.center, f.center) >= (e.radius + f.radius) * (e.radius + f.radius)
  BY DEF VoidsFitTheSurface
<1>1. TypeOK /\ Timeline
  BY DEF IInv
<1>2. t \in Nat /\ t < advanced_to
  BY <1>1, TimelineFacts DEF Settled
<1>3. e \in voids /\ OpenAt(e, t) /\ Fits(e, advanced_to)
  BY <1>1 DEF Active, OpenAt, Timeline
<1>4. SurfaceAt(t, e.center) - e.height < CoverHeight
  BY <1>2, <1>3 DEF Fits, Uncovered
<1>5. ASSUME NEW f \in Active(voids, t) \ {e} PROVE Distant(e, f)
  <2>1. f \in voids /\ OpenAt(f, t) /\ e # f
    BY DEF Active, OpenAt
  <2>2. QED
    BY <1>1, <1>2, <1>3, <2>1 DEF Timeline, Apart
<1>6. QED
  BY <1>3, <1>4, <1>5 DEF Fits, CoverHeight, Distant

(* At every settled time the open voids keep clear of each other and of    *)
(* the boundary, and none is under a surface that has risen over it        *)
(* (sample_void_center, maintain_void_coverage, synchronize_voids).        *)
THEOREM VoidsCorrect == Spec => []VoidsFitTheSurface
<1>1. QED
  BY FittingVoids, Inductive, PTL

(* What joins the timeline begins at its end. *)
LEMMA CommitSettled ==
  ASSUME IInv, CommitInterval, NEW t \in Nat, t < advanced_to
  PROVE  /\ \A kind \in Kinds : Happening(events'[kind], t) = Happening(events[kind], t)
         /\ Happening(voids', t) = Happening(voids, t)
<1>1. /\ stage = "voids" /\ Kind(Current) \in Kinds
      /\ events' = [events EXCEPT ![Kind(Current)] = @ \cup draft.events]
      /\ voids' = draft.voids \cup draft.output
  BY CommitFacts
<1>2. TypeOK /\ Draft /\ advanced_to \in Nat
  BY TimelineFacts DEF IInv
<1>3. ASSUME NEW known, NEW new, \A e \in new : e.started_at \in Nat /\ advanced_to <= e.started_at
      PROVE  Active(known \cup new, t) = Active(known, t)
  BY <1>2, <1>3 DEF Active
<1>4. \A e \in draft.events : e.started_at \in Nat /\ advanced_to <= e.started_at
  BY <1>1, <1>2 DEF Draft, TypeOK, Drafts, Events, FallingEvents, CollectionEvents
<1>5. \A e \in draft.output : e.started_at \in Nat /\ advanced_to <= e.started_at
  BY <1>1, <1>2 DEF Draft, TypeOK, Drafts, VoidEvents
<1>6. ASSUME NEW kind \in Kinds PROVE Happening(events'[kind], t) = Happening(events[kind], t)
  <2>1. events'[kind] = events[kind] \/ events'[kind] = events[kind] \cup draft.events
    BY <1>1, <1>2 DEF TypeOK
  <2>2. Active(events'[kind], t) = Active(events[kind], t)
    BY <1>3, <1>4, <2>1
  <2>3. QED
    BY <2>2 DEF Happening
<1>7. Happening(voids', t) = Happening(voids, t)
  <2>1. Active(voids', t) = Active(draft.voids, t)
    BY <1>1, <1>3, <1>5
  <2>2. Happening(draft.voids, t) = Happening(voids, t)
    BY <1>1, <1>2 DEF Draft
  <2>3. QED
    BY <2>1, <2>2 DEF Happening
<1>8. QED
  BY <1>6, <1>7

(* What is discarded is over before any pending scan begins. *)
LEMMA DiscardSettled ==
  ASSUME IInv, Discard, NEW t \in Nat, retained_from' <= t
  PROVE  /\ \A kind \in Kinds : Happening(events'[kind], t) = Happening(events[kind], t)
         /\ Happening(voids', t) = Happening(voids, t)
<1>1. /\ events' = [kind \in Kinds |-> StillPending(events[kind], EarliestPending)]
      /\ voids' = StillPending(voids, EarliestPending)
      /\ EarliestPending <= t /\ EarliestPending \in Nat
  BY DiscardFacts, EarliestFacts DEF IInv
<1>2. ASSUME NEW known, \A e \in known : e.ends_at \in Nat
      PROVE  Active(StillPending(known, EarliestPending), t) = Active(known, t)
  BY <1>1, <1>2 DEF Active, StillPending, Outlives
<1>3. TypeOK
  BY DEF IInv
<1>4. ASSUME NEW kind \in Kinds PROVE Happening(events'[kind], t) = Happening(events[kind], t)
  <2>1. \A e \in events[kind] : e.ends_at \in Nat
    BY <1>3 DEF TypeOK, Events, FallingEvents, CollectionEvents
  <2>2. QED
    BY <1>1, <1>2, <2>1 DEF Happening
<1>5. \A e \in voids : e.ends_at \in Nat
  BY <1>3 DEF TypeOK, VoidEvents
<1>6. QED
  BY <1>1, <1>2, <1>4, <1>5 DEF Happening

LEMMA StepSettled ==
  ASSUME IInv, [Next]_vars, NEW t \in retained_from'..(advanced_to - 1), retained_from' \in Nat
  PROVE  /\ \A kind \in Kinds : Happening(events'[kind], t) = Happening(events[kind], t)
         /\ Happening(voids', t) = Happening(voids, t)
<1>1. t \in Nat /\ t < advanced_to /\ retained_from' <= t
  BY TimelineFacts DEF IInv
<1>2. CASE CommitInterval
  BY <1>1, <1>2, CommitSettled
<1>3. CASE Discard
  BY <1>1, <1>3, DiscardSettled
<1>4. CASE ~CommitInterval /\ ~Discard
  <2>1. CASE AdvanceTimeline
    BY <1>4, <2>1
    DEF AdvanceTimeline, StartInterval, GenerateEvent, EventsGenerated, OpenVoid, NextExpiry, timeline
  <2>2. CASE MeasureScan
    BY <2>2 DEF MeasureScan, StartScan, MaskPoints, Measure, timeline
  <2>3. CASE UNCHANGED vars
    BY <2>3 DEF vars, timeline
  <2>4. QED
    BY <1>4, <2>1, <2>2, <2>3 DEF Next
<1>5. QED
  BY <1>2, <1>3, <1>4

(* What happened before the timeline's end never changes while a pending   *)
(* scan may have a point there: advancing closes voids from now on only    *)
(* and adds no event in the past, and discarding takes only what is over   *)
(* (advance_to, synchronize_voids, discard_before).                        *)
THEOREM HistoryCorrect == Spec => HistoryIsSettled
<1> DEFINE Settles ==
      \A t \in retained_from'..(advanced_to - 1) :
        /\ \A kind \in Kinds : Happening(events'[kind], t) = Happening(events[kind], t)
        /\ Happening(voids', t) = Happening(voids, t)
<1>1. IInv /\ IInv' /\ [Next]_vars => [Settles]_vars
  <2> SUFFICES ASSUME IInv, IInv', [Next]_vars PROVE Settles
    OBVIOUS
  <2>1. retained_from' \in Nat
    BY DEF IInv, TypeOK
  <2>2. QED
    BY <2>1, StepSettled
<1>2. QED
  BY <1>1, Inductive, PTL DEF Spec, HistoryIsSettled

-----------------------------------------------------------------------------
(* The scenario's schedule. *)

(* RoundedMultiple is the nearest, and of two the even, tick. *)
LEMMA RoundedIsNearest ==
  ASSUME NEW ratio, ratio.numerator \in Nat \ {0}, ratio.denominator \in Nat \ {0},
         NEW c \in Nat \ {0}, NEW i \in Nat
  PROVE  Nearest(c * (ratio.numerator * i), c * ratio.denominator) = RoundedMultiple(ratio, i)
<1> DEFINE num == ratio.numerator
           den == ratio.denominator
           product == num * i
           q == product \div den
           r == product % den
           multiple == c * product
           parts == c * den
           below == multiple \div parts
           Near(t) == 2 * (t * parts - multiple) <= parts /\ 2 * (multiple - t * parts) <= parts
           nearest == {t \in {below, below + 1} : Near(t)}
           rounded == IF 2 * r > den \/ (2 * r = den /\ q % 2 = 1) THEN q + 1 ELSE q
<1>1. num \in Nat \ {0} /\ den \in Nat \ {0} /\ product \in Nat
  OBVIOUS
<1> HIDE DEF num, den, product
<1>2. q \in Nat /\ r \in 0..(den - 1) /\ product = den * q + r
  <2>1. product \in Int
    BY <1>1
  <2>2. /\ product \div den \in Int /\ product % den \in 0..(den - 1)
        /\ product = den * (product \div den) + (product % den)
        /\ product \in Nat => product \div den \in Nat
    BY <2>1, <1>1, Quotient
  <2>3. QED
    BY <2>2, <1>1
<1> HIDE DEF q, r
<1>3. parts \in Nat \ {0} /\ multiple \in Nat
  BY <1>1
<1>4. below = q
  <2> DEFINE rest == c * r
  <2>1. rest \in 0..(parts - 1)
    <3>1. c * r >= 0 /\ c * r <= c * (den - 1) /\ c * r \in Int
      BY <1>1, <1>2
    <3>2. c * (den - 1) <= parts - 1 /\ c * (den - 1) \in Int
      BY <1>1
    <3> HIDE DEF parts
    <3>3. rest \in Int /\ rest >= 0 /\ rest <= parts - 1
      <4> DEFINE most == c * (den - 1)
      <4>1. rest \in Int /\ rest >= 0 /\ rest <= most /\ most <= parts - 1 /\ most \in Int
        BY <3>1, <3>2
      <4> HIDE DEF most, rest
      <4>2. QED
        BY <4>1, <1>3
    <3> HIDE DEF rest
    <3>4. QED
      BY <3>3, <1>3
  <2>2. multiple = parts * q + rest
    <3>1. multiple = c * (den * q + r)
      BY <1>2
    <3>2. c * (den * q + r) = (c * den) * q + c * r
      BY <1>1, <1>2
    <3>3. QED
      BY <3>1, <3>2
  <2> HIDE DEF parts, multiple, rest
  <2>3. multiple \div parts = q
    <3>1. multiple \in Int /\ q \in Int
      BY <1>2, <1>3
    <3>2. QED
      BY <2>1, <2>2, <3>1, <1>3, QuotientIsUnique
  <2>4. QED
    BY <2>3
<1>5. multiple - q * parts = c * r /\ (q + 1) * parts - multiple = c * (den - r)
  BY <1>1, <1>2
<1>6. Near(q) <=> 2 * r <= den
  <2>1. 2 * (c * r) <= c * den <=> 2 * r <= den
    BY <1>1, <1>2
  <2>2. q * parts - multiple = -(c * r) /\ c * r >= 0
    BY <1>1, <1>2, <1>5
  <2>3. QED
    BY <2>1, <2>2, <1>1, <1>2, <1>5
<1>7. Near(q + 1) <=> 2 * r >= den
  <2>1. 2 * (c * (den - r)) <= c * den <=> 2 * (den - r) <= den
    BY <1>1, <1>2
  <2>2. multiple - (q + 1) * parts = -(c * (den - r)) /\ c * (den - r) >= 0
    BY <1>1, <1>2, <1>5
  <2>3. QED
    BY <2>1, <2>2, <1>1, <1>2, <1>5
<1> HIDE DEF Near
<1>8. \A t : t \in nearest <=> (t = q /\ 2 * r <= den) \/ (t = q + 1 /\ 2 * r >= den)
  BY <1>4, <1>6, <1>7
<1> HIDE DEF nearest
<1>9. (CHOOSE t \in nearest : nearest = {t} \/ t % 2 = 0) = rounded
  <2>1. CASE 2 * r < den
    <3>1. nearest = {q} /\ rounded = q
      BY <2>1, <1>1, <1>2, <1>8
    <3>2. QED
      BY <3>1
  <2>2. CASE 2 * r > den
    <3>1. nearest = {q + 1} /\ rounded = q + 1
      BY <2>2, <1>1, <1>2, <1>8
    <3>2. QED
      BY <3>1
  <2>3. CASE 2 * r = den
    <3>1. nearest = {q, q + 1} /\ q # q + 1
      BY <2>3, <1>1, <1>2, <1>8
    <3>2. /\ rounded \in nearest /\ rounded % 2 = 0
          /\ \A t \in nearest : t % 2 = 0 => t = rounded
      BY <2>3, <3>1, <1>2
    <3>3. \A t : nearest # {t}
      BY <3>1
    <3> HIDE DEF rounded
    <3>4. QED
      BY <3>2, <3>3
  <2>4. QED
    BY <2>1, <2>2, <2>3, <1>1, <1>2
<1>10. RoundedMultiple(ratio, i) = rounded
  BY DEF RoundedMultiple, num, den, product, q, r
<1>11. Nearest(multiple, parts) = CHOOSE t \in nearest : nearest = {t} \/ t % 2 = 0
  BY DEF Nearest, nearest, Near
<1>12. QED
  BY <1>9, <1>10, <1>11 DEF num, den, product

-----------------------------------------------------------------------------
(* The inductive invariant of the scenario. *)
Occurrences == [time : Nat, update : BOOLEAN]

(* When the n-th update is due. *)
UpdateDue(n) == RoundedMultiple(UpdateInterval, n)

Interval ==
  /\ Config.update_interval.digits \in Nat \ {0} /\ Config.update_interval.exponent \in Int

IsSim(s) ==
  /\ s = [elapsed |-> s.elapsed, surface_updated_at |-> s.surface_updated_at,
          next_update_index |-> s.next_update_index, cycle_index |-> s.cycle_index,
          phase |-> s.phase, current_inlet |-> s.current_inlet, fill_plan |-> s.fill_plan,
          collection_plan |-> s.collection_plan, surface |-> s.surface]
  /\ s.elapsed \in Nat /\ s.surface_updated_at \in Nat /\ s.next_update_index \in Nat \ {0}
  /\ s.phase \in {"filling", "collecting"} /\ PhaseEndsAt(Plan(s)) \in Int

(* The list up to a time, with all updates before the next one. *)
OnSchedule(list, next, through) ==
  /\ list \in Seq(Occurrences)
  /\ next <= Len(list) + 1
  /\ \A i \in DOMAIN list : list[i].time \in 1..through
  /\ \A i, j \in DOMAIN list : i < j => list[i].time < list[j].time
  /\ UpdateTimes(list) = {UpdateDue(n) : n \in 1..(next - 1)}

(* Between two calls: the next update is still to come. *)
SimulatorFits ==
  /\ Interval /\ IsSim(sim) /\ sim.surface_updated_at <= sim.elapsed
  /\ OnSchedule(delivered, sim.next_update_index, sim.surface_updated_at)
  /\ UpdateDue(sim.next_update_index) > sim.elapsed \/ sim.elapsed = 0

(* What the caller was given and will be given by this call. *)
Given == delivered \o emitted

(* During a call. *)
CandidateFits ==
  /\ IsSim(candidate) /\ target_time \in Nat /\ candidate.surface_updated_at <= target_time
  /\ emitted \in Seq(Occurrences) /\ delivered \in Seq(Occurrences)
  /\ OnSchedule(Given, candidate.next_update_index, candidate.surface_updated_at)

ScheduleInv ==
  /\ inputs \in Inputs
  /\ pc \in {"build", "idle", "advancing", "failed"}
  /\ pc \in {"build", "failed"} => sim = Absent
  /\ pc # "advancing" => emitted = <<>>
  /\ pc = "build" => delivered = <<>>
  /\ pc \in {"idle", "advancing"} => SimulatorFits
  /\ pc = "advancing" => CandidateFits

-----------------------------------------------------------------------------

(* The schedule is the one of the nearest ticks. *)
LEMMA UpdateDueFacts ==
  ASSUME Interval, NEW i \in Nat, NEW j \in Nat, i <= j
  PROVE  UpdateDue(i) \in Nat /\ UpdateDue(i) <= UpdateDue(j)
<1>1. UpdateInterval.numerator \in Nat \ {0} /\ UpdateInterval.denominator \in Nat \ {0}
  BY RatioIsDecimal DEF Interval, UpdateInterval
<1>2. QED
  BY <1>1, RoundedGrows DEF UpdateDue

LEMMA NearestIsUpdateDue ==
  ASSUME Interval, NEW i \in Nat
  PROVE  NearestTick(i) = UpdateDue(i)
<1> DEFINE d == Config.update_interval
           num == UpdateInterval.numerator
           den == UpdateInterval.denominator
<1>1. d.digits \in Nat \ {0} /\ d.exponent \in Int
  BY DEF Interval
<1>2. num \in Nat \ {0} /\ den \in Nat \ {0}
  BY <1>1, RatioIsDecimal DEF UpdateInterval
<1>3. PICK c \in Nat \ {0} : d.digits * Power(d.exponent) = c * num /\ Power(-d.exponent) = c * den
  BY <1>1, RatioIsDecimal DEF UpdateInterval
<1>4. Power(d.exponent) \in Nat
  BY <1>1, TenToFacts DEF Power
<1>5. i * d.digits * Power(d.exponent) = c * (num * i)
  <2> DEFINE m == d.digits
             u == Power(d.exponent)
  <2>1. m \in Nat /\ u \in Nat /\ m * u = c * num
    BY <1>1, <1>3, <1>4
  <2> HIDE DEF m, u, num
  <2>2. i * m * u = i * (m * u) /\ i * (c * num) = c * (num * i)
    BY <2>1, <1>2
  <2>3. QED
    BY <2>1, <2>2 DEF m, u
<1>6. Nearest(c * (num * i), c * den) = RoundedMultiple(UpdateInterval, i)
  BY <1>2, RoundedIsNearest
<1> HIDE DEF num, den
<1>7. NearestTick(i) = Nearest(c * (num * i), c * den)
  BY <1>3, <1>5 DEF NearestTick
<1>8. QED
  BY <1>6, <1>7 DEF UpdateDue

(* What is kept is what the property asks for. *)
LEMMA SimulatorOnSchedule == ScheduleInv => EventsOnSchedule
<1> SUFFICES ASSUME ScheduleInv, sim # Absent PROVE EventsOnSchedule
  BY DEF EventsOnSchedule
<1>1. SimulatorFits
  BY DEF ScheduleInv
<1> DEFINE next == sim.next_update_index
           list == delivered
           through == sim.surface_updated_at
           elapsed == sim.elapsed
<1>2. /\ Interval /\ next \in Nat \ {0} /\ through \in Nat /\ elapsed \in Nat /\ through <= elapsed
      /\ OnSchedule(list, next, through)
      /\ UpdateDue(next) > elapsed \/ elapsed = 0
  BY <1>1 DEF SimulatorFits, IsSim
<1> HIDE DEF next, list, through, elapsed
<1>3. \A n \in Nat : UpdateDue(n) \in Nat /\ NearestTick(n) = UpdateDue(n)
  BY <1>2, UpdateDueFacts, NearestIsUpdateDue
<1>4. list \in Seq(Occurrences) /\ Len(list) \in Nat /\ next <= Len(list) + 1
  BY <1>2 DEF OnSchedule
<1>5. UpdateTimes(list) \subseteq 1..elapsed
  BY <1>2 DEF OnSchedule, UpdateTimes
<1>6. ASSUME NEW t
      PROVE  t \in UpdateTimes(list)
               <=> t \in 1..elapsed /\ \E n \in 1..(Len(list) + 1) : t = NearestTick(n)
  <2>1. ASSUME t \in UpdateTimes(list)
        PROVE  t \in 1..elapsed /\ \E n \in 1..(Len(list) + 1) : t = NearestTick(n)
    <3>1. PICK n \in 1..(next - 1) : t = UpdateDue(n)
      BY <2>1, <1>2 DEF OnSchedule
    <3>2. n \in 1..(Len(list) + 1) /\ n \in Nat
      BY <3>1, <1>2, <1>4
    <3>3. QED
      BY <2>1, <3>1, <3>2, <1>3, <1>5
  <2>2. ASSUME t \in 1..elapsed, NEW n \in 1..(Len(list) + 1), t = NearestTick(n)
        PROVE  t \in UpdateTimes(list)
    <3>1. n \in Nat /\ t = UpdateDue(n) /\ t <= elapsed /\ elapsed # 0
      BY <2>2, <1>2, <1>3, <1>4
    <3>2. n < next
      <4>1. SUFFICES ASSUME next <= n PROVE FALSE
        BY <3>1, <1>2
      <4>2. UpdateDue(next) <= UpdateDue(n) /\ UpdateDue(next) \in Nat /\ UpdateDue(n) \in Nat
        BY <3>1, <4>1, <1>2, <1>3, UpdateDueFacts
      <4>3. QED
        BY <3>1, <4>2, <1>2
    <3>3. n \in 1..(next - 1)
      BY <3>1, <3>2, <1>2
    <3>4. QED
      BY <3>1, <3>3, <1>2 DEF OnSchedule
  <2>3. QED
    BY <2>1, <2>2
<1>7. UpdateTimes(list) = {NearestTick(n) : n \in 1..(Len(list) + 1)} \cap (1..elapsed)
  BY <1>6
<1>8. \A i, j \in DOMAIN list : i < j => list[i].time < list[j].time
  BY <1>2 DEF OnSchedule
<1>9. QED
  BY <1>7, <1>8 DEF EventsOnSchedule, list, elapsed

-----------------------------------------------------------------------------

(* An event in the order of time is on schedule. *)
LEMMA NextEventFits ==
  ASSUME Interval, NEW list, NEW next \in Nat \ {0}, NEW through \in Nat,
         OnSchedule(list, next, through),
         NEW time \in Nat, time > through, NEW update \in BOOLEAN,
         update => time = UpdateDue(next)
  PROVE  OnSchedule(Append(list, [time |-> time, update |-> update]),
                    next + (IF update THEN 1 ELSE 0), time)
<1> DEFINE e == [time |-> time, update |-> update]
           longer == Append(list, e)
           len == Len(list)
           index == next + (IF update THEN 1 ELSE 0)
<1>1. list \in Seq(Occurrences) /\ e \in Occurrences /\ len \in Nat /\ DOMAIN list = 1..len
  BY DEF OnSchedule, Occurrences
<1>2. /\ longer \in Seq(Occurrences) /\ Len(longer) = len + 1 /\ DOMAIN longer = 1..(len + 1)
      /\ longer[len + 1] = e /\ \A i \in 1..len : longer[i] = list[i]
  BY <1>1
<1> HIDE DEF longer, len
<1>3. e.time = time /\ e.update = update
  OBVIOUS
<1> HIDE DEF e
<1>4. /\ next <= len + 1 /\ \A i \in 1..len : list[i].time \in 1..through
      /\ \A i, j \in 1..len : i < j => list[i].time < list[j].time
      /\ UpdateTimes(list) = {UpdateDue(n) : n \in 1..(next - 1)}
  BY <1>1 DEF OnSchedule, len
<1>5. index \in Nat \ {0} /\ index <= len + 2
  BY <1>1, <1>4
<1>6. \A i \in 1..(len + 1) : longer[i].time \in 1..time
  <2>1. ASSUME NEW i \in 1..len PROVE longer[i].time \in 1..time
    BY <1>2, <1>4
  <2>2. longer[len + 1].time \in 1..time
    BY <1>2, <1>3
  <2>3. QED
    BY <2>1, <2>2, <1>1
<1>7. ASSUME NEW i \in 1..(len + 1), NEW j \in 1..(len + 1), i < j
      PROVE  longer[i].time < longer[j].time
  <2>1. i \in 1..len /\ longer[i].time = list[i].time /\ list[i].time \in 1..through
    BY <1>1, <1>2, <1>4, <1>7
  <2>2. CASE j \in 1..len
    BY <2>1, <2>2, <1>2, <1>4, <1>7
  <2>3. CASE j = len + 1
    BY <2>1, <2>3, <1>2, <1>3
  <2>4. QED
    BY <2>2, <2>3, <1>1
<1>8. UpdateTimes(longer) = UpdateTimes(list) \cup (IF update THEN {time} ELSE {})
  <2>1. ASSUME NEW t
        PROVE  t \in UpdateTimes(longer)
                 <=> \/ \E i \in 1..len : list[i].update /\ t = list[i].time
                     \/ update /\ t = time
    BY <1>1, <1>2, <1>3 DEF UpdateTimes
  <2>2. ASSUME NEW t
        PROVE  t \in UpdateTimes(list) <=> \E i \in 1..len : list[i].update /\ t = list[i].time
    BY <1>1 DEF UpdateTimes
  <2>3. QED
    BY <2>1, <2>2
<1>9. {UpdateDue(n) : n \in 1..(index - 1)}
        = {UpdateDue(n) : n \in 1..(next - 1)} \cup (IF update THEN {time} ELSE {})
  <2>1. CASE update
    <3>1. index - 1 = next /\ \A n : n \in 1..next <=> n \in 1..(next - 1) \/ n = next
      BY <2>1
    <3> HIDE DEF index
    <3>2. QED
      BY <2>1, <3>1
  <2>2. CASE ~ update
    BY <2>2
  <2>3. QED
    BY <2>1, <2>2
<1>10. QED
  <2> HIDE DEF index
  <2>1. OnSchedule(longer, index, time)
    <3>1. index <= Len(longer) + 1
      BY <1>1, <1>2, <1>5
    <3>2. UpdateTimes(longer) = {UpdateDue(n) : n \in 1..(index - 1)}
      BY <1>4, <1>8, <1>9
    <3>3. QED
      BY <3>1, <3>2, <1>2, <1>6, <1>7 DEF OnSchedule
  <2>2. QED
    BY <2>1 DEF longer, e, index

(* Every plan has an end. *)
LEMMA PlansEnd ==
  ASSUME inputs \in Inputs, NEW start \in Int
  PROVE  /\ \A g : \A plan \in FillPlans(g, start) : PhaseEndsAt(plan) \in Int
         /\ \A surface : \A plan \in CollectionPlans(start, surface) : PhaseEndsAt(plan) \in Int
<1>1. /\ Config.mean_fill_duration \in Int
      /\ Config.fill_duration_factor_range \in Int \X Int
      /\ Config.collection_duration_factor_range \in Int \X Int
      /\ Unit \in Nat \ {0}
  BY InputsAssumption, RateProfileAssumption DEF Config
<1>2. ASSUME NEW range \in Int \X Int
      PROVE  Durations(range) \subseteq Int
  BY <1>1 DEF Durations, Uniform
<1>3. ASSUME NEW duration \in Int, NEW factors, NEW changes,
             NEW profile \in Profiles(duration, factors, changes)
      PROVE  profile.duration \in Int
  <2>1. \E segments : profile = [duration |-> duration, segments |-> segments]
    BY <1>3, Zenon DEF Profiles
  <2>2. QED
    BY <2>1, <1>3
<1>4. ASSUME NEW g, NEW plan \in FillPlans(g, start)
      PROVE  PhaseEndsAt(plan) \in Int
  <2>1. PICK duration \in Durations(Config.fill_duration_factor_range) :
               plan.profile \in Profiles(duration, Config.fill_rate_factor_range,
                                         ScaledRange(Config.fill_rate_change_duration_range))
    BY DEF FillPlans
  <2>2. plan.start = start
    BY DEF FillPlans
  <2>3. QED
    BY <2>1, <2>2, <1>1, <1>2, <1>3 DEF PhaseEndsAt
<1>5. ASSUME NEW surface, NEW plan \in CollectionPlans(start, surface)
      PROVE  PhaseEndsAt(plan) \in Int
  <2>1. PICK duration \in Durations(Config.collection_duration_factor_range) :
               plan.profile \in Profiles(duration, Config.collection_rate_factor_range,
                                         ScaledRange(Config.collection_rate_change_duration_range))
    BY DEF CollectionPlans
  <2>2. plan.start = start
    BY DEF CollectionPlans
  <2>3. QED
    BY <2>1, <2>2, <1>1, <1>2, <1>3 DEF PhaseEndsAt
<1>6. QED
  BY <1>4, <1>5

-----------------------------------------------------------------------------

(* The next event of a simulator. *)
LEMMA NextEventFacts ==
  ASSUME Interval, NEW s, IsSim(s)
  PROVE  /\ NextUpdateTime(s) = UpdateDue(s.next_update_index) /\ NextUpdateTime(s) \in Nat
         /\ NextEvent(s) \in Int /\ NextEvent(s) <= NextUpdateTime(s)
<1>1. s.next_update_index \in Nat /\ PhaseEndsAt(Plan(s)) \in Int
  BY DEF IsSim
<1>2. NextUpdateTime(s) = UpdateDue(s.next_update_index) /\ NextUpdateTime(s) \in Nat
  BY <1>1, UpdateDueFacts DEF NextUpdateTime, UpdateDue
<1> DEFINE a == NextUpdateTime(s)
           b == PhaseEndsAt(Plan(s))
<1>3. a \in Int /\ b \in Int
  BY <1>1, <1>2
<1> HIDE DEF a, b
<1>4. Min({a, b}) \in {a, b} /\ Min({a, b}) <= a
  <2>1. \E x \in {a, b} : \A y \in {a, b} : x <= y
    BY <1>3
  <2>2. QED
    BY <2>1 DEF Min
<1>5. QED
  BY <1>2, <1>3, <1>4 DEF NextEvent, a, b

(* What an event leaves of a simulator before its phase may change. *)
Reached(s, surface, time, update_due) ==
  [s EXCEPT !.surface = surface, !.surface_updated_at = time, !.elapsed = time,
            !.next_update_index = @ + (IF update_due THEN 1 ELSE 0)]

LEMMA ReachedIsSim ==
  ASSUME NEW s, IsSim(s), NEW surface, NEW time \in Nat, NEW update_due \in BOOLEAN
  PROVE  LET r == Reached(s, surface, time, update_due)
         IN /\ IsSim(r) /\ r.surface_updated_at = time /\ r.elapsed = time
            /\ r.next_update_index = s.next_update_index + (IF update_due THEN 1 ELSE 0)
<1> DEFINE r == Reached(s, surface, time, update_due)
           index == s.next_update_index + (IF update_due THEN 1 ELSE 0)
<1>1. r = [elapsed |-> time, surface_updated_at |-> time, next_update_index |-> index,
           cycle_index |-> s.cycle_index, phase |-> s.phase, current_inlet |-> s.current_inlet,
           fill_plan |-> s.fill_plan, collection_plan |-> s.collection_plan,
           surface |-> surface]
  <2>1. r = [s EXCEPT !.surface = surface, !.surface_updated_at = time, !.elapsed = time,
                      !.next_update_index = index]
    BY DEF Reached
  <2>2. s = [elapsed |-> s.elapsed, surface_updated_at |-> s.surface_updated_at,
             next_update_index |-> s.next_update_index, cycle_index |-> s.cycle_index,
             phase |-> s.phase, current_inlet |-> s.current_inlet, fill_plan |-> s.fill_plan,
             collection_plan |-> s.collection_plan, surface |-> s.surface]
    BY DEF IsSim
  <2> HIDE DEF r, index
  <2>3. QED
    BY <2>1, <2>2
<1>2. index \in Nat \ {0} /\ s.phase \in {"filling", "collecting"} /\ PhaseEndsAt(Plan(s)) \in Int
  BY DEF IsSim
<1> HIDE DEF r, index
<1>3. /\ r.elapsed = time /\ r.surface_updated_at = time /\ r.next_update_index = index
      /\ r.phase = s.phase /\ r.fill_plan = s.fill_plan /\ r.collection_plan = s.collection_plan
      /\ r.cycle_index = s.cycle_index /\ r.current_inlet = s.current_inlet
      /\ r.surface = surface
  BY <1>1
<1>4. Plan(r) = Plan(s)
  BY <1>3 DEF Plan
<1>5. IsSim(r)
  BY <1>1, <1>2, <1>3, <1>4 DEF IsSim
<1>6. QED
  BY <1>3, <1>5 DEF r, index

(* A new inlet, phase and plan keep the times and the index. *)
Follows(next, r, time) ==
  next \in TransitionPhase(r, time) \/ next = SwitchInletIfNeeded(r) \/ next = r

LEMMA FollowsIsSim ==
  ASSUME inputs \in Inputs, NEW r, IsSim(r), NEW time \in Nat, NEW next, Follows(next, r, time)
  PROVE  /\ IsSim(next)
         /\ next.elapsed = r.elapsed /\ next.surface_updated_at = r.surface_updated_at
         /\ next.next_update_index = r.next_update_index
<1>1. CASE next \in TransitionPhase(r, time) /\ r.phase = "filling"
  <2>1. PICK plan \in CollectionPlans(time, r.surface) :
               next = [r EXCEPT !.phase = "collecting", !.collection_plan = plan]
    BY <1>1 DEF TransitionPhase
  <2>2. PhaseEndsAt(plan) \in Int
    BY PlansEnd
  <2>3. next = [elapsed |-> r.elapsed, surface_updated_at |-> r.surface_updated_at,
                next_update_index |-> r.next_update_index, cycle_index |-> r.cycle_index,
                phase |-> "collecting", current_inlet |-> r.current_inlet,
                fill_plan |-> r.fill_plan, collection_plan |-> plan, surface |-> r.surface]
    BY <2>1 DEF IsSim
  <2>4. Plan(next) = plan
    BY <2>3 DEF Plan
  <2>5. QED
    BY <2>2, <2>3, <2>4 DEF IsSim
<1>2. CASE next \in TransitionPhase(r, time) /\ r.phase # "filling"
  <2>1. PICK plan \in FillPlans(grid, time) :
               next = [r EXCEPT !.phase = "filling", !.current_inlet = 1, !.cycle_index = @ + 1,
                                !.collection_plan = Absent, !.fill_plan = plan]
    BY <1>2 DEF TransitionPhase
  <2>2. PhaseEndsAt(plan) \in Int
    BY PlansEnd
  <2>3. next = [elapsed |-> r.elapsed, surface_updated_at |-> r.surface_updated_at,
                next_update_index |-> r.next_update_index, cycle_index |-> r.cycle_index + 1,
                phase |-> "filling", current_inlet |-> 1,
                fill_plan |-> plan, collection_plan |-> Absent, surface |-> r.surface]
    BY <2>1 DEF IsSim
  <2>4. Plan(next) = plan
    BY <2>3 DEF Plan
  <2>5. QED
    BY <2>2, <2>3, <2>4 DEF IsSim
<1>3. CASE next = SwitchInletIfNeeded(r)
  <2>1. next = r \/ \E lowest : next = [r EXCEPT !.current_inlet = lowest]
    BY <1>3 DEF SwitchInletIfNeeded
  <2>2. ASSUME NEW lowest, next = [r EXCEPT !.current_inlet = lowest]
        PROVE  /\ IsSim(next)
               /\ next.elapsed = r.elapsed /\ next.surface_updated_at = r.surface_updated_at
               /\ next.next_update_index = r.next_update_index
    <3>1. next = [elapsed |-> r.elapsed, surface_updated_at |-> r.surface_updated_at,
                  next_update_index |-> r.next_update_index, cycle_index |-> r.cycle_index,
                  phase |-> r.phase, current_inlet |-> lowest,
                  fill_plan |-> r.fill_plan, collection_plan |-> r.collection_plan,
                  surface |-> r.surface]
      BY <2>2 DEF IsSim
    <3>2. Plan(next) = Plan(r)
      BY <3>1 DEF Plan
    <3>3. QED
      BY <3>1, <3>2 DEF IsSim
  <2>3. QED
    BY <2>1, <2>2
<1>4. CASE next = r
  BY <1>4
<1>5. QED
  BY <1>1, <1>2, <1>3, <1>4 DEF Follows

-----------------------------------------------------------------------------

(* What is kept depends on the inputs, the simulator and the list given. *)
LEMMA SimulatorStays ==
  ASSUME SimulatorFits, UNCHANGED <<inputs, sim, delivered>>
  PROVE  SimulatorFits'
<1>1. inputs' = inputs /\ sim' = sim /\ delivered' = delivered
  OBVIOUS
<1>2. Config' = Config /\ UpdateInterval' = UpdateInterval
  BY <1>1 DEF Config, UpdateInterval
<1>3. QED
  BY <1>1, <1>2 DEF SimulatorFits, Interval, OnSchedule, UpdateDue, IsSim, UpdateTimes, PhaseEndsAt, Plan

-----------------------------------------------------------------------------
(* The actions of the scenario. *)

LEMMA BuildKeeps == ScheduleInv /\ Build => ScheduleInv'
<1> SUFFICES ASSUME ScheduleInv, Build PROVE ScheduleInv'
  OBVIOUS
<1>1. /\ inputs \in Inputs /\ sim = Absent /\ emitted = <<>> /\ delivered = <<>>
      /\ inputs' = inputs /\ emitted' = emitted /\ delivered' = delivered
  BY DEF ScheduleInv, Build
<1>2. CASE pc' = "failed" /\ sim' = sim
  BY <1>1, <1>2 DEF ScheduleInv
<1>3. CASE ~ (pc' = "failed" /\ sim' = sim)
  <2>1. /\ pc' = "idle" /\ ValidConfig
        /\ \E plan \in FillPlans(NewGrid(inputs.boundary), 0) :
             sim' = [elapsed |-> 0, surface_updated_at |-> 0,
                     next_update_index |-> 1, cycle_index |-> 0,
                     phase |-> "filling", current_inlet |-> 1,
                     fill_plan |-> plan, collection_plan |-> Absent,
                     surface |-> Empty(NewGrid(inputs.boundary))]
    BY <1>3, Zenon DEF Build
  <2>2. PICK plan \in FillPlans(NewGrid(inputs.boundary), 0) :
             sim' = [elapsed |-> 0, surface_updated_at |-> 0,
                     next_update_index |-> 1, cycle_index |-> 0,
                     phase |-> "filling", current_inlet |-> 1,
                     fill_plan |-> plan, collection_plan |-> Absent,
                     surface |-> Empty(NewGrid(inputs.boundary))]
    BY <2>1
  <2>3. PhaseEndsAt(plan) \in Int
    BY <1>1, PlansEnd
  <2>4. /\ sim'.elapsed = 0 /\ sim'.surface_updated_at = 0 /\ sim'.next_update_index = 1
        /\ sim'.phase = "filling" /\ sim'.fill_plan = plan
    BY <2>2
  <2>5. IsSim(sim')
    BY <2>2, <2>3, <2>4 DEF IsSim, Plan
  <2>6. Interval
    <3>1. Config.update_interval \in [digits : Int, exponent : Int]
      BY <1>1, InputsAssumption DEF Config
    <3>2. Config.update_interval.digits > 0
      BY <2>1 DEF ValidConfig
    <3>3. QED
      BY <3>1, <3>2 DEF Interval
  <2>7. OnSchedule(<<>>, 1, 0)'
    <3>1. DOMAIN << >> = {} /\ UpdateTimes(<< >>) = {} /\ 1..(1 - 1) = {} /\ Len(<< >>) = 0
      BY DEF UpdateTimes
    <3>2. << >> \in Seq(Occurrences)
      OBVIOUS
    <3>3. {UpdateDue(n)' : n \in 1..(1 - 1)} = {}
      BY <3>1
    <3>4. QED
      BY <3>1, <3>2, <3>3 DEF OnSchedule, UpdateTimes, Occurrences
  <2>8. Interval'
    BY <2>6, <1>1 DEF Interval, Config
  <2>9. SimulatorFits'
    BY <2>4, <2>5, <2>7, <2>8, <1>1 DEF SimulatorFits, IsSim
  <2>10. QED
    BY <1>1, <2>1, <2>9 DEF ScheduleInv
<1>4. QED
  BY <1>2, <1>3

LEMMA AdvanceKeeps == ScheduleInv /\ Advance => ScheduleInv'
<1> SUFFICES ASSUME ScheduleInv, Advance PROVE ScheduleInv'
  OBVIOUS
<1>1. /\ inputs' = inputs /\ sim' = sim /\ emitted' = emitted /\ delivered' = delivered
      /\ pc = "idle" /\ emitted = <<>> /\ SimulatorFits /\ inputs \in Inputs
  BY DEF ScheduleInv, Advance
<1>2. SimulatorFits'
  BY <1>1, SimulatorStays
<1>3. CASE pc' = pc
  BY <1>1, <1>2, <1>3 DEF ScheduleInv
<1>4. CASE pc' # pc
  <2>1. PICK t \in CallTimes : /\ ~ (t < sim.elapsed)
                               /\ pc' = "advancing" /\ candidate' = sim /\ target_time' = t
    BY <1>4 DEF Advance
  <2>2. t \in Nat
    BY ScenarioSimulatorAssumption
  <2>3. IsSim(sim) /\ sim.surface_updated_at <= t
    BY <1>1, <2>1, <2>2 DEF SimulatorFits, IsSim
  <2>4. delivered \in Seq(Occurrences) /\ delivered \o emitted = delivered
    BY <1>1 DEF SimulatorFits, OnSchedule
  <2>5. OnSchedule(delivered \o emitted, sim.next_update_index, sim.surface_updated_at)
    BY <1>1, <2>4 DEF SimulatorFits
  <2>6. CandidateFits'
    <3>1. Config' = Config /\ UpdateInterval' = UpdateInterval
      BY <1>1 DEF Config, UpdateInterval
    <3>2. IsSim(candidate)'
      BY <2>1, <2>3 DEF IsSim, PhaseEndsAt, Plan
    <3>3. Given' = Given /\ OnSchedule(Given, sim.next_update_index, sim.surface_updated_at)
      BY <1>1, <2>5 DEF Given
    <3>4. OnSchedule(Given, candidate.next_update_index, candidate.surface_updated_at)'
      BY <2>1, <3>1, <3>3 DEF OnSchedule, UpdateDue, UpdateTimes
    <3>5. emitted' \in Seq(Occurrences)
      BY <1>1
    <3>6. QED
      BY <1>1, <2>1, <2>2, <2>3, <2>4, <3>2, <3>4, <3>5 DEF CandidateFits, Occurrences
  <2>7. QED
    BY <1>1, <1>2, <2>1, <2>6 DEF ScheduleInv
<1>5. QED
  BY <1>3, <1>4

(* An event fails, or happens. *)
Happens(next) ==
  LET time == NextEvent(candidate)
      update_due == time = NextUpdateTime(candidate)
  IN /\ ~ (time <= candidate.surface_updated_at)
     /\ \E surface : Follows(next, Reached(candidate, surface, time, update_due), time)
     /\ candidate' = next
     /\ emitted' = Append(emitted, [time |-> time, update |-> update_due])
     /\ UNCHANGED <<pc, sim, target_time, result, delivered>>

LEMMA EventOutcomes == Event => (\E error : Fail(error)) \/ (\E next : Happens(next))
  BY Zenon DEF Event, Happens, Follows, Reached

LEMMA EventKeeps == ScheduleInv /\ Event => ScheduleInv'
<1> SUFFICES ASSUME ScheduleInv, Event PROVE ScheduleInv'
  OBVIOUS
<1>1. /\ inputs \in Inputs /\ inputs' = inputs /\ pc = "advancing" /\ SimulatorFits /\ CandidateFits
      /\ NextEvent(candidate) <= target_time
  BY DEF ScheduleInv, Event
<1>2. ASSUME NEW error, Fail(error) PROVE ScheduleInv'
  <2>1. /\ pc' = "idle" /\ emitted' = <<>> /\ sim' = sim /\ delivered' = delivered
    BY <1>2 DEF Fail
  <2>2. SimulatorFits'
    BY <1>1, <2>1, SimulatorStays
  <2>3. QED
    BY <1>1, <2>1, <2>2 DEF ScheduleInv
<1>3. ASSUME NEW next, Happens(next) PROVE ScheduleInv'
  <2> DEFINE time == NextEvent(candidate)
             update_due == time = NextUpdateTime(candidate)
             e == [time |-> time, update |-> update_due]
  <2>1. /\ ~ (time <= candidate.surface_updated_at)
        /\ candidate' = next /\ emitted' = Append(emitted, e)
        /\ pc' = pc /\ sim' = sim /\ target_time' = target_time /\ delivered' = delivered
    BY <1>3 DEF Happens
  <2>2. PICK surface : Follows(next, Reached(candidate, surface, time, update_due), time)
    BY <1>3 DEF Happens
  <2>3. /\ Interval /\ IsSim(candidate) /\ target_time \in Nat
        /\ emitted \in Seq(Occurrences) /\ delivered \in Seq(Occurrences)
        /\ OnSchedule(Given, candidate.next_update_index, candidate.surface_updated_at)
    BY <1>1 DEF SimulatorFits, CandidateFits
  <2>4. /\ NextUpdateTime(candidate) = UpdateDue(candidate.next_update_index)
        /\ NextUpdateTime(candidate) \in Nat /\ NextEvent(candidate) \in Int
    BY <2>3, NextEventFacts
  <2>5. candidate.surface_updated_at \in Nat /\ candidate.next_update_index \in Nat \ {0}
    BY <2>3 DEF IsSim
  <2>6. time \in Nat /\ time > candidate.surface_updated_at /\ time <= target_time
    BY <1>1, <2>1, <2>4, <2>5
  <2>7. update_due \in BOOLEAN /\ (update_due => time = UpdateDue(candidate.next_update_index))
    BY <2>4
  <2> HIDE DEF time, update_due
  <2> DEFINE index == candidate.next_update_index + (IF update_due THEN 1 ELSE 0)
  <2>8. OnSchedule(Append(Given, e), index, time)
    BY <2>3, <2>5, <2>6, <2>7, NextEventFits
  <2>9. e \in Occurrences
    BY <2>6, <2>7 DEF Occurrences
  <2> HIDE DEF e
  <2>10. Given' = Append(Given, e)
    <3>1. delivered \o Append(emitted, e) = Append(delivered \o emitted, e)
      BY <2>3, <2>9
    <3>2. QED
      BY <2>1, <3>1 DEF Given
  <2> DEFINE r == Reached(candidate, surface, time, update_due)
  <2>11. IsSim(r) /\ r.surface_updated_at = time /\ r.next_update_index = index
    BY <2>3, <2>6, <2>7, ReachedIsSim
  <2> HIDE DEF r, index
  <2>12. IsSim(next) /\ next.surface_updated_at = time /\ next.next_update_index = index
    BY <1>1, <2>2, <2>6, <2>11, FollowsIsSim DEF r
  <2>13. CandidateFits'
    <3>1. Config' = Config /\ UpdateInterval' = UpdateInterval
      BY <1>1 DEF Config, UpdateInterval
    <3>2. IsSim(candidate)'
      BY <2>1, <2>12 DEF IsSim, PhaseEndsAt, Plan
    <3>3. OnSchedule(Given', index, time)
      BY <2>8, <2>10
    <3>4. OnSchedule(Given, candidate.next_update_index, candidate.surface_updated_at)'
      BY <2>1, <2>12, <3>1, <3>3 DEF OnSchedule, UpdateDue, UpdateTimes
    <3>5. emitted' \in Seq(Occurrences)
      BY <2>1, <2>3, <2>9
    <3>6. QED
      BY <2>1, <2>3, <2>6, <2>12, <3>2, <3>4, <3>5 DEF CandidateFits, Occurrences
  <2>14. SimulatorFits'
    BY <1>1, <2>1, SimulatorStays
  <2>15. QED
    BY <1>1, <2>1, <2>13, <2>14 DEF ScheduleInv
<1>4. QED
  BY <1>2, <1>3, EventOutcomes

LEMMA FinishKeeps == ScheduleInv /\ Finish => ScheduleInv'
<1> SUFFICES ASSUME ScheduleInv, Finish PROVE ScheduleInv'
  OBVIOUS
<1>1. /\ inputs \in Inputs /\ inputs' = inputs /\ pc' = "idle" /\ emitted' = <<>>
      /\ sim' = [candidate EXCEPT !.elapsed = target_time] /\ delivered' = delivered \o emitted
      /\ NextEvent(candidate) > target_time /\ SimulatorFits /\ CandidateFits
  BY DEF ScheduleInv, Finish
<1>2. /\ Interval /\ IsSim(candidate) /\ target_time \in Nat /\ candidate.surface_updated_at <= target_time
      /\ OnSchedule(Given, candidate.next_update_index, candidate.surface_updated_at)
  BY <1>1 DEF SimulatorFits, CandidateFits
<1>3. UpdateDue(candidate.next_update_index) > target_time
  BY <1>1, <1>2, NextEventFacts
<1>4. sim' = [elapsed |-> target_time, surface_updated_at |-> candidate.surface_updated_at,
              next_update_index |-> candidate.next_update_index,
              cycle_index |-> candidate.cycle_index, phase |-> candidate.phase,
              current_inlet |-> candidate.current_inlet, fill_plan |-> candidate.fill_plan,
              collection_plan |-> candidate.collection_plan, surface |-> candidate.surface]
  BY <1>1, <1>2 DEF IsSim
<1>5. Plan(sim') = Plan(candidate)
  BY <1>4 DEF Plan
<1>6. IsSim(sim')
  BY <1>2, <1>4, <1>5 DEF IsSim
<1>7. Config' = Config /\ UpdateInterval' = UpdateInterval
  BY <1>1 DEF Config, UpdateInterval
<1>8. /\ sim'.elapsed = target_time /\ sim'.surface_updated_at = candidate.surface_updated_at
      /\ sim'.next_update_index = candidate.next_update_index
  BY <1>4
<1>9. IsSim(sim)'
  BY <1>6 DEF IsSim, PhaseEndsAt, Plan
<1>10. OnSchedule(delivered, sim.next_update_index, sim.surface_updated_at)'
  <2> DEFINE next == candidate.next_update_index
             through == candidate.surface_updated_at
  <2>1. /\ Given \in Seq(Occurrences) /\ next <= Len(Given) + 1
        /\ \A i \in DOMAIN Given : Given[i].time \in 1..through
        /\ \A i, j \in DOMAIN Given : i < j => Given[i].time < Given[j].time
        /\ UpdateTimes(Given) = {UpdateDue(n) : n \in 1..(next - 1)}
    BY Zenon, <1>2 DEF OnSchedule
  <2>2. delivered' = Given /\ sim'.next_update_index = next /\ sim'.surface_updated_at = through
    BY Zenon, <1>1, <1>8 DEF Given
  <2>3. \A n : UpdateDue(n)' = UpdateDue(n)
    BY Zenon, <1>7 DEF UpdateDue
  <2>4. UpdateTimes(delivered)' = UpdateTimes(Given)
    BY Zenon, <2>2 DEF UpdateTimes
  <2> HIDE DEF next, through
  <2>5. {UpdateDue(n)' : n \in 1..(next - 1)} = {UpdateDue(n) : n \in 1..(next - 1)}
    BY Zenon, <2>3
  <2>6. QED
    BY <2>1, <2>2, <2>4, <2>5 DEF OnSchedule
<1>11. (UpdateDue(sim.next_update_index) > sim.elapsed)'
  BY <1>3, <1>7, <1>8 DEF UpdateDue
<1>12. SimulatorFits'
  BY <1>2, <1>7, <1>8, <1>9, <1>10, <1>11 DEF SimulatorFits, Interval
<1>13. QED
  BY <1>1, <1>12 DEF ScheduleInv

LEMMA StutterKeeps == ScheduleInv /\ UNCHANGED scenarioVars => ScheduleInv'
<1> SUFFICES ASSUME ScheduleInv, UNCHANGED scenarioVars PROVE ScheduleInv'
  OBVIOUS
<1>1. /\ pc' = pc /\ inputs' = inputs /\ sim' = sim /\ candidate' = candidate
      /\ target_time' = target_time /\ emitted' = emitted /\ delivered' = delivered
  BY DEF scenarioVars
<1>2. Config' = Config /\ UpdateInterval' = UpdateInterval
  BY <1>1 DEF Config, UpdateInterval
<1>3. SimulatorFits => SimulatorFits'
  BY <1>1, SimulatorStays
<1>4. CandidateFits => CandidateFits'
  <2>1. Given' = Given
    BY <1>1 DEF Given
  <2>2. IsSim(candidate) => IsSim(candidate)'
    BY <1>1 DEF IsSim, PhaseEndsAt, Plan
  <2>3. QED
    BY <1>1, <1>2, <2>1, <2>2 DEF CandidateFits, OnSchedule, UpdateDue, UpdateTimes, Occurrences
<1>5. QED
  BY <1>1, <1>3, <1>4 DEF ScheduleInv

(* The simulator between calls, and its copy during a call, are on         *)
(* schedule (advance_to, advance_inner).                                   *)
THEOREM ScheduleInductive == ScenarioSpec => []ScheduleInv
<1>1. ScenarioInit => ScheduleInv
  BY DEF ScenarioInit, ScheduleInv
<1>2. ScheduleInv /\ [ScenarioNext]_scenarioVars => ScheduleInv'
  BY BuildKeeps, AdvanceKeeps, EventKeeps, FinishKeeps, StutterKeeps DEF ScenarioNext
<1>3. QED
  BY <1>1, <1>2, PTL DEF ScenarioSpec

(* Whatever the interval, the scenario and the times of the calls, and     *)
(* whichever of them fail, callers get every surface update up to the      *)
(* elapsed time once, at the nearest tick of its multiple of the decimal   *)
(* interval (advance_to, next_update_time, PositiveRatio).                 *)
THEOREM ScheduleCorrect == ScenarioSpec => []EventsOnSchedule
<1>1. ScenarioSpec => []ScheduleInv
  BY ScheduleInductive
<1>2. QED
  BY <1>1, SimulatorOnSchedule, PTL

-----------------------------------------------------------------------------
(* The surface of the scenario. *)

(* lowest_inlet finds one, however the heights compare.                    *)
LEMMA LowestInletFacts ==
  ASSUME NEW n \in Nat \ {0}, NEW heights \in [1..n -> Rationals]
  PROVE  LowestInlet(heights) \in 1..n
<1> DEFINE Lowest(i, m) ==
             \A j \in 1..m :
               IF j < i THEN LessThan(heights[i], heights[j]) ELSE ~LessThan(heights[j], heights[i])
           M == {k \in Nat : k + 1 <= n => \E i \in 1..(k + 1) : Lowest(i, k + 1)}
<1>1. \A r \in Rationals : ~ LessThan(r, r)
  <2>1. TAKE r \in Rationals
  <2>2. r[1] * r[2] \in Int
    BY DEF Rationals
  <2>3. QED
    BY <2>2 DEF LessThan
<1>2. 0 \in M
  <2>1. 1 \in 1..n /\ 0 + 1 = 1
    OBVIOUS
  <2>2. \A j \in 1..1 : j = 1
    OBVIOUS
  <2>3. ~ LessThan(heights[1], heights[1])
    BY <1>1, <2>1
  <2>4. Lowest(1, 1)
    BY <2>2, <2>3
  <2> HIDE DEF Lowest
  <2>5. QED
    BY <2>1, <2>4
<1>3. ASSUME NEW k \in M PROVE k + 1 \in M
  <2>1. k \in Nat
    OBVIOUS
  <2> DEFINE m == k + 1
             z == m + 1
  <2>2. SUFFICES ASSUME z <= n PROVE \E i \in 1..z : Lowest(i, z)
    BY <2>1
  <2>3. PICK i \in 1..m : Lowest(i, m)
    BY <2>1, <2>2
  <2>4. /\ m \in Nat /\ z \in 1..n /\ i \in 1..n /\ i < z /\ i \in 1..z /\ z \in 1..z
        /\ \A j \in 1..z : j \in 1..n /\ (j = z \/ (j \in 1..m /\ j < z))
        /\ \A j \in 1..m : j \in 1..n
    BY <2>1, <2>2, <2>3
  <2> HIDE DEF m, z
  <2>5. \A j \in 1..n : heights[j] \in Rationals
    OBVIOUS
  <2>6. CASE LessThan(heights[z], heights[i])
    <3>1. ASSUME NEW j \in 1..m PROVE LessThan(heights[z], heights[j])
      <4>1. j \in 1..n /\ ~ LessThan(heights[j], heights[i])
        <5>1. j \in 1..n
          BY <2>4
        <5>2. CASE j < i
          <6>1. LessThan(heights[i], heights[j])
            BY <2>3, <5>2
          <6>2. heights[i] \in Rationals /\ heights[j] \in Rationals
            BY <2>4, <2>5, <5>1
          <6>3. QED
            BY <5>1, <6>1, <6>2, LessThanIsStrict
        <5>3. CASE ~ (j < i)
          BY <2>3, <5>1, <5>3
        <5>4. QED
          BY <5>2, <5>3
      <4>2. heights[z] \in Rationals /\ heights[i] \in Rationals /\ heights[j] \in Rationals
        BY <2>4, <2>5, <4>1
      <4>3. QED
        BY <2>6, <4>1, <4>2, LessThanChains
    <3>2. ~ LessThan(heights[z], heights[z]) /\ ~ (z < z)
      BY <1>1, <2>4, <2>5
    <3>3. Lowest(z, z)
      BY <2>4, <3>1, <3>2
    <3>4. QED
      BY <2>4, <3>3
  <2>7. CASE ~ LessThan(heights[z], heights[i])
    <3>1. ~ (z < i)
      BY <2>4, <2>3
    <3>2. Lowest(i, z)
      BY <2>3, <2>4, <2>7, <3>1
    <3>3. QED
      BY <2>4, <3>2
  <2>8. QED
    BY <2>6, <2>7
<1>4. M = Nat
  <2>1. M \subseteq Nat
    OBVIOUS
  <2> HIDE DEF M
  <2>2. QED
    BY <1>2, <1>3, <2>1, Induction
<1>5. \E i \in 1..n : Lowest(i, n)
  <2>1. n - 1 \in M /\ (n - 1) + 1 = n
    <3>1. n - 1 \in Nat /\ (n - 1) + 1 = n
      OBVIOUS
    <3> HIDE DEF M
    <3>2. QED
      BY <1>4, <3>1
  <2> HIDE DEF Lowest
  <2>2. QED
    BY <2>1
<1>6. DOMAIN heights = 1..n
  OBVIOUS
<1>7. QED
  BY <1>5, <1>6 DEF LowestInlet

(* Two updates are not due at the same tick.                               *)
LEMMA UpdatesAdvance ==
  ASSUME inputs \in Inputs, Interval, NEW n \in Nat
  PROVE  UpdateDue(n) \in Nat /\ UpdateDue(n) < UpdateDue(n + 1)
<1> DEFINE num == UpdateInterval.numerator
           den == UpdateInterval.denominator
           x == num * n
           y == num * (n + 1)
           Rounded(p) == IF 2 * (p % den) > den \/ (2 * (p % den) = den /\ (p \div den) % 2 = 1)
                         THEN p \div den + 1 ELSE p \div den
           qx == x \div den
           qy == y \div den
           rx == x % den
           ry == y % den
<1>1. num \in Nat \ {0} /\ den \in Nat \ {0}
  BY RatioIsDecimal DEF Interval, UpdateInterval
<1>2. num >= den
  BY ResolutionAssumption DEF Interval, UpdateInterval, Config
<1>3. UpdateDue(n) = Rounded(x) /\ UpdateDue(n + 1) = Rounded(y)
  BY DEF UpdateDue, RoundedMultiple
<1> HIDE DEF num, den
<1>4. x \in Nat /\ y \in Nat /\ y = x + num
  BY <1>1
<1>5. num = den => x = den * n + 0
  BY <1>1
<1> HIDE DEF x, y
<1>6. /\ qx \in Nat /\ rx \in 0..(den - 1) /\ x = den * qx + rx
      /\ qy \in Nat /\ ry \in 0..(den - 1) /\ y = den * qy + ry
  <2>1. ASSUME NEW p \in Nat
        PROVE  /\ p \div den \in Nat /\ p % den \in 0..(den - 1)
               /\ p = den * (p \div den) + (p % den)
    <3>1. p \in Int
      OBVIOUS
    <3>2. QED
      BY <3>1, <1>1, Quotient
  <2>2. QED
    BY <2>1, <1>4
<1>7. num = den => rx = 0
  <2> DEFINE z == 0
  <2>1. SUFFICES ASSUME num = den PROVE rx = z
    OBVIOUS
  <2>2. x \in Int /\ n \in Int /\ z \in 0..(den - 1) /\ x = den * n + z
    BY <1>1, <1>4, <1>5, <2>1
  <2> HIDE DEF z, rx
  <2>3. x % den = z
    BY <1>1, <2>2, QuotientIsUnique
  <2>4. QED
    BY <2>3 DEF rx
<1>8. /\ Rounded(x) = IF 2 * rx > den \/ (2 * rx = den /\ qx % 2 = 1) THEN qx + 1 ELSE qx
      /\ Rounded(y) = IF 2 * ry > den \/ (2 * ry = den /\ qy % 2 = 1) THEN qy + 1 ELSE qy
  OBVIOUS
<1> HIDE DEF qx, qy, rx, ry, Rounded
<1>9. qy >= qx + 1
  <2>1. SUFFICES ASSUME qy <= qx PROVE FALSE
    BY <1>6
  <2>2. den * qy <= den * qx
    BY <1>1, <1>6, <2>1
  <2>3. QED
    BY <1>1, <1>2, <1>4, <1>6, <2>2
<1>10. qy = qx + 1 => ry = rx + num - den
  <2>1. SUFFICES ASSUME qy = qx + 1 PROVE ry = rx + num - den
    OBVIOUS
  <2>2. den * qy = den * qx + den
    BY <1>1, <1>6, <2>1
  <2>3. QED
    BY <1>1, <1>4, <1>6, <2>2
<1>11. Rounded(x) \in Nat /\ Rounded(x) < Rounded(y)
  <2>1. CASE qy >= qx + 2
    BY <1>6, <1>8, <2>1
  <2>2. CASE qy = qx + 1 /\ 2 * rx < den
    BY <1>1, <1>6, <1>8, <2>2
  <2>3. CASE qy = qx + 1 /\ 2 * rx > den
    BY <1>1, <1>2, <1>6, <1>8, <1>10, <2>3
  <2>4. CASE qy = qx + 1 /\ 2 * rx = den
    <3>1. num > den
      BY <1>1, <1>2, <1>7, <2>4
    <3>2. 2 * ry > den
      BY <1>1, <1>6, <1>10, <2>4, <3>1
    <3>3. QED
      BY <1>6, <1>8, <2>4, <3>2
  <2>5. QED
    BY <1>1, <1>6, <1>9, <2>1, <2>2, <2>3, <2>4
<1>12. QED
  BY <1>3, <1>11

(* A plan of at least a tick, with a balanced profile.                     *)
PlanFits(plan) ==
  /\ plan.start \in Nat /\ plan.volume \in Nat /\ plan.profile.duration \in Nat \ {0}
  /\ GoodSegments(plan.profile.segments, 0, plan.profile.duration)

(* What ValidConfig and the resolution of time leave of the settings.      *)
LEMMA SettingsFacts ==
  ASSUME inputs \in Inputs, ValidConfig
  PROVE  /\ ProfileSettings(Config.fill_rate_factor_range,
                            ScaledRange(Config.fill_rate_change_duration_range))
         /\ ProfileSettings(Config.collection_rate_factor_range,
                            ScaledRange(Config.collection_rate_change_duration_range))
         /\ Durations(Config.fill_duration_factor_range) \subseteq Nat \ {0}
         /\ Durations(Config.collection_duration_factor_range) \subseteq Nat \ {0}
<1> DEFINE mean == Config.mean_fill_duration
<1>1. /\ mean \in Nat \ {0} /\ Unit \in Nat \ {0} /\ ReferenceMean \in Nat \ {0}
      /\ Config \in {input.scenario : input \in Inputs}
      /\ Config.update_interval.digits > 0
  <2>1. Config \in {input.scenario : input \in Inputs}
    BY DEF Config
  <2>2. mean \in Int
    BY <2>1, InputsAssumption
  <2>3. mean > 0 /\ Config.update_interval.digits > 0
    BY DEF ValidConfig
  <2>4. QED
    BY <2>1, <2>2, <2>3, RateProfileAssumption, ScenarioSimulatorAssumption
<1>2. ASSUME NEW factors \in Int \X Int, NEW changes \in Int \X Int,
             AverageRange(factors), Positive(ScaledRange(changes))
      PROVE  ProfileSettings(factors, ScaledRange(changes))
  <2> DEFINE low == ScaledRange(changes)[1]
             high == ScaledRange(changes)[2]
  <2>1. \A i \in {1, 2} : ScaledRange(changes)[i] = (changes[i] * mean) \div ReferenceMean
    BY DEF ScaledRange
  <2>2. \A i \in {1, 2} : ScaledRange(changes)[i] \in Int
    <3>1. TAKE i \in {1, 2}
    <3> DEFINE x == changes[i] * mean
    <3>2. x \in Int
      BY <1>1
    <3> HIDE DEF x
    <3>3. x \div ReferenceMean \in Int
      BY <1>1, <3>2, Quotient
    <3>4. QED
      BY <2>1, <3>3 DEF x
  <2>3. low \in Int /\ high \in Int
    BY <2>2
  <2>4. low <= high /\ low > 0
    BY <1>2 DEF Positive, Ordered
  <2> HIDE DEF low, high
  <2>5. low \in Nat \ {0}
    BY <2>3, <2>4
  <2>6. /\ factors[1] \in Int /\ factors[2] \in Int
        /\ factors[1] > 0 /\ factors[1] <= Unit /\ factors[2] >= Unit
    BY <1>2 DEF AverageRange, Positive
  <2>7. factors[1] \in 1..Unit
    BY <1>1, <2>6
  <2>8. QED
    BY <2>3, <2>4, <2>5, <2>6, <2>7 DEF ProfileSettings, low, high
<1>3. ASSUME NEW factors \in Int \X Int, factors[1] <= factors[2], mean * factors[1] >= Unit
      PROVE  Durations(factors) \subseteq Nat \ {0}
  <2>1. ASSUME NEW f \in {factors[1], factors[2]} PROVE (mean * f) \div Unit \in Nat \ {0}
    <3> DEFINE x == mean * f
               q == x \div Unit
               r == x % Unit
    <3>1. f \in Int /\ factors[1] \in Int /\ factors[1] <= f
      BY <1>3
    <3>2. mean * factors[1] <= x /\ x \in Int /\ mean * factors[1] \in Int
      <4> HIDE DEF mean
      <4>1. QED
        BY <1>1, <3>1
    <3>3. x \in Int /\ x >= Unit
      BY <1>1, <1>3, <3>2
    <3> HIDE DEF x, mean
    <3>4. q \in Int /\ r \in 0..(Unit - 1) /\ x = Unit * q + r
      BY <1>1, <3>3, Quotient
    <3> HIDE DEF q, r
    <3>5. ASSUME q <= 0 PROVE FALSE
      <4>1. Unit * q <= 0 /\ Unit * q \in Int
        BY <1>1, <3>4, <3>5
      <4>2. QED
        BY <1>1, <3>3, <3>4, <4>1
    <3>6. q \in Nat \ {0}
      BY <3>4, <3>5
    <3>7. QED
      BY <3>6 DEF q, x, mean
  <2>2. QED
    BY <2>1 DEF Durations, Uniform
<1>4. /\ Config.fill_duration_factor_range \in Int \X Int
      /\ Config.fill_rate_factor_range \in Int \X Int
      /\ Config.fill_rate_change_duration_range \in Int \X Int
      /\ Config.collection_duration_factor_range \in Int \X Int
      /\ Config.collection_rate_factor_range \in Int \X Int
      /\ Config.collection_rate_change_duration_range \in Int \X Int
  BY <1>1, InputsAssumption
<1>5. /\ mean * Config.fill_duration_factor_range[1] >= Unit
      /\ mean * Config.collection_duration_factor_range[1] >= Unit
  BY <1>1, ResolutionAssumption
<1>6. /\ AverageRange(Config.fill_rate_factor_range)
      /\ AverageRange(Config.collection_rate_factor_range)
      /\ Positive(ScaledRange(Config.fill_rate_change_duration_range))
      /\ Positive(ScaledRange(Config.collection_rate_change_duration_range))
      /\ Config.fill_duration_factor_range[1] <= Config.fill_duration_factor_range[2]
      /\ Config.collection_duration_factor_range[1] <= Config.collection_duration_factor_range[2]
  BY DEF ValidConfig, Positive, Ordered
<1> HIDE DEF mean
<1>7. QED
  BY <1>2, <1>3, <1>4, <1>5, <1>6

(* Where there is no room for more than MaxSegments shortest changes, no   *)
(* profile has too many.                                                   *)
LEMMA RoomIsEnough ==
  ASSUME NEW profile, NEW d \in Nat, NEW change \in Nat \ {0}, NEW until,
         profile.segments \in Seq(until), Sparse(profile.segments, change, 0, d),
         d < (MaxSegments + 1) * change
  PROVE  ~ TooManySegments(profile)
<1> DEFINE n == Len(profile.segments)
           m == MaxSegments
<1>1. n \in Nat /\ m \in Nat
  BY RateProfileAssumption
<1>2. n * change <= d - 0
  BY DEF Sparse
<1> HIDE DEF n, m
<1>3. ASSUME n > m PROVE FALSE
  <2>1. m + 1 <= n /\ m + 1 \in Nat
    BY <1>1, <1>3
  <2> DEFINE k == m + 1
  <2>2. k \in Nat /\ k <= n
    BY <2>1
  <2> HIDE DEF k
  <2>3. k * change <= n * change /\ k * change \in Nat /\ n * change \in Nat
    BY <1>1, <2>2
  <2>4. d < k * change
    BY DEF k, m
  <2>5. QED
    BY <1>2, <2>3, <2>4
<1>4. QED
  BY <1>1, <1>3 DEF TooManySegments, n, m

(* A filling plan has a balanced profile, and no more volume than fits.    *)
LEMMA FillPlanFits ==
  ASSUME inputs \in Inputs, ValidConfig, NEW g, IsGrid(g), NEW start \in Nat,
         NEW plan \in FillPlans(g, start)
  PROVE  /\ PlanFits(plan) /\ plan.start = start /\ plan.volume <= Capacity(g)
         /\ ChangesAreLong => ~ TooManySegments(plan.profile)
<1> DEFINE factors == Config.fill_rate_factor_range
           changes == ScaledRange(Config.fill_rate_change_duration_range)
           ratios == Uniform(Config.collection_threshold_range)
           durations == Durations(Config.fill_duration_factor_range)
<1>1. PICK profile \in UNION {Profiles(d, factors, changes) : d \in durations}, ratio \in ratios :
        plan = [start |-> start, profile |-> profile, volume |-> (Capacity(g) * ratio) \div Unit]
  <2> DEFINE profiles == UNION {Profiles(d, factors, changes) : d \in durations}
  <2>1. FillPlans(g, start)
          = {[start |-> start, profile |-> profile, volume |-> (Capacity(g) * ratio) \div Unit] :
               profile \in profiles, ratio \in ratios}
    BY DEF FillPlans
  <2> HIDE DEF profiles, ratios
  <2>2. \E profile \in profiles, ratio \in ratios :
          plan = [start |-> start, profile |-> profile, volume |-> (Capacity(g) * ratio) \div Unit]
    BY <2>1
  <2>3. QED
    BY <2>2 DEF profiles
<1>2. PICK d \in durations : profile \in Profiles(d, factors, changes)
  BY <1>1
<1>3. d \in Nat \ {0} /\ d \in Nat /\ ProfileSettings(factors, changes)
  BY SettingsFacts
<1>4. profile = [duration |-> d, segments |-> profile.segments]
      /\ GoodSegments(profile.segments, 0, d) /\ Sparse(profile.segments, changes[1], 0, d)
  <2> HIDE DEF factors, changes
  <2>1. QED
    BY <1>2, <1>3, ProfilesFacts
<1>5. profile.duration = d
  BY <1>4
<1>6. ratio \in 0..Unit
  <2> DEFINE range == Config.collection_threshold_range
  <2>1. range \in Int \X Int
    BY InputsAssumption DEF Config
  <2>2. range[1] > 0 /\ range[1] <= range[2] /\ range[2] <= Unit
    BY DEF ValidConfig, Positive, Ordered
  <2>3. ratio = range[1] \/ ratio = range[2]
    BY <1>1 DEF Uniform
  <2> HIDE DEF range
  <2>4. QED
    BY <2>1, <2>2, <2>3, RateProfileAssumption
<1>7. Capacity(g) \in Nat
  <2> DEFINE empty == [node \in DOMAIN g.weight |-> 0]
  <2>1. Fills(g, empty)
    BY GridFacts, HeightFieldAssumption DEF Fills
  <2> HIDE DEF empty
  <2>2. QED
    BY <2>1, RoomFacts
<1> DEFINE c == Capacity(g)
           x == c * ratio
           q == x \div Unit
<1>8. Unit \in Nat \ {0} /\ c \in Nat
  BY <1>7, RateProfileAssumption
<1>9. x \in Nat /\ x <= c * Unit /\ c * Unit \in Nat
  <2> HIDE DEF c
  <2>1. c * ratio <= c * Unit
    BY <1>6, <1>8
  <2>2. QED
    BY <1>6, <1>8, <2>1
<1> HIDE DEF x, c
<1>10. q \in Nat /\ q * Unit <= x /\ x \in Int
  BY <1>8, <1>9, QuotientFloor
<1> HIDE DEF q
<1>11. q <= c
  <2>1. ASSUME q >= c + 1 PROVE FALSE
    <3>1. q * Unit >= (c + 1) * Unit
      BY <1>8, <1>10, <2>1
    <3>2. (c + 1) * Unit = c * Unit + Unit /\ q * Unit \in Nat
      BY <1>8, <1>10
    <3>3. QED
      BY <1>8, <1>9, <1>10, <3>1, <3>2
  <2>2. QED
    BY <1>8, <1>10, <2>1
<1>12. plan.start = start /\ plan.profile = profile /\ plan.volume = q
  BY <1>1 DEF q, x, c
<1>13. ChangesAreLong => ~ TooManySegments(profile)
  <2>1. ChangesAreLong => d < (MaxSegments + 1) * changes[1]
    BY <1>2, Zenon DEF ChangesAreLong, RoomFor
  <2>2. profile.segments \in Seq(Segments) /\ changes[1] \in Nat \ {0}
    BY <1>3, <1>4 DEF GoodSegments, ProfileSettings
  <2> HIDE DEF factors, changes
  <2>3. QED
    BY <1>3, <1>4, <2>1, <2>2, RoomIsEnough
<1>14. QED
  BY <1>3, <1>4, <1>5, <1>10, <1>11, <1>12, <1>13 DEF PlanFits, c

(* A collection plan takes all that there is, over a balanced profile.     *)
LEMMA CollectionPlanFits ==
  ASSUME inputs \in Inputs, ValidConfig, NEW surface, Total(surface) \in Nat, NEW start \in Nat,
         NEW plan \in CollectionPlans(start, surface)
  PROVE  /\ PlanFits(plan) /\ plan.start = start /\ plan.volume = Total(surface)
         /\ ChangesAreLong => ~ TooManySegments(plan.profile)
<1> DEFINE factors == Config.collection_rate_factor_range
           changes == ScaledRange(Config.collection_rate_change_duration_range)
           durations == Durations(Config.collection_duration_factor_range)
<1>1. PICK profile \in UNION {Profiles(d, factors, changes) : d \in durations} :
        plan = [start |-> start, profile |-> profile, volume |-> Total(surface)]
  BY Zenon DEF CollectionPlans
<1>2. PICK d \in durations : profile \in Profiles(d, factors, changes)
  BY <1>1
<1>3. d \in Nat \ {0} /\ d \in Nat /\ ProfileSettings(factors, changes)
  BY SettingsFacts
<1>4. profile = [duration |-> d, segments |-> profile.segments]
      /\ GoodSegments(profile.segments, 0, d) /\ Sparse(profile.segments, changes[1], 0, d)
  <2> HIDE DEF factors, changes
  <2>1. QED
    BY <1>2, <1>3, ProfilesFacts
<1>5. profile.duration = d
  BY <1>4
<1>6. plan.start = start /\ plan.profile = profile /\ plan.volume = Total(surface)
  BY <1>1
<1>7. ChangesAreLong => ~ TooManySegments(profile)
  <2>1. ChangesAreLong => d < (MaxSegments + 1) * changes[1]
    BY <1>2, Zenon DEF ChangesAreLong, RoomFor
  <2>2. profile.segments \in Seq(Segments) /\ changes[1] \in Nat \ {0}
    BY <1>3, <1>4 DEF GoodSegments, ProfileSettings
  <2> HIDE DEF factors, changes
  <2>3. QED
    BY <1>3, <1>4, <2>1, <2>2, RoomIsEnough
<1>8. QED
  BY <1>3, <1>4, <1>5, <1>6, <1>7 DEF PlanFits

-----------------------------------------------------------------------------
(* Events on the surface.                                                  *)

(* Once it is built, a simulator keeps its grid and its settings.          *)
Ready ==
  /\ inputs \in Inputs /\ ValidPolygon(inputs.boundary) /\ ValidConfig
  /\ grid = NewGrid(inputs.boundary)

(* Grid::new makes a grid of every valid polygon, with weights above zero. *)
LEMMA BuiltGridFacts ==
  ASSUME inputs \in Inputs, ValidPolygon(inputs.boundary)
  PROVE  /\ inputs.boundary \in Seq(Int \X Int) /\ Len(inputs.boundary) > 0
         /\ IsGrid(NewGrid(inputs.boundary)) /\ NewGrid(inputs.boundary).boundary = inputs.boundary
         /\ DOMAIN NewGrid(inputs.boundary).weight \subseteq Nodes(inputs.boundary)
<1> DEFINE boundary == inputs.boundary
<1>1. boundary \in Seq(Int \X Int)
  BY InputsAssumption
<1>2. Len(boundary) > 0
  BY <1>1, GridAssumption DEF ValidPolygon
<1> HIDE DEF boundary
<1>3. \A node \in Nodes(boundary) : NodeWeight(boundary, node) \in Int
  BY <1>1, <1>2, WeightsAreWhole
<1>4. /\ IsGrid(NewGrid(boundary)) /\ NewGrid(boundary).boundary = boundary
      /\ DOMAIN NewGrid(boundary).weight \subseteq Nodes(boundary)
  BY <1>1, <1>2, <1>3, NewGridFacts
<1>5. QED
  BY <1>1, <1>2, <1>4 DEF boundary

(* What a simulator's grid and settings offer to its operations.           *)
LEMMA ReadyFacts ==
  ASSUME Ready
  PROVE  /\ IsGrid(grid) /\ grid.boundary \in Seq(Int \X Int) /\ Len(grid.boundary) > 0
         /\ Interval
         /\ Len(Config.inlet_positions) \in Nat \ {0}
         /\ DOMAIN Config.inlet_positions = 1..Len(Config.inlet_positions)
         /\ Config.pile_spread_radius \in Int /\ Config.inlet_comparison_radius \in Int
         /\ \A i \in DOMAIN Config.inlet_positions :
              /\ Config.inlet_positions[i] \in Int \X Int
              /\ \A node \in DOMAIN grid.weight :
                   Kernel(SquaredDistance(grid, node, Config.inlet_positions[i]),
                          Config.pile_spread_radius * Config.pile_spread_radius) \in Nat \ {0}
<1> DEFINE boundary == inputs.boundary
           inlets == Config.inlet_positions
<1>1. inputs \in Inputs /\ ValidPolygon(boundary) /\ ValidConfig /\ grid = NewGrid(boundary)
  BY DEF Ready
<1>2. boundary \in Seq(Int \X Int) /\ Config \in {input.scenario : input \in Inputs}
  BY <1>1, InputsAssumption DEF Config
<1>5. /\ IsGrid(grid) /\ grid.boundary = boundary /\ DOMAIN grid.weight \subseteq Nodes(boundary)
      /\ Len(boundary) > 0
  BY <1>1, BuiltGridFacts
<1>6. /\ inlets \in Seq(Int \X Int) /\ Config.update_interval \in [digits : Int, exponent : Int]
      /\ Config.pile_spread_radius \in Int /\ Config.inlet_comparison_radius \in Int
  BY <1>2, InputsAssumption
<1>7. Len(inlets) \in 1..MaxInlets /\ Config.update_interval.digits > 0
  BY <1>1 DEF ValidConfig
<1>8. Interval
  BY <1>6, <1>7 DEF Interval
<1>9. Len(inlets) \in Nat \ {0}
  BY <1>7, ScenarioSimulatorAssumption
<1>10. DOMAIN inlets = 1..Len(inlets) /\ \A i \in DOMAIN inlets : inlets[i] \in Int \X Int
  BY <1>6
<1>11. \A i \in DOMAIN inlets : \A node \in DOMAIN grid.weight :
         Kernel(SquaredDistance(grid, node, inlets[i]),
                Config.pile_spread_radius * Config.pile_spread_radius) \in Nat \ {0}
  <2>1. TAKE i \in DOMAIN inlets
  <2>2. TAKE node \in DOMAIN grid.weight
  <2>3. node \in Nodes(boundary) /\ inputs \in {x \in Inputs : ValidPolygon(x.boundary)}
    BY <1>1, <1>5
  <2>4. Kernel(SquaredDistance(inputs, node, inlets[i]),
               Config.pile_spread_radius * Config.pile_spread_radius) \in Nat \ {0}
    BY Zenon, <2>3, KernelAssumption DEF Config
  <2>5. SquaredDistance(inputs, node, inlets[i]) = SquaredDistance(grid, node, inlets[i])
    BY <1>5 DEF SquaredDistance
  <2>6. QED
    BY <2>4, <2>5
<1>12. QED
  BY <1>2, <1>5, <1>6, <1>8, <1>9, <1>10, <1>11

(* The surface between two events: within bounds, in its phase, and while  *)
(* filling not ahead of its plan.                                          *)
SurfaceFits(g, s) ==
  LET plan == Plan(s) IN
  /\ Fills(g, s.surface) /\ PlanFits(plan)
  /\ plan.start <= s.surface_updated_at /\ s.surface_updated_at < PhaseEndsAt(plan)
  /\ s.phase = "filling" =>
       /\ plan.volume <= Capacity(g)
       /\ Total(s.surface) * (plan.profile.duration * Unit)
            <= plan.volume * IntegratedFactorTo(plan.profile, s.surface_updated_at - plan.start)

(* A positive factor cancels from both sides.                              *)
LEMMA FactorCancels ==
  ASSUME NEW a \in Int, NEW b \in Int, NEW w \in Nat \ {0}, a * w <= b * w
  PROVE  a <= b
<1>1. ASSUME a >= b + 1 PROVE FALSE
  <2>1. a * w >= (b + 1) * w /\ (b + 1) * w = b * w + w /\ a * w \in Int /\ b * w \in Int
    BY <1>1
  <2>2. QED
    BY <2>1
<1>2. QED
  BY <1>1

(* A product grows with its second factor.                                 *)
LEMMA ProductGrows ==
  ASSUME NEW v \in Nat, NEW a \in Int, NEW b \in Int, a <= b
  PROVE  v * a <= v * b /\ v * a \in Int /\ v * b \in Int
  OBVIOUS

(* Within the phase, the volume that the plan gives the time since the     *)
(* last event; at its end all that is missing or left.                     *)
LEMMA RequestedIs ==
  ASSUME NEW g, IsGrid(g), NEW s, IsSim(s), SurfaceFits(g, s), NEW time \in Nat,
         s.surface_updated_at < time, time <= PhaseEndsAt(Plan(s))
  PROVE  LET plan == Plan(s)
             c == Total(s.surface)
             end == PhaseEndsAt(plan)
             planned == (plan.volume * (IntegratedFactorTo(plan.profile, time - plan.start)
                            - IntegratedFactorTo(plan.profile, s.surface_updated_at - plan.start)))
                          \div (plan.profile.duration * Unit)
         IN Requested(s, time)
              = IF s.phase = "filling" THEN IF time = end THEN Max({plan.volume - c, 0}) ELSE planned
                ELSE IF time = end THEN c ELSE Min({c, planned})
<1> DEFINE plan == Plan(s)
           profile == plan.profile
           d == profile.duration
           v == plan.volume
           start == plan.start
           end == PhaseEndsAt(plan)
           at == s.surface_updated_at
           u == at - start
           w == time - start
           c == Total(s.surface)
           whole == d * Unit
           F(x) == IntegratedFactorTo(profile, x)
           diff == F(w) - F(u)
           planned == (v * diff) \div whole
           req == Requested(s, time)
<1>1. /\ start \in Nat /\ v \in Nat /\ d \in Nat \ {0} /\ start <= at /\ at < end
  BY DEF SurfaceFits, PlanFits
<1>2. end = start + d /\ at \in Nat
  BY DEF PhaseEndsAt, IsSim
<1>3. time <= end
  OBVIOUS
<1>4. req = IF s.phase = "filling" THEN IF time = end THEN Max({v - c, 0}) ELSE planned
            ELSE IF time = end THEN c ELSE Min({c, planned})
  <2>1. at - start \in Nat /\ time - start \in Int /\ time - start <= d
    BY <1>1, <1>2, <1>3
  <2> DEFINE z == 0
  <2>2. Max({at - start, z}) = at - start
    <3>1. z \in Int /\ at - start \in Int /\ at - start >= z
      BY <2>1
    <3> HIDE DEF z, at, start
    <3>2. QED
      BY <3>1, MaxOfTwo
  <2>3. Min({time - start, d}) = time - start
    <3>1. d \in Int
      BY <1>1
    <3> HIDE DEF start, d
    <3>2. QED
      BY <2>1, <3>1, MinOfTwo
  <2>4. IntegratedFactorBetween(profile, at - start, time - start) = diff
    BY DEF IntegratedFactorBetween
  <2>5. req = LET p == (v * IntegratedFactorBetween(profile, Max({at - start, 0}), Min({time - start, d})))
                         \div (d * Unit)
              IN IF s.phase = "filling" THEN IF time = end THEN Max({v - c, 0}) ELSE p
                 ELSE IF time = end THEN c ELSE Min({c, p})
    BY DEF Requested, SurfaceTime
  <2> HIDE DEF req, diff, profile, at, start, d, v, end, c, plan
  <2>6. QED
    BY <2>2, <2>3, <2>4, <2>5
<1>5. QED
  BY Zenon, <1>4

(* What an event adds or removes fits the surface and the plan.            *)
LEMMA RequestedFacts ==
  ASSUME NEW g, IsGrid(g), NEW s, IsSim(s), SurfaceFits(g, s), NEW time \in Nat,
         s.surface_updated_at < time, time <= PhaseEndsAt(Plan(s))
  PROVE  LET plan == Plan(s)
             requested == Requested(s, time)
             next == Total(s.surface) + requested
         IN /\ requested \in Nat
            /\ s.phase = "filling" =>
                 /\ requested <= Capacity(g) - Total(s.surface)
                 /\ next * (plan.profile.duration * Unit)
                      <= plan.volume * IntegratedFactorTo(plan.profile, time - plan.start)
                 /\ time = PhaseEndsAt(plan) => next = plan.volume
            /\ s.phase = "collecting" =>
                 /\ requested <= Total(s.surface)
                 /\ time = PhaseEndsAt(plan) => requested = Total(s.surface)
<1> DEFINE plan == Plan(s)
           profile == plan.profile
           d == profile.duration
           v == plan.volume
           start == plan.start
           end == PhaseEndsAt(plan)
           at == s.surface_updated_at
           u == at - start
           w == time - start
           c == Total(s.surface)
           whole == d * Unit
           F(x) == IntegratedFactorTo(profile, x)
           diff == F(w) - F(u)
           planned == (v * diff) \div whole
           req == Requested(s, time)
<1>1. /\ Fills(g, s.surface) /\ start \in Nat /\ v \in Nat /\ d \in Nat \ {0}
      /\ GoodSegments(profile.segments, 0, d) /\ start <= at /\ at < end
      /\ s.phase = "filling" => v <= Capacity(g) /\ c * whole <= v * F(u)
  BY DEF SurfaceFits, PlanFits
<1>2. end = start + d /\ at \in Nat /\ s.phase \in {"filling", "collecting"}
  BY DEF PhaseEndsAt, IsSim
<1>3. c \in Nat /\ Capacity(g) \in Nat
  BY <1>1, RoomFacts
<1>4. Unit \in Nat \ {0} /\ whole \in Nat \ {0} /\ whole = Unit * d
  BY <1>1, RateProfileAssumption
<1>5. /\ \A x \in 0..d : F(x) \in Nat
      /\ F(d) = Unit * d /\ \A x, y \in 0..d : x <= y => F(x) <= F(y)
  <2> HIDE DEF profile
  <2>1. profile.duration \in Nat /\ GoodSegments(profile.segments, 0, profile.duration)
    BY <1>1
  <2>2. QED
    BY <2>1, IntegratedFactorFacts
<1>6. time <= end
  OBVIOUS
<1>7. req = IF s.phase = "filling" THEN IF time = end THEN Max({v - c, 0}) ELSE planned
            ELSE IF time = end THEN c ELSE Min({c, planned})
  BY Zenon, RequestedIs
<1> HIDE DEF plan, profile, d, v, start, end, at, c, whole, F, req
<1>8. u \in 0..d /\ w \in 0..d /\ u <= w
  BY <1>1, <1>2, <1>6 DEF at
<1> DEFINE fu == F(u)
           fw == F(w)
<1>9. fu \in Nat /\ fw \in Nat /\ fu <= fw /\ fw <= whole /\ (time = end => fw = whole)
  <2>1. d \in 0..d /\ (time = end => w = d)
    BY <1>1, <1>2
  <2> HIDE DEF u, w
  <2>2. QED
    BY <1>1, <1>4, <1>5, <1>8, <2>1
<1>10. s.phase = "filling" => c * whole <= v * fu
  BY <1>1
<1> HIDE DEF fu, fw, u, w
<1>11. diff = fw - fu
  BY DEF fu, fw
<1> HIDE DEF diff
<1> DEFINE x == v * diff
<1>12. x \in Nat /\ x = v * fw - v * fu
  <2>1. diff \in Nat
    BY <1>9, <1>11
  <2>2. x = v * (fw - fu) /\ v * (fw - fu) = v * fw - v * fu
    BY <1>1, <1>9, <1>11
  <2>3. QED
    BY <1>1, <2>1, <2>2
<1>13. planned \in Nat /\ planned * whole <= x
  <2>1. x \in Int
    BY <1>12
  <2> HIDE DEF x
  <2>2. x \div whole \in Int /\ (x \div whole) * whole <= x /\ x \div whole \in Nat
    BY <1>4, <1>12, <2>1, QuotientFloor
  <2>3. QED
    BY <2>2 DEF x
<1> HIDE DEF planned, x
<1>14. CASE s.phase = "filling"
  <2>1. v * fu <= v * fw /\ v * fw <= v * whole /\ v * fu \in Int /\ v * fw \in Int /\ v * whole \in Int
    <3>1. fu \in Int /\ fw \in Int /\ whole \in Int
      BY <1>4, <1>9
    <3>2. QED
      BY <1>1, <1>9, <3>1, ProductGrows
  <2>2. c * whole \in Int /\ planned * whole \in Int
    BY <1>3, <1>4, <1>13
  <2>3. CASE time = end
    <3>1. c * whole <= v * whole
      BY <1>10, <1>14, <2>1, <2>2
    <3>2. c <= v
      BY <1>1, <1>3, <1>4, <3>1, FactorCancels
    <3>3. Max({v - c, 0}) = v - c
      <4> DEFINE z == 0
      <4>1. z \in Int /\ v - c \in Int /\ v - c >= z
        BY <1>1, <1>3, <3>2
      <4> HIDE DEF z
      <4>2. Max({v - c, z}) = v - c
        BY <4>1, MaxOfTwo
      <4>3. QED
        BY <4>2 DEF z
    <3>4. req = v - c
      BY <1>7, <1>14, <2>3, <3>3
    <3>5. req \in Nat /\ c + req = v /\ v <= Capacity(g) /\ req <= Capacity(g) - c
      BY <1>1, <1>3, <1>14, <3>2, <3>4
    <3>6. (c + req) * whole <= v * fw
      BY <1>9, <2>1, <2>3, <3>5
    <3>7. QED
      BY <1>14, <2>3, <3>5, <3>6 DEF plan, profile, d, v, start, end, c, whole, F, req, fw, w
  <2>4. CASE time # end
    <3>1. req = planned
      BY <1>7, <1>14, <2>4
    <3>2. (c + req) * whole = c * whole + planned * whole
      BY <1>3, <1>4, <1>13, <3>1
    <3>3. (c + req) * whole <= v * fw
      BY <1>10, <1>12, <1>13, <1>14, <2>1, <2>2, <3>2
    <3>4. (c + req) * whole <= v * whole
      BY <2>1, <2>2, <3>2, <3>3
    <3>5. c + req \in Int /\ v \in Int
      BY <1>1, <1>3, <1>13, <3>1
    <3> DEFINE total == c + req
    <3> HIDE DEF total
    <3>6. total <= v
      <4>1. total \in Int /\ total * whole <= v * whole
        BY <3>4, <3>5 DEF total
      <4>2. QED
        BY <1>4, <3>5, <4>1, FactorCancels
    <3>7. req \in Nat /\ req <= Capacity(g) - c
      BY <1>1, <1>3, <1>13, <1>14, <3>1, <3>6 DEF total
    <3>8. QED
      BY <1>14, <2>4, <3>3, <3>7 DEF plan, profile, d, v, start, end, c, whole, F, req, fw, w
  <2>5. QED
    BY <2>3, <2>4
<1>15. CASE s.phase = "collecting"
  <2>1. Min({c, planned}) = IF c <= planned THEN c ELSE planned
    <3>1. c \in Int /\ planned \in Int
      BY <1>3, <1>13
    <3>2. QED
      BY <3>1, MinOfTwo
  <2>2. req \in Nat /\ req <= c /\ (time = end => req = c)
    BY <1>3, <1>7, <1>13, <1>15, <2>1
  <2>3. QED
    BY <1>15, <2>2 DEF plan, c, end, req
<1>16. QED
  BY <1>2, <1>14, <1>15

(* The surface after the planned volume fell or was taken.                 *)
LEMMA MovedFits ==
  ASSUME Ready, NEW s, IsSim(s), SurfaceFits(grid, s),
         s.current_inlet \in DOMAIN Config.inlet_positions, NEW time \in Nat,
         s.surface_updated_at < time, time <= PhaseEndsAt(Plan(s))
  PROVE  /\ Fills(grid, Moved(s, time))
         /\ Total(Moved(s, time))
              = Total(s.surface) + (IF s.phase = "filling" THEN Requested(s, time)
                                    ELSE -Requested(s, time))
         /\ Total(s.surface) \in Nat /\ Requested(s, time) \in Nat
         /\ Total(Moved(s, time)) \in Nat
<1> DEFINE req == Requested(s, time)
           c == Total(s.surface)
<1>1. IsGrid(grid) /\ Fills(grid, s.surface) /\ s.phase \in {"filling", "collecting"}
  BY ReadyFacts DEF SurfaceFits, IsSim
<1>2. /\ req \in Nat
      /\ s.phase = "filling" => req <= Capacity(grid) - c
      /\ s.phase = "collecting" => req <= c
  BY <1>1, RequestedFacts
<1>3. c \in Nat
  BY <1>1, RoomFacts
<1> HIDE DEF req, c
<1>4. CASE s.phase = "filling"
  <2> DEFINE center == CurrentInlet(s)
             radius == Config.pile_spread_radius
  <2>1. \A node \in DOMAIN grid.weight :
          Kernel(SquaredDistance(grid, node, center), radius * radius) \in Nat \ {0}
    BY ReadyFacts DEF CurrentInlet
  <2>2. Moved(s, time) = AddVolume(grid, s.surface, req, center, radius)
    BY <1>4 DEF Moved, req
  <2> HIDE DEF center, radius
  <2>3. /\ Fills(grid, AddVolume(grid, s.surface, req, center, radius))
        /\ Total(AddVolume(grid, s.surface, req, center, radius)) = Total(s.surface) + req
    BY <1>1, <1>2, <1>4, <2>1, AddVolumeFacts DEF c
  <2>4. Fills(grid, Moved(s, time)) /\ Total(Moved(s, time)) = c + req
    BY <2>2, <2>3 DEF c
  <2>5. QED
    BY <1>2, <1>3, <1>4, <2>4 DEF c, req
<1>5. CASE s.phase = "collecting"
  <2>1. Moved(s, time) = RemoveVolumeUniformly(grid, s.surface, req)
    BY <1>5 DEF Moved, req
  <2>2. /\ Fills(grid, RemoveVolumeUniformly(grid, s.surface, req))
        /\ Total(RemoveVolumeUniformly(grid, s.surface, req)) = Total(s.surface) - req
    BY <1>1, <1>2, <1>5, RemoveVolumeFacts DEF c
  <2>3. Fills(grid, Moved(s, time)) /\ Total(Moved(s, time)) = c - req /\ req <= c
    BY <1>2, <1>5, <2>1, <2>2 DEF c
  <2>4. c - req = c + (-req) /\ c - req \in Nat
    BY <1>2, <1>3, <2>3
  <2>5. QED
    BY <1>2, <1>3, <1>5, <2>3, <2>4 DEF c, req
<1>6. QED
  BY <1>1, <1>4, <1>5

(* Every bump has integers for its numbers.                                *)
LEMMA BumpsAreIntegers ==
  ASSUME Ready, NEW s, s.current_inlet \in DOMAIN Config.inlet_positions, NEW bump \in Bumps(s)
  PROVE  bump.center \in Int \X Int /\ bump.radius \in Int /\ bump.peak \in Int
<1> DEFINE heights == Config.roughness_height_range
           radii == Config.roughness_radius_range
           reach == Config.pile_spread_radius
           inlet == CurrentInlet(s)
<1>1. heights \in Int \X Int /\ radii \in Int \X Int /\ reach \in Int
  BY InputsAssumption DEF Ready, Config
<1>2. inlet \in Int \X Int
  BY ReadyFacts DEF CurrentInlet
<1>3. PICK peak \in Uniform(heights) :
        bump \in IF peak = 0 THEN {Flat}
                 ELSE [center : Centers(s), radius : Uniform(radii), peak : {peak}]
  BY DEF Bumps
<1>4. peak \in Int /\ Uniform(radii) \subseteq Int
  BY <1>1, <1>3 DEF Uniform
<1>5. Centers(s) \subseteq Int \X Int
  <2>1. Centers(s) \subseteq ((inlet[1] - reach)..(inlet[1] + reach))
                               \X ((inlet[2] - reach)..(inlet[2] + reach))
    BY DEF Centers
  <2> HIDE DEF inlet, reach
  <2>2. /\ ((inlet[1] - reach)..(inlet[1] + reach)) \subseteq Int
        /\ ((inlet[2] - reach)..(inlet[2] + reach)) \subseteq Int
    BY <1>1, <1>2
  <2>3. QED
    BY <2>1, <2>2
<1>6. CASE peak = 0
  <2>1. bump = Flat
    BY <1>3, <1>6
  <2>2. QED
    BY <2>1 DEF Flat
<1>7. CASE peak # 0
  <2>1. bump \in [center : Centers(s), radius : Uniform(radii), peak : {peak}]
    BY <1>3, <1>7
  <2> HIDE DEF radii, heights
  <2>2. QED
    BY <1>4, <1>5, <2>1
<1>8. QED
  BY <1>6, <1>7

(* The slopes and the bump keep the volume and the bounds.                 *)
LEMMA ChangedFits ==
  ASSUME Ready, NEW s, s.current_inlet \in DOMAIN Config.inlet_positions, NEW time,
         Fills(grid, Moved(s, time)), NEW surface \in ChangedSurfaces(s, time)
  PROVE  Fills(grid, surface) /\ Total(surface) = Total(Moved(s, time))
<1> DEFINE relaxed == RelaxSlopes(grid, Moved(s, time))
<1>1. IsGrid(grid) /\ grid.boundary \in Seq(Int \X Int) /\ Len(grid.boundary) > 0
  BY ReadyFacts
<1>2. Fills(grid, relaxed) /\ Total(relaxed) = Total(Moved(s, time))
  BY <1>1, RelaxSlopesFacts
<1>3. CASE s.phase = "filling"
  <2>1. PICK bump \in Bumps(s) :
          surface = ApplyLocalRoughness(grid, relaxed, bump.center, bump.radius, bump.peak)
    BY <1>3 DEF ChangedSurfaces
  <2>2. bump.center \in Int \X Int /\ bump.radius \in Int /\ bump.peak \in Int
    BY BumpsAreIntegers
  <2> DEFINE center == bump.center
             radius == bump.radius
             peak == bump.peak
  <2>3. \A node \in DOMAIN grid.weight : SquaredDistance(grid, node, center) \in Int
    <3>1. TAKE node \in DOMAIN grid.weight
    <3>2. node \in Int \X Int
      BY <1>1, GridFacts
    <3>3. SquaredDistance(grid, node, center) \in Nat
      BY <1>1, <2>2, <3>2, SquaredDistanceFacts
    <3>4. QED
      BY <3>3
  <2> HIDE DEF center, radius, peak, relaxed
  <2>4. /\ Fills(grid, ApplyLocalRoughness(grid, relaxed, center, radius, peak))
        /\ Total(ApplyLocalRoughness(grid, relaxed, center, radius, peak)) = Total(relaxed)
    BY <1>1, <1>2, <2>2, <2>3, ApplyLocalRoughnessFacts DEF radius, peak
  <2>5. QED
    BY <1>2, <2>1, <2>4 DEF center, radius, peak
<1>4. CASE s.phase # "filling"
  BY <1>2, <1>4 DEF ChangedSurfaces
<1>5. QED
  BY <1>3, <1>4

(* None of the errors of advance_inner comes about.                        *)
LoadFits(s) ==
  /\ SurfaceFits(grid, s)
  /\ s.current_inlet \in DOMAIN Config.inlet_positions
  /\ UpdateDue(s.next_update_index) > s.surface_updated_at

(* next_event lies ahead, and not beyond the next update or the end of the *)
(* phase.                                                                  *)
LEMMA NextEventIsAhead ==
  ASSUME Ready, NEW s, IsSim(s), LoadFits(s)
  PROVE  /\ NextEvent(s) \in Nat /\ s.surface_updated_at < NextEvent(s)
         /\ NextEvent(s) <= PhaseEndsAt(Plan(s)) /\ NextEvent(s) <= UpdateDue(s.next_update_index)
         /\ NextUpdateTime(s) = UpdateDue(s.next_update_index)
         /\ PhaseEndsAt(Plan(s)) \in Nat
<1> DEFINE a == NextUpdateTime(s)
           b == PhaseEndsAt(Plan(s))
           at == s.surface_updated_at
<1>1. inputs \in Inputs /\ Interval
  BY ReadyFacts DEF Ready
<1>2. a = UpdateDue(s.next_update_index) /\ a \in Nat
  BY <1>1, NextEventFacts
<1>3. b \in Int /\ at \in Nat
  BY DEF IsSim
<1>4. a > at /\ b > at
  BY <1>2 DEF LoadFits, SurfaceFits
<1>5. NextEvent(s) = Min({a, b})
  BY DEF NextEvent
<1> HIDE DEF a, b, at
<1>6. Min({a, b}) = IF a <= b THEN a ELSE b
  BY <1>2, <1>3, MinOfTwo
<1>7. QED
  BY <1>2, <1>3, <1>4, <1>5, <1>6 DEF a, b, at

(* Neither the change of volume nor the transition of an event fails       *)
(* (apply_phase_change, transition_phase).                                 *)
LEMMA EventNeverFails ==
  ASSUME Ready, NEW s, IsSim(s), LoadFits(s), NEW time, time = NextEvent(s),
         NEW surface \in ChangedSurfaces(s, time), NEW update_due \in BOOLEAN
  PROVE  /\ Fills(grid, surface) /\ Total(surface) \in Nat
         /\ ~ ChangeFails(s, time, surface) /\ ~ Unapplied(s, time)
         /\ time = PhaseEndsAt(Plan(s)) => ~ TransitionFails(Reached(s, surface, time, update_due))
         /\ s.phase = "filling" =>
              Total(surface) * (Plan(s).profile.duration * Unit)
                <= Plan(s).volume * IntegratedFactorTo(Plan(s).profile, time - Plan(s).start)
<1> DEFINE req == Requested(s, time)
           c == Total(s.surface)
           m == Total(Moved(s, time))
<1>1. /\ time \in Nat /\ s.surface_updated_at < time /\ time <= PhaseEndsAt(Plan(s))
  BY NextEventIsAhead
<1>2. /\ SurfaceFits(grid, s) /\ s.current_inlet \in DOMAIN Config.inlet_positions
      /\ IsGrid(grid) /\ s.phase \in {"filling", "collecting"}
  BY ReadyFacts DEF LoadFits, IsSim
<1>3. /\ Fills(grid, Moved(s, time)) /\ m = c + (IF s.phase = "filling" THEN req ELSE -req)
      /\ c \in Nat /\ req \in Nat /\ m \in Nat
  BY <1>1, <1>2, MovedFits
<1>4. Fills(grid, surface) /\ Total(surface) = m
  BY <1>2, <1>3, ChangedFits
<1>5. LET plan == Plan(s)
      IN /\ s.phase = "filling" =>
              /\ (c + req) * (plan.profile.duration * Unit)
                   <= plan.volume * IntegratedFactorTo(plan.profile, time - plan.start)
              /\ time = PhaseEndsAt(plan) => c + req = plan.volume
         /\ s.phase = "collecting" => (time = PhaseEndsAt(plan) => req = c)
  BY <1>1, <1>2, RequestedFacts
<1> HIDE DEF req, c, m
<1>6. ~ ChangeFails(s, time, surface)
  BY <1>3, <1>4 DEF ChangeFails, req, m
<1>7. ~ Unapplied(s, time)
  <2>1. m - c = IF s.phase = "filling" THEN req ELSE -req
    BY <1>3
  <2>2. QED
    BY <2>1 DEF Unapplied, req, c, m
<1>8. ASSUME time = PhaseEndsAt(Plan(s))
      PROVE  ~ TransitionFails(Reached(s, surface, time, update_due))
  <2> DEFINE r == Reached(s, surface, time, update_due)
  <2>1. r.surface = surface /\ r.phase = s.phase /\ r.fill_plan = s.fill_plan
    BY DEF Reached, IsSim
  <2> HIDE DEF r
  <2>2. CASE s.phase = "filling"
    <3>1. Plan(s) = s.fill_plan /\ m = s.fill_plan.volume
      BY <1>3, <1>5, <1>8, <2>2 DEF Plan
    <3>2. QED
      BY <1>4, <2>1, <2>2, <3>1 DEF TransitionFails, r
  <2>3. CASE s.phase = "collecting"
    <3>1. m = 0
      BY <1>3, <1>5, <1>8, <2>3
    <3>2. QED
      BY <1>4, <2>1, <2>3, <3>1 DEF TransitionFails, r
  <2>4. QED
    BY <1>2, <2>2, <2>3
<1>9. s.phase = "filling" => Total(surface) = c + req
  BY <1>3, <1>4
<1>10. QED
  BY <1>3, <1>4, <1>5, <1>6, <1>7, <1>8, <1>9

(* A new inlet, phase or plan fits the surface it is given.                *)
LEMMA FollowingFits ==
  ASSUME Ready, NEW s, IsSim(s), LoadFits(s), NEW time, time = NextEvent(s),
         NEW surface \in ChangedSurfaces(s, time), NEW update_due \in BOOLEAN,
         update_due <=> time = NextUpdateTime(s), NEW r,
         r = Reached(s, surface, time, update_due), NEW next,
         next \in IF time = PhaseEndsAt(Plan(s)) THEN TransitionPhase(r, time)
                  ELSE IF r.phase = "filling" THEN {SwitchInletIfNeeded(r)} ELSE {r}
  PROVE  /\ LoadFits(next) /\ ValidProfile(Plan(next).profile)
         /\ time = PhaseEndsAt(Plan(s)) /\ ChangesAreLong => ~ TooManySegments(Plan(next).profile)
<1>1. /\ time \in Nat /\ s.surface_updated_at < time /\ time <= PhaseEndsAt(Plan(s))
      /\ time <= UpdateDue(s.next_update_index) /\ NextUpdateTime(s) = UpdateDue(s.next_update_index)
      /\ PhaseEndsAt(Plan(s)) \in Nat
  BY NextEventIsAhead
<1>2. update_due \in BOOLEAN /\ inputs \in Inputs /\ ValidConfig /\ Interval /\ IsGrid(grid)
  BY ReadyFacts DEF Ready
<1>3. /\ Fills(grid, surface) /\ Total(surface) \in Nat
      /\ time = PhaseEndsAt(Plan(s)) => ~ TransitionFails(r)
      /\ s.phase = "filling" =>
           Total(surface) * (Plan(s).profile.duration * Unit)
             <= Plan(s).volume * IntegratedFactorTo(Plan(s).profile, time - Plan(s).start)
  BY <1>2, EventNeverFails
<1>4. /\ IsSim(r) /\ r.surface_updated_at = time
      /\ r.next_update_index = s.next_update_index + (IF update_due THEN 1 ELSE 0)
  <2>1. LET q == Reached(s, surface, time, update_due)
        IN IsSim(q) /\ q.surface_updated_at = time
           /\ q.next_update_index = s.next_update_index + (IF update_due THEN 1 ELSE 0)
    <3>1. time \in Nat /\ update_due \in BOOLEAN
      BY <1>1, <1>2
    <3>2. QED
      BY <3>1, ReachedIsSim
  <2>2. QED
    BY Zenon, <2>1
<1>5. /\ r.surface = surface /\ r.phase = s.phase /\ r.fill_plan = s.fill_plan
      /\ r.collection_plan = s.collection_plan /\ r.current_inlet = s.current_inlet
  BY DEF Reached, IsSim
<1>6. Follows(next, r, time)
  BY DEF Follows
<1>7. /\ IsSim(next) /\ next.surface_updated_at = time
      /\ next.next_update_index = r.next_update_index
  BY <1>1, <1>2, <1>4, <1>6, FollowsIsSim
<1>8. UpdateDue(next.next_update_index) > next.surface_updated_at
  <2> DEFINE n == s.next_update_index
  <2>1. n \in Nat
    BY DEF IsSim
  <2>2. UpdateDue(n) \in Nat /\ UpdateDue(n) < UpdateDue(n + 1) /\ UpdateDue(n + 1) \in Nat
    BY <1>2, <2>1, UpdatesAdvance
  <2>3. CASE update_due
    <3>1. time = UpdateDue(n) /\ next.next_update_index = n + 1
      BY <1>1, <1>4, <1>7, <2>3
    <3> HIDE DEF n
    <3>2. QED
      BY <1>7, <2>2, <3>1
  <2>4. CASE ~ update_due
    <3>1. next.next_update_index = n /\ time <= UpdateDue(n)
      BY <1>1, <1>4, <1>7, <2>1, <2>4
    <3>2. time # UpdateDue(n)
      <4>1. ~ (time = NextUpdateTime(s)) /\ NextUpdateTime(s) = UpdateDue(n)
        BY Zenon, <1>1, <2>4
      <4>2. QED
        BY Zenon, <4>1
    <3> HIDE DEF n
    <3>3. QED
      BY <1>1, <1>7, <2>2, <3>1, <3>2
  <2>5. QED
    BY <1>2, <2>3, <2>4
<1>9. SurfaceFits(grid, s) /\ s.current_inlet \in DOMAIN Config.inlet_positions
  BY DEF LoadFits
<1>10. CASE time = PhaseEndsAt(Plan(s)) /\ s.phase = "filling"
  <2>1. PICK plan \in CollectionPlans(time, r.surface) :
               next = [r EXCEPT !.phase = "collecting", !.collection_plan = plan]
    BY <1>5, <1>10 DEF TransitionPhase
  <2>2. /\ next.phase = "collecting" /\ next.collection_plan = plan
        /\ next.surface = surface /\ next.current_inlet = s.current_inlet
    BY <1>4, <1>5, <2>1 DEF IsSim
  <2>3. PlanFits(plan) /\ plan.start = time
        /\ (ChangesAreLong => ~ TooManySegments(plan.profile))
    BY <1>1, <1>2, <1>3, <1>5, <2>1, CollectionPlanFits
  <2>4. Plan(next) = plan
    BY <2>2 DEF Plan
  <2>5. time < PhaseEndsAt(plan) /\ plan.start <= time
    BY <1>1, <2>3 DEF PlanFits, PhaseEndsAt
  <2>6. SurfaceFits(grid, next)
    BY <1>3, <1>7, <2>2, <2>3, <2>4, <2>5 DEF SurfaceFits
  <2>7. ValidProfile(plan.profile)
    <3> DEFINE profile == plan.profile
    <3>1. profile.duration \in Nat /\ GoodSegments(profile.segments, 0, profile.duration)
      BY <2>3 DEF PlanFits
    <3> HIDE DEF profile
    <3>2. ValidProfile(profile)
      BY <3>1, GoodSegmentsAreValid
    <3>3. QED
      BY <3>2 DEF profile
  <2>8. QED
    BY <1>8, <1>9, <2>2, <2>3, <2>4, <2>6, <2>7 DEF LoadFits
<1>11. CASE time = PhaseEndsAt(Plan(s)) /\ s.phase # "filling"
  <2>1. PICK plan \in FillPlans(grid, time) :
               next = [r EXCEPT !.phase = "filling", !.current_inlet = 1, !.cycle_index = @ + 1,
                                !.collection_plan = Absent, !.fill_plan = plan]
    BY <1>5, <1>11 DEF TransitionPhase
  <2>2. /\ next.phase = "filling" /\ next.fill_plan = plan
        /\ next.surface = surface /\ next.current_inlet = 1
    BY <1>4, <1>5, <2>1 DEF IsSim
  <2>3. PlanFits(plan) /\ plan.start = time /\ plan.volume <= Capacity(grid)
        /\ (ChangesAreLong => ~ TooManySegments(plan.profile))
    BY <1>1, <1>2, <2>1, FillPlanFits
  <2>4. Plan(next) = plan
    BY <2>2 DEF Plan
  <2>5. time < PhaseEndsAt(plan) /\ plan.start <= time /\ time - plan.start = 0
    BY <1>1, <2>3 DEF PlanFits, PhaseEndsAt
  <2>6. Total(surface) = 0
    BY <1>3, <1>5, <1>11 DEF TransitionFails
  <2> DEFINE profile == plan.profile
             whole == profile.duration * Unit
  <2>7. profile.duration \in Nat /\ GoodSegments(profile.segments, 0, profile.duration)
        /\ plan.volume \in Nat
    BY <2>3 DEF PlanFits
  <2>8. IntegratedFactorTo(profile, 0) = 0 /\ ValidProfile(profile)
    <3> HIDE DEF profile
    <3>1. QED
      BY <2>7, IntegratedFactorFacts, GoodSegmentsAreValid
  <2>9. Total(surface) * whole <= plan.volume * IntegratedFactorTo(profile, time - plan.start)
    <3>1. whole \in Nat
      BY <2>7, RateProfileAssumption
    <3> HIDE DEF whole, profile
    <3>2. QED
      BY <2>5, <2>6, <2>7, <2>8, <3>1
  <2>10. SurfaceFits(grid, next)
    BY <1>3, <1>7, <2>2, <2>3, <2>4, <2>5, <2>9 DEF SurfaceFits
  <2>11. 1 \in DOMAIN Config.inlet_positions
    BY ReadyFacts
  <2>12. QED
    BY <1>8, <2>2, <2>3, <2>4, <2>8, <2>10, <2>11 DEF LoadFits
<1>12. ASSUME time # PhaseEndsAt(Plan(s)), NEW inlet \in DOMAIN Config.inlet_positions,
              next.surface = surface, next.current_inlet = inlet, Plan(next) = Plan(s),
              next.phase = s.phase
       PROVE  LoadFits(next) /\ ValidProfile(Plan(next).profile)
  <2>1. PlanFits(Plan(s)) /\ Plan(s).start <= time
    <3>1. Plan(s).start \in Nat /\ s.surface_updated_at \in Nat /\ Plan(s).start <= s.surface_updated_at
      BY <1>9 DEF SurfaceFits, PlanFits, IsSim
    <3>2. QED
      BY <1>1, <1>9, <3>1 DEF SurfaceFits
  <2>2. time < PhaseEndsAt(Plan(s))
    BY <1>1, <1>12
  <2>3. SurfaceFits(grid, next)
    BY <1>3, <1>7, <1>9, <1>12, <2>1, <2>2 DEF SurfaceFits
  <2>4. ValidProfile(Plan(s).profile)
    <3> DEFINE profile == Plan(s).profile
    <3>1. profile.duration \in Nat /\ GoodSegments(profile.segments, 0, profile.duration)
      BY <2>1 DEF PlanFits
    <3> HIDE DEF profile
    <3>2. ValidProfile(profile)
      BY <3>1, GoodSegmentsAreValid
    <3>3. QED
      BY <3>2 DEF profile
  <2>5. QED
    BY <1>8, <1>12, <2>3, <2>4 DEF LoadFits
<1>13. CASE time # PhaseEndsAt(Plan(s)) /\ s.phase = "filling"
  <2>1. next = SwitchInletIfNeeded(r)
    BY <1>5, <1>13
  <2> DEFINE heights == PileHeights(r)
             n == Len(Config.inlet_positions)
  <2>2. n \in Nat \ {0} /\ DOMAIN Config.inlet_positions = 1..n
    BY ReadyFacts
  <2>3. heights \in [1..n -> Rationals]
    <3>1. ASSUME NEW i \in DOMAIN Config.inlet_positions
          PROVE  MeanHeightWithin(grid, r.surface, Config.inlet_positions[i],
                                  Config.inlet_comparison_radius) \in Rationals
      <4>1. Config.inlet_positions[i] \in Int \X Int /\ Config.inlet_comparison_radius \in Int
            /\ grid.boundary \in Seq(Int \X Int) /\ Len(grid.boundary) > 0 /\ Fills(grid, r.surface)
        BY <1>3, <1>5, ReadyFacts
      <4>2. QED
        BY <1>2, <4>1, MeanHeightFacts
    <3>2. QED
      BY <2>2, <3>1 DEF PileHeights
  <2> HIDE DEF heights, n
  <2>4. LowestInlet(heights) \in DOMAIN Config.inlet_positions
    BY <2>2, <2>3, LowestInletFacts
  <2>5. next = r \/ next = [r EXCEPT !.current_inlet = LowestInlet(heights)]
    BY <2>1 DEF SwitchInletIfNeeded, heights
  <2>6. CASE next = r
    <3>1. next.surface = surface /\ next.current_inlet = s.current_inlet
          /\ Plan(next) = Plan(s) /\ next.phase = s.phase
      BY <1>5, <2>6 DEF Plan
    <3>2. QED
      BY <1>9, <1>12, <1>13, <3>1
  <2>7. CASE next = [r EXCEPT !.current_inlet = LowestInlet(heights)]
    <3>1. next.surface = surface /\ next.current_inlet = LowestInlet(heights)
          /\ next.phase = s.phase /\ next.fill_plan = s.fill_plan
          /\ next.collection_plan = s.collection_plan
      BY <1>4, <1>5, <2>7 DEF IsSim
    <3>2. Plan(next) = Plan(s)
      BY <3>1 DEF Plan
    <3>3. QED
      BY <1>12, <1>13, <2>4, <3>1, <3>2
  <2>8. QED
    BY <2>5, <2>6, <2>7
<1>14. CASE time # PhaseEndsAt(Plan(s)) /\ s.phase # "filling"
  <2>1. next = r
    BY <1>5, <1>14
  <2>2. next.surface = surface /\ next.current_inlet = s.current_inlet
        /\ Plan(next) = Plan(s) /\ next.phase = s.phase
    BY <1>5, <2>1 DEF Plan
  <2>3. QED
    BY <1>9, <1>12, <1>14, <2>2
<1>15. QED
  BY <1>10, <1>11, <1>13, <1>14

-----------------------------------------------------------------------------

(* The inductive invariant of the load: on top of the schedule's.          *)
LoadInv ==
  /\ pc \in {"build", "idle", "advancing", "failed"}
  /\ pc = "build" => grid = Absent
  /\ pc # "advancing" => candidate = Absent
  /\ pc \in {"idle", "advancing"} => Ready /\ LoadFits(sim)
  /\ pc = "advancing" => LoadFits(candidate)
  /\ result \in {"state", "numerical"} =>
       /\ pc = "failed" /\ grid = Absent
       /\ ValidPolygon(inputs.boundary) /\ Triangles(inputs.boundary) = {}
  /\ result = "segments" => ~ ChangesAreLong

(* Grid and settings are never replaced.                                   *)
LEMMA ReadyStays ==
  ASSUME Ready, UNCHANGED <<inputs, grid>>
  PROVE  Ready'
<1>1. inputs' = inputs /\ grid' = grid
  OBVIOUS
<1>2. ValidConfig' = ValidConfig
  BY <1>1 DEF ValidConfig, Config, ScaledRange, Positive, Ordered, AverageRange
<1>3. QED
  BY <1>1, <1>2 DEF Ready

(* The settings depend on the inputs only.                                 *)
LEMMA ConfigStays ==
  ASSUME UNCHANGED inputs
  PROVE  Config' = Config /\ UpdateInterval' = UpdateInterval
  BY DEF Config, UpdateInterval

(* So does the room for rate changes. *)
LEMMA LongStays ==
  ASSUME UNCHANGED inputs
  PROVE  ChangesAreLong' = ChangesAreLong
  BY ConfigStays DEF ChangesAreLong, RoomFor, Durations, ScaledRange, Uniform

(* What a simulator fits depends on the grid and the settings only.        *)
LEMMA SimLoadStays ==
  ASSUME UNCHANGED <<inputs, grid>>, LoadFits(sim')
  PROVE  LoadFits(sim)'
<1>1. grid' = grid /\ Config' = Config /\ UpdateInterval' = UpdateInterval
  BY ConfigStays
<1>2. QED
  BY <1>1 DEF LoadFits, SurfaceFits, UpdateDue, Plan, PhaseEndsAt, PlanFits, Fills, Capacity

(* The same for the copy that advance_to works on.                         *)
LEMMA CandidateLoadStays ==
  ASSUME UNCHANGED <<inputs, grid>>, LoadFits(candidate')
  PROVE  LoadFits(candidate)'
<1>1. grid' = grid /\ Config' = Config /\ UpdateInterval' = UpdateInterval
  BY ConfigStays
<1>2. QED
  BY <1>1 DEF LoadFits, SurfaceFits, UpdateDue, Plan, PhaseEndsAt, PlanFits, Fills, Capacity

(* An empty surface. *)
LEMMA EmptyFacts ==
  ASSUME NEW g, IsGrid(g)
  PROVE  Fills(g, Empty(g)) /\ Total(Empty(g)) = 0
<1> DEFINE S == DOMAIN g.weight
           e == Empty(g)
<1>1. /\ IsFiniteSet(S) /\ \A n \in S : g.weight[n] \in Nat \ {0}
      /\ Top \in Nat
  BY GridFacts, HeightFieldAssumption
<1>2. e = [node \in S |-> 0]
  BY DEF Empty
<1>3. Fills(g, e)
  <2>1. \A n \in S : Top * g.weight[n] \in Nat
    BY <1>1
  <2>2. QED
    BY <1>2, <2>1 DEF Fills
<1> HIDE DEF e, S
<1>4. Total(e) = 0
  <2>1. DOMAIN e = S /\ \A x \in S : e[x] = 0
    BY <1>2
  <2>2. Part(e, S) = 0
    BY <1>1, <2>1, PartOfZeros
  <2>3. QED
    <3>1. e \in [S -> Int]
      BY <1>2
    <3>2. QED
      BY <2>2, <3>1, SumIsPart
<1>5. QED
  BY <1>3, <1>4 DEF e

(* The simulator that build_scenario_simulator makes fits.                 *)
LEMMA FirstPlanIsValid ==
  ASSUME inputs \in Inputs, ValidPolygon(inputs.boundary), ValidConfig,
         NEW plan \in FillPlans(NewGrid(inputs.boundary), 0)
  PROVE  ValidProfile(plan.profile) /\ (ChangesAreLong => ~ TooManySegments(plan.profile))
<1> DEFINE g == NewGrid(inputs.boundary)
           profile == plan.profile
<1>1. IsGrid(g) /\ 0 \in Nat
  BY BuiltGridFacts
<1>2. PlanFits(plan) /\ (ChangesAreLong => ~ TooManySegments(profile))
  BY <1>1, FillPlanFits
<1>3. profile.duration \in Nat /\ GoodSegments(profile.segments, 0, profile.duration)
  BY <1>2 DEF PlanFits
<1> HIDE DEF profile
<1>4. ValidProfile(profile)
  BY <1>3, GoodSegmentsAreValid
<1>5. QED
  BY <1>2, <1>4 DEF profile

(* The empty surface of a new simulator fits its first plan.               *)
LEMMA FirstSurfaceFits ==
  ASSUME inputs \in Inputs, ValidPolygon(inputs.boundary), ValidConfig,
         NEW plan \in FillPlans(NewGrid(inputs.boundary), 0), NEW s, NEW elapsed, NEW collection,
         s = [elapsed |-> elapsed, surface_updated_at |-> 0, next_update_index |-> 1,
              cycle_index |-> 0, phase |-> "filling", current_inlet |-> 1,
              fill_plan |-> plan, collection_plan |-> collection,
              surface |-> Empty(NewGrid(inputs.boundary))]
  PROVE  /\ SurfaceFits(NewGrid(inputs.boundary), s)
         /\ s.current_inlet \in DOMAIN Config.inlet_positions
         /\ UpdateDue(s.next_update_index) > s.surface_updated_at
<1> DEFINE g == NewGrid(inputs.boundary)
           profile == plan.profile
           whole == profile.duration * Unit
<1>1. IsGrid(g) /\ 0 \in Nat
  BY BuiltGridFacts
<1>2. PlanFits(plan) /\ plan.start = 0 /\ plan.volume <= Capacity(g)
  BY <1>1, FillPlanFits
<1>3. /\ profile.duration \in Nat \ {0} /\ plan.volume \in Nat
      /\ GoodSegments(profile.segments, 0, profile.duration)
  BY <1>2 DEF PlanFits
<1>4. IntegratedFactorTo(profile, 0) = 0
  <2> HIDE DEF profile
  <2>1. QED
    BY <1>3, IntegratedFactorFacts
<1>5. Fills(g, Empty(g)) /\ Total(Empty(g)) = 0
  BY <1>1, EmptyFacts
<1>6. /\ s.surface = Empty(g) /\ s.phase = "filling" /\ s.surface_updated_at = 0
      /\ s.current_inlet = 1 /\ s.next_update_index = 1 /\ s.fill_plan = plan
  OBVIOUS
<1>7. Plan(s) = plan
  BY <1>6 DEF Plan
<1>8. SurfaceFits(g, s)
  <2>1. 0 < PhaseEndsAt(plan)
    BY <1>2, <1>3 DEF PhaseEndsAt
  <2>2. 0 * whole <= plan.volume * IntegratedFactorTo(profile, 0 - plan.start)
    <3>1. 0 - plan.start = 0
      BY <1>2
    <3>2. whole \in Nat
      BY <1>3, RateProfileAssumption
    <3> HIDE DEF whole, profile
    <3>3. QED
      BY <1>3, <1>4, <3>1, <3>2
  <2> HIDE DEF g
  <2>3. QED
    BY <1>2, <1>5, <1>6, <1>7, <2>1, <2>2 DEF SurfaceFits
<1>9. 1 \in DOMAIN Config.inlet_positions
  <2>1. Config.inlet_positions \in Seq(Int \X Int)
    BY InputsAssumption DEF Config
  <2>2. Len(Config.inlet_positions) \in 1..MaxInlets
    BY DEF ValidConfig
  <2>3. QED
    BY <2>1, <2>2, ScenarioSimulatorAssumption
<1>10. UpdateDue(1) > 0
  <2>1. Interval
    <3>1. Config.update_interval \in [digits : Int, exponent : Int]
      BY InputsAssumption DEF Config
    <3>2. Config.update_interval.digits > 0
      BY DEF ValidConfig
    <3>3. QED
      BY <3>1, <3>2 DEF Interval
  <2> DEFINE z == 0
             o == 1
  <2>2. z \in Nat /\ o = z + 1
    OBVIOUS
  <2> HIDE DEF z, o
  <2>3. UpdateDue(z) \in Nat /\ UpdateDue(z) < UpdateDue(z + 1)
    BY <2>1, <2>2, UpdatesAdvance
  <2>4. o \in Nat
    BY <2>2
  <2>5. UpdateDue(o) \in Nat
    BY <2>1, <2>4, UpdatesAdvance
  <2>6. UpdateDue(o) > 0
    BY <2>2, <2>3, <2>5
  <2>7. QED
    BY <2>6 DEF o
<1>11. QED
  BY <1>6, <1>8, <1>9, <1>10

(* ScenarioSimulator::new establishes the invariant of the load.           *)
LEMMA LoadBuild ==
  ASSUME ScheduleInv, LoadInv, Build
  PROVE  LoadInv'
<1> DEFINE g == NewGrid(inputs.boundary)
<1>1. /\ pc = "build" /\ inputs \in Inputs /\ inputs' = inputs /\ grid = Absent
      /\ candidate = Absent /\ candidate' = candidate /\ result \notin {"state", "numerical"}
      /\ result = "segments" => ~ ChangesAreLong
  BY DEF ScheduleInv, LoadInv, Build
<1>2. CASE ~ValidPolygon(inputs.boundary) \/ Triangles(inputs.boundary) = {}
  <2>1. /\ pc' = "failed" /\ grid' = grid
        /\ result' # "segments"
        /\ result' = IF ValidPolygon(inputs.boundary) THEN "numerical" ELSE "invalid"
    BY <1>2 DEF Build
  <2>2. QED
    BY <1>1, <1>2, <2>1 DEF LoadInv
<1>3. CASE ~ (~ValidPolygon(inputs.boundary) \/ Triangles(inputs.boundary) = {})
  <2>1. /\ grid' = g /\ ValidPolygon(inputs.boundary)
        /\ IF ValidConfig /\ \A i \in DOMAIN Config.inlet_positions :
                                ContainsPoint(inputs.boundary, Config.inlet_positions[i])
           THEN \E plan \in FillPlans(g, 0) :
                  IF TooManySegments(plan.profile)
                  THEN pc' = "failed" /\ result' = "segments" /\ UNCHANGED sim
                  ELSE IF ValidProfile(plan.profile)
                  THEN /\ sim' = [elapsed |-> 0, surface_updated_at |-> 0,
                                  next_update_index |-> 1, cycle_index |-> 0,
                                  phase |-> "filling", current_inlet |-> 1,
                                  fill_plan |-> plan, collection_plan |-> Absent,
                                  surface |-> Empty(g)]
                       /\ pc' = "idle" /\ UNCHANGED result
                  ELSE pc' = "failed" /\ result' = "numerical" /\ UNCHANGED sim
           ELSE pc' = "failed" /\ result' = "invalid" /\ UNCHANGED sim
    BY <1>3 DEF Build
  <2>2. CASE pc' = "failed" /\ result' = "invalid"
    BY <1>1, <2>2 DEF LoadInv
  <2>3. CASE ~ (pc' = "failed" /\ result' = "invalid")
    <3>1. ValidConfig
      BY <2>1, <2>3
    <3>2. PICK plan \in FillPlans(g, 0) :
            IF TooManySegments(plan.profile)
            THEN pc' = "failed" /\ result' = "segments" /\ UNCHANGED sim
            ELSE IF ValidProfile(plan.profile)
            THEN /\ sim' = [elapsed |-> 0, surface_updated_at |-> 0,
                            next_update_index |-> 1, cycle_index |-> 0,
                            phase |-> "filling", current_inlet |-> 1,
                            fill_plan |-> plan, collection_plan |-> Absent,
                            surface |-> Empty(g)]
                 /\ pc' = "idle" /\ UNCHANGED result
            ELSE pc' = "failed" /\ result' = "numerical" /\ UNCHANGED sim
      BY <2>1, <2>3
    <3>3. ValidProfile(plan.profile) /\ (ChangesAreLong => ~ TooManySegments(plan.profile))
      BY <1>1, <2>1, <3>1, FirstPlanIsValid
    <3>4. CASE TooManySegments(plan.profile)
      <4>1. pc' = "failed" /\ result' = "segments"
        BY <3>2, <3>4
      <4>2. ~ ChangesAreLong'
        BY <1>1, <3>3, <3>4, LongStays
      <4>3. QED
        BY <1>1, <4>1, <4>2 DEF LoadInv
    <3>5. CASE ~ TooManySegments(plan.profile)
      <4>1. /\ pc' = "idle" /\ result' = result
            /\ sim' = [elapsed |-> 0, surface_updated_at |-> 0,
                       next_update_index |-> 1, cycle_index |-> 0,
                       phase |-> "filling", current_inlet |-> 1,
                       fill_plan |-> plan, collection_plan |-> Absent, surface |-> Empty(g)]
        BY <3>2, <3>3, <3>5
      <4>2. /\ SurfaceFits(g, sim') /\ sim'.current_inlet \in DOMAIN Config.inlet_positions
            /\ UpdateDue(sim'.next_update_index) > sim'.surface_updated_at
        BY <1>1, <2>1, <3>1, <4>1, FirstSurfaceFits
      <4>3. Config' = Config /\ UpdateInterval' = UpdateInterval
        BY <1>1, ConfigStays
      <4>4. LoadFits(sim)'
        BY <1>1, <2>1, <4>2, <4>3
        DEF LoadFits, SurfaceFits, UpdateDue, Plan, PhaseEndsAt, PlanFits, Fills, Capacity
      <4>5. Ready'
        <5>1. ValidConfig'
          BY <1>1, <3>1, <4>3 DEF ValidConfig, ScaledRange, Positive, Ordered, AverageRange
        <5>2. QED
          BY <1>1, <2>1, <5>1 DEF Ready
      <4>6. ChangesAreLong' = ChangesAreLong
        BY <1>1, LongStays
      <4>7. QED
        BY <1>1, <4>1, <4>4, <4>5, <4>6 DEF LoadInv
    <3>6. QED
      BY <3>4, <3>5
  <2>4. QED
    BY <2>2, <2>3
<1>4. QED
  BY <1>2, <1>3

(* The segments whose rate is a whole number in every tick.                *)
WholeRates(segments) ==
  \A i \in DOMAIN segments : segments[i].integral % segments[i].duration = 0

(* A quotient without remainder, times a number.                           *)
LEMMA WholeMultiple ==
  ASSUME NEW k \in Int, NEW d \in Nat \ {0}, k % d = 0, NEW x \in Int
  PROVE  (k * x) \div d = (k \div d) * x /\ k \div d \in Int
<1> DEFINE q == k \div d
           kx == k * x
           qx == q * x
           z == 0
<1>1. q \in Int /\ k = d * q + (k % d)
  BY Quotient
<1>2. k = d * q
  BY <1>1
<1> HIDE DEF q
<1>3. kx \in Int /\ qx \in Int /\ z \in 0..(d - 1) /\ kx = d * qx + z
  BY <1>1, <1>2
<1> HIDE DEF kx, qx, z
<1>4. kx \div d = qx
  BY <1>3, QuotientIsUnique
<1>5. QED
  BY <1>1, <1>4 DEF kx, qx, q

(* A running segment adds its rate in every tick.                          *)
LEMMA WholeTick ==
  ASSUME NEW s \in Segments, s.integral % s.duration = 0, NEW e \in Nat
  PROVE  LET at(t) == IF s.start < t THEN IntegratedDeviationTo(s, t) ELSE 0
             rate == IF s.start <= e /\ e < SegmentEnd(s) THEN s.integral \div s.duration ELSE 0
         IN at(e) \in Int /\ rate \in Int /\ at(e + 1) = at(e) + rate
<1> DEFINE at(t) == IF s.start < t THEN IntegratedDeviationTo(s, t) ELSE 0
           q == s.integral \div s.duration
<1>1. /\ s.start \in Nat /\ s.duration \in Nat \ {0} /\ s.integral \in Int
      /\ SegmentEnd(s) = s.start + s.duration
  BY SegmentFacts DEF SegmentEnd
<1>2. q \in Int
  BY <1>1, Quotient
<1>3. CASE s.start <= e /\ e < SegmentEnd(s)
  <2> DEFINE x == e - s.start
             y == x + 1
  <2>1. x \in Nat /\ x \in 0..s.duration /\ y \in 0..s.duration
        /\ s.start + x = e /\ s.start + y = e + 1 /\ x \in Int /\ y \in Int
    BY <1>1, <1>3
  <2>2. \A z \in 0..s.duration : at(s.start + z) = q * z
    <3>1. TAKE z \in 0..s.duration
    <3>2. z \in Int
      BY <1>1
    <3>3. at(s.start + z) = (s.integral * z) \div s.duration
      BY DeviationInside
    <3>4. (s.integral * z) \div s.duration = q * z
      BY <1>1, <3>2, WholeMultiple
    <3>5. QED
      BY <3>3, <3>4
  <2> HIDE DEF at, q, x
  <2>3. at(s.start + x) = q * x /\ at(s.start + (x + 1)) = q * (x + 1)
    BY <2>1, <2>2
  <2>4. q * (x + 1) = q * x + q /\ q * x \in Int
    BY <1>2, <2>1
  <2>5. at(e) = q * x /\ at(e + 1) = q * x + q
    BY <2>1, <2>3, <2>4
  <2>6. at(e) \in Int /\ at(e + 1) = at(e) + q
    BY <1>2, <2>4, <2>5
  <2>7. QED
    BY <1>2, <1>3, <2>6 DEF at, q
<1>4. CASE ~ (s.start <= e /\ e < SegmentEnd(s))
  <2>1. at(e) \in Int /\ at(e + 1) = at(e)
    BY <1>4, DeviationTick
  <2> HIDE DEF at
  <2>2. at(e + 1) = at(e) + 0
    BY <2>1
  <2>3. QED
    BY <1>4, <2>1, <2>2 DEF at
<1>5. QED
  BY <1>3, <1>4

(* The integral of a profile of whole rates grows by the factor of a tick. *)
LEMMA AccumulatedTick ==
  ASSUME NEW profile, profile.duration \in Nat,
         GoodSegments(profile.segments, 0, profile.duration), WholeRates(profile.segments),
         NEW e \in Nat
  PROVE  /\ TickFactor(profile, e) \in Int
         /\ Accumulated(profile.segments, e + 1)
              = Accumulated(profile.segments, e) + TickFactor(profile, e)
<1> DEFINE segments == profile.segments
           until == profile.duration
           S == DOMAIN segments
           R == {i \in S : segments[i].start <= e /\ e < SegmentEnd(segments[i])}
           a == Deviations(segments, e)
           b == Deviations(segments, e + 1)
           rate == [i \in S |-> segments[i].integral \div segments[i].duration]
           c == [i \in S |-> IF i \in R THEN rate[i] ELSE 0]
<1>1. IsFiniteSet(S) /\ \A i \in S : segments[i] \in Segments
  BY GoodSegmentFacts
<1>2. \A i \in S : a[i] \in Int /\ c[i] \in Int /\ b[i] = a[i] + c[i]
  <2>1. TAKE i \in S
  <2> DEFINE s == segments[i]
             at(t) == IF s.start < t THEN IntegratedDeviationTo(s, t) ELSE 0
             now == IF s.start <= e /\ e < SegmentEnd(s) THEN s.integral \div s.duration ELSE 0
  <2>2. s \in Segments /\ s.integral % s.duration = 0
    BY <1>1 DEF WholeRates
  <2>3. a[i] = at(e) /\ b[i] = at(e + 1) /\ c[i] = now
    BY DEF Deviations
  <2> HIDE DEF s
  <2>4. at(e) \in Int /\ now \in Int /\ at(e + 1) = at(e) + now
    BY <2>2, WholeTick
  <2> HIDE DEF at, now, a, b, c
  <2>5. QED
    BY <2>3, <2>4
<1>3. R \subseteq S /\ S = R \cup (S \ R) /\ R \cap (S \ R) = {}
  OBVIOUS
<1>4. /\ \A i \in R : c[i] = rate[i]
      /\ \A i \in S \ R : c[i] = 0
  OBVIOUS
<1>5. TickFactor(profile, e) = Unit + Part(rate, R)
  <2>1. [i \in R |-> segments[i].integral \div segments[i].duration] = [i \in R |-> rate[i]]
    OBVIOUS
  <2>2. TickFactor(profile, e)
          = Unit + Total([i \in R |-> segments[i].integral \div segments[i].duration])
    BY DEF TickFactor
  <2>3. QED
    BY <2>1, <2>2 DEF Part
<1>6. /\ Accumulated(segments, e) = Unit * e + Part(a, S)
      /\ Accumulated(segments, e + 1) = Unit * (e + 1) + Part(b, S)
  BY DEF Accumulated
<1> HIDE DEF S, R, a, b, c, rate, segments
<1>7. IsFiniteSet(R) /\ IsFiniteSet(S \ R)
  BY <1>1, <1>3, FS_Subset
<1>8. Part(b, S) = Part(a, S) + Part(c, S)
  BY <1>1, <1>2, PartAdds
<1>9. Part(c, R \cup (S \ R)) = Part(c, R) + Part(c, S \ R)
  BY <1>2, <1>3, <1>7, PartUnion
<1>10. Part(c, S \ R) = 0
  BY <1>4, <1>7, PartOfZeros
<1>11. Part(c, R) = Part(rate, R)
  BY <1>4, SamePart
<1>12. Part(c, R) \in Int /\ Part(a, S) \in Int
  BY <1>1, <1>2, <1>3, <1>7, PartFacts
<1>13. Part(b, S) = Part(a, S) + Part(rate, R) /\ Part(rate, R) \in Int
  <2>1. Part(c, S) = Part(c, R) + Part(c, S \ R)
    BY Zenon, <1>3, <1>9
  <2> DEFINE pa == Part(a, S)
             pb == Part(b, S)
             all == Part(c, S)
             pr == Part(c, R)
             pz == Part(c, S \ R)
             pq == Part(rate, R)
  <2>2. pb = pa + all /\ all = pr + pz /\ pz = 0 /\ pr = pq /\ pr \in Int /\ pa \in Int
    BY <1>8, <1>10, <1>11, <1>12, <2>1
  <2> HIDE DEF pa, pb, all, pr, pz, pq
  <2>3. pb = pa + pq /\ pq \in Int
    BY <2>2
  <2>4. QED
    BY <2>3 DEF pa, pb, pq
<1>14. Unit \in Nat
  BY RateProfileAssumption
<1>15. Unit * (e + 1) = Unit * e + Unit /\ Unit * e \in Int
  BY <1>14
<1>16. QED
  BY <1>5, <1>6, <1>12, <1>13, <1>14, <1>15 DEF segments

(* The factors of the ticks add up to the integral of the profile.         *)
THEOREM TicksAddUp ==
  ASSUME NEW profile, profile.duration \in Nat,
         GoodSegments(profile.segments, 0, profile.duration), WholeRates(profile.segments),
         NEW e \in 0..profile.duration
  PROVE  Total([tick \in 0..(e - 1) |-> TickFactor(profile, tick)]) = IntegratedFactorTo(profile, e)
<1> DEFINE segments == profile.segments
           f == [tick \in Nat |-> TickFactor(profile, tick)]
           G(n) == Accumulated(segments, n)
           K == {n \in Nat : Part(f, 0..(n - 1)) = G(n)}
<1>1. \A n \in Nat : f[n] \in Int /\ G(n + 1) = G(n) + f[n] /\ G(n) \in Int
  BY AccumulatedTick, DeviationsFacts
<1>2. G(0) = 0
  <2>1. 0 \in 0..profile.duration
    OBVIOUS
  <2>2. IntegratedFactorTo(profile, 0) = 0
    BY IntegratedFactorFacts
  <2>3. QED
    BY <2>1, <2>2, IntegratedIsAccumulated
<1>3. 0 \in K
  <2>1. 0..(0 - 1) = {}
    OBVIOUS
  <2>2. Part(f, {}) = 0
    BY PartFacts, FS_EmptySet
  <2> HIDE DEF f, G
  <2>3. QED
    BY <1>2, <2>1, <2>2
<1>4. ASSUME NEW n \in K PROVE n + 1 \in K
  <2> DEFINE T == 0..(n - 1)
  <2>1. n \in Nat /\ Part(f, T) = G(n)
    OBVIOUS
  <2>2. /\ T \cup {n} = 0..((n + 1) - 1) /\ n \notin T /\ \A x \in T \cup {n} : x \in Nat
    BY <2>1
  <2>3. IsFiniteSet(T)
    <3> DEFINE lo == 0
               hi == n - 1
    <3>1. lo \in Int /\ hi \in Int
      BY <2>1
    <3> HIDE DEF lo, hi
    <3>2. IsFiniteSet(lo..hi)
      BY <3>1, FS_Interval
    <3>3. QED
      BY <3>2 DEF lo, hi
  <2> HIDE DEF f, G, T
  <2>4. Part(f, T \cup {n}) = f[n] + Part(f, T)
    BY <1>1, <2>2, <2>3, PartAddElement
  <2>5. Part(f, 0..((n + 1) - 1)) = G(n + 1)
    <3>1. Part(f, T \cup {n}) = G(n) + f[n]
      <4>1. f[n] \in Int /\ G(n) \in Int
        BY <1>1, <2>1
      <4>2. Part(f, T) = G(n)
        BY Zenon, <2>1
      <4>3. QED
        BY <2>4, <4>1, <4>2
    <3>2. Part(f, T \cup {n}) = G(n + 1)
      BY <1>1, <2>1, <3>1
    <3>3. QED
      BY Zenon, <2>2, <3>2
  <2>6. QED
    BY <2>1, <2>5
<1>5. K = Nat
  <2>1. K \subseteq Nat
    OBVIOUS
  <2> HIDE DEF K
  <2>2. QED
    BY <1>3, <1>4, <2>1, Induction
<1>6. Part(f, 0..(e - 1)) = G(e)
  <2>1. e \in Nat
    OBVIOUS
  <2>2. e \in K
    BY <1>5, <2>1
  <2> HIDE DEF f, G
  <2>3. QED
    BY <2>2
<1>7. [tick \in 0..(e - 1) |-> TickFactor(profile, tick)] = [tick \in 0..(e - 1) |-> f[tick]]
  OBVIOUS
<1>8. G(e) = IntegratedFactorTo(profile, e)
  BY IntegratedIsAccumulated
<1>9. QED
  <2> HIDE DEF f, G
  <2>1. QED
    BY <1>6, <1>7, <1>8 DEF Part

(* A plan that gives every tick a whole rate and every time a whole        *)
(* volume.                                                                 *)
WholePlan(plan) ==
  /\ WholeRates(plan.profile.segments)
  /\ \A elapsed \in 0..plan.profile.duration :
       (plan.volume * IntegratedFactorTo(plan.profile, elapsed))
         % (plan.profile.duration * Unit) = 0

(* The volume moved by a phase is the one that its plan gives the time.    *)
OnPlan(s) ==
  LET plan == Plan(s)
      volume == Total(s.surface)
  IN (IF s.phase = "filling" THEN volume ELSE plan.volume - volume)
         * (plan.profile.duration * Unit)
       = plan.volume * IntegratedFactorTo(plan.profile, s.surface_updated_at - plan.start)

FollowsPlan(s) == WholePlan(Plan(s)) => OnPlan(s)

(* A difference of two multiples is a multiple.                            *)
LEMMA ExactDifference ==
  ASSUME NEW a \in Int, NEW b \in Int, NEW w \in Nat \ {0}, a % w = 0, b % w = 0
  PROVE  (b - a) \div w \in Int /\ ((b - a) \div w) * w = b - a
<1> DEFINE p == a \div w
           q == b \div w
           c == b - a
           k == q - p
           z == 0
<1>1. p \in Int /\ q \in Int /\ a = w * p + (a % w) /\ b = w * q + (b % w)
  BY Quotient
<1>2. a = w * p /\ b = w * q
  BY <1>1
<1> HIDE DEF p, q
<1>3. c \in Int /\ k \in Int /\ z \in 0..(w - 1) /\ c = w * k + z
  BY <1>1, <1>2
<1>4. k * w = b - a
  BY <1>1, <1>2
<1> HIDE DEF c, k, z
<1>5. c \div w = k
  BY <1>3, QuotientIsUnique
<1>6. QED
  BY <1>3, <1>4, <1>5 DEF c

(* An event keeps the volume on its plan.                                  *)
LEMMA RequestedOnPlan ==
  ASSUME NEW g, IsGrid(g), NEW s, IsSim(s), SurfaceFits(g, s), NEW time \in Nat,
         s.surface_updated_at < time, time <= PhaseEndsAt(Plan(s)),
         WholePlan(Plan(s)), OnPlan(s)
  PROVE  LET plan == Plan(s)
             c == Total(s.surface)
             requested == Requested(s, time)
         IN (IF s.phase = "filling" THEN c + requested ELSE plan.volume - (c - requested))
                * (plan.profile.duration * Unit)
              = plan.volume * IntegratedFactorTo(plan.profile, time - plan.start)
<1> DEFINE plan == Plan(s)
           profile == plan.profile
           d == profile.duration
           v == plan.volume
           start == plan.start
           end == PhaseEndsAt(plan)
           at == s.surface_updated_at
           u == at - start
           w == time - start
           c == Total(s.surface)
           whole == d * Unit
           F(x) == IntegratedFactorTo(profile, x)
           planned == (v * (F(w) - F(u))) \div whole
           req == Requested(s, time)
<1>1. /\ Fills(g, s.surface) /\ start \in Nat /\ v \in Nat /\ d \in Nat \ {0}
      /\ GoodSegments(profile.segments, 0, d) /\ start <= at /\ at < end
  BY DEF SurfaceFits, PlanFits
<1>2. end = start + d /\ at \in Nat /\ s.phase \in {"filling", "collecting"}
  BY DEF PhaseEndsAt, IsSim
<1>3. c \in Nat
  BY <1>1, RoomFacts
<1>4. Unit \in Nat \ {0} /\ whole \in Nat \ {0} /\ whole = Unit * d
  BY <1>1, RateProfileAssumption
<1>5. /\ \A x \in 0..d : F(x) \in Nat
      /\ F(d) = Unit * d /\ \A x, y \in 0..d : x <= y => F(x) <= F(y)
  <2> HIDE DEF profile
  <2>1. profile.duration \in Nat /\ GoodSegments(profile.segments, 0, profile.duration)
    BY <1>1
  <2>2. QED
    BY <2>1, IntegratedFactorFacts
<1>6. req = IF s.phase = "filling" THEN IF time = end THEN Max({v - c, 0}) ELSE planned
            ELSE IF time = end THEN c ELSE Min({c, planned})
  BY Zenon, RequestedIs
<1>7. (IF s.phase = "filling" THEN c ELSE v - c) * whole = v * F(u)
  BY DEF OnPlan
<1>8. \A x \in 0..d : (v * F(x)) % whole = 0
  BY DEF WholePlan
<1>9. s.phase = "filling" => req <= Capacity(g) - c /\ (time = end => c + req = v)
  BY RequestedFacts
<1>10. at < time /\ time <= end
  OBVIOUS
<1> HIDE DEF plan, profile, d, v, start, end, at, c, whole, F, req
<1>11. u \in 0..d /\ w \in 0..d /\ u <= w /\ (time = end => w = d)
  BY <1>1, <1>2, <1>10
<1> DEFINE fu == F(u)
           fw == F(w)
           vu == v * fu
           vw == v * fw
<1>12. fu \in Nat /\ fw \in Nat /\ fw <= whole /\ (time = end => fw = whole)
  <2>1. d \in 0..d
    BY <1>1
  <2> HIDE DEF u, w
  <2>2. QED
    BY <1>4, <1>5, <1>11, <2>1
<1>13. vu % whole = 0 /\ vw % whole = 0
  <2> HIDE DEF u, w
  <2>1. QED
    BY <1>8, <1>11
<1> HIDE DEF fu, fw
<1>14. vu \in Int /\ vw \in Int /\ v * (fw - fu) = vw - vu
  BY <1>1, <1>12
<1>15. planned = (vw - vu) \div whole
  BY <1>14 DEF fu, fw
<1> HIDE DEF vu, vw, planned, u, w
<1>16. planned \in Int /\ planned * whole = vw - vu
  BY <1>4, <1>13, <1>14, <1>15, ExactDifference
<1>17. CASE s.phase = "filling"
  <2>1. c * whole = vu
    BY <1>7, <1>17 DEF vu, fu
  <2>2. (c + req) * whole = vw
    <3>1. CASE time = end
      <4>1. c + req = v /\ fw = whole
        BY <1>9, <1>12, <1>17, <3>1
      <4>2. QED
        BY Zenon, <4>1 DEF vw
    <3>2. CASE time # end
      <4>1. req = planned
        BY <1>6, <1>17, <3>2
      <4>2. (c + planned) * whole = c * whole + planned * whole
        BY <1>3, <1>4, <1>16
      <4>3. QED
        BY <1>14, <1>16, <2>1, <4>1, <4>2
    <3>3. QED
      BY <3>1, <3>2
  <2>3. QED
    BY <1>17, <2>2 DEF plan, c, req, whole, d, profile, v, vw, fw, F, w, start
<1>18. CASE s.phase = "collecting"
  <2>1. (v - c) * whole = vu
    BY <1>7, <1>18 DEF vu, fu
  <2> DEFINE vt == v * whole
             ct == c * whole
             pt == planned * whole
  <2>2. vt - ct = vu /\ vt \in Int /\ ct \in Int /\ pt \in Int /\ pt = vw - vu
    BY <1>1, <1>3, <1>4, <1>16, <2>1
  <2>3. vw <= vt
    <3>1. fw \in Int /\ whole \in Int
      BY <1>4, <1>12
    <3>2. QED
      BY <1>1, <1>12, <3>1, ProductGrows DEF vw
  <2>4. (v - (c - req)) * whole = vw
    <3>1. CASE time = end
      <4>1. req = c /\ v - (c - c) = v /\ fw = whole
        BY <1>1, <1>3, <1>6, <1>12, <1>18, <3>1
      <4>2. QED
        BY Zenon, <4>1 DEF vw
    <3>2. CASE time # end
      <4>1. pt <= ct
        <5> HIDE DEF vt, ct, pt
        <5>1. QED
          BY <1>14, <2>2, <2>3
      <4>2. planned <= c
        BY <1>3, <1>4, <1>16, <4>1, FactorCancels
      <4>3. Min({c, planned}) = planned
        <5>1. c \in Int
          BY <1>3
        <5>2. Min({c, planned}) = IF c <= planned THEN c ELSE planned
          BY <1>16, <5>1, MinOfTwo
        <5>3. QED
          BY <1>16, <4>2, <5>1, <5>2
      <4>4. req = planned
        BY <1>6, <1>18, <3>2, <4>3
      <4>5. (v - (c - planned)) * whole = (v - c) * whole + planned * whole
        BY <1>1, <1>3, <1>4, <1>16
      <4>6. QED
        BY <1>14, <1>16, <2>1, <4>4, <4>5
    <3>3. QED
      BY <3>1, <3>2
  <2>5. QED
    BY <1>18, <2>4 DEF plan, c, req, whole, d, profile, v, vw, fw, F, w, start
<1>19. QED
  BY <1>2, <1>17, <1>18

(* The event that moves the volume keeps it on the plan, and a new plan    *)
(* starts with none of it moved.                                           *)
LEMMA FollowingOnPlan ==
  ASSUME Ready, NEW s, IsSim(s), LoadFits(s), NEW time, time = NextEvent(s),
         NEW surface \in ChangedSurfaces(s, time), NEW update_due \in BOOLEAN, NEW r,
         r = Reached(s, surface, time, update_due), NEW next,
         next \in IF time = PhaseEndsAt(Plan(s)) THEN TransitionPhase(r, time)
                  ELSE IF r.phase = "filling" THEN {SwitchInletIfNeeded(r)} ELSE {r},
         FollowsPlan(s)
  PROVE  FollowsPlan(next)
<1>1. /\ time \in Nat /\ s.surface_updated_at < time /\ time <= PhaseEndsAt(Plan(s))
  BY NextEventIsAhead
<1>2. inputs \in Inputs /\ ValidConfig /\ IsGrid(grid) /\ SurfaceFits(grid, s)
      /\ s.current_inlet \in DOMAIN Config.inlet_positions
      /\ s.phase \in {"filling", "collecting"}
  BY ReadyFacts DEF Ready, LoadFits, IsSim
<1>3. /\ Fills(grid, surface) /\ Total(surface) \in Nat
      /\ time = PhaseEndsAt(Plan(s)) => ~ TransitionFails(r)
  BY EventNeverFails
<1>4. /\ r = [elapsed |-> time, surface_updated_at |-> time,
              next_update_index |-> r.next_update_index, cycle_index |-> s.cycle_index,
              phase |-> s.phase, current_inlet |-> s.current_inlet, fill_plan |-> s.fill_plan,
              collection_plan |-> s.collection_plan, surface |-> surface]
  <2>1. s = [elapsed |-> s.elapsed, surface_updated_at |-> s.surface_updated_at,
             next_update_index |-> s.next_update_index, cycle_index |-> s.cycle_index,
             phase |-> s.phase, current_inlet |-> s.current_inlet, fill_plan |-> s.fill_plan,
             collection_plan |-> s.collection_plan, surface |-> s.surface]
    BY DEF IsSim
  <2> DEFINE index == s.next_update_index + (IF update_due THEN 1 ELSE 0)
  <2>2. r = [s EXCEPT !.surface = surface, !.surface_updated_at = time, !.elapsed = time,
                      !.next_update_index = index]
    BY DEF Reached
  <2> HIDE DEF index
  <2>3. QED
    BY <2>1, <2>2
<1>5. CASE time = PhaseEndsAt(Plan(s)) /\ s.phase = "filling"
  <2>1. PICK plan \in CollectionPlans(time, r.surface) :
               next = [r EXCEPT !.phase = "collecting", !.collection_plan = plan]
    <3>1. r.phase = s.phase
      BY <1>4
    <3>2. QED
      BY <1>5, <3>1 DEF TransitionPhase
  <2>2. /\ next.phase = "collecting" /\ next.collection_plan = plan
        /\ next.surface = surface /\ next.surface_updated_at = time
    BY <1>4, <2>1
  <2>3. PlanFits(plan) /\ plan.start = time /\ plan.volume = Total(surface)
    BY <1>1, <1>2, <1>3, <1>4, <2>1, CollectionPlanFits
  <2>4. Plan(next) = plan
    BY <2>2 DEF Plan
  <2> DEFINE profile == plan.profile
             whole == profile.duration * Unit
  <2>5. profile.duration \in Nat /\ GoodSegments(profile.segments, 0, profile.duration)
    BY <2>3 DEF PlanFits
  <2>6. IntegratedFactorTo(profile, 0) = 0
    <3> HIDE DEF profile
    <3>1. QED
      BY <2>5, IntegratedFactorFacts
  <2>7. (plan.volume - Total(surface)) * whole = plan.volume * IntegratedFactorTo(profile, time - plan.start)
    <3>1. time - plan.start = 0 /\ plan.volume \in Nat /\ plan.volume - Total(surface) = 0
      BY <1>1, <1>3, <2>3
    <3>2. whole \in Int
      BY <2>5, RateProfileAssumption
    <3> HIDE DEF whole, profile
    <3>3. QED
      BY <2>6, <3>1, <3>2
  <2>8. OnPlan(next)
    BY <2>2, <2>4, <2>7 DEF OnPlan
  <2>9. QED
    BY <2>8 DEF FollowsPlan
<1>6. CASE time = PhaseEndsAt(Plan(s)) /\ s.phase # "filling"
  <2>1. PICK plan \in FillPlans(grid, time) :
               next = [r EXCEPT !.phase = "filling", !.current_inlet = 1, !.cycle_index = @ + 1,
                                !.collection_plan = Absent, !.fill_plan = plan]
    <3>1. r.phase = s.phase
      BY <1>4
    <3>2. QED
      BY <1>6, <3>1 DEF TransitionPhase
  <2>2. /\ next.phase = "filling" /\ next.fill_plan = plan
        /\ next.surface = surface /\ next.surface_updated_at = time
    BY <1>4, <2>1
  <2>3. PlanFits(plan) /\ plan.start = time
    BY <1>1, <1>2, <2>1, FillPlanFits
  <2>4. Plan(next) = plan
    BY <2>2 DEF Plan
  <2>5. Total(surface) = 0
    BY <1>3, <1>4, <1>6 DEF TransitionFails
  <2> DEFINE profile == plan.profile
             whole == profile.duration * Unit
  <2>6. profile.duration \in Nat /\ GoodSegments(profile.segments, 0, profile.duration)
        /\ plan.volume \in Nat
    BY <2>3 DEF PlanFits
  <2>7. IntegratedFactorTo(profile, 0) = 0
    <3> HIDE DEF profile
    <3>1. QED
      BY <2>6, IntegratedFactorFacts
  <2>8. Total(surface) * whole = plan.volume * IntegratedFactorTo(profile, time - plan.start)
    <3>1. time - plan.start = 0
      BY <1>1, <2>3
    <3>2. whole \in Int
      BY <2>6, RateProfileAssumption
    <3> HIDE DEF whole, profile
    <3>3. QED
      BY <2>5, <2>6, <2>7, <3>1, <3>2
  <2>9. OnPlan(next)
    BY <2>2, <2>4, <2>8 DEF OnPlan
  <2>10. QED
    BY <2>9 DEF FollowsPlan
<1>7. CASE time # PhaseEndsAt(Plan(s))
  <2>1. next = r \/ \E lowest : next = [r EXCEPT !.current_inlet = lowest]
    BY <1>7 DEF SwitchInletIfNeeded
  <2>2. /\ next.phase = s.phase /\ next.surface = surface /\ next.surface_updated_at = time
        /\ next.fill_plan = s.fill_plan /\ next.collection_plan = s.collection_plan
    <3>1. CASE next = r
      BY <1>4, <3>1
    <3>2. ASSUME NEW lowest, next = [r EXCEPT !.current_inlet = lowest]
          PROVE  /\ next.phase = s.phase /\ next.surface = surface
                 /\ next.surface_updated_at = time
                 /\ next.fill_plan = s.fill_plan /\ next.collection_plan = s.collection_plan
      BY <1>4, <3>2
    <3>3. QED
      BY <2>1, <3>1, <3>2
  <2>3. Plan(next) = Plan(s)
    BY <2>2 DEF Plan
  <2>4. SUFFICES ASSUME WholePlan(Plan(s)) PROVE OnPlan(next)
    BY <2>3 DEF FollowsPlan
  <2>5. OnPlan(s)
    BY <2>4 DEF FollowsPlan
  <2> DEFINE plan == Plan(s)
             c == Total(s.surface)
             req == Requested(s, time)
  <2>6. (IF s.phase = "filling" THEN c + req ELSE plan.volume - (c - req))
            * (plan.profile.duration * Unit)
          = plan.volume * IntegratedFactorTo(plan.profile, time - plan.start)
    BY <1>1, <1>2, <2>4, <2>5, RequestedOnPlan
  <2>7. Total(surface) = IF s.phase = "filling" THEN c + req ELSE c - req
    <3>1. /\ Fills(grid, Moved(s, time)) /\ c \in Nat /\ req \in Nat
          /\ Total(Moved(s, time)) = c + (IF s.phase = "filling" THEN req ELSE -req)
      BY <1>1, <1>2, MovedFits
    <3>2. Total(surface) = Total(Moved(s, time))
      BY <1>2, <3>1, ChangedFits
    <3> HIDE DEF c, req
    <3>3. c + (-req) = c - req
      BY <3>1
    <3>4. QED
      BY <3>1, <3>2, <3>3
  <2>8. QED
    BY <2>2, <2>3, <2>6, <2>7 DEF OnPlan
<1>8. QED
  BY <1>5, <1>6, <1>7

(* A call that starts, or is refused, keeps the load as it is.             *)
LEMMA LoadAdvance ==
  ASSUME ScheduleInv, LoadInv, Advance
  PROVE  LoadInv'
<1>1. /\ pc = "idle" /\ inputs' = inputs /\ grid' = grid /\ sim' = sim
      /\ Ready /\ LoadFits(sim) /\ candidate = Absent
      /\ pc' \in {"idle", "advancing"}
      /\ result' \in {"invalid", "resource", "ok"}
      /\ pc' = "idle" => candidate' = candidate
      /\ pc' = "advancing" => candidate' = sim
  BY DEF LoadInv, Advance
<1>2. Ready'
  BY <1>1, ReadyStays
<1>3. LoadFits(sim)'
  BY <1>1, SimLoadStays
<1>4. pc' = "advancing" => LoadFits(candidate)'
  BY <1>1, CandidateLoadStays
<1>5. QED
  BY <1>1, <1>2, <1>3, <1>4 DEF LoadInv

(* An event fails for lack of room in the list or in the next profile.     *)
LEMMA EventHappens ==
  ASSUME ScheduleInv, LoadInv, Event
  PROVE  \/ Fail("resource")
         \/ Fail("segments") /\ ~ ChangesAreLong
         \/ /\ IsSim(candidate') /\ LoadFits(candidate')
            /\ FollowsPlan(candidate) => FollowsPlan(candidate')
            /\ UNCHANGED <<pc, sim, target_time, result, delivered>>
<1> DEFINE s == candidate
           time == NextEvent(s)
           update_due == time = NextUpdateTime(s)
           transition_due == time = PhaseEndsAt(Plan(s))
<1>1. /\ pc = "advancing" /\ inputs \in Inputs /\ Ready /\ LoadFits(s) /\ IsSim(s)
  BY DEF ScheduleInv, LoadInv, Event, CandidateFits
<1>2. /\ time \in Nat /\ s.surface_updated_at < time /\ s.surface_updated_at \in Nat
  BY <1>1, NextEventIsAhead DEF IsSim
<1>3. ~ (time <= s.surface_updated_at)
  BY <1>2
<1>4. CASE Len(emitted) = EventLimit
  BY <1>3, <1>4 DEF Event
<1>5. CASE Len(emitted) # EventLimit
  <2>1. PICK surface \in ChangedSurfaces(s, time) :
          LET reached == Reached(s, surface, time, update_due)
          IN IF ChangeFails(s, time, surface) THEN Fail("numerical")
             ELSE IF \/ Unapplied(s, time)
                     \/ transition_due /\ TransitionFails(reached) THEN Fail("state")
             ELSE \E next \in IF transition_due THEN TransitionPhase(reached, time)
                              ELSE IF reached.phase = "filling" THEN {SwitchInletIfNeeded(reached)}
                              ELSE {reached} :
                  IF transition_due /\ TooManySegments(Plan(next).profile) THEN Fail("segments")
                  ELSE IF ~ValidProfile(Plan(next).profile) THEN Fail("numerical")
                  ELSE /\ candidate' = next
                       /\ emitted' = Append(emitted, [time |-> time, update |-> update_due])
                       /\ UNCHANGED <<pc, sim, target_time, result, delivered>>
    BY Zenon, <1>3, <1>5 DEF Event, Reached
  <2> DEFINE r == Reached(s, surface, time, update_due)
  <2>2. update_due \in BOOLEAN
    OBVIOUS
  <2>3. /\ ~ ChangeFails(s, time, surface) /\ ~ Unapplied(s, time)
        /\ transition_due => ~ TransitionFails(r)
    BY <1>1, <2>2, EventNeverFails
  <2>4. PICK next \in IF transition_due THEN TransitionPhase(r, time)
                      ELSE IF r.phase = "filling" THEN {SwitchInletIfNeeded(r)}
                      ELSE {r} :
               IF transition_due /\ TooManySegments(Plan(next).profile) THEN Fail("segments")
               ELSE IF ~ValidProfile(Plan(next).profile) THEN Fail("numerical")
               ELSE /\ candidate' = next
                    /\ UNCHANGED <<pc, sim, target_time, result, delivered>>
    BY Zenon, <2>1, <2>3
  <2>5. /\ LoadFits(next) /\ ValidProfile(Plan(next).profile)
        /\ transition_due /\ ChangesAreLong => ~ TooManySegments(Plan(next).profile)
        /\ FollowsPlan(s) => FollowsPlan(next)
    <3>1. /\ time = NextEvent(s) /\ update_due \in BOOLEAN
          /\ update_due <=> time = NextUpdateTime(s)
          /\ r = Reached(s, surface, time, update_due) /\ surface \in ChangedSurfaces(s, time)
          /\ next \in IF time = PhaseEndsAt(Plan(s)) THEN TransitionPhase(r, time)
                      ELSE IF r.phase = "filling" THEN {SwitchInletIfNeeded(r)} ELSE {r}
      BY <2>2, <2>4
    <3>2. transition_due <=> time = PhaseEndsAt(Plan(s))
      OBVIOUS
    <3> HIDE DEF r, time, update_due, transition_due, s
    <3>3. QED
      BY <1>1, <3>1, <3>2, FollowingFits, FollowingOnPlan
  <2>6. CASE transition_due /\ TooManySegments(Plan(next).profile)
    BY Zenon, <2>4, <2>5, <2>6
  <2>7. CASE ~ (transition_due /\ TooManySegments(Plan(next).profile))
    <3>1. /\ candidate' = next /\ UNCHANGED <<pc, sim, target_time, result, delivered>>
      BY Zenon, <2>4, <2>5, <2>7
    <3>2. IsSim(next)
      <4>1. IsSim(r)
        BY <1>1, <1>2, <2>2, ReachedIsSim
      <4>2. Follows(next, r, time)
        BY <2>4 DEF Follows
      <4> HIDE DEF r
      <4>3. QED
        BY <1>1, <1>2, <4>1, <4>2, FollowsIsSim
    <3>3. QED
      BY <2>5, <3>1, <3>2
  <2>8. QED
    BY <2>6, <2>7
<1>6. QED
  BY <1>4, <1>5

(* An event keeps the invariant of the load.                               *)
LEMMA LoadEvent ==
  ASSUME ScheduleInv, LoadInv, Event
  PROVE  LoadInv'
<1>1. /\ pc = "advancing" /\ inputs' = inputs /\ grid' = grid
      /\ Ready /\ LoadFits(sim) /\ LoadFits(candidate)
      /\ result \notin {"state", "numerical"}
  BY DEF LoadInv, Event
<1>2. Ready'
  BY <1>1, ReadyStays
<1>3. CASE Fail("resource")
  <2>1. /\ result' = "resource" /\ pc' = "idle" /\ candidate' = Absent /\ sim' = sim
    BY <1>3 DEF Fail
  <2>2. LoadFits(sim)'
    BY <1>1, <2>1, SimLoadStays
  <2>3. QED
    BY <1>2, <2>1, <2>2 DEF LoadInv
<1>4. CASE Fail("segments") /\ ~ ChangesAreLong
  <2>1. /\ result' = "segments" /\ pc' = "idle" /\ candidate' = Absent /\ sim' = sim
    BY <1>4 DEF Fail
  <2>2. LoadFits(sim)' /\ ~ ChangesAreLong'
    BY <1>1, <1>4, <2>1, SimLoadStays, LongStays
  <2>3. QED
    BY <1>2, <2>1, <2>2 DEF LoadInv
<1>5. CASE /\ LoadFits(candidate')
           /\ UNCHANGED <<pc, sim, target_time, result, delivered>>
  <2>1. LoadFits(sim)' /\ LoadFits(candidate)'
    BY <1>1, <1>5, SimLoadStays, CandidateLoadStays
  <2>2. ChangesAreLong' = ChangesAreLong /\ (result = "segments" => ~ ChangesAreLong)
    BY <1>1, LongStays DEF LoadInv
  <2>3. QED
    BY <1>1, <1>2, <1>5, <2>1, <2>2 DEF LoadInv
<1>6. QED
  BY <1>3, <1>4, <1>5, EventHappens

(* A call that ends takes over a copy that fits.                           *)
LEMMA LoadFinish ==
  ASSUME ScheduleInv, LoadInv, Finish
  PROVE  LoadInv'
<1>1. /\ pc = "advancing" /\ inputs' = inputs /\ grid' = grid
      /\ Ready /\ LoadFits(candidate) /\ IsSim(candidate)
      /\ result \notin {"state", "numerical"} /\ result' = result
      /\ sim' = [candidate EXCEPT !.elapsed = target_time]
      /\ pc' = "idle" /\ candidate' = Absent
  BY DEF ScheduleInv, CandidateFits, LoadInv, Finish
<1>2. Ready'
  BY <1>1, ReadyStays
<1>3. /\ sim'.surface_updated_at = candidate.surface_updated_at
      /\ sim'.next_update_index = candidate.next_update_index
      /\ sim'.phase = candidate.phase /\ sim'.current_inlet = candidate.current_inlet
      /\ sim'.fill_plan = candidate.fill_plan /\ sim'.surface = candidate.surface
      /\ sim'.collection_plan = candidate.collection_plan
  BY <1>1 DEF IsSim
<1>4. Plan(sim') = Plan(candidate)
  BY <1>3 DEF Plan
<1>5. LoadFits(sim')
  BY <1>1, <1>3, <1>4 DEF LoadFits, SurfaceFits
<1>6. LoadFits(sim)'
  BY <1>1, <1>5, SimLoadStays
<1>7. ChangesAreLong' = ChangesAreLong /\ (result = "segments" => ~ ChangesAreLong)
  BY <1>1, LongStays DEF LoadInv
<1>8. QED
  BY <1>1, <1>2, <1>6, <1>7 DEF LoadInv

(* A step that changes nothing keeps the invariant.                        *)
LEMMA LoadStutter ==
  ASSUME LoadInv, UNCHANGED scenarioVars
  PROVE  LoadInv'
<1>1. /\ pc' = pc /\ inputs' = inputs /\ grid' = grid /\ sim' = sim /\ candidate' = candidate
      /\ result' = result
  BY DEF scenarioVars
<1>2. Ready => Ready'
  BY <1>1, ReadyStays
<1>3. /\ LoadFits(sim) => LoadFits(sim)'
      /\ LoadFits(candidate) => LoadFits(candidate)'
  BY <1>1, SimLoadStays, CandidateLoadStays
<1>4. ChangesAreLong' = ChangesAreLong
  BY <1>1, LongStays
<1>5. QED
  BY <1>1, <1>2, <1>3, <1>4 DEF LoadInv

(* Between two events the surface lies within its bounds and not ahead of  *)
(* its plan, the plan is one that its volume fits, and the next update and *)
(* the end of the phase are ahead (ScenarioSimulator, ActivePhase).        *)
THEOREM LoadInductive == ScenarioSpec => []LoadInv
<1>1. ScenarioInit => LoadInv
  BY DEF ScenarioInit, LoadInv
<1>2. ScheduleInv /\ LoadInv /\ [ScenarioNext]_scenarioVars => LoadInv'
  BY LoadBuild, LoadAdvance, LoadEvent, LoadFinish, LoadStutter DEF ScenarioNext
<1>3. ScenarioSpec => []ScheduleInv
  BY ScheduleInductive
<1>4. QED
  BY <1>1, <1>2, <1>3, PTL DEF ScenarioSpec

(* What OnlyLimitsFail says of a simulator that is built. *)
CallsSucceed == pc # "failed" => OnlyLimitsFail

(* Once a simulator is built, no call to advance_to fails but for a time   *)
(* in the past, for too many events, or, where a phase leaves room for     *)
(* more than MaxSegments shortest rate changes, for a profile of too many  *)
(* of them: its schedule is never stuck, every planned volume fits the     *)
(* surface, every operation keeps the volume, and every phase reaches its  *)
(* end state (advance_inner, apply_phase_change, transition_phase,         *)
(* create_smooth_rate_profile).                                            *)
THEOREM CallsNeverFail == ScenarioSpec => []CallsSucceed
<1>1. LoadInv => CallsSucceed
  BY DEF LoadInv, CallsSucceed, OnlyLimitsFail
<1>2. QED
  BY <1>1, LoadInductive, PTL

(* triangulate finds an ear in every polygon: the two-ears theorem of      *)
(* geometry, for the boundaries at hand.                                   *)
Triangulable ==
  \A input \in Inputs : ValidPolygon(input.boundary) => Triangles(input.boundary) # {}

(* If every simple polygon can be triangulated, no simulator is refused    *)
(* other than for its inputs, and no call fails other than for a time in   *)
(* the past or for too many events; and where rate changes are short       *)
(* against their phases, either may fail for a profile of too many of them *)
(* (ScenarioSimulator::new, advance_to, create_smooth_rate_profile).       *)
THEOREM OnlyLimits ==
  ASSUME Triangulable
  PROVE  ScenarioSpec => []OnlyLimitsFail
<1>1. ScheduleInv /\ LoadInv => OnlyLimitsFail
  BY DEF ScheduleInv, LoadInv, OnlyLimitsFail, Triangulable
<1>2. QED
  BY <1>1, ScheduleInductive, LoadInductive, PTL

(* The heights of the simulator and of its copy, and while filling their   *)
(* volumes against plan and capacity.                                      *)
SurfacesFit ==
  \A s \in States :
    /\ \A node \in DOMAIN s.surface : s.surface[node] \in 0..(Top * grid.weight[node])
    /\ s.phase = "filling" =>
         LET plan == Plan(s) IN
         /\ plan.volume <= Capacity(grid)
         /\ Total(s.surface) * (plan.profile.duration * Unit)
              <= plan.volume * IntegratedFactorTo(plan.profile, s.surface_updated_at - plan.start)

(* No node lies below the floor or over the top, however bumps and slides  *)
(* add up, and while filling the load is never over what its plan has      *)
(* given by then, nor that over the capacity of the grid (add_volume,      *)
(* remove_volume_uniformly, relax_slopes, apply_local_roughness).          *)
THEOREM SurfacesAlwaysFit == ScenarioSpec => []SurfacesFit
<1>1. ASSUME Ready, NEW s, LoadFits(s)
      PROVE  /\ \A node \in DOMAIN s.surface : s.surface[node] \in 0..(Top * grid.weight[node])
             /\ s.phase = "filling" =>
                  LET plan == Plan(s) IN
                  /\ plan.volume <= Capacity(grid)
                  /\ Total(s.surface) * (plan.profile.duration * Unit)
                       <= plan.volume * IntegratedFactorTo(plan.profile,
                                                           s.surface_updated_at - plan.start)
  <2>1. Fills(grid, s.surface) /\ IsGrid(grid)
    BY <1>1, ReadyFacts DEF LoadFits, SurfaceFits
  <2>2. \A node \in DOMAIN s.surface : s.surface[node] \in 0..(Top * grid.weight[node])
    <3>1. TAKE node \in DOMAIN s.surface
    <3>2. /\ s.surface[node] \in Nat /\ s.surface[node] <= Top * grid.weight[node]
          /\ grid.weight[node] \in Nat /\ Top \in Nat
      BY <2>1, GridFacts, HeightFieldAssumption DEF Fills
    <3>3. Top * grid.weight[node] \in Nat
      BY <3>2
    <3>4. QED
      BY <3>2, <3>3
  <2>3. QED
    BY <1>1, <2>2 DEF LoadFits, SurfaceFits
<1>2. ScheduleInv /\ LoadInv => SurfacesFit
  BY <1>1 DEF ScheduleInv, LoadInv, SurfacesFit, States
<1>3. QED
  BY <1>2, ScheduleInductive, LoadInductive, PTL

-----------------------------------------------------------------------------

(* The simulator and its copy are on their plans.                          *)
VolumeInv ==
  /\ pc \in {"idle", "advancing"} => FollowsPlan(sim)
  /\ pc = "advancing" => FollowsPlan(candidate)

(* Being on plan is a matter of the simulator alone.                       *)
LEMMA SimVolumeStays ==
  ASSUME FollowsPlan(sim')
  PROVE  FollowsPlan(sim)'
  BY DEF FollowsPlan, WholePlan, WholeRates, OnPlan, Plan

(* The same for its copy.                                                  *)
LEMMA CandidateVolumeStays ==
  ASSUME FollowsPlan(candidate')
  PROVE  FollowsPlan(candidate)'
  BY DEF FollowsPlan, WholePlan, WholeRates, OnPlan, Plan

(* A new simulator, with nothing moved, is on its plan.                    *)
LEMMA FirstOnPlan ==
  ASSUME inputs \in Inputs, ValidPolygon(inputs.boundary), ValidConfig,
         NEW plan \in FillPlans(NewGrid(inputs.boundary), 0), NEW s, NEW elapsed, NEW collection,
         s = [elapsed |-> elapsed, surface_updated_at |-> 0, next_update_index |-> 1,
              cycle_index |-> 0, phase |-> "filling", current_inlet |-> 1,
              fill_plan |-> plan, collection_plan |-> collection,
              surface |-> Empty(NewGrid(inputs.boundary))]
  PROVE  FollowsPlan(s)
<1> DEFINE g == NewGrid(inputs.boundary)
           profile == plan.profile
           whole == profile.duration * Unit
<1>1. IsGrid(g) /\ 0 \in Nat
  BY BuiltGridFacts
<1>2. PlanFits(plan) /\ plan.start = 0
  BY <1>1, FillPlanFits
<1>3. /\ profile.duration \in Nat /\ plan.volume \in Nat
      /\ GoodSegments(profile.segments, 0, profile.duration)
  BY <1>2 DEF PlanFits
<1>4. IntegratedFactorTo(profile, 0) = 0
  <2> HIDE DEF profile
  <2>1. QED
    BY <1>3, IntegratedFactorFacts
<1>5. Total(Empty(g)) = 0
  BY <1>1, EmptyFacts
<1>6. /\ s.surface = Empty(g) /\ s.phase = "filling" /\ s.surface_updated_at = 0
      /\ s.fill_plan = plan
  OBVIOUS
<1>7. Plan(s) = plan
  BY <1>6 DEF Plan
<1>8. 0 * whole = plan.volume * IntegratedFactorTo(profile, 0 - plan.start)
  <2>1. 0 - plan.start = 0
    BY <1>2
  <2>2. whole \in Int
    BY <1>3, RateProfileAssumption
  <2> HIDE DEF whole, profile
  <2>3. QED
    BY <1>3, <1>4, <2>1, <2>2
<1> HIDE DEF g
<1>9. OnPlan(s)
  BY <1>5, <1>6, <1>7, <1>8 DEF OnPlan
<1>10. QED
  BY <1>9 DEF FollowsPlan

(* ScenarioSimulator::new starts on plan.                                  *)
LEMMA VolumeBuild ==
  ASSUME ScheduleInv, Build
  PROVE  VolumeInv'
<1>1. pc = "build" /\ inputs \in Inputs
  BY DEF ScheduleInv, Build
<1>2. CASE pc' = "failed"
  BY <1>2 DEF VolumeInv
<1>3. CASE pc' # "failed"
  <2>1. /\ ValidPolygon(inputs.boundary) /\ ValidConfig /\ pc' = "idle"
        /\ \E plan \in FillPlans(NewGrid(inputs.boundary), 0) :
             sim' = [elapsed |-> 0, surface_updated_at |-> 0,
                     next_update_index |-> 1, cycle_index |-> 0,
                     phase |-> "filling", current_inlet |-> 1,
                     fill_plan |-> plan, collection_plan |-> Absent,
                     surface |-> Empty(NewGrid(inputs.boundary))]
    BY Zenon, <1>3 DEF Build
  <2>2. FollowsPlan(sim')
    BY <1>1, <2>1, FirstOnPlan
  <2>3. FollowsPlan(sim)'
    BY <2>2, SimVolumeStays
  <2>4. QED
    BY <2>1, <2>3 DEF VolumeInv
<1>4. QED
  BY <1>2, <1>3

(* A call that starts, or is refused, moves nothing.                       *)
LEMMA VolumeAdvance ==
  ASSUME VolumeInv, Advance
  PROVE  VolumeInv'
<1>1. /\ pc = "idle" /\ sim' = sim /\ FollowsPlan(sim) /\ pc' \in {"idle", "advancing"}
      /\ pc' = "advancing" => candidate' = sim
  BY DEF VolumeInv, Advance
<1>2. FollowsPlan(sim)'
  BY <1>1, SimVolumeStays
<1>3. pc' = "advancing" => FollowsPlan(candidate)'
  BY <1>1, CandidateVolumeStays
<1>4. QED
  BY <1>2, <1>3 DEF VolumeInv

(* An event moves what its plan gives the time since the last one.         *)
LEMMA VolumeEvent ==
  ASSUME ScheduleInv, LoadInv, VolumeInv, Event
  PROVE  VolumeInv'
<1>1. pc = "advancing" /\ FollowsPlan(sim) /\ FollowsPlan(candidate)
  BY DEF VolumeInv, Event
<1>2. CASE Fail("resource")
  <2>1. pc' = "idle" /\ sim' = sim
    BY <1>2 DEF Fail
  <2>2. FollowsPlan(sim)'
    BY <1>1, <2>1, SimVolumeStays
  <2>3. QED
    BY <2>1, <2>2 DEF VolumeInv
<1>3. CASE Fail("segments")
  <2>1. pc' = "idle" /\ sim' = sim
    BY <1>3 DEF Fail
  <2>2. FollowsPlan(sim)'
    BY <1>1, <2>1, SimVolumeStays
  <2>3. QED
    BY <2>1, <2>2 DEF VolumeInv
<1>4. CASE /\ FollowsPlan(candidate')
           /\ UNCHANGED <<pc, sim, target_time, result, delivered>>
  <2>1. FollowsPlan(sim)' /\ FollowsPlan(candidate)'
    BY <1>1, <1>4, SimVolumeStays, CandidateVolumeStays
  <2>2. QED
    BY <2>1 DEF VolumeInv
<1>5. QED
  BY <1>1, <1>2, <1>3, <1>4, EventHappens

(* A call that ends takes over a copy that is on plan.                     *)
LEMMA VolumeFinish ==
  ASSUME ScheduleInv, VolumeInv, Finish
  PROVE  VolumeInv'
<1>1. /\ pc = "advancing" /\ FollowsPlan(candidate) /\ IsSim(candidate)
      /\ sim' = [candidate EXCEPT !.elapsed = target_time] /\ pc' = "idle"
  BY DEF ScheduleInv, CandidateFits, VolumeInv, Finish
<1>2. /\ sim'.surface_updated_at = candidate.surface_updated_at
      /\ sim'.phase = candidate.phase
      /\ sim'.fill_plan = candidate.fill_plan /\ sim'.surface = candidate.surface
      /\ sim'.collection_plan = candidate.collection_plan
  BY <1>1 DEF IsSim
<1>3. Plan(sim') = Plan(candidate)
  BY <1>2 DEF Plan
<1>4. FollowsPlan(sim')
  BY <1>1, <1>2, <1>3 DEF FollowsPlan, OnPlan
<1>5. FollowsPlan(sim)'
  BY <1>4, SimVolumeStays
<1>6. QED
  BY <1>1, <1>5 DEF VolumeInv

(* A step that changes nothing leaves the load on plan.                    *)
LEMMA VolumeStutter ==
  ASSUME VolumeInv, UNCHANGED scenarioVars
  PROVE  VolumeInv'
<1>1. pc' = pc /\ sim' = sim /\ candidate' = candidate
  BY DEF scenarioVars
<1>2. /\ FollowsPlan(sim) => FollowsPlan(sim)'
      /\ FollowsPlan(candidate) => FollowsPlan(candidate)'
  BY <1>1, SimVolumeStays, CandidateVolumeStays
<1>3. QED
  BY <1>1, <1>2 DEF VolumeInv

(* The volume that a phase has moved is always the one its plan gives the  *)
(* time of the last event, if that is a whole one.                         *)
THEOREM VolumeInductive == ScenarioSpec => []VolumeInv
<1>1. ScenarioInit => VolumeInv
  BY DEF ScenarioInit, VolumeInv
<1>2. ScheduleInv /\ LoadInv /\ VolumeInv /\ [ScenarioNext]_scenarioVars => VolumeInv'
  BY VolumeBuild, VolumeAdvance, VolumeEvent, VolumeFinish, VolumeStutter DEF ScenarioNext
<1>3. QED
  BY <1>1, <1>2, ScheduleInductive, LoadInductive, PTL DEF ScenarioSpec

(* At every tick the plans of the simulator and of its copy give a whole   *)
(* number of units of volume, so that the model's division does not round: *)
(* the code divides floating-point volumes.                                *)
PlansAreWhole == \A s \in States : WholePlan(Plan(s))

(* However the calls cut up the time, a phase has moved by its last event  *)
(* what the factors of its profile add up to, tick by tick, no more and no *)
(* less, and no node is out of bounds (planned_volume_between,             *)
(* integrated_factor_to, apply_phase_change).                              *)
THEOREM PlansAreFollowed == ScenarioSpec => [](PlansAreWhole => VolumeFollowsThePlan)
<1>1. ASSUME NEW s, LoadFits(s), FollowsPlan(s), WholePlan(Plan(s)), IsSim(s),
             \A node \in DOMAIN s.surface : s.surface[node] \in 0..(Top * grid.weight[node])
      PROVE  LET plan == Plan(s)
                 changed == Total([tick \in 0..(s.surface_updated_at - plan.start - 1) |->
                                   TickFactor(plan.profile, tick)])
                 whole == plan.profile.duration * Unit
                 volume == Total(s.surface)
             IN (IF s.phase = "filling" THEN volume ELSE plan.volume - volume) * whole
                  = plan.volume * changed
                /\ \A node \in DOMAIN s.surface : s.surface[node] \in 0..(Top * grid.weight[node])
  <2> DEFINE plan == Plan(s)
             profile == plan.profile
             u == s.surface_updated_at - plan.start
  <2>1. /\ profile.duration \in Nat /\ GoodSegments(profile.segments, 0, profile.duration)
        /\ plan.start \in Nat /\ plan.start <= s.surface_updated_at
        /\ s.surface_updated_at < plan.start + profile.duration
        /\ s.surface_updated_at \in Nat
    BY <1>1 DEF LoadFits, SurfaceFits, PlanFits, PhaseEndsAt, IsSim
  <2>2. u \in 0..profile.duration
    <3> DEFINE a == s.surface_updated_at
               b == plan.start
               d == profile.duration
    <3>1. d \in Nat /\ a \in Nat /\ b \in Nat /\ b <= a /\ a < b + d
      BY <2>1
    <3> HIDE DEF a, b, d
    <3>2. a - b \in 0..d
      BY <3>1
    <3>3. QED
      BY <3>2 DEF a, b, d
  <2>3. WholeRates(profile.segments)
    BY <1>1 DEF WholePlan
  <2>4. Total([tick \in 0..(u - 1) |-> TickFactor(profile, tick)]) = IntegratedFactorTo(profile, u)
    <3> HIDE DEF profile, u
    <3>1. QED
      BY <2>1, <2>2, <2>3, TicksAddUp
  <2>5. OnPlan(s)
    BY <1>1 DEF FollowsPlan
  <2>6. QED
    BY <1>1, <2>4, <2>5 DEF OnPlan
<1>2. ScheduleInv /\ LoadInv /\ VolumeInv /\ SurfacesFit => (PlansAreWhole => VolumeFollowsThePlan)
  <2> SUFFICES ASSUME ScheduleInv, LoadInv, VolumeInv, SurfacesFit, PlansAreWhole
               PROVE  VolumeFollowsThePlan
    OBVIOUS
  <2>1. \A s \in States : LoadFits(s) /\ FollowsPlan(s) /\ WholePlan(Plan(s)) /\ IsSim(s)
    BY DEF ScheduleInv, SimulatorFits, CandidateFits, LoadInv, VolumeInv, States, PlansAreWhole
  <2>2. \A s \in States : \A node \in DOMAIN s.surface :
          s.surface[node] \in 0..(Top * grid.weight[node])
    BY DEF SurfacesFit
  <2>3. QED
    BY Zenon, <1>1, <2>1, <2>2 DEF VolumeFollowsThePlan
<1>3. QED
  BY <1>2, ScheduleInductive, LoadInductive, VolumeInductive, SurfacesAlwaysFit, PTL
=============================================================================
