------------------------- MODULE ScenarioSimulator --------------------------
(***************************************************************************)
(* The load scenario (scenario/simulator.rs): cycles of a filling phase,   *)
(* in which scrap falls from one inlet after the other, and a collecting   *)
(* phase, which empties the surface.  advance_to brings a copy of the      *)
(* simulator from event to event, an event being a surface update or the   *)
(* end of a phase, and keeps the copy if nothing failed on the way.        *)
(*                                                                         *)
(* Time is in ticks.  Ratios and rate factors are in Units of 1.  A draw   *)
(* of a random stream is a choice between the ends of its range.           *)
(***************************************************************************)
EXTENDS HeightField, RateProfile, DecimalRatio

CONSTANTS
  Inputs,         (* boundaries and scenario configurations to build from   *)
  MaxInlets,      (* MAX_INLET_POSITIONS                                    *)
  ReferenceMean,  (* REFERENCE_MEAN_FILL_DURATION_S                         *)
  EventLimit,     (* event_output_limit                                     *)
  CallTimes       (* bound: the times the runtime advances to               *)

ASSUME ScenarioSimulatorAssumption ==
  /\ {MaxInlets, ReferenceMean, EventLimit} \subseteq Nat \ {0}
  /\ CallTimes \subseteq Nat
(* The numbers of the model are integers. *)
ASSUME InputsAssumption ==
  /\ \A input \in Inputs : input.boundary \in Seq(Int \X Int)
  /\ \A scenario \in {input.scenario : input \in Inputs} :
       /\ scenario.update_interval \in [digits : Int, exponent : Int]
       /\ scenario.inlet_positions \in Seq(Int \X Int)
       /\ {scenario.mean_fill_duration, scenario.inlet_comparison_radius,
           scenario.pile_spread_radius} \subseteq Int
       /\ {scenario.fill_duration_factor_range, scenario.fill_rate_factor_range,
           scenario.fill_rate_change_duration_range, scenario.collection_threshold_range,
           scenario.collection_duration_factor_range, scenario.collection_rate_factor_range,
           scenario.collection_rate_change_duration_range, scenario.roughness_height_range,
           scenario.roughness_radius_range} \subseteq Int \X Int
(* Times are told apart: updates are a tick or more apart, and phases last *)
(* a tick or more.  Where they are not, next_update_time and               *)
(* require_phase_end give errors of their own, which are left out.         *)
ASSUME ResolutionAssumption ==
  \A scenario \in {input.scenario : input \in Inputs} :
    scenario.update_interval.digits > 0 =>
      LET interval == PositiveRatio(scenario.update_interval, [digits |-> 1, exponent |-> 0])
      IN /\ interval.numerator >= interval.denominator
         /\ scenario.mean_fill_duration * scenario.fill_duration_factor_range[1] >= Unit
         /\ scenario.mean_fill_duration * scenario.collection_duration_factor_range[1] >= Unit
(* No node is out of reach of an inlet (KERNEL_WEIGHT_FLOOR). *)
ASSUME KernelAssumption ==
  \A input \in {i \in Inputs : ValidPolygon(i.boundary)} :
    \A node \in Nodes(input.boundary) :
      \A i \in DOMAIN input.scenario.inlet_positions :
        LET radius == input.scenario.pile_spread_radius IN
        Kernel(SquaredDistance(input, node, input.scenario.inlet_positions[i]), radius * radius)
          \in Nat \ {0}

VARIABLES
  pc,          (* "build", "idle", "advancing" or "failed"                  *)
  inputs,      (* SimulatorInputs                                           *)
  grid,        (* the Arc<Grid> of the surface                              *)
  sim,         (* ScenarioSimulator                                         *)
  candidate,   (* its copy during advance_to                                *)
  target_time,       (* the argument of advance_to                                *)
  emitted,     (* events of this advance                                    *)
  result,     (* how the last call ended                                   *)
  \* history
  delivered    (* the events that callers were given                        *)

scenarioVars == <<pc, inputs, grid, sim, candidate, target_time, emitted, result, delivered>>

Config == inputs.scenario
Absent == [none |-> TRUE]

-----------------------------------------------------------------------------
(* ScenarioSettings::from_config, its errors and that of too many inlets.  *)
Ordered(range) == range[1] <= range[2]
Positive(range) == Ordered(range) /\ range[1] > 0
AverageRange(range) == Positive(range) /\ range[1] <= Unit /\ range[2] >= Unit

(* scale_duration_range by scenario_time_scale. *)
ScaledRange(range) ==
  [i \in {1, 2} |-> (range[i] * Config.mean_fill_duration) \div ReferenceMean]

ValidConfig ==
  /\ Config.mean_fill_duration > 0
  /\ Positive(Config.fill_duration_factor_range)
  /\ Config.fill_duration_factor_range[1] + Config.fill_duration_factor_range[2] = 2 * Unit
  /\ AverageRange(Config.fill_rate_factor_range)
  /\ Positive(Config.fill_rate_change_duration_range)
  /\ Positive(Config.collection_threshold_range) /\ Config.collection_threshold_range[2] <= Unit
  /\ Positive(Config.collection_duration_factor_range)
  /\ AverageRange(Config.collection_rate_factor_range)
  /\ Positive(Config.collection_rate_change_duration_range)
  /\ Config.inlet_switch_activation_ratio \in 0..Unit
  /\ Config.inlet_switch_height_difference >= 0
  /\ Config.inlet_comparison_radius > 0
  /\ Config.update_interval.digits > 0
  /\ Config.pile_spread_radius > 0
  /\ Ordered(Config.roughness_height_range)
  /\ Positive(Config.roughness_radius_range)
  /\ Len(Config.inlet_positions) \in 1..MaxInlets
  /\ IsInjective(Config.inlet_positions)
  /\ Positive(ScaledRange(Config.fill_rate_change_duration_range))
  /\ Positive(ScaledRange(Config.collection_rate_change_duration_range))

UpdateInterval == PositiveRatio(Config.update_interval, [digits |-> 1, exponent |-> 0])

-----------------------------------------------------------------------------
(* Plans of phases. *)
Durations(factors) == {(Config.mean_fill_duration * f) \div Unit : f \in Uniform(factors)}
PhaseEndsAt(plan) == plan.start + plan.profile.duration

(* create_fill_plan and create_collection_plan; volume is what the phase   *)
(* adds or removes, target_volume_m3 or starting_volume_m3.                *)
FillPlans(g, start) ==
  {[start |-> start, profile |-> profile, volume |-> (Capacity(g) * ratio) \div Unit] :
     profile \in UNION {Profiles(duration, Config.fill_rate_factor_range,
                                 ScaledRange(Config.fill_rate_change_duration_range)) :
                          duration \in Durations(Config.fill_duration_factor_range)},
     ratio \in Uniform(Config.collection_threshold_range)}
CollectionPlans(start, surface) ==
  {[start |-> start, profile |-> profile, volume |-> Total(surface)] :
     profile \in UNION {Profiles(duration, Config.collection_rate_factor_range,
                                 ScaledRange(Config.collection_rate_change_duration_range)) :
                          duration \in Durations(Config.collection_duration_factor_range)}}

Plan(s) == IF s.phase = "filling" THEN s.fill_plan ELSE s.collection_plan

ScenarioInit ==
  /\ pc = "build" /\ inputs \in Inputs
  /\ grid = Absent /\ sim = Absent /\ candidate = Absent
  /\ target_time = 0 /\ emitted = <<>> /\ result = "ok"
  /\ delivered = <<>>

(* build_scenario_simulator: the boundary, the height field, the settings, *)
(* the inlets, and the first plan.                                         *)
Build ==
  /\ pc = "build"
  /\ LET g == NewGrid(inputs.boundary) IN
     IF ~ValidPolygon(inputs.boundary) \/ Triangles(inputs.boundary) = {}
     THEN /\ pc' = "failed" /\ result' = IF ValidPolygon(inputs.boundary) THEN "numerical"
                                          ELSE "invalid"
          /\ UNCHANGED <<grid, sim>>
     ELSE /\ grid' = g
          /\ IF ValidConfig /\ \A i \in DOMAIN Config.inlet_positions :
                                 ContainsPoint(inputs.boundary, Config.inlet_positions[i])
             THEN \E plan \in FillPlans(g, 0) :
                    IF TooManySegments(plan.profile)
                    THEN pc' = "failed" /\ result' = "segments" /\ UNCHANGED sim
                    ELSE IF ValidProfile(plan.profile)
                    THEN /\ sim' = [elapsed |-> 0, surface_updated_at |-> 0,
                                    next_update_index |-> 1, cycle_index |-> 0,
                                    phase |-> "filling", current_inlet |-> 1,
                                    fill_plan |-> plan, collection_plan |-> Absent,
                                    surface |-> Empty(g)]
                         /\ pc' = "idle" /\ UNCHANGED result
                    ELSE pc' = "failed" /\ result' = "numerical" /\ UNCHANGED sim
             ELSE pc' = "failed" /\ result' = "invalid" /\ UNCHANGED sim
  /\ UNCHANGED <<inputs, candidate, target_time, emitted, delivered>>

-----------------------------------------------------------------------------
(* advance_to. *)
AccumulatedUpdateTime(s) == s.next_update_index * RoundedMultiple(UpdateInterval, 1)
NextUpdateTime(s) == RoundedMultiple(UpdateInterval, s.next_update_index)
NextEvent(s) == Min({NextUpdateTime(s), PhaseEndsAt(Plan(s))})

CompletedUpdates(time) ==
  (time * UpdateInterval.denominator) \div UpdateInterval.numerator

Advance ==
  /\ pc = "idle"
  /\ \E t \in CallTimes :
       IF t < sim.elapsed
       THEN result' = "invalid" /\ UNCHANGED <<pc, candidate, target_time>>
       ELSE IF CompletedUpdates(t) - (sim.next_update_index - 1) > EventLimit
       THEN result' = "resource" /\ UNCHANGED <<pc, candidate, target_time>>
       ELSE /\ pc' = "advancing" /\ candidate' = sim /\ target_time' = t /\ result' = "ok"
  /\ UNCHANGED <<inputs, grid, sim, emitted, delivered>>

(* apply_phase_change: the planned volume since the last update of the     *)
(* surface, or all that is left at the end of the phase; then the slopes   *)
(* and, while filling, a bump.  A bump is [center, radius, peak].          *)
SinceElapsed(s) == s.elapsed
SurfaceTime(s) == s.surface_updated_at
Requested(s, through) ==
  LET plan == Plan(s)
      current == Total(s.surface)
      planned == (plan.volume * IntegratedFactorBetween(plan.profile,
                    Max({SurfaceTime(s) - plan.start, 0}),
                    Min({through - plan.start, plan.profile.duration})))
                   \div (plan.profile.duration * Unit)
  IN IF s.phase = "filling"
     THEN IF through = PhaseEndsAt(plan) THEN Max({plan.volume - current, 0}) ELSE planned
     ELSE IF through = PhaseEndsAt(plan) THEN current ELSE Min({current, planned})

CurrentInlet(s) == Config.inlet_positions[s.current_inlet]

(* sample_roughness_center: a point of the disc around the inlet that lies *)
(* inside the boundary; after too many points outside, the inlet itself.   *)
Centers(s) ==
  LET reach == Config.pile_spread_radius
      inlet == CurrentInlet(s)
  IN {p \in ((inlet[1] - reach)..(inlet[1] + reach)) \X ((inlet[2] - reach)..(inlet[2] + reach)) :
        /\ (p[1] - inlet[1]) * (p[1] - inlet[1]) + (p[2] - inlet[2]) * (p[2] - inlet[2])
             <= reach * reach
        /\ ContainsPoint(grid.boundary, p)}
Flat == [center |-> <<0, 0>>, radius |-> 1, peak |-> 0]
Bumps(s) ==
  UNION {IF peak = 0 THEN {Flat}
         ELSE [center : Centers(s), radius : Uniform(Config.roughness_radius_range), peak : {peak}] :
           peak \in Uniform(Config.roughness_height_range)}

Moved(s, through) ==
  IF s.phase = "filling"
  THEN AddVolume(grid, s.surface, Requested(s, through), CurrentInlet(s), Config.pile_spread_radius)
  ELSE RemoveVolumeUniformly(grid, s.surface, Requested(s, through))
ChangedSurfaces(s, through) ==
  LET relaxed == RelaxSlopes(grid, Moved(s, through))
  IN IF s.phase = "filling"
     THEN {ApplyLocalRoughness(grid, relaxed, bump.center, bump.radius, bump.peak) :
             bump \in Bumps(s)}
     ELSE {relaxed}

(* The errors on the way: operations that changed the volume, and a        *)
(* planned change of it that does not fit.                                 *)
ChangeFails(s, through, surface) ==
  Requested(s, through) < 0 \/ Total(surface) # Total(Moved(s, through))
Unapplied(s, through) ==
  Total(Moved(s, through)) - Total(s.surface)
    # IF s.phase = "filling" THEN Requested(s, through) ELSE -Requested(s, through)

(* switch_inlet_if_needed: to the lowest pile, the first of equal ones, if *)
(* it is lower by the configured difference.                               *)
PileHeights(s) ==
  [inlet \in DOMAIN Config.inlet_positions |->
     MeanHeightWithin(grid, s.surface, Config.inlet_positions[inlet], Config.inlet_comparison_radius)]
AtLeastHigher(r, s, difference) == ~LessThan(<<r[1] * s[2] - s[1] * r[2], r[2] * s[2]>>,
                                             <<difference, 1>>)
LowestInlet(heights) ==
  CHOOSE i \in DOMAIN heights :
    \A j \in DOMAIN heights :
      IF j < i THEN LessThan(heights[i], heights[j]) ELSE ~LessThan(heights[j], heights[i])
ActivationReached(s) ==
  Total(s.surface) * Unit >= Config.inlet_switch_activation_ratio * Capacity(grid)
SwitchInletIfNeeded(s) ==
  LET heights == PileHeights(s)
      lowest == LowestInlet(heights)
  IN IF /\ ActivationReached(s)
        /\ lowest # s.current_inlet
        /\ LessThan(heights[lowest], heights[s.current_inlet])
        /\ AtLeastHigher(heights[s.current_inlet], heights[lowest],
                         Config.inlet_switch_height_difference)
     THEN [s EXCEPT !.current_inlet = lowest] ELSE s

(* transition_phase: the states it may lead to. *)
TransitionFails(s) ==
  Total(s.surface) # (IF s.phase = "filling" THEN s.fill_plan.volume ELSE 0)
TransitionPhase(s, time) ==
  IF s.phase = "filling"
  THEN {[s EXCEPT !.phase = "collecting", !.collection_plan = plan] :
          plan \in CollectionPlans(time, s.surface)}
  ELSE {[s EXCEPT !.phase = "filling", !.current_inlet = 1, !.cycle_index = @ + 1,
                  !.collection_plan = Absent, !.fill_plan = plan] : plan \in FillPlans(grid, time)}

Fail(error) ==
  /\ result' = error /\ pc' = "idle" /\ candidate' = Absent /\ target_time' = 0 /\ emitted' = <<>>
  /\ UNCHANGED <<sim, delivered>>

(* One turn of advance_inner's loop. *)
Event ==
  /\ pc = "advancing" /\ NextEvent(candidate) <= target_time
  /\ UNCHANGED <<inputs, grid>>
  /\ LET time == NextEvent(candidate)
         update_due == time = NextUpdateTime(candidate)
         transition_due == time = PhaseEndsAt(Plan(candidate))
     IN IF time <= candidate.surface_updated_at THEN Fail("state")
        ELSE IF Len(emitted) = EventLimit THEN Fail("resource")
        ELSE \E surface \in ChangedSurfaces(candidate, time) :
          LET reached == [candidate EXCEPT
                !.surface = surface, !.surface_updated_at = time, !.elapsed = time,
                !.next_update_index = @ + (IF update_due THEN 1 ELSE 0)]
          IN IF ChangeFails(candidate, time, surface) THEN Fail("numerical")
             ELSE IF \/ Unapplied(candidate, time)
                     \/ transition_due /\ TransitionFails(reached) THEN Fail("state")
             ELSE \E next \in IF transition_due THEN TransitionPhase(reached, time)
                              ELSE IF reached.phase = "filling" THEN {SwitchInletIfNeeded(reached)}
                              ELSE {reached} :
                  IF transition_due /\ TooManySegments(Plan(next).profile) THEN Fail("segments")
                  ELSE IF ~ValidProfile(Plan(next).profile) THEN Fail("numerical")
                  ELSE /\ candidate' = next
                       /\ emitted' = Append(emitted, [time |-> time, update |-> update_due])
                       /\ UNCHANGED <<pc, sim, target_time, result, delivered>>

Finish ==
  /\ pc = "advancing" /\ NextEvent(candidate) > target_time
  /\ sim' = [candidate EXCEPT !.elapsed = target_time]
  /\ delivered' = delivered \o emitted
  /\ pc' = "idle" /\ candidate' = Absent /\ target_time' = 0 /\ emitted' = <<>>
  /\ UNCHANGED <<inputs, grid, result>>

ScenarioNext == Build \/ Advance \/ Event \/ Finish

ScenarioSpec == ScenarioInit /\ [][ScenarioNext]_scenarioVars

-----------------------------------------------------------------------------
(* What is checked. *)

States == {sim, candidate} \ {Absent}

(* The volume of every plane over the boundary is the sum of its heights   *)
(* at the nodes times their weights: the weights keep area and both        *)
(* moments of the polygon, however it is triangulated and clipped          *)
(* (Grid::new, triangulate, volume_weights).                               *)
PlanesAreIntegratedExactly ==
  grid # Absent =>
    LET w == grid.boundary
        sign == IF DoubledArea(w) < 0 THEN -1 ELSE 1
        cell == CellSize * CellSize
        moment(axis) == Total([i \in DOMAIN w |-> (w[i][axis] + Following(w, i)[axis])
                                                * SignedCross(w, i)])
        weighted(axis) == Total([node \in DOMAIN grid.raw |-> grid.raw[node]
                                                              * Position(w, node)[axis]])
    IN /\ \A node \in DOMAIN grid.raw : grid.raw[node] >= 0
       /\ Total(grid.raw) = 12 * cell * DoubledArea(w) * sign
       /\ \A axis \in {1, 2} : weighted(axis) = 4 * cell * moment(axis) * sign

(* The events a caller is given follow one another, and the surface        *)
(* updates among them lie at the multiples of the decimal interval, each   *)
(* rounded by itself to the nearest tick: none up to the elapsed time is   *)
(* missing or comes twice, however the caller splits its calls, and        *)
(* whichever of them fail (advance_to, next_update_time).                  *)
Nearest(multiple, parts) ==
  LET below == multiple \div parts
      nearest == {t \in {below, below + 1} :
                    2 * (t * parts - multiple) <= parts /\ 2 * (multiple - t * parts) <= parts}
  IN CHOOSE t \in nearest : nearest = {t} \/ t % 2 = 0
NearestTick(i) ==
  LET interval == Config.update_interval
  IN Nearest(i * interval.digits * Power(interval.exponent), Power(-interval.exponent))
UpdateTimes(events) == {events[i].time : i \in {j \in DOMAIN events : events[j].update}}
EventsOnSchedule ==
  sim # Absent =>
    /\ \A i, j \in DOMAIN delivered : i < j => delivered[i].time < delivered[j].time
    /\ UpdateTimes(delivered) =
         {NearestTick(n) : n \in 1..(Len(delivered) + 1)} \cap (1..sim.elapsed)

(* After every event the surface holds the volume its plan gives the time  *)
(* of the event: the rates of the profile add up over the events of a      *)
(* phase, calls that end between two events lose nothing, and a phase ends *)
(* with its target, or with nothing left (apply_phase_change).  No node    *)
(* lies below the floor or over the top, however bumps and slides add up.  *)
TickFactor(profile, tick) ==
  LET running == {i \in DOMAIN profile.segments :
                    /\ profile.segments[i].start <= tick
                    /\ tick < SegmentEnd(profile.segments[i])}
  IN Unit + Total([i \in running |-> profile.segments[i].integral
                                    \div profile.segments[i].duration])
VolumeFollowsThePlan ==
  \A s \in States :
    LET plan == Plan(s)
        changed == Total([tick \in 0..(s.surface_updated_at - plan.start - 1) |->
                          TickFactor(plan.profile, tick)])
        whole == plan.profile.duration * Unit
        volume == Total(s.surface)
    IN (IF s.phase = "filling" THEN volume ELSE plan.volume - volume) * whole
         = plan.volume * changed
       /\ \A node \in DOMAIN s.surface : s.surface[node] \in 0..(Top * grid.weight[node])

(* A call fails only for a time in the past, too many events, or a next    *)
(* phase whose rate changes are drawn so short that it would take more     *)
(* than MaxSegments of them (SegmentLimit); a simulator is refused only    *)
(* for its inputs or such a phase.  No schedule gets stuck, no planned     *)
(* volume fails to fit, every surface operation keeps the volume, every    *)
(* phase reaches its end state and every simple polygon can be             *)
(* triangulated (the State and Numerical errors).                          *)
RoomFor(durations, changes) == \A d \in durations : d < (MaxSegments + 1) * changes[1]
ChangesAreLong ==
  /\ RoomFor(Durations(Config.fill_duration_factor_range),
             ScaledRange(Config.fill_rate_change_duration_range))
  /\ RoomFor(Durations(Config.collection_duration_factor_range),
             ScaledRange(Config.collection_rate_change_duration_range))
OnlyLimitsFail ==
  /\ result \notin {"state", "numerical"}
  /\ result = "segments" => ~ChangesAreLong
=============================================================================
