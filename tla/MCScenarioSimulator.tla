------------------------ MODULE MCScenarioSimulator -------------------------
(* ScenarioSimulator on one cell and on a triangle, with phases of two and *)
(* four ticks and surface updates every two and a half.  With HastyScenario *)
(* a phase of four ticks takes four rate changes, more than MaxSegments.   *)
(* And every polygon of four vertices on a lattice of nine points, as a    *)
(* boundary whose scenario is refused once its grid is built.              *)
EXTENDS ScenarioSimulator

(* exp(-r^2 / 2) in 24ths, and never zero. *)
MCKernel(distance, radius) ==
  <<24, 15, 9, 5, 3, 2, 1>>[Min({distance \div radius, 6}) + 1]

MCScenario ==
  [mean_fill_duration |-> 3,
   fill_duration_factor_range |-> <<8, 16>>,
   fill_rate_factor_range |-> <<6, 24>>,
   fill_rate_change_duration_range |-> <<4, 4>>,
   collection_threshold_range |-> <<6, 12>>,
   collection_duration_factor_range |-> <<8, 8>>,
   collection_rate_factor_range |-> <<12, 24>>,
   collection_rate_change_duration_range |-> <<2, 4>>,
   inlet_positions |-> << <<0, 0>>, <<2, 0>>, <<1, 1>> >>,
   inlet_switch_activation_ratio |-> 3,
   inlet_switch_height_difference |-> 2,
   inlet_comparison_radius |-> 1,
   update_interval |-> [digits |-> 250, exponent |-> -2],
   pile_spread_radius |-> 1,
   roughness_height_range |-> <<0, 1>>,
   roughness_radius_range |-> <<3, 3>>]

HastyScenario == [MCScenario EXCEPT !.fill_rate_change_duration_range = <<2, 2>>]

Square == << <<0, 0>>, <<2, 0>>, <<2, 2>>, <<0, 2>> >>
Triangle == << <<0, 0>>, <<0, 2>>, <<2, 0>> >>
Steps == << <<0, 0>>, <<4, 0>>, <<4, 2>>, <<2, 2>>, <<2, 4>>, <<0, 4>>, <<0, 2>> >>

Lattice == {0, 2, 4} \X {0, 2, 4}
MCCallTimes == {1, 3, 7, 9}

First(w) == \A i \in DOMAIN w : Before(w[1], w[i]) \/ w[i] = w[1]
Quadrilaterals == {w \in [1..4 -> Lattice] : IsInjective(w) /\ First(w)}

MCInputs ==
  {[boundary |-> Square, scenario |-> MCScenario],
   [boundary |-> Triangle,
    scenario |-> [MCScenario EXCEPT !.roughness_height_range = <<-1, 0>>]],
   [boundary |-> Triangle, scenario |-> HastyScenario]}
    \cup [boundary : Quadrilaterals \cup {Steps},
          scenario : {[MCScenario EXCEPT !.update_interval.digits = 0]}]
=============================================================================
