------------------------ MODULE MCSpatialDistortions ------------------------
(* SpatialDistortions on a boundary of eight by four with four places, a   *)
(* filling, a collecting and another filling phase, and two sensors; each  *)
(* kind of distortion by itself with room to vary, and all together.       *)
EXTENDS SpatialDistortions

CONSTANTS left, right

MCBoundary == << <<0, 0>>, <<8, 0>>, <<8, 4>>, <<0, 4>> >>
MCLattice == {<<2, 2>>, <<5, 2>>, <<6, 2>>, <<8, 2>>}

MCPhases == <<
  [phase |-> "filling", started_at |-> 0, ends_at |-> 5, unit |-> 2,
   factors |-> <<1, 3, 3, 0, 1>>, inlets |-> <<1, 2, 2, 2, 1>>],
  [phase |-> "collecting", started_at |-> 5, ends_at |-> 7],
  [phase |-> "filling", started_at |-> 7, ends_at |-> 8, unit |-> 2,
   factors |-> <<2>>, inlets |-> <<1>>]>>

(* Nothing lies at <<6, 2>> at first; <<2, 2>> rises by two at 1, the      *)
(* other places by one at 1 and again at 4.                                *)
MCSurfaceUpdates == {1, 4, 6}
MCSurfaceAt(t, p) ==
  IF t >= 7 THEN 1
  ELSE (IF p[1] = 6 THEN 0 ELSE 2) + (IF t >= 1 THEN (IF p[1] = 2 THEN 2 ELSE 1) ELSE 0)
         + (IF t >= 4 /\ p[1] > 2 THEN 1 ELSE 0)

MCDelays == {1, 3}
MCScanLengths == [s \in {left, right} |-> IF s = left THEN {4} ELSE {1, 3}]

(* The left sensor looks at <<2, 2>>, the right one between <<5, 2>> and   *)
(* <<6, 2>>, and every third tick past the surface.                        *)
MCPoint(s, t) ==
  [surface |-> t % 3 # 2, hit |-> IF s = left THEN <<2, 2>> ELSE <<6, 2>>,
   distance |-> IF t % 3 # 2 THEN 7 ELSE 10, static |-> 10]

Quiet ==
  [falling |-> None, voids |-> None, collection |-> None, dropout |-> None,
   min_distance |-> 3, max_distance |-> 11, noise_limit |-> 0,
   reflects |-> FALSE, reflection |-> {3, 5}]
FallingMaterial ==
  [radius |-> {1, 2}, duration |-> {1, 3}, reduction |-> {2}, placement_radius |-> 1,
   inlet_positions |-> << <<5, 2>>, <<2, 2>> >>]
Voids ==
  [radius |-> {1}, duration |-> {1, 3}, increase |-> {2}, cover_height |-> 2, target_area |-> 2]
CollectionOcclusion ==
  [interval |-> {1, 2}, radius |-> {1, 2}, duration |-> {2}, reduction |-> {2}]
Dropout == [interval |-> {1, 2}, duration |-> {1, 4}]

MCSettings == {
  [Quiet EXCEPT !.falling = FallingMaterial],
  [Quiet EXCEPT !.voids = Voids],
  [Quiet EXCEPT !.collection = CollectionOcclusion],
  [Quiet EXCEPT !.dropout = Dropout, !.noise_limit = 2, !.reflects = TRUE],
  [Quiet EXCEPT
     !.falling = [FallingMaterial EXCEPT !.radius = {1}, !.duration = {3}, !.placement_radius = 1],
     !.voids = [Voids EXCEPT !.radius = {2}, !.duration = {2}],
     !.collection = [CollectionOcclusion EXCEPT !.interval = {2}, !.radius = {2}]]}
=============================================================================
