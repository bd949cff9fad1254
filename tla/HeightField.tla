---------------------------- MODULE HeightField -----------------------------
(***************************************************************************)
(* The load surface (scenario/height_field.rs).  A surface is the volume   *)
(* over every node of the grid, an integer: a node's height over the floor *)
(* is its volume by its weight.  Results are computed exactly and rounded  *)
(* once onto whole volumes, so that a sum is kept (Apportioned); the       *)
(* code's tolerance for rounding is zero here.  Nodes without weight have  *)
(* no volume and no neighbours and are left out.                           *)
(***************************************************************************)
EXTENDS Grid

CONSTANTS
  Top,              (* top_z_m over the floor                               *)
  Repose,           (* the height difference the angle of repose allows     *)
                    (* between nodes one cell apart                         *)
  MaxIterations,    (* DEFAULT_SLOPE_RELAXATION_MAX_ITERATIONS              *)
  Kernel(_, _)      (* exp(-r^2 / 2) in parts, from squared distance and    *)
                    (* squared radius; positive, and falling with distance  *)

ASSUME HeightFieldAssumption == {Top, Repose, MaxIterations} \subseteq Nat \ {0}

Before(m, n) == m[2] < n[2] \/ (m[2] = n[2] /\ m[1] < n[1])   (* y-major *)

(* Rationals are pairs <<numerator, positive denominator>>. *)
LessThan(r, s) == r[1] * s[2] < s[1] * r[2]
Least(rationals) == CHOOSE r \in rationals : \A s \in rationals : ~LessThan(s, r)

Empty(grid) == [node \in DOMAIN grid.weight |-> 0]
Capacity(grid) == Top * Total(grid.weight)
Room(grid, surface) == [node \in DOMAIN surface |-> Top * grid.weight[node] - surface[node]]

SquaredDistance(grid, node, center) ==
  LET at == Position(grid.boundary, node)
  IN (at[1] - center[1]) * (at[1] - center[1]) + (at[2] - center[2]) * (at[2] - center[2])

(* The volumes share[node] / parts, rounded so that their sum is total. *)
Apportioned(share, parts, total) ==
  LET whole == [node \in DOMAIN share |-> share[node] \div parts]
      split == {node \in DOMAIN share : share[node] % parts # 0}
  IN [node \in DOMAIN share |->
        whole[node] + (IF /\ node \in split
                          /\ Cardinality({n \in split : Before(n, node)}) < total - Total(whole)
                       THEN 1 ELSE 0)]

-----------------------------------------------------------------------------
(* solve_height_delta: every node changes by the same multiple of its      *)
(* slope, weight times profile, up to its room.  The nodes are swept in    *)
(* the order in which they run out of room.                                *)
BySmallestRoom(room, slope, m, n) == room[m] < room[n] \/ (room[m] = room[n] /\ Before(m, n))
RunsOutFirst(room, slope, m, n) ==
  \/ room[m] * slope[n] < room[n] * slope[m]
  \/ room[m] * slope[n] = room[n] * slope[m] /\ Before(m, n)

SolveHeightDelta(slope, room, requested) ==
  IF requested = 0 THEN [node \in DOMAIN room |-> 0]
  ELSE IF requested >= Total(room) THEN room
  ELSE
    LET order == {node \in DOMAIN room : slope[node] > 0 /\ room[node] > 0}
        earlier(node) == {n \in order : RunsOutFirst(room, slope, n, node)}
        left(node) == requested - Total([n \in earlier(node) |-> room[n]])
        rate(node) == Total([n \in order \ earlier(node) |-> slope[n]])
        reached == {node \in order : left(node) * slope[node] <= room[node] * rate(node)}
    IN IF reached = {} THEN room
       ELSE LET last == CHOOSE node \in reached :
                          \A n \in reached \ {node} : RunsOutFirst(room, slope, node, n)
            IN Apportioned([node \in DOMAIN room |->
                              Min({left(last) * slope[node], room[node] * rate(last)})],
                           rate(last), requested)

(* change_volume by way of add_volume and remove_volume_uniformly. *)
AddVolume(grid, surface, requested, center, radius) ==
  LET slope == [node \in DOMAIN surface |->
                  grid.weight[node]
                    * Kernel(SquaredDistance(grid, node, center), radius * radius)]
      delta == SolveHeightDelta(slope, Room(grid, surface), requested)
  IN [node \in DOMAIN surface |-> surface[node] + delta[node]]

RemoveVolumeUniformly(grid, surface, requested) ==
  LET delta == SolveHeightDelta(grid.weight, surface, requested)
  IN [node \in DOMAIN surface |-> surface[node] - delta[node]]

-----------------------------------------------------------------------------
(* relax_neighbor_pairs: volume moves down every pair that is too steep;   *)
(* what a node gives or takes in all is scaled to its room and to its      *)
(* steepest excess.  The diagonal of a cell allows 7/5 of its side.        *)
AllowedDifference(pair) ==
  IF pair[1][1] = pair[2][1] \/ pair[1][2] = pair[2][2] THEN Repose ELSE (7 * Repose) \div 5

(* excess * weight * weight of a pair from the higher node to the lower. *)
Excess(grid, surface, from, to) ==
  surface[from] * grid.weight[to] - surface[to] * grid.weight[from]
    - AllowedDifference(<<from, to>>) * grid.weight[from] * grid.weight[to]

TransferPairs(grid, surface) ==
  {pair \in grid.pairs \cup {<<pair[2], pair[1]>> : pair \in grid.pairs} :
     Excess(grid, surface, pair[1], pair[2]) > 0}
Wanted(grid, surface, pair) ==
  Excess(grid, surface, pair[1], pair[2]) \div (grid.weight[pair[1]] + grid.weight[pair[2]])

(* transfer_scales: what a node is allowed by what is requested of it; end *)
(* is 1 for the source of a pair and 2 for its destination.                *)
Scale(grid, surface, transfers, node, end) ==
  LET own == {pair \in transfers : pair[end] = node}
      steepest == Max({Excess(grid, surface, pair[1], pair[2]) \div grid.weight[pair[3 - end]] :
                         pair \in own})
      available == IF end = 1 THEN surface[node] ELSE Room(grid, surface)[node]
      requested == Total([pair \in own |-> Wanted(grid, surface, pair)])
  IN IF requested = 0 THEN <<1, 1>>
     ELSE Least({<<Min({available, steepest}), requested>>, <<1, 1>>})

RelaxNeighborPairs(grid, surface) ==
  LET transfers == TransferPairs(grid, surface)
      moved == [pair \in transfers |->
        LET scale == Least({Scale(grid, surface, transfers, pair[end], end) : end \in {1, 2}})
        IN (Wanted(grid, surface, pair) * scale[1]) \div scale[2]]
      through(node, end) ==
        Total([pair \in {p \in transfers : p[end] = node} |-> moved[pair]])
  IN [node \in DOMAIN surface |-> surface[node] - through(node, 1) + through(node, 2)]

RelaxSlopes(grid, surface) ==
  LET relax[at \in Nat \X [DOMAIN surface -> Int]] ==
        LET left == at[1]
            current == at[2]
            next == RelaxNeighborPairs(grid, current)
        IN IF left = 0 \/ next = current THEN current ELSE relax[<<left - 1, next>>]
  IN relax[<<MaxIterations, surface>>]

-----------------------------------------------------------------------------
WholeBump(limits) == <<1, 1>>
BumpScale(limits) == Least(limits \cup {<<1, 1>>})

(* apply_local_roughness: a bump without volume, (1 - r^2)^2 less its      *)
(* mean, scaled down until it stays between floor and top.  A support of   *)
(* fewer than two nodes has a profile of zero.                             *)
BumpProfile(grid, surface, center, radius) ==
  LET distance(node) == SquaredDistance(grid, node, center)
      support == {node \in DOMAIN surface : distance(node) < radius * radius}
      bump == [node \in support |->
                 (radius * radius - distance(node)) * (radius * radius - distance(node))]
      area == Total([node \in support |-> grid.weight[node]])
      mean == Total([node \in support |-> grid.weight[node] * bump[node]])
  IN [node \in DOMAIN surface |-> IF node \in support THEN bump[node] * area - mean ELSE 0]

Raised(grid, surface, crest, delta) ==
  LET limits == {<<Room(grid, surface)[node] * crest, delta[node]>> :
                   node \in {n \in DOMAIN surface : delta[n] > 0}}
                \cup {<<surface[node] * crest, -delta[node]>> :
                   node \in {n \in DOMAIN surface : delta[n] < 0}}
      scale == BumpScale(limits)
      change == Apportioned([node \in DOMAIN surface |-> delta[node] * scale[1]],
                            crest * scale[2], 0)
  IN [node \in DOMAIN surface |-> surface[node] + change[node]]

ApplyLocalRoughness(grid, surface, center, radius, peak) ==
  LET profile == BumpProfile(grid, surface, center, radius)
      crest == Max({profile[node] : node \in DOMAIN surface})
  IN IF peak = 0 \/ crest <= 0 THEN surface
     ELSE Raised(grid, surface, crest,
                 [node \in DOMAIN surface |-> grid.weight[node] * profile[node] * peak])

-----------------------------------------------------------------------------
(* Grid::height_at: bilinear over the four corners of the point's cell. *)
HeightAt(grid, surface, point) ==
  LET b == grid.boundary
      cell == [axis \in {1, 2} |->
                 Min({(point[axis] - Min(Axis(b, axis))) \div CellSize, NodeCount(b, axis) - 2})]
      offset == [axis \in {1, 2} |-> point[axis] - Position(b, cell)[axis]]
      corners == {<<cell[1] + at[1], cell[2] + at[2]>> : at \in {0, 1} \X {0, 1}}
                   \cap DOMAIN surface
      share(node, axis) == IF node[axis] = cell[axis] THEN CellSize - offset[axis]
                           ELSE offset[axis]
      weights == FoldSet(LAMBDA node, product : product * grid.weight[node], 1, corners)
  IN <<Total([node \in corners |-> surface[node] * (weights \div grid.weight[node])
                                 * share(node, 1) * share(node, 2)]),
       weights * CellSize * CellSize>>

(* mean_height_within. *)
MeanHeightWithin(grid, surface, center, radius) ==
  LET near == {node \in DOMAIN surface :
                 SquaredDistance(grid, node, center) <= radius * radius}
  IN IF near = {} THEN HeightAt(grid, surface, center)
     ELSE <<Total([node \in near |-> surface[node]]), Total([node \in near |-> grid.weight[node]])>>
=============================================================================
