-------------------------------- MODULE Grid --------------------------------
(***************************************************************************)
(* The grid under the load surface (scenario/grid.rs) and the polygon it   *)
(* is cut from (geometry/polygon.rs).  Coordinates are integers, CellSize  *)
(* of them to a cell; boundaries are such that the edges of their          *)
(* triangles cross the grid lines at integer coordinates, so that the      *)
(* arithmetic is exact and the code's tolerances are zero.                 *)
(***************************************************************************)
EXTENDS Integers, Sequences, SequencesExt, FiniteSetsExt, Totals

CONSTANTS
  CellSize,     (* cell_size_m                                              *)
  MaxVertices   (* MAX_POLYGON_VERTICES                                     *)

ASSUME GridAssumption == {CellSize, MaxVertices} \subseteq Nat \ {0}

Previous(w, i) == w[IF i = 1 THEN Len(w) ELSE i - 1]
Following(w, i) == w[IF i = Len(w) THEN 1 ELSE i + 1]

Cross(a, b, c) == (b[1] - a[1]) * (c[2] - b[2]) - (b[2] - a[2]) * (c[1] - b[1])
SignedCross(w, i) == w[i][1] * Following(w, i)[2] - Following(w, i)[1] * w[i][2]
DoubledArea(w) == Total([i \in DOMAIN w |-> SignedCross(w, i)])

Between(value, a, b) == Min({a, b}) <= value /\ value <= Max({a, b})
OnSegment(p, a, b) ==
  Cross(a, b, p) = 0 /\ Between(p[1], a[1], b[1]) /\ Between(p[2], a[2], b[2])
Opposite(x, y) == (x < 0 /\ y > 0) \/ (x > 0 /\ y < 0)
Intersects(a, b, c, d) ==
  \/ Opposite(Cross(a, b, c), Cross(a, b, d)) /\ Opposite(Cross(c, d, a), Cross(c, d, b))
  \/ OnSegment(c, a, b) \/ OnSegment(d, a, b) \/ OnSegment(a, c, d) \/ OnSegment(b, c, d)

(* Polygon2::new. *)
ValidPolygon(w) ==
  /\ Len(w) \in 3..MaxVertices
  /\ IsInjective(w)
  /\ DoubledArea(w) # 0
  /\ \A i, j \in DOMAIN w :
       (i + 1 < j /\ <<i, j>> # <<1, Len(w)>>)
         => ~Intersects(w[i], Following(w, i), w[j], Following(w, j))

(* contains: on an edge, or an odd number of edges to the right. *)
RightOf(p, a, b) ==
  IF a[2] < b[2] THEN Cross(a, b, p) > 0 ELSE Cross(a, b, p) < 0
ContainsPoint(w, p) ==
  \/ \E i \in DOMAIN w : OnSegment(p, w[i], Following(w, i))
  \/ Cardinality({i \in DOMAIN w :
       /\ (w[i][2] > p[2]) # (Following(w, i)[2] > p[2])
       /\ RightOf(p, w[i], Following(w, i))}) % 2 = 1

-----------------------------------------------------------------------------
(* triangulate: counterclockwise, without the vertices on a straight line, *)
(* then one ear after the other.  No triangles stand for its error.        *)
Simplified(w) ==
  LET simplify[u \in Seq(Int \X Int)] ==
        LET bends == {i \in DOMAIN u : Cross(Previous(u, i), u[i], Following(u, i)) # 0}
            bend(k) == CHOOSE i \in bends : Cardinality({j \in bends : j < i}) = k - 1
        IN IF Len(u) <= 3 \/ bends = DOMAIN u THEN u
           ELSE simplify[[k \in 1..Cardinality(bends) |-> u[bend(k)]]]
  IN simplify[IF DoubledArea(w) < 0 THEN Reverse(w) ELSE w]

InTriangle(p, a, b, c) == Cross(a, b, p) >= 0 /\ Cross(b, c, p) >= 0 /\ Cross(c, a, p) >= 0
ConvexEar(w, i) == Cross(Previous(w, i), w[i], Following(w, i)) > 0
Ear(w, i) ==
  /\ ConvexEar(w, i)
  /\ \A p \in ToSet(w) \ {Previous(w, i), w[i], Following(w, i)} :
       ~InTriangle(p, Previous(w, i), w[i], Following(w, i))

Triangles(boundary) ==
  LET cut[w \in Seq(Int \X Int)] ==
        LET ears == {i \in DOMAIN w : Ear(w, i)}
            ear == Min(ears)
            rest == cut[RemoveAt(w, ear)]
        IN IF Len(w) = 3 THEN {w}
           ELSE IF Len(w) < 3 \/ ears = {} THEN {}
           ELSE IF rest = {} THEN {}
           ELSE {<<Previous(w, ear), w[ear], Following(w, ear)>>} \cup rest
  IN cut[Simplified(boundary)]

-----------------------------------------------------------------------------
(* volume_weights: every triangle is clipped to every cell, and the cell's *)
(* area goes to its four corners as bilinear interpolation wants it.       *)
Crossing(p, q, axis, bound) ==
  LET low == IF p[axis] < q[axis] THEN p ELSE q
      high == IF p[axis] < q[axis] THEN q ELSE p
      other == 3 - axis
      value == low[other] + ((bound - low[axis]) * (high[other] - low[other]))
                              \div (high[axis] - low[axis])
  IN IF axis = 1 THEN <<bound, value>> ELSE <<value, bound>>

ClipAxis(w, axis, bound, greater) ==
  LET inside(p) == IF greater THEN p[axis] >= bound ELSE p[axis] <= bound
      step(p, q) == (IF inside(p) # inside(q) THEN <<Crossing(p, q, axis, bound)>> ELSE <<>>)
                      \o (IF inside(q) THEN <<q>> ELSE <<>>)
  IN FlattenSeq([i \in DOMAIN w |-> step(Previous(w, i), w[i])])

Clipped(triangle, corner) ==
  ClipAxis(ClipAxis(ClipAxis(ClipAxis(triangle,
    1, corner[1], TRUE), 1, corner[1] + CellSize, FALSE),
    2, corner[2], TRUE), 2, corner[2] + CellSize, FALSE)

(* bilinear_weights, in 24ths of a cell's area times CellSize squared, by  *)
(* the corner <<x, y>> of the cell.                                        *)
BilinearWeights(clipped, corner) ==
  LET w == [i \in DOMAIN clipped |->
              <<clipped[i][1] - corner[1], clipped[i][2] - corner[2]>>]
      next == [i \in DOMAIN w |-> Following(w, i)]
      total(value) == Total([i \in DOMAIN w |-> value[i] * SignedCross(w, i)])
      sums(axis) == total([i \in DOMAIN w |-> w[i][axis] + next[i][axis]])
      area == 12 * CellSize * CellSize * DoubledArea(w)
      x == 4 * CellSize * sums(1)
      y == 4 * CellSize * sums(2)
      xy == total([i \in DOMAIN w |-> 2 * w[i][1] * w[i][2] + w[i][1] * next[i][2]
                                       + next[i][1] * w[i][2] + 2 * next[i][1] * next[i][2]])
  IN IF Len(w) < 3 \/ area <= 0 THEN [at \in {0, 1} \X {0, 1} |-> 0]
     ELSE [at \in {0, 1} \X {0, 1} |->
             IF at = <<0, 0>> THEN area - x - y + xy
             ELSE IF at = <<1, 1>> THEN xy
             ELSE (IF at = <<1, 0>> THEN x ELSE y) - xy]

(* node_count and coordinates: a node is its column and row, from 0. *)
Axis(boundary, axis) == {p[axis] : p \in ToSet(boundary)}
NodeCount(boundary, axis) ==
  LET extent == Max(Axis(boundary, axis)) - Min(Axis(boundary, axis))
  IN Max({1, (extent + CellSize - 1) \div CellSize}) + 1
Nodes(boundary) == (0..(NodeCount(boundary, 1) - 1)) \X (0..(NodeCount(boundary, 2) - 1))
Position(boundary, node) ==
  <<Min(Axis(boundary, 1)) + CellSize * node[1], Min(Axis(boundary, 2)) + CellSize * node[2]>>

NodeWeight(boundary, node) ==
  LET cells == {<<node[1] - at[1], node[2] - at[2]>> : at \in {0, 1} \X {0, 1}}
      part(triangle, cell) ==
        LET corner == Position(boundary, cell)
        IN BilinearWeights(Clipped(triangle, corner), corner)
             [<<node[1] - cell[1], node[2] - cell[2]>>]
  IN Total([job \in Triangles(boundary) \X cells |-> part(job[1], job[2])])

(* neighbor_pairs: to the right, up, and the two diagonals up, between     *)
(* nodes that carry volume.                                                *)
Offsets == {<<1, 0>>, <<0, 1>>, <<1, 1>>, <<-1, 1>>}
NeighborPairs(nodes) ==
  {pair \in nodes \X nodes :
     <<pair[2][1] - pair[1][1], pair[2][2] - pair[1][2]>> \in Offsets}

(* Grid::new.  The nodes that carry volume with their weights, in the      *)
(* largest unit in which the weights are integers; the rescaling to the    *)
(* boundary's area is by one when the weights are exact.                   *)
InLargestUnit(weight) ==
  LET values == {weight[node] : node \in DOMAIN weight}
      unit == Max({u \in 1..Min(values) : \A v \in values : v % u = 0})
  IN [node \in DOMAIN weight |-> weight[node] \div unit]
Loaded(weight) == {node \in DOMAIN weight : weight[node] > 0}
Weighted(boundary, weight) ==
  [boundary |-> boundary, raw |-> weight, pairs |-> NeighborPairs(Loaded(weight)),
   weight |-> InLargestUnit(Restrict(weight, Loaded(weight)))]
NewGrid(boundary) ==
  Weighted(boundary, [node \in Nodes(boundary) |-> NodeWeight(boundary, node)])
=============================================================================
