----------------------------- MODULE MCSceneLink -----------------------------
(* SceneLink with two runs of three segments, three connections and a restart *)
(* of the Visualizer.  The first run begins with two segments the camera     *)
(* cannot interpolate, the second has one after its first.                  *)
EXTENDS SceneLink

MCGapped ==
  {[run |-> 1, sequence |-> 1], [run |-> 1, sequence |-> 2], [run |-> 2, sequence |-> 2]}
=============================================================================
