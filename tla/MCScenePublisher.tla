--------------------------- MODULE MCScenePublisher ---------------------------
(* ScenePublisher with three sequence numbers over keyframes 0 to 4, a      *)
(* backoff that doubles twice, and counters that saturate at three.         *)
EXTENDS ScenePublisher
=============================================================================
