--------------------------- MODULE MCCameraPipeline ---------------------------
(* CameraPipeline with two runs of four segments: of two targets, none and    *)
(* three, and one over the limit of interpolation of MCCameraPipeline.cfg.    *)
EXTENDS CameraPipeline

MCKeyTime == <<1, 4, 5, 10, 16>>
=============================================================================
