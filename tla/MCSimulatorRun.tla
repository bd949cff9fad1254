---------------------------- MODULE MCSimulatorRun ----------------------------
(* SimulatorRun with batches modulo four and up to two signals. *)
EXTENDS SimulatorRun
=============================================================================
