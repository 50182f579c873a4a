---------------------------- MODULE MCCollector ----------------------------
(* Model-checking instance of Collector; the bounds are in the .cfg files. *)
EXTENDS Collector
=============================================================================
