---------------------------- MODULE MCCollector ----------------------------
(* Small instances of Collector; the values are in the configurations. *)
EXTENDS Collector
=============================================================================
