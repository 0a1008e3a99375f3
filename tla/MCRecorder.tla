----------------------------- MODULE MCRecorder -----------------------------
(* Small instances of Recorder; the values are in the configurations. *)
EXTENDS Recorder
=============================================================================
