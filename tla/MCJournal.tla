----------------------------- MODULE MCJournal -----------------------------
(* Small instances of Journal; the processes may be exchanged. *)
EXTENDS Journal, TLC

Alike == Permutations(Processes)
=============================================================================
