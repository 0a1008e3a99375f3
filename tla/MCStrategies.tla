---------------------------- MODULE MCStrategies ----------------------------
(* Small instances of Strategies and Calibration. *)
EXTENDS Calibration

Top(bid, ask) == [bid |-> bid, ask |-> ask]

\* A low book, one whose bid is between two ticks, and a high one without asks.
Markets == {Top(4, 8), Top(6, 10), Top(12, Unknown)}

\* A run begins with its window, or before it.
Starts == {-2, 0}

\* A moment passes, enough for the next round, or the clock goes back.
Moves == {-1, 2}
=============================================================================
