----------------------------- MODULE MCPairScan -----------------------------
(* Small instances of PairScan, with a schedule whose exponent is 2. *)
EXTENDS PairScan

Squares == [c \in 1 .. One * One |-> c * c]
=============================================================================
