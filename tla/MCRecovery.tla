----------------------------- MODULE MCRecovery -----------------------------
(* Small instances of Recovery, with the report of the journal. *)
EXTENDS Report

At(ts, kind, mark) == [ts |-> ts, kind |-> kind, mark |-> mark]

\* Every kind of event, at times of its own; the shares rise and fall.
Apart == <<At(0, "reference", 0), At(1, "book", 2), At(3, "trade", 1)>>

\* On the edges of the report's buckets.
Convictions == {2, -2}

\* Trades of one second, as a trade history has them.
SameSecond == <<At(0, "trade", 1), At(1, "trade", 1), At(1, "trade", 1)>>
=============================================================================
