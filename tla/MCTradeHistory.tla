--------------------------- MODULE MCTradeHistory ---------------------------
(* Small instances of TradeHistory; the programs may be exchanged. *)
EXTENDS TradeHistory

Alike == Permutations(Programs)
=============================================================================
