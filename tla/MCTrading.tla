------------------------------ MODULE MCTrading ------------------------------
(* Small instances of Trading: prices 1 .. 3 (One = 4). *)
EXTENDS Trading

Buy(t, price, size, ttl) ==
  [token |-> t, side |-> "BUY", price |-> price, size |-> size, ttl |-> ttl]
Sell(t, price, size, ttl) ==
  [token |-> t, side |-> "SELL", price |-> price, size |-> size, ttl |-> ttl]

At(t, price) == [token |-> t, price |-> price]

Mid(t, m) == [x \in {t} |-> m]

NoFee(n, p)  == 0
OneFee(n, p) == IF n = 0 THEN 0 ELSE 1

Clock   == 0 .. 1
Instant == {0}
-----------------------------------------------------------------------------
(* The loop: shares are taken with a fee, their cost is no whole number on  *)
(* average, they are sold in parts, twice over or not at all; bids for the  *)
(* other token expire; books, prints, halts and the kill file meet them all.*)

LoopQuotes == {Buy(No, 1, 2, 1), Sell(Yes, 3, 2, NoExpiry)}

LoopTakes == {[token |-> Yes, limit |-> 1, size |-> 2]}

LoopTrades == {At(No, 1)}

LoopBooks == {Mid(Yes, 3)}
-----------------------------------------------------------------------------
(* Sales only. *)

MoneyQuotes == {Buy(Yes, 2, 2, NoExpiry), Sell(Yes, 3, 1, NoExpiry), Sell(Yes, 1, 2, NoExpiry)}

MoneyTrades == {At(Yes, 2)}
=============================================================================
