----------------------------- MODULE MCExecution -----------------------------
(* Small instances of Execution: one token, prices 1 .. 3 (One = 4). *)
EXTENDS Execution

\* A book with at most one level per side: size n bid at p, size m asked at q.
Quoted(p, n, q, m, tick, min) ==
  [bids |-> [x \in Prices |-> IF x = p THEN n ELSE 0],
   asks |-> [x \in Prices |-> IF x = q THEN m ELSE 0], tick |-> tick, min |-> min]

Req(side, price, size, type, postOnly, expires) ==
  [token |-> "yes", side |-> side, price |-> price, size |-> size, type |-> type,
   postOnly |-> postOnly, expires |-> expires]

MCTokens == {"yes"}
MCParams == [tick |-> 1, min |-> 1]
-----------------------------------------------------------------------------
(* Resting orders: prints and books against two orders with a queue, created *)
(* in and out of the order of their ids. *)

Instant == {0}
Clock   == 0 .. 1

RestingSnapshots ==
  {Quoted(2, 1, 3, 2, 0, 0), Quoted(1, 2, 2, 1, 0, 0)}

RestingChanges ==
  {[token |-> "yes", side |-> "SELL", price |-> 1, size |-> n] : n \in {0, 1}}

RestingPrints == [token : {"yes"}, price : {1, 2}, size : {2}]

RestingRequests ==
  {Req("BUY", 2, 2, "GTC", TRUE, NoExpiry), Req("SELL", 2, 2, "GTC", TRUE, NoExpiry),
   Req("BUY", 3, 2, "GTD", FALSE, 1)}

-----------------------------------------------------------------------------
(* Taking orders: every type against books of two levels, and refusals. *)

Deep(q1, m1, q2, m2) ==
  [bids |-> [x \in Prices |-> IF x = 1 THEN 1 ELSE 0],
   asks |-> [x \in Prices |-> IF x = q1 THEN m1 ELSE IF x = q2 THEN m2 ELSE 0],
   tick |-> 0, min |-> 0]

TakingSnapshots ==
  {Deep(2, 1, 3, 2), Quoted(2, 3, 3, 1, 2, 0), Quoted(1, 1, 3, 1, 1, 2)}

TakingChanges ==
  {[token |-> "yes", side |-> "SELL", price |-> 2, size |-> n] : n \in {0, 1}}

TakingPrints == {[token |-> "yes", price |-> 3, size |-> 1]}

TakingRequests ==
  {Req("BUY", 3, size, type, FALSE, NoExpiry) : size \in {2, 4}, type \in {"GTC", "FOK", "FAK"}}
  \cup
  {Req("SELL", 1, 2, "FAK", FALSE, NoExpiry), Req("SELL", 1, 2, "GTC", TRUE, NoExpiry),
   Req("BUY", 3, 2, "FAK", TRUE, NoExpiry), Req("BUY", 2, 1, "GTD", FALSE, NoExpiry),
   Req("BUY", 4, 1, "GTC", FALSE, NoExpiry)}
=============================================================================
