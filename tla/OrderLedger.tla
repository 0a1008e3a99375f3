----------------------------- MODULE OrderLedger -----------------------------
(***************************************************************************)
(* What the paper executor promises about the life of an order, whatever   *)
(* the market data and whatever the fill model: orders are numbered in the *)
(* order of submission and never forgotten, an open order is worked down   *)
(* by fills until nothing remains, and an order that left the "open" state *)
(* is never touched again.  Module Execution is shown to implement this.   *)
(***************************************************************************)
EXTENDS Integers, Sequences

VARIABLE ledger     \* ledger[i]: what may be observed of order number i

Closed == {"filled", "cancelled", "rejected", "expired"}

Entry == [size : Nat, remaining : Nat, status : Closed \cup {"open"}]

(***************************************************************************)
(* The states an entry may be created in: an open order still has to fill  *)
(* something, an order that is closed at once holds nothing back.          *)
(***************************************************************************)
Fresh(e) ==
  /\ e \in Entry
  /\ e.remaining <= e.size
  /\ e.status = "open" => e.remaining > 0
  /\ e.status # "open" => e.remaining = 0
  /\ e.status # "expired"

(***************************************************************************)
(* e becomes f in one fill: f has strictly less to fill, and is "filled"   *)
(* exactly when nothing remains.                                           *)
(***************************************************************************)
Worked(e, f) ==
  /\ e.status = "open"
  /\ f.size = e.size
  /\ f.remaining \in 0 .. e.remaining - 1
  /\ f.status = IF f.remaining = 0 THEN "filled" ELSE "open"

Cancelled(e, f) ==
  /\ e.status = "open"
  /\ f = [e EXCEPT !.status = "cancelled", !.remaining = 0]

\* An expired order keeps its unfilled remainder on record.
Lapsed(e, f) ==
  /\ e.status = "open"
  /\ f = [e EXCEPT !.status = "expired"]

-----------------------------------------------------------------------------

Init == ledger = << >>

\* A new order is recorded at the end.
Place ==
  LET e == ledger'[Len(ledger) + 1]
  IN  /\ Len(ledger') = Len(ledger) + 1
      /\ Fresh(e)
      /\ ledger' = Append(ledger, e)

\* One step changes any number of entries, all of them in the same way.
Each(Step(_, _)) ==
  /\ ledger' \in Seq(Entry)
  /\ Len(ledger') = Len(ledger)
  /\ \A i \in DOMAIN ledger : ledger'[i] = ledger[i] \/ Step(ledger[i], ledger'[i])

Fill   == Each(Worked)
Cancel == Each(Cancelled)
Expire == Each(Lapsed)

Next == Place \/ Fill \/ Cancel \/ Expire

Spec == Init /\ [][Next]_ledger
=============================================================================
