-------------------------------- MODULE Fees --------------------------------
(***************************************************************************)
(* The fee schedule of a market (src/paperfill/fees.py).  Prices are       *)
(* counted in ticks, One of them to the dollar; fees in units, of which    *)
(* Precision make a dollar.  Rates are fractions.  The power p * (1 - p)   *)
(* is raised to is any: Raised holds what Decimal makes of it, which is    *)
(* inexact where the exponent is no integer.                               *)
(***************************************************************************)
EXTENDS Integers

CONSTANTS
  One,                  \* ticks to the dollar
  Precision,            \* FEE_PRECISION: fee units to the dollar
  Rate, RateOf,         \* the rate is Rate / RateOf
  ExponentIsOne,        \* whether the exponent is 1, and
  Raised, RaisedOf,     \* otherwise (c / (One * One)) ** exponent = Raised[c] / RaisedOf
  Rebate, RebateOf,     \* and the rebate rate Rebate / RebateOf
  TakerOnly

ASSUME FeesAssumption ==
  /\ {One, Precision, RateOf, RaisedOf, RebateOf} \subseteq Nat \ {0}
  /\ Raised \in [1 .. One * One -> Nat]
  /\ Rate \in Nat /\ Rebate \in 0 .. RebateOf
  /\ {TakerOnly, ExponentIsOne} \subseteq BOOLEAN

Prices == 0 .. One

\* n / d, rounded half up.
HalfUp(n, d) == (2 * n + d) \div (2 * d)

\* (p * (1 - p)) ** exponent, in parts of Whole.
Bent(curve) == IF ExponentIsOne \/ curve = 0 THEN curve ELSE Raised[curve]
Whole       == IF ExponentIsOne THEN One * One ELSE RaisedOf

\* fee_equivalent, in parts of a fee unit.
Curve(shares, price) == shares * Rate * Bent(price * (One - price)) * Precision
Parts == RateOf * Whole

taker_fee(shares, price) == HalfUp(Curve(shares, price), Parts)

maker_fee(shares, price) == IF TakerOnly THEN 0 ELSE taker_fee(shares, price)

maker_rebate_estimate(shares, price) == HalfUp(taker_fee(shares, price) * Rebate, RebateOf)
=============================================================================
