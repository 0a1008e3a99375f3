------------------------------- MODULE Signals ------------------------------
(***************************************************************************)
(* The fair value of Up from external prices (signals.py): it is known     *)
(* from the first reference price at or after the start of the window, and *)
(* says on which side of it the reference is.  How far from one half it is *)
(* depends on volatility and time left, which are floating-point numbers:  *)
(* here it may be any of Fairs on the right side.                          *)
(***************************************************************************)
EXTENDS Integers

CONSTANTS
  One,        \* a certain event, in parts
  Fairs,      \* the probabilities there may be
  References, \* the reference prices there may be
  Unknown     \* marks a value that is None in the code

ASSUME SignalsAssumption ==
  /\ One \in Nat \ {0} /\ Fairs \subseteq 0 .. One
  /\ References \subseteq Nat /\ Unknown \notin Int

VARIABLES start, reference     \* start_price, reference_price

feed == <<start, reference>>

\* A price of the reference feed; times are counted from the start of the window.
OnReference(at, price) ==
  /\ start' = IF start = Unknown /\ at >= 0 THEN price ELSE start
  /\ reference' = price

\* A spot price moves the volatility only.
OnSpot == UNCHANGED feed

\* What p_up may return.
PUp ==
  IF start = Unknown THEN {Unknown}
  ELSE {p \in Fairs : /\ reference >= start => 2 * p >= One
                      /\ reference <= start => 2 * p <= One}

SignalsInit == start = Unknown /\ reference = Unknown
=============================================================================
