----------------------------- MODULE Calibration ----------------------------
(***************************************************************************)
(* How calibration samples a recorded window (calibration.py): it reads    *)
(* the events that a strategy would see, feeds the same signal, and notes  *)
(* the fair value and the mid of Up at given offsets into the window.      *)
(*                                                                         *)
(* It knows books from their snapshots only: changes in place and gaps     *)
(* leave its mid as it is.                                                 *)
(***************************************************************************)
EXTENDS Strategies

CONSTANT Offsets

ASSUME CalibrationAssumption == Offsets \subseteq Int

VARIABLES
  pending,    \* offsets without a sample
  mid,        \* mid_up
  samples,    \* out
  farthest    \* the latest time of an event so far, for the properties

sampler == <<pending, mid, samples, farthest>>

\* Bug: an event samples one offset at most.
BugDue == {o \in pending : now >= o /\ \A other \in pending : o <= other}

Due == {o \in pending : now >= o}

\* The samples for which an event came late enough.
Sample ==
  /\ strategy = "calibration" /\ phase = "tick" /\ phase' = "event"
  /\ \E p \in PUp :
       samples' = samples \cup {[offset |-> o, at |-> now, model |-> p, mid |-> mid] : o \in Due}
  /\ pending' = pending \ Due
  /\ UNCHANGED <<strategy, market, position, resting, now, lastAt, history, events, mid, farthest>>

\* A two-sided snapshot of Up; a change in place is not looked at.
MidAfter(token, new) ==
  IF token = "up" /\ Unknown \notin {new.bid, new.ask} THEN {(new.bid + new.ask) \div 2, mid}
  ELSE {mid}

Read ==
  /\ \/ \E token \in Tokens, new \in Tops : BookOf(token, new) /\ mid' \in MidAfter(token, new)
     \/ /\ (TradePrint \/ Price \/ Gap)
        /\ UNCHANGED mid
  /\ farthest' = Max({farthest, now'})
  /\ UNCHANGED <<pending, samples>>

\* A strategy runs, or a recording is sampled.
CInit ==
  /\ \/ Init
     \/ /\ strategy = "calibration" /\ phase = "tick" /\ events = 0
        /\ top = [t \in Tokens |-> Dark] /\ printed = [t \in Tokens |-> Unknown] /\ SignalsInit
        /\ position = [t \in Tokens |-> 0] /\ resting = {} /\ now \in Begins
        /\ lastAt = [t \in Tokens |-> Unknown] /\ history = << >>
  /\ pending = Offsets /\ mid = Unknown /\ samples = {} /\ farthest = now

CNext ==
  \/ strategy # "calibration" /\ Next /\ UNCHANGED sampler
  \/ strategy = "calibration" /\ (Sample \/ Read)

CSpec == CInit /\ [][CNext]_<<vars, sampler>>

(***************************************************************************)
(* Every offset has one sample, taken at the first event at or after it,   *)
(* though several may fall due with one event and the clock may go back;   *)
(* once a window's start price is known no sample is without a fair value. *)
(***************************************************************************)
SampledInTime ==
  strategy = "calibration" /\ phase = "event" =>
    /\ {s.offset : s \in samples} = {o \in Offsets : farthest >= o}
    /\ \A s, other \in samples :
         /\ s.offset <= s.at
         /\ s.offset = other.offset => s = other
         /\ other.at < s.at => other.at < s.offset /\ (other.model # Unknown => s.model # Unknown)
=============================================================================
