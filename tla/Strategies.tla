----------------------------- MODULE Strategies -----------------------------
(***************************************************************************)
(* The three strategies that come with the program (strategy.py), as the   *)
(* runner calls them: market data, fills and expiry in between, and risk   *)
(* engine and executor free to refuse any of their orders.                 *)
(*                                                                         *)
(* Money is counted in parts of a dollar, One of them, so fine that a mid  *)
(* is one of them; conviction, edges and size factors in the same parts.   *)
(***************************************************************************)
EXTENDS Signals, Sequences, FiniteSetsExt

CONSTANTS
  Tick,               \* parts to the market's tick
  Tops, Prints,       \* the best bid and ask of a book, and prints there may be
  Begins, Steps,      \* when the first event comes, and how far the clock moves from event to event
  Size,               \* `size'
  RequoteEvery, Ttl,  \* `requote_every' or `every', and `quote_ttl'
  MaxInventory,       \* `max_inventory'
  MinOrder,           \* the market's min_order_size
  Lookback, LeanGain, MaxLean,              \* of TwoSidedQuoter
  MinEdge, EdgeGain, MaxRatio, Shrink,      \* of FairValueQuoter; Shrink of One parts
  StopAfter,                                \* and how long after the start it stops
  MaxEvents           \* bound on the events

Tokens == {"up", "down"}

Kinds == {"two_sided", "fair_value", "taker_probe"}

ASSUME StrategiesAssumption ==
  /\ {Tick, Size, RequoteEvery, Ttl, MaxInventory, MinOrder, Lookback,
      LeanGain, MinEdge, EdgeGain, MaxRatio, StopAfter} \subseteq Nat \ {0}
  /\ MaxLean \in 0 .. One /\ Shrink \in 0 .. One /\ MaxEvents \in Nat
  /\ RequoteEvery <= Ttl
  /\ Tops \subseteq [bid : 1 .. One \cup {Unknown}, ask : 1 .. One \cup {Unknown}]
  /\ \A known \in Tops : Unknown \notin {known.bid, known.ask} => known.bid < known.ask
  /\ Prints \subseteq 0 .. One /\ Begins \subseteq Int /\ Steps \subseteq Int

VARIABLES
  strategy,      \* which of them runs
  top,           \* Context.books: best bid and ask per token
  printed,       \* Context.last_prices
  position,      \* Context.positions
  resting,       \* Context.open_orders
  now,           \* Context.now, counted from the start of the window
  lastAt,        \* _last_quote_at, or _last_at per token
  history,       \* _history
  phase,         \* whether an event or the strategy is next
  events

market == <<top, printed, feed>>
vars   == <<strategy, market, position, resting, now, lastAt, history, phase, events>>

-----------------------------------------------------------------------------
(* Context and prices. *)

TwoSided(token) == Unknown \notin {top[token].bid, top[token].ask}

reference_price(token) ==
  IF TwoSided(token) THEN (top[token].bid + top[token].ask) \div 2 ELSE printed[token]

RoundToTick(price) == (price \div Tick) * Tick

\* Join the best bid; on a bare tape, one tick under the reference.
BidPrice(token) ==
  RoundToTick(IF top[token].bid # Unknown THEN top[token].bid
              ELSE RoundToTick(reference_price(token) - Tick))

Quotable == {t \in Tokens : reference_price(t) # Unknown /\ BidPrice(t) \in 1 .. One - 1}

Clamp(low, x, high) == Max({low, Min({x, high})})

Sized(factor) == (Size * factor) \div One

Room(token) == position[token] < MaxInventory

Quote(token, factor, lean) ==
  [token |-> token, price |-> BidPrice(token), size |-> Sized(factor), lean |-> lean,
   ref |-> reference_price(token), made |-> now]

\* Whether it is too early for the next round.
TooEarly(at) == at # Unknown /\ now - at < RequoteEvery

-----------------------------------------------------------------------------
(* What the runner makes of a strategy's actions. *)

\* Quotes are placed, or refused by the risk engine or as marketable.
Placed(kept, quotes) ==
  \E accepted \in SUBSET quotes : resting' = kept \cup accepted

\* Orders that are due are cancelled before the strategy is asked.
Alive == {o \in resting : now - o.made < Ttl}

\* Bug: what rests is not cancelled before it is quoted anew.
BugRequoted == Alive

\* A round of quotes begins with cancelling everything.
Requoted == {}

-----------------------------------------------------------------------------
(* TwoSidedQuoter. *)

\* The history, with what is older than `lookback' left out.
Remembered ==
  LET all   == Append(history, [at |-> now, mid |-> reference_price("up")])
      fresh == {i \in DOMAIN all : now - all[i].at <= Lookback}
  IN  SubSeq(all, Min(fresh), Len(all))

Lean == Clamp(-MaxLean, LeanGain * (reference_price("up") - Head(Remembered).mid), MaxLean)

TwoSidedQuotes ==
  LET Factor(t) == IF t = "up" THEN One + Lean ELSE One - Lean
  IN  {Quote(t, Factor(t), Lean) : t \in {u \in Quotable : Room(u) /\ Sized(Factor(u)) >= MinOrder}}

TwoSidedTick ==
  /\ strategy = "two_sided"
  /\ IF reference_price("up") = Unknown
     THEN resting' = Alive /\ UNCHANGED <<lastAt, history>>
     ELSE /\ history' = Remembered
          /\ IF TooEarly(lastAt["up"])
             THEN resting' = Alive /\ UNCHANGED lastAt
             ELSE Placed(Requoted, TwoSidedQuotes) /\ lastAt' = [lastAt EXCEPT !["up"] = now]
  /\ UNCHANGED <<position, top>>

-----------------------------------------------------------------------------
(* FairValueQuoter. *)

\* The fair value of Up, drawn towards the mid by `shrink_to_mid'.
FairUp(fair) ==
  IF Shrink > 0 /\ reference_price("up") # Unknown
  THEN ((One - Shrink) * fair + Shrink * reference_price("up")) \div One
  ELSE fair

Edge(fair, token) ==
  (IF token = "up" THEN FairUp(fair) ELSE One - FairUp(fair)) - reference_price(token)

\* Bug: two bids are a pair, whatever they cost.
BugPairOk == Quotable = Tokens

PairOk == Quotable = Tokens /\ BidPrice("up") + BidPrice("down") <= One

FairValueQuotes(fair) ==
  LET Factor(t) == Clamp(0, One + EdgeGain * Edge(fair, t), MaxRatio * One)
      Wanted(t) == (PairOk \/ Edge(fair, t) >= MinEdge) /\ Room(t) /\ Sized(Factor(t)) >= MinOrder
  IN  {Quote(t, Factor(t), Edge(fair, t)) : t \in {u \in Quotable : Wanted(u)}}

PastStop == now >= StopAfter

\* Bug: past `stop_after' the quoter falls silent, and its quotes stay.
BugStopped == Alive

\* Past `stop_after' everything is cancelled and nothing is quoted.
Stopped == {}

FairValueTick ==
  /\ strategy = "fair_value"
  /\ IF start = Unknown THEN resting' = Alive /\ UNCHANGED lastAt
     ELSE IF PastStop THEN resting' = Stopped /\ UNCHANGED lastAt
     ELSE IF TooEarly(lastAt["up"]) THEN resting' = Alive /\ UNCHANGED lastAt
     ELSE /\ \E fair \in PUp : Placed(Requoted, FairValueQuotes(fair))
          /\ lastAt' = [lastAt EXCEPT !["up"] = now]
  /\ UNCHANGED <<history, position, top>>

-----------------------------------------------------------------------------
(* TakerProbe. *)

Probed == {t \in Tokens : ~TooEarly(lastAt[t]) /\ top[t].ask # Unknown /\ Room(t)}

\* What is left of a book's best prices when a take has eaten from its asks.
Eaten(token) ==
  {[bid |-> top[token].bid, ask |-> higher] :
     higher \in {a \in {known.ask : known \in Tops} : a = Unknown \/ a >= top[token].ask}}

\* Each take fills what it finds; the probe has no orders that rest.
TakerProbeTick ==
  /\ strategy = "taker_probe"
  /\ \E found \in [Probed -> 0 .. Size] :
       /\ position' = [t \in Tokens |-> position[t] + IF t \in Probed THEN found[t] ELSE 0]
       /\ \E left \in [Probed -> UNION {Eaten(t) : t \in Probed}] :
            /\ \A t \in Probed : left[t] \in IF found[t] > 0 THEN Eaten(t) ELSE {top[t]}
            /\ top' = [t \in Tokens |-> IF t \in Probed THEN left[t] ELSE top[t]]
  /\ lastAt' = [t \in Tokens |-> IF t \in Probed THEN now ELSE lastAt[t]]
  /\ resting' = Alive /\ UNCHANGED history

-----------------------------------------------------------------------------
(* The runner between two turns of the strategy. *)

OnTick ==
  /\ phase = "tick" /\ phase' = "event"
  /\ TwoSidedTick \/ FairValueTick \/ TakerProbeTick
  /\ UNCHANGED <<strategy, printed, feed, now, events>>

Left(o, sold) == [o EXCEPT !.size = @ - sold]

\* Fills of what rests, whole or in part.
Filled(orders) ==
  \E sold \in [orders -> UNION {0 .. o.size : o \in orders}] :
    /\ \A o \in orders : sold[o] <= o.size
    /\ resting' = {Left(o, sold[o]) : o \in {r \in orders : sold[r] < r.size}}
    /\ position' = [t \in Tokens |->
         position[t] + SumFunctionOnSet(sold, {o \in orders : o.token = t})]

\* The clock is that of the events, which may go back.
Event ==
  /\ phase = "event" /\ events < MaxEvents
  /\ phase' = "tick" /\ events' = events + 1
  /\ \E step \in Steps : now' = now + step
  /\ UNCHANGED <<strategy, lastAt, history>>

\* A snapshot, or a change in place.
BookOf(token, new) ==
  Event /\ Filled(resting) /\ top' = [top EXCEPT ![token] = new] /\ UNCHANGED <<printed, feed>>

Book == \E token \in Tokens, new \in Tops : BookOf(token, new)

TradePrint == Event /\ Filled(resting) /\ UNCHANGED <<top, feed>>
                /\ \E token \in Tokens, price \in Prints : printed' = [printed EXCEPT ![token] = price]

\* Prices of the reference and of the spot market.
Price == Event /\ UNCHANGED <<top, printed, position, resting>>
           /\ ((\E price \in References : OnReference(now', price)) \/ OnSpot)

Dark == [bid |-> Unknown, ask |-> Unknown]

\* A gap: the runner cancels what rests, and no book is known any more.
Gap == Event /\ UNCHANGED <<printed, feed, position>>
         /\ resting' = {} /\ top' = [t \in Tokens |-> Dark]

Init ==
  /\ strategy \in Kinds
  /\ top \in [Tokens -> Tops] /\ SignalsInit
  /\ printed = [t \in Tokens |-> Unknown]
  /\ position = [t \in Tokens |-> 0] /\ resting = {} /\ now \in Begins
  /\ lastAt = [t \in Tokens |-> Unknown] /\ history = << >>
  /\ phase = "tick" /\ events = 0

Next == OnTick \/ Book \/ TradePrint \/ Price \/ Gap

Spec == Init /\ [][Next]_vars
-----------------------------------------------------------------------------
(* Properties. *)

LargestQuote ==
  CASE strategy = "two_sided"   -> Sized(One + MaxLean)
    [] strategy = "fair_value"  -> Sized(MaxRatio * One)
    [] OTHER                    -> Size

RestingOn(token) == {o \in resting : o.token = token}

(***************************************************************************)
(* `max_inventory' is looked at before a quote, not after: but however     *)
(* quotes are refused, filled in part and made anew, no more than one bid  *)
(* rests per token, and if all of it is filled the limit is passed by less *)
(* than one quote (strategy.py:122, 195 and 240).                          *)
(***************************************************************************)
InventoryBound ==
  \A t \in Tokens :
    /\ Cardinality(RestingOn(t)) <= 1
    /\ position[t] + SumFunctionOnSet([o \in resting |-> o.size], RestingOn(t))
         < MaxInventory + LargestQuote

(***************************************************************************)
(* "Both bids are placed only when the pair costs at most one dollar"      *)
(* (strategy.py:149) does not follow from the test of the pair alone,      *)
(* which two edges above min_edge pass by: it holds as long as no bid is   *)
(* above its token's reference price, as no bid of a two-sided book is.    *)
(***************************************************************************)
PairIsWorthIt ==
  strategy = "fair_value" =>
    \A a \in RestingOn("up"), b \in RestingOn("down") :
      a.price + b.price > One =>
        /\ a.lean >= MinEdge /\ b.lean >= MinEdge
        /\ a.price > a.ref \/ b.price > b.ref

Blind ==
  CASE strategy = "two_sided"   -> reference_price("up") = Unknown
    [] strategy = "fair_value"  -> start = Unknown
    [] OTHER                    -> FALSE

(***************************************************************************)
(* After its turn no quote of a strategy is as old as `requote_every', nor *)
(* is there any past `stop_after'; a strategy that cannot see leaves its   *)
(* quotes to their ttl.  The clock may go back.                            *)
(***************************************************************************)
NothingStale ==
  phase = "event" =>
    /\ \A o \in resting : now - o.made < IF Blind THEN Ttl ELSE RequoteEvery
    /\ strategy = "fair_value" /\ ~Blind /\ PastStop => resting = {}
=============================================================================
