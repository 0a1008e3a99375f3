------------------------------- MODULE Trading -------------------------------
(***************************************************************************)
(* One run of the paper-trading loop (src/paperfill/runner.py) with its    *)
(* portfolio (execution.py, class Portfolio) and its risk engine           *)
(* (risk.py).  The executor is taken at the level of what OrderLedger      *)
(* promises: which open orders an event fills, and how far, is left open,  *)
(* and so is what the strategy asks for.                                   *)
(*                                                                         *)
(* One iteration of the loop is the phases "event" (waiting for the next   *)
(* event), "fills", "lifecycle" (expiry), "breakers" and, unless the run   *)
(* halts, "tick", where the strategy's actions are carried out one by one. *)
(* Another process may raise the kill file between any two steps.          *)
(*                                                                         *)
(* Money is counted in units in which every mark is whole.                 *)
(***************************************************************************)
EXTENDS Integers, Sequences, Functions

CONSTANTS
  Yes, No,            \* MarketInfo.yes_token, no_token
  One,                \* the payout of a winning share
  Winner,             \* the token that pays One, or Unknown
  Unknown,            \* marks a value that is None in the code
  NoExpiry,           \* Order.expires_at = None
  Capital,            \* RunConfig.capital
  MaxOrderNotional, MaxPositionShares, MaxMarketNotional, MaxTotalExposure,
  DailyLossLimit, TotalLossLimit,       \* RiskLimits
  TakerFee(_, _),     \* FeeSchedule.taker_fee(shares, price)
  Quotes,             \* the Quote actions the strategy may ask for
  Takes,              \* its Take actions
  Trades,             \* the trades the tape may show
  Books,              \* the mids that the books of some tokens may show
  Times,              \* timestamps of events
  DayLength,          \* Times per UTC day
  MaxEvents,          \* bound on the events of one run
  MaxOrders           \* bound on the orders of one run

VARIABLES
  phase,              \* where the loop is
  touched,            \* the tokens whose orders the current event may fill
  orders,             \* PaperExecutor.orders; the id of an order is its index
  cash, position, realized,             \* Portfolio
  mids,               \* OrderBook.mid of the known books
  prints,             \* Runner.last_prices
  lastMarks,          \* Runner.last_marks
  judged,             \* marks in Runner._strategy: taken once per tick
  mode,               \* RiskEngine.mode
  halted,             \* Runner.halted: "no", or which kind of reason
  startEquity, dayEquity, day,          \* RiskEngine
  now,                \* Runner.now
  events,             \* Runner.events
  raised              \* Unknown, or the number of events when KILL appeared

portfolio == <<cash, position, realized>>
market    == <<mids, prints>>
breakers  == <<startEquity, dayEquity, day>>
vars == <<phase, touched, orders, portfolio, market, lastMarks, judged, mode,
          halted, breakers, now, events, raised>>

-----------------------------------------------------------------------------

Tokens == {Yes, No}
Quote  == [token : Tokens, side : {"BUY", "SELL"}, price : 1 .. One - 1,
           size : Nat \ {0}, ttl : (Nat \ {0}) \cup {NoExpiry}]
Take   == [token : Tokens, limit : 1 .. One - 1, size : Nat \ {0}]
Trade  == [token : Tokens, price : 0 .. One]
Mark   == Nat \cup {Unknown}
Status == {"open", "filled", "cancelled", "rejected", "expired"}
Order  == [token : Tokens, side : {"BUY", "SELL"}, price : 1 .. One - 1,
           size : Nat \ {0}, remaining : Nat, status : Status,
           expires : Nat \cup {NoExpiry}, event : Nat]

ASSUME TradingAssumption ==
  /\ Yes # No
  /\ One \in Nat /\ Capital \in Nat
  /\ Winner \in Tokens \cup {Unknown} /\ Unknown \notin Tokens
  /\ Unknown \notin Int /\ NoExpiry \notin Int
  /\ \A limit \in {MaxOrderNotional, MaxPositionShares, MaxMarketNotional,
                   MaxTotalExposure, DailyLossLimit, TotalLossLimit} : limit \in Nat
  /\ Quotes \subseteq Quote /\ Takes \subseteq Take
  /\ \A k \in Takes : \A n \in 1 .. k.size, p \in 1 .. k.limit : TakerFee(n, p) \in Nat
  /\ Trades \subseteq Trade /\ Times \subseteq Nat
  /\ \A shown \in Books : \E S \in SUBSET Tokens : shown \in [S -> (0 .. One) \cup {Unknown}]
  /\ DayLength \in Nat \ {0}
  /\ MaxEvents \in Nat /\ MaxOrders \in Nat

-----------------------------------------------------------------------------
(* Orders. *)

IsOpen(o) == o.status = "open"

Open == {i \in DOMAIN orders : IsOpen(orders[i])}

\* The open orders on the buying side of a set of tokens.
Bids(tokens) == {i \in Open : orders[i].side = "BUY" /\ orders[i].token \in tokens}

SharesOf(S) == SumFunctionOnSet([i \in DOMAIN orders |-> orders[i].remaining], S)

NotionalOf(S) ==
  SumFunctionOnSet([i \in DOMAIN orders |-> orders[i].price * orders[i].remaining], S)

\* Order o after a fill of n of its remaining shares.
Filled(o, n) ==
  [o EXCEPT !.remaining = @ - n, !.status = IF n = o.remaining THEN "filled" ELSE "open"]

\* Bug: cancelling does not look at the status.
BugClose(o) == [o EXCEPT !.status = "cancelled", !.remaining = 0]

Close(o) == IF IsOpen(o) THEN [o EXCEPT !.status = "cancelled", !.remaining = 0] ELSE o

\* Bug: an order still lives at the very time of its expiry.
BugLate(o) ==
  IF IsOpen(o) /\ o.expires # NoExpiry /\ o.expires < now
  THEN [o EXCEPT !.status = "expired"] ELSE o

Expired(o) ==
  IF IsOpen(o) /\ o.expires # NoExpiry /\ o.expires <= now
  THEN [o EXCEPT !.status = "expired"] ELSE o

-----------------------------------------------------------------------------
(* Portfolio. *)

\* The average cost of a share, rounded to the unit of account.
Average(p) == (2 * p.cost + p.size) \div (2 * p.size)

\* Bug: the fee of a purchase is paid but left out of the cost basis.
BugFeeForgotten(t, n, price, fee) ==
  /\ cash' = cash - (n * price + fee)
  /\ position' = [position EXCEPT ![t] = [size |-> @.size + n, cost |-> @.cost + n * price]]
  /\ UNCHANGED realized

\* Portfolio.apply of n shares bought: the fee becomes part of their cost.
Bought(t, n, price, fee) ==
  /\ cash' = cash - (n * price + fee)
  /\ position' = [position EXCEPT ![t] = [size |-> @.size + n, cost |-> @.cost + n * price + fee]]
  /\ UNCHANGED realized

\* Portfolio.apply of n held shares sold by a maker: no fee.
Sold(t, n, price) ==
  LET basis == Average(position[t]) * n
  IN  /\ cash' = cash + n * price
      /\ realized' = realized + n * price - basis
      /\ position' = [position EXCEPT ![t] = [size |-> @.size - n, cost |-> @.cost - basis]]

\* Portfolio.settle: held shares become their payout.
Value(t) == IF t = Winner THEN position[t].size * One ELSE 0

Gain(t) == IF position[t].size = 0 THEN 0 ELSE Value(t) - position[t].cost

Settle ==
  /\ cash' = cash + Value(Yes) + Value(No)
  /\ realized' = realized + Gain(Yes) + Gain(No)
  /\ position' = [t \in Tokens |-> IF position[t].size = 0 THEN position[t]
                                   ELSE [size |-> 0, cost |-> 0]]

-----------------------------------------------------------------------------
(* Marks and equity. *)

\* Runner.marks: the mid, else the last print, else the last mark.
Marks(books) ==
  [t \in Tokens |-> IF books[t] # Unknown THEN books[t]
                    ELSE IF prints[t] # Unknown THEN prints[t] ELSE lastMarks[t]]

CurrentMarks == Marks(mids)

\* What a token counts for; one that was never marked counts for nothing.
Worth(m, t) == IF m[t] = Unknown THEN 0 ELSE position[t].size * m[t]

Exposure(m) == Worth(m, Yes) + Worth(m, No)

Equity(m) == cash + Exposure(m)

-----------------------------------------------------------------------------
(* Events. *)

NextEvent(next) ==
  /\ phase = "event" /\ events < MaxEvents
  /\ phase' = next
  /\ events' = events + 1
  /\ UNCHANGED <<portfolio, lastMarks, judged, mode, halted, breakers, raised>>

OnPrint(trade, ts) ==
  /\ NextEvent("fills")
  /\ now' = IF events = 0 \/ ts > now THEN ts ELSE now
  /\ prints' = [prints EXCEPT ![trade.token] = trade.price]
  /\ touched' = {trade.token}
  /\ UNCHANGED <<orders, mids>>

\* A snapshot or change of the books of some tokens; a one-sided book has
\* no mid.
OnBooks(shown, ts) ==
  /\ NextEvent("fills")
  /\ now' = ts
  /\ mids' = [t \in Tokens |-> IF t \in DOMAIN shown THEN shown[t] ELSE mids[t]]
  /\ touched' = DOMAIN shown
  /\ UNCHANGED <<orders, prints>>

\* A gap in the stream: everything is cancelled and the books are unknown.
OnGap(ts) ==
  /\ NextEvent("lifecycle")
  /\ now' = ts
  /\ orders' = [i \in DOMAIN orders |-> Close(orders[i])]
  /\ mids' = [t \in Tokens |-> Unknown]
  /\ UNCHANGED <<prints, touched>>

\* A reference price: it only feeds the fair-value signal.
OnPrice(ts) ==
  /\ NextEvent("lifecycle")
  /\ now' = ts
  /\ UNCHANGED <<orders, market, touched>>

\* The executor reports n shares of resting order i filled.
Executed(i, n) ==
  /\ phase = "fills" /\ orders[i].token \in touched
  /\ orders' = [orders EXCEPT ![i] = Filled(@, n)]
  /\ UNCHANGED <<touched, market, judged, mode, halted, breakers, now, events, raised>>

\* Bug: the portfolio asks whether it holds the token, not how much of it.
BugOversold(i, n) == orders[i].side = "SELL" /\ position[orders[i].token].size = 0

Oversold(i, n) == orders[i].side = "SELL" /\ n > position[orders[i].token].size

\* _apply_fills: the portfolio takes the fill, and a mark is forced.
OnFill(i, n) ==
  /\ Executed(i, n) /\ ~Oversold(i, n)
  /\ IF orders[i].side = "BUY" THEN Bought(orders[i].token, n, orders[i].price, 0)
                               ELSE Sold(orders[i].token, n, orders[i].price)
  /\ lastMarks' = CurrentMarks
  /\ UNCHANGED phase

\* The portfolio raises an error when shares are sold that are not there,
\* and nothing catches it: the run ends on the spot.
OnOversold(i, n) ==
  /\ Executed(i, n) /\ Oversold(i, n)
  /\ phase' = "failed"
  /\ UNCHANGED <<portfolio, lastMarks>>

FillsDone ==
  /\ phase = "fills"
  /\ phase' = "lifecycle"
  /\ UNCHANGED <<touched, orders, portfolio, market, lastMarks, judged, mode, halted,
                 breakers, now, events, raised>>

-----------------------------------------------------------------------------
(* Expiry and breakers. *)

\* _lifecycle first expires what is due.
ExpireDue ==
  /\ phase = "lifecycle"
  /\ phase' = "breakers"
  /\ orders' = [i \in DOMAIN orders |-> Expired(orders[i])]
  /\ UNCHANGED <<touched, portfolio, market, lastMarks, judged, mode, halted,
                 breakers, now, events, raised>>

Today == now \div DayLength

\* The equity that today's loss is measured against (_roll_day).
DayBase(equity) == IF day = Today THEN dayEquity ELSE equity

\* RiskEngine.evaluate: the first evaluation only sets the baselines.
Verdict(equity) ==
  IF raised # Unknown THEN "kill"
  ELSE IF startEquity = Unknown THEN "no"
  ELSE IF \/ startEquity - equity >= TotalLossLimit
          \/ DayBase(equity) - equity >= DailyLossLimit THEN "loss" ELSE "no"

\* The evaluation also rolls the day, unless the kill file is there.
SetBaselines(equity) ==
  IF raised # Unknown THEN UNCHANGED breakers
  ELSE /\ day' = Today
       /\ dayEquity' = DayBase(equity)
       /\ startEquity' = IF startEquity = Unknown THEN equity ELSE startEquity

\* Bug: a halt leaves the orders that rest alone.
BugHaltOnly ==
  /\ halted' = Verdict(Equity(CurrentMarks))
  /\ mode' = "halted"
  /\ phase' = "closing"
  /\ UNCHANGED <<orders, judged>>

\* A verdict stops the loop and cancels everything.
Halt ==
  /\ halted' = Verdict(Equity(CurrentMarks))
  /\ mode' = "halted"
  /\ phase' = "closing"
  /\ orders' = [i \in DOMAIN orders |-> Close(orders[i])]
  /\ UNCHANGED judged

\* Otherwise it is the strategy's turn, if the engine is not paused.
Proceed ==
  /\ IF mode = "normal" THEN phase' = "tick"  /\ judged' = CurrentMarks
                        ELSE phase' = "event" /\ UNCHANGED judged
  /\ UNCHANGED <<orders, mode, halted>>

Evaluate ==
  /\ phase = "breakers"
  /\ SetBaselines(Equity(CurrentMarks))
  /\ lastMarks' = CurrentMarks
  /\ IF Verdict(Equity(CurrentMarks)) = "no" THEN Proceed ELSE Halt
  /\ UNCHANGED <<touched, portfolio, market, now, events, raised>>

-----------------------------------------------------------------------------
(* The strategy's turn. *)

\* Bug: resting bids do not count towards the position.
BugWithinPosition(t, size) == position[t].size + size <= MaxPositionShares

WithinPosition(t, size) ==
  position[t].size + SharesOf(Bids({t})) + size <= MaxPositionShares

WithinMarket(t, notional) ==
  position[Yes].cost + position[No].cost + NotionalOf(Bids(Tokens)) + notional
    <= MaxMarketNotional

\* RiskEngine.check: resting orders count as if they were filled.
Allowed(t, side, price, size) ==
  /\ mode = "normal"
  /\ price * size <= MaxOrderNotional
  /\ side = "BUY" => /\ WithinPosition(t, size)
                     /\ WithinMarket(t, price * size)
                     /\ Exposure(judged) + NotionalOf(Open) + price * size <= MaxTotalExposure
  /\ side = "SELL" => size <= position[t].size

\* A new order with what remains of it and its status when submit returns.
Submitted(t, side, price, size, expires, remaining, status) ==
  /\ phase = "tick" /\ Len(orders) < MaxOrders
  /\ Allowed(t, side, price, size)
  /\ orders' = Append(orders, [token |-> t, side |-> side, price |-> price, size |-> size,
                               remaining |-> remaining, status |-> status,
                               expires |-> expires, event |-> events])
  /\ UNCHANGED <<phase, touched, prints, judged, mode, halted, breakers, now, events, raised>>

\* _quote: post-only, so that the order rests or is rejected.
OnQuote(q) ==
  /\ LET expires == IF q.ttl = NoExpiry THEN NoExpiry ELSE now + q.ttl
     IN  \/ Submitted(q.token, q.side, q.price, q.size, expires, q.size, "open")
         \/ Submitted(q.token, q.side, q.price, q.size, expires, 0, "rejected")
  /\ UNCHANGED <<portfolio, mids, lastMarks>>

\* Taking the best asks moves a mid up, or leaves the book without one.
MidsAfterTake(t) == IF mids[t] = Unknown THEN {Unknown} ELSE (mids[t] .. One) \cup {Unknown}

\* _take: fill and kill; what is filled, at most at the limit, costs a fee,
\* and is gone from the book.
OnTake(k) ==
  \/ /\ \/ Submitted(k.token, "BUY", k.limit, k.size, NoExpiry, 0, "rejected")
        \/ Submitted(k.token, "BUY", k.limit, k.size, NoExpiry, 0, "cancelled")
     /\ UNCHANGED <<portfolio, mids, lastMarks>>
  \/ \E n \in 1 .. k.size, price \in 1 .. k.limit, mid \in MidsAfterTake(k.token) :
       /\ Submitted(k.token, "BUY", k.limit, k.size, NoExpiry, 0,
                    IF n = k.size THEN "filled" ELSE "cancelled")
       /\ Bought(k.token, n, price, TakerFee(n, price))
       /\ mids' = [mids EXCEPT ![k.token] = mid]
       /\ lastMarks' = Marks(mids')

OnCancel(i) ==
  /\ phase = "tick"
  /\ orders' = [orders EXCEPT ![i] = Close(@)]
  /\ UNCHANGED <<phase, touched, portfolio, market, lastMarks, judged, mode, halted,
                 breakers, now, events, raised>>

TickDone ==
  /\ phase = "tick"
  /\ phase' = "event"
  /\ UNCHANGED <<touched, orders, portfolio, market, lastMarks, judged, mode, halted,
                 breakers, now, events, raised>>

-----------------------------------------------------------------------------
(* The end of the run, and what comes from outside. *)

\* A run that was killed keeps its positions, to be resumed later.
Settles == Winner # Unknown /\ halted # "kill"

\* Bug: orders that still rest at the end are left alone.
BugFinish ==
  /\ phase = "closing" \/ phase = "event"
  /\ IF Settles THEN Settle ELSE UNCHANGED portfolio
  /\ lastMarks' = CurrentMarks
  /\ phase' = "ended"
  /\ UNCHANGED <<touched, orders, market, judged, mode, halted, breakers, now, events, raised>>

\* The tape is over, or the run halted: everything is cancelled, and what is
\* held is settled.
Finish ==
  /\ phase = "closing" \/ phase = "event"
  /\ orders' = [i \in DOMAIN orders |-> Close(orders[i])]
  /\ IF Settles THEN Settle ELSE UNCHANGED portfolio
  /\ lastMarks' = CurrentMarks
  /\ phase' = "ended"
  /\ UNCHANGED <<touched, market, judged, mode, halted, breakers, now, events, raised>>

\* `paperfill kill`, or the dashboard, creates the kill file.
RaiseKill ==
  /\ raised = Unknown
  /\ raised' = events
  /\ UNCHANGED <<phase, touched, orders, portfolio, market, lastMarks, judged, mode,
                 halted, breakers, now, events>>

\* RiskEngine.pause and resume, for the program that embeds the runner.
Pause ==
  /\ phase = "event" /\ mode = "normal"
  /\ mode' = "paused"
  /\ UNCHANGED <<phase, touched, orders, portfolio, market, lastMarks, judged, halted,
                 breakers, now, events, raised>>

Resume ==
  /\ phase = "event" /\ mode = "paused"
  /\ mode' = "normal"
  /\ UNCHANGED <<phase, touched, orders, portfolio, market, lastMarks, judged, halted,
                 breakers, now, events, raised>>

-----------------------------------------------------------------------------

Init ==
  /\ phase = "event" /\ touched = {} /\ orders = << >>
  /\ cash = Capital /\ realized = 0
  /\ position = [t \in Tokens |-> [size |-> 0, cost |-> 0]]
  /\ mids = [t \in Tokens |-> Unknown]
  /\ prints = [t \in Tokens |-> Unknown]
  /\ lastMarks = [t \in Tokens |-> Unknown]
  /\ judged = [t \in Tokens |-> Unknown]
  /\ mode = "normal" /\ halted = "no"
  /\ startEquity = Unknown /\ dayEquity = Unknown /\ day = Unknown
  /\ now \in Times
  /\ events = 0
  /\ raised = Unknown

OnEvent ==
  \E ts \in Times :
    \/ \E trade \in Trades : OnPrint(trade, ts)
    \/ \E shown \in Books : OnBooks(shown, ts)
    \/ OnGap(ts)
    \/ OnPrice(ts)

Fills ==
  \/ \E i \in Open : \E n \in 1 .. orders[i].remaining : OnFill(i, n) \/ OnOversold(i, n)
  \/ FillsDone

Tick ==
  \/ \E q \in Quotes : OnQuote(q)
  \/ \E k \in Takes : OnTake(k)
  \/ \E i \in DOMAIN orders : OnCancel(i)
  \/ TickDone

Loop == OnEvent \/ Fills \/ ExpireDue \/ Evaluate \/ Tick \/ Finish

Next == Loop \/ RaiseKill \/ Pause \/ Resume

Spec == Init /\ [][Next]_vars

\* The loop never waits for anybody: it is a plain function over a tape.
FairSpec == Spec /\ WF_vars(Loop)
-----------------------------------------------------------------------------
(* Properties. *)

TypeOK ==
  /\ phase \in {"event", "fills", "lifecycle", "breakers", "tick", "closing", "ended", "failed"}
  /\ touched \subseteq Tokens
  /\ orders \in Seq(Order)
  /\ cash \in Int /\ realized \in Int
  /\ position \in [Tokens -> [size : Nat, cost : Int]]
  /\ mids \in [Tokens -> Mark] /\ prints \in [Tokens -> Mark]
  /\ lastMarks \in [Tokens -> Mark] /\ judged \in [Tokens -> Mark]
  /\ mode \in {"normal", "paused", "halted"}
  /\ halted \in {"no", "kill", "loss"}
  /\ startEquity \in Int \cup {Unknown} /\ dayEquity \in Int \cup {Unknown}
  /\ day \in Nat \cup {Unknown}
  /\ now \in Times
  /\ events \in 0 .. MaxEvents
  /\ raised \in (0 .. MaxEvents) \cup {Unknown}

(***************************************************************************)
(* The limits bind whatever is filled later: shares held and shares that   *)
(* resting bids may still bring never exceed the position limit together.  *)
(* The cost basis, together with what resting bids may still add to it,    *)
(* exceeds max_market_notional (risk.py:39) by no more than one fee: the   *)
(* check leaves out the fee of the order it lets through.  Once shares are *)
(* sold there is also the rounding of their average cost, of half a unit   *)
(* at most for each share that a sell order no longer offers.              *)
(***************************************************************************)
Fees == {0} \cup UNION {{TakerFee(n, p) : n \in 1 .. k.size, p \in 1 .. k.limit} : k \in Takes}

Shed(t) ==
  SumFunctionOnSet([i \in DOMAIN orders |-> orders[i].size - orders[i].remaining],
                   {i \in DOMAIN orders : orders[i].side = "SELL" /\ orders[i].token = t})

LimitsBind ==
  /\ \A t \in Tokens : position[t].size + SharesOf(Bids({t})) <= MaxPositionShares
  /\ \E fee \in Fees :
       2 * (position[Yes].cost + position[No].cost + NotionalOf(Bids(Tokens)))
         <= 2 * (MaxMarketNotional + fee) + Shed(Yes) + Shed(No)

(***************************************************************************)
(* The books of the portfolio balance: what was spent is in the cost of    *)
(* the positions or was realised, through fills, fees and settlement.      *)
(***************************************************************************)
BooksBalance == cash + position[Yes].cost + position[No].cost = Capital + realized

(***************************************************************************)
(* From the moment the engine halts no order is open, and none comes.      *)
(***************************************************************************)
HaltedIsFlat == mode = "halted" => Open = {}

(***************************************************************************)
(* "The next event halts the run" (README.md:56): no order is submitted in *)
(* an event that arrives after the kill file, and a run that saw such an   *)
(* event does not end as if nothing had happened.                          *)
(***************************************************************************)
KillObeyed ==
  raised # Unknown =>
    /\ \A i \in DOMAIN orders : orders[i].event <= raised
    /\ phase = "ended" /\ events > raised => halted # "no"

(***************************************************************************)
(* A run that ended with a known outcome counts it, even when a breaker    *)
(* stopped it; only what the kill switch stopped stays in position.        *)
(***************************************************************************)
OutcomeCounts ==
  phase = "ended" /\ Winner # Unknown =>
    \/ halted = "kill" /\ raised # Unknown
    \/ \A t \in Tokens : position[t].size = 0

(***************************************************************************)
(* What stops a run stops all of it: nothing stays open, nothing is traded *)
(* after the kill file was seen, and what was won or lost is counted.      *)
(***************************************************************************)
StopObeyed == HaltedIsFlat /\ KillObeyed /\ OutcomeCounts

(***************************************************************************)
(* An event may still fill an order that it finds past its expiry, but no  *)
(* later one may: between events no open order is due.                     *)
(***************************************************************************)
NothingOverdue ==
  phase = "event" =>
    \A i \in Open : orders[i].expires # NoExpiry => orders[i].expires > now

(***************************************************************************)
(* The portfolio is long-only (docs/en/design.md:16) and the risk engine   *)
(* keeps it so: Portfolio.apply never has to refuse a fill.                *)
(***************************************************************************)
NeverOversold == phase # "failed"

(***************************************************************************)
(* Every run comes to an end with every order closed: filled, expired,     *)
(* cancelled at a halt or at the end of the tape; or it dies of a sale.    *)
(***************************************************************************)
EveryOrderCloses == <>(phase = "failed" \/ (phase = "ended" /\ Open = {}))

Ledger ==
  INSTANCE OrderLedger WITH
    ledger <- [i \in DOMAIN orders |-> [size      |-> orders[i].size,
                                        remaining |-> orders[i].remaining,
                                        status    |-> orders[i].status]]

(***************************************************************************)
(* The loop, its breakers and the strategy treat orders as the executor    *)
(* promises: a closed order is final whatever closed it, be it a fill, the *)
(* strategy, a gap, its expiry, a halt or the end of the tape.             *)
(***************************************************************************)
ImplementsLedger == Ledger!Spec
=============================================================================
