# A TLA+ model of paperfill

`paperfill` trades prediction-market outcome tokens on paper: it records the public
market stream or fetches a trade history, replays it through a local executor that
decides which of the strategy's orders would have been filled, keeps a portfolio under a
risk engine, writes every decision to a hash-chained journal and can resume a halted run
from that journal. Nothing is ever sent to an exchange. This directory holds TLA+
modules that model the program, TLC configurations that check them on small instances,
and proofs that TLAPS checks for all values of the constants.

## The system

| component (source) | state | operations | talks to |
|---|---|---|---|
| Order book (`book.py`) | bids, asks: price -> size; tick, minimum size | `from_snapshot`, `apply_price_change` | owned by the executor, read by strategies |
| Paper executor (`execution.py`) | books, orders, market parameters | `on_book`, `on_trade_print`, `expire`, `submit`, `cancel`, `cancel_all` | called by the runner; returns fills |
| Portfolio (`execution.py`) | cash, positions (size, cost), realised P&L, fees | `apply`, `settle` | fed by the runner, read by the risk engine |
| Risk engine (`risk.py`) | mode, start-of-run and start-of-day equity | `evaluate`, `check`, `pause`, `resume` | reads the portfolio and a kill *file* that other processes create |
| Runner (`runner.py`) | clock, last prices and marks, halt reason, resume point | one loop: event, expiry and breakers, strategy, mark | owns all of the above, appends to the journal |
| Journal (`journal.py`) | entries, head hash | `open`, `record`, `verify` | the only persistent state of a run |
| Recorder (`recorder.py`) | connection, back-off, stop flag | `run_recorder`, `record_market` | stream -> recording file with gap records |
| History (`history.py`) | pages, cursors, cache file | `fetch_trades`, `save_trades`, `load_trades` | trade API -> cache -> replay |
| Collector (`collect.py`) | clock, STOP file | `next_plan`, `collect` | one recording per window, through `record_market` |
| Strategies (`strategy.py`) | quote timers, price history | `on_tick` | called by the runner once per event |
| Fair value (`signals.py`) | start and reference price, volatility | `on_reference`, `on_spot`, `p_up` | fed by the runner or by calibration, read by a strategy |
| Fees (`fees.py`) | none | `taker_fee`, `maker_fee`, `maker_rebate_estimate` | executor, pair scan |
| Pair scan, calibration (`pairs.py`, `calibration.py`) | accumulators of one pass | `scan_recording`, `sample_window` | recordings |
| Batch, sweep (`batch.py`, `sweep.py`) | none | one run per recording | recordings, runner |
| Report, dashboard, MCP server, CLI | none of their own | read journals; raise the kill file | journal, run directory |

The program runs one thread (the recorder: a few asyncio tasks). What makes it hard is
not parallelism but long sequences: a resting order meets snapshots, changes, prints,
takers, gaps, expiry and cancellation in any order; the clock is the event's and may go
back; an operator raises the kill file between any two steps; a run halts or crashes
anywhere and is rebuilt from its journal; a stream ends, fails or falls silent. The
hazards are listed with their lines in `PROJECT.json`.

What makes each component correct:

- executor: an order's shares are accounted for; fills are backed by market volume, come
  once per crossing, after the queue and in time priority; a closed order is final;
  FAK/FOK/post-only keep their meaning; a taker walks the book from its best price.
- portfolio: cash, cost basis and realised P&L balance; nothing is sold short.
- risk engine and runner: limits bind whatever fills; after a halt nothing is submitted
  and nothing rests; a kill file stops the run.
- resume: every event counts once; the rebuilt portfolio is the one the journal records.
- journal: a chain that verifies is one history, and damage is found where it is.
- recorder: no event follows an outage without a gap record, one stop record ends a
  recording, and a recording ends when its time is up.
- history: a walk skips nothing and repeats nothing; a cache that loads is whole.
- collector: consecutive windows, each beyond its end, until the deadline or STOP.
- strategies: inventory stays near its limit, no quote outlives its round.
- fees, pair scan, calibration, report: figures are those of the events they stand for.

## Modules

| module | role |
|---|---|
| `OrderLedger` | abstract specification: what the life of an order looks like from outside |
| `Execution` | the paper executor over the local books; implements `OrderLedger` |
| `Trading` | one run of the loop: runner, portfolio, risk engine, kill file; implements `OrderLedger` |
| `Recovery` | a run that is killed or crashes, again and again, and is resumed from its journal |
| `Report` | what the report and the dashboard make of that journal, at any moment |
| `Journal` | the journal file: the chain, the processes that append to it, damage, `verify` |
| `Recorder` | a recording: connections, gaps, back-off, cap, timer, cancellation |
| `Collector` | the two programs that record, around `Recorder`, with a clock |
| `TradeHistory` | walks over the trade API and the cache file that two programs share |
| `Signals` | when a fair value is known, and what it may be |
| `Strategies` | the three strategies between the events of a run |
| `Calibration` | sampling of the signal over the same events |
| `Fees` | fees and rebates, rounded |
| `PairScan` | the scan of a recording for pairs below a dollar |
| `MC...` | the small instances of each module for TLC |
| `Execution_proofs`, `Trading_proofs`, `Recovery_proofs`, `Files_proofs`, `Recorder_proofs`, `PairScan_proofs`, `Strategies_proofs` | the theorems, checked by TLAPS; those of `Report`, `Collector`, `Fees` and `Calibration` are with the module that they extend or that extends them; `Files_proofs` is about `TradeHistory` and `Journal` |
| `Sums` | lemmas on finite sets and on sums over them, for the proofs |

`OrderLedger` joins the two halves of a run: `Execution` is shown to implement it, and
`Trading` uses orders the way it allows. What the executor decides, namely which open
order an event fills and how far, is left open in `Trading`; what the strategy and the
risk engine decide is left open in `Execution`. `Recovery` takes a run as a sequence of
events, fills and marks and asks what survives of it, `Report` extends it with what is
read from the result; `Journal` is the file it survives in. `Recorder`, which `Collector`
extends, and `TradeHistory` are the two sources of the tape. `Strategies` is what `Trading`
leaves open: the actions of a tick. It and `Calibration`, which extends it, read one feed,
`Signals`; `PairScan` extends `Fees`.

`Bug...` definitions next to an operator are the mistakes that the properties are tested
against: each is a plausible wrong version of the operator that follows it, and no
action uses one.

### Execution

State: `books`, `orders` and `params` are the executor's attributes (an order's id is its
index), `now` is what its clock returns, `tally` is a history variable that counts, for
each order, the shares it took, the shares it made, and the market volume that reached
its price while it rested. Each public method of `PaperExecutor` is one action, `OnBook`,
`OnTradePrint`, `Submit`, `Cancel`, `CancelAll`, `Expire`; three more actions are what
the runner does to the executor from outside: `OnPriceChange` (a change in place followed
by `on_book`), `DropBooks` (after a gap) and `SetClock` (the clock is the latest
event's). They may come in any order, with any arguments from the sets of the instance.

- Prices are whole ticks between 1 and `One - 1`; sizes are natural numbers. A level of
  size 0 is a price missing from the dict.
- The loops that hand out an amount first come, first served, over the open orders in
  `on_trade_print` and over the levels in `submit`, are one operator, `Shares`: the set
  holding the only allocation that gives nobody more than it wants, nobody anything
  before those ahead of it are satisfied, and leaves nothing over while anybody lacks
  something.
- Matching of an order against a book needs no other order (the code offers each order
  the whole best level), so `OnBook` applies `Matched` to each.
- `expire` does not reset `remaining` while `cancel` does: the model keeps that.
- Left out: fill prices, fees and rebates (they change no state of the executor),
  reasons, timestamps of fills.

### Trading

State: `orders`, `cash`, `position`, `realized`, `mode`, `startEquity`, `dayEquity`,
`day`, `halted`, `now`, `events`, `prints` and `lastMarks` are attributes of the code's
objects; `mids` is what the known books show; `judged` is the local variable `marks` of
`Runner._strategy`, taken once per tick; `touched` is the set of tokens the current event
may fill; `raised` says when the kill file appeared. `phase` is where `Runner.run`
stands:

| phase | code | actions |
|---|---|---|
| `event` | the `for` of `run` | `OnPrint`, `OnBooks`, `OnGap`, `OnPrice` (`_handle`), `Finish` when the tape ends, `Pause`, `Resume` |
| `fills` | `_apply_fills` | `OnFill`, `OnOversold` (the `ValueError` of `Portfolio.apply`), `FillsDone` |
| `lifecycle` | `_lifecycle`, first half | `ExpireDue` |
| `breakers` | `_lifecycle`, second half | `Evaluate`: roll the day, compare equity with the baselines, `Halt` or `Proceed` |
| `tick` | `_strategy` | `OnQuote`, `OnTake`, `OnCancel`, `TickDone` |
| `closing` | after the `break` | `Finish`: cancel, settle, last mark |
| `ended`, `failed` | the run returned, or raised | none |

`RaiseKill` is another process (`paperfill kill`, the dashboard) and happens between any
two steps. `Pause` and `Resume` are for a program that embeds the runner.

- Prices and money are whole numbers in a unit in which every mark is whole; the average
  cost, a quotient rounded at 28 digits in the code, is rounded to that unit, so that the
  residue of selling in parts does occur. The rounding of cash to a millionth is left out:
  a balance means a balance up to that rounding.
- A fill of a resting order costs no fee (a maker's fee is zero in the code); a take is
  filled at one price, at or below its limit, where the code may fill it at several.
- A refused action (`risk_block`) changes nothing and is not a step.
- Left out: journal records, the timer of `_mark` (marks are a function of the books and
  prints), the fair-value signal, `fees_paid` (part of `Recovery`) and
  `rebates_estimated`.

### Recovery and Report

State: `entries`, `torn` and `raised` are on disk (the journal, whether its last line is
cut off, the kill file); `next`, `submitted`, `portfolio`, `worth`, `events`, `now`,
`lastMark`, `resumeAfter`, `baseline` and `halted` are the attributes of `Runner`,
`PaperExecutor`, `Portfolio` and `RiskEngine` that `_rebuild` has to bring back or that
start anew; the rest is history for the properties. `Begin` starts a run, `Resume` is
`cli.py`'s check of the journal with `_rebuild`; `Skip`, `Handle`, `Apply`, `RecordFill`,
`ForceMark`, `Submit`, `Evaluate`, `HaltRun` and `TickDone` are the steps of the loop
between two writes to the journal; `SettleRun`, `LastMark` and `EndRun` are the end.
`Crash` may come between any two of them, `RaiseKill` and `RemoveKill` are the operator.

- One token is traded at the price 1, a fill buys one share, an order gets one fill. What
  matters is which fills are recorded, with which fee and for which order id, and what
  mark the shares have. Order ids start at 1 in every process, as they do in the code.
- `Verdict` is what `RiskEngine.evaluate` finds: the kill file first, then a loss against
  the start of the run or of the day (`Lost`); the equity at the start of a day is any of a
  few values, for how days roll is part of `Trading`. Both halts end the loop, and
  differ at the end: what the kill switch stopped keeps its positions and may be resumed;
  what a loss breaker stopped is settled, if payouts are known, like a run that came to the
  end of its tape, and is then final. Without payouts it may be resumed like the other.
- Entries that neither `_rebuild` nor the report's totals read are left out.
- A crash may cut off the last line of the journal. Such a journal is never resumed: the
  reader raises on it.
- `Report` has no state: totals, drawdown, mismatches, buckets and the dashboard's state
  are functions of `entries`, checked in every state of `Recovery`.

### Journal

State: `file` and `torn` are the file; `open`, `entries` and `head` are the `Journal`
objects of the processes; `shared`, `damages`, `spot` and `lines` are history. `Open`
reads, verifies and takes over the file; nothing in the code keeps a second process out,
and `cli.py` resumes a run without asking whether it still runs. `Record` appends what
follows from the process's own memory. `Edit`, `Delete` and `Tear` happen to the file.

- A hash stands for its content: `EntryHash` is injective, being the sequence of what was
  hashed. Kind, data and timestamp of an entry are one value, its `kind`.
- `Delete` spares the last line: nothing tells that it was there, as
  `tests/test_journal.py:53` says. A line is edited in what it says.
- A line is written in one step or torn by a crash; a reader that meets a line which is
  still being written is not modelled (it fails as on a torn line). `file` holds the whole
  lines. Nobody opens a torn journal again and `verify` raises on it, so that what is said
  of such a journal is said of the lines before the one that is cut off.

### Recorder

State: `sink` is the recording; `phase` is what the task of `run_recorder` awaits;
`stop`, `connection`, `delivered`, `failures`, `written` are its variables; `open` are the
connections whose client was not yet asked to close; `timer` and `caller` are
`record_market`'s other tasks. The tasks share a thread: a step reaches from one `await`
to the next. `Connect`, `ConnectFails`, `Deliver`, `Ends`, `Fails` are what the network
may do; `Close` and `Wake` are the rest of the loop; `TimerDone`, `FirstDone`,
`RecorderDone` and `GraceOver` are `record_market`.

- The cap is counted in records, not in bytes. `max_events`, which the program never
  passes, and the contents of records are left out.
- An attempt that fails is taken to fail after `subscribe` has made its handle; before
  that the code has no client to close.

### Collector

State: that of `Recorder`, and `stage` (where `collect` is: looking at clock and STOP
file, listing markets, sleeping, recording), `now` (a clock), `since`, `window`,
`seconds`, `fired` (when things began or are due), `stopFile` and `taken`, the history of
recordings. The actions of `Recorder` happen while `stage` is "recording", timers when
they are due; `Anew` starts the next one. With `program` "record" there is one recording,
with a cap, for `--seconds`.

- Time passes only while nobody is due (`Due`): callers are taken to be quick against
  seconds. What the recorder's own task does may be late.
- Windows have one length and follow each other; `CollectorAssumption` says what the
  program's numbers (60 s of lead, 30 s, 5 s, windows of 300 s) give: a listing that takes
  205 s is still in time.
- A listing may fail; `collect` does not catch it and ends.
- Windows are all those from a first to a last one, and a recording begins before its
  window does (`CollectorAssumption`): with a window missing in the middle, or with no
  lead, recordings would not be of consecutive windows. The code plans with both.

### TradeHistory

State: `market` is the trades there are, by their timestamps, and grows; a trade is named
by its place in it. For each program `phase`, `cursor`, `raw`, `seen` and `trades` are
the variables of `fetch_trades`; `tmp` and `path` are the temporary file and the cache
file, shared; `handle`, `width` and `at` say which file a program writes to, how long its
header is and how far it is; `ragged` says whether headers of different lengths met.
`Page`, `RateLimited` and `GiveUp` are the loop of `fetch_trades`; `OpenTmp`, `Write`
and `Replace` are `save_trades`; `Begin` is the choice between cache (`Load`) and walk
that the command line and the MCP server make alike.

- The API is external: pages from the newest trade to the oldest by a keyset cursor. A
  server at fault may name an earlier cursor again.
- A file is a sequence of pieces of lines: two of each row, which is as long whoever writes
  it, and as many of the header as one of `HeaderLens`, for its length depends on the digits
  of the count and of the time. Every writer has an offset of its own, and a full buffer
  may end in the middle of a line (the first one holds all of the header). Opening the
  temporary file empties it for whoever writes to it; replacing the cache file moves the
  other writer's handle along with it. Where nobody wrote, the file has a `Hole`, which
  cannot be read.
- Writers with headers of one length put equal rows in equal places. With headers of
  different lengths one's rows begin in the middle of the other's, and a line may be made
  of two: it may be no JSON, or say what nobody wrote, with a count that fits. The model
  lets such a file fail to load or load as anything (`Garbled`), and `LoadedIsWhole`
  promises nothing of it; what it does promise is that this is the only way to load
  anything but the result of a complete walk.
- A rate limit changes nothing but the number of attempts, which the code does not bound.
- Reading the cache is one step. `replay` sorts what `_normalise` has sorted already.

### Strategies, Signals and Calibration

State: `top`, `printed`, `position`, `resting`, `now` are what `Context` shows; `lastAt`
and `history` are the strategy's own; `start` and `reference` are `FairValue`'s; `phase`
alternates between an event (`Book`, `TradePrint`, `Price`, `Gap`) and the strategy's turn
(`OnTick`, one disjunct per strategy). `Calibration` adds `pending`, `mid` and `samples`
of `sample_window`, which reads the same events instead of a strategy.

- Prices, edges, leans and factors are whole numbers of parts of a dollar, so fine that
  mids and blends with them are whole; sizes are counted in hundredths of a share.
- Fills come from outside, for any orders and in any part; risk engine and executor may
  refuse any quote (`Placed`); a take may find less than it asks for.
- `p_up` is any of a few probabilities on the right side of one half: the distance
  depends on volatility, which floating-point statistics of spot prices give.
- The clock is the events', counted from the start of the window, and may go back.
- `quote_ttl` and `requote_every` are positive numbers, the first no less than the second
  (15 s and 5 s in the code). Without a ttl, or with a round at every event, both of which
  tests use, quotes live until the next round, and `NothingStale` has nothing to say.
- A strategy that does not see what it quotes by leaves its quotes to their ttl (`Blind`).
  Only the two-sided quoter can lose sight: `p_up` is known for good once it is known, so
  that the fair-value quoter is blind only before it ever quoted.

### Fees and PairScan

`Fees` counts prices in ticks and fees in units of the fifth decimal; rates are fractions.
The exponent of the curve is any: where it is not 1, `Raised` is a table of what `Decimal`
makes of the power, exact or not. Products and quotients are exact, as they are in the code
up to `Decimal`'s 28 digits.

`PairScan`'s `asks`, `scan`, `in_episode`, `episode_started` are the variables of
`scan_recording`; `history`, `known`, `profitableFor`, `straight` and `blind` are history:
what was sampled, which books are really known, and for how long the pair was in fact
profitable. A change may touch one level of one or of both books. The code passes over
every other event: `Other` (a print, a price) leaves the books what they are, while after
a `Gap` nobody knows them, though the scan goes on with what it has.

## Runs

| run | question | bounds |
|---|---|---|
| `resting` | do books, changes, gaps and prints fill two resting orders only once per crossing, only after the queue, older orders first, and only with volume that came? does every order live as `OrderLedger` says? | 2 orders of size 2 at two prices and on both sides, 2 snapshots, a level appearing and disappearing in place, prints at and through, a clock 0..1 that moves both ways, expiry at 1 |
| `taking` | is every open order a valid one? do FAK, FOK, post-only and marketable GTC orders do what their types say, without the queue model? | 2 orders, books of two levels, sizes below, at and above the depth, two tick sizes and minimum sizes, a print |
| `loop` | do money, limits, halts, the kill file, expiry, settlement and the closing of orders come out right together? does the loop use orders as `OrderLedger` says? | 2 events, 3 orders, takes with a fee of 1, an average cost that is not whole, sales in parts, bids that exceed the limits together, clock 0..1 with a new day at 1, loss limits a few units away, a winning outcome |
| `crashes` | is the rebuilt portfolio the recorded one, progress exact, no event lost, none handled again but after a crash, nothing traded after a settlement? does it come to its end? do halts alone change nothing? do report and dashboard tell the truth? | 3 events of every kind at different times, marks that rise and fall, 1 crash anywhere, 1 kill, 3 resumes after loss breakers, a total and a daily loss limit of 1 and 2, 2 equities at the start of the day, 2 fills with and without fee, 2 leans, payout 0 or unknown, a mark every 2 seconds |
| `recording` | does every outage leave a gap, is one stop record last, do the delays double and start anew, does the cap bind, is every client asked to close? are windows consecutive, is STOP heard, do both programs end? | 4 connections, 8 records, delays 2, 4, 5 (the maximum); 3 windows of 5, a listing of up to 1, deadline 18, starting anywhere in the first window |
| `journal` | does what one writer at a time leaves verify, is damage found where it is, do two histories ever verify as one? | 2 processes, 5 lines of two kinds, 1 damaged line |
| `history` | is a walk whole and bounded, is a loaded cache whole, can the cache get worse? | 2 programs, 2 walks, up to 5 trades in 2 seconds, pages of 2, at most 2 pages, headers of length 1 and 2 |
| `pairs` | are the scan's figures those of its samples, are its profits real, is its time the book's? | 5 events, passed-over ones with and without a gap, two levels of sizes 0 and 3, clock 0..2 both ways, an exponent of 2 and fees that round |
| `strategies` | how far may inventory pass its limit, may a pair cost more than a dollar, can a quote be stale? does calibration sample every offset in time? | 3 strategies and calibration, 3 events, 3 tops of book per token (two-sided, off the tick, without asks), 2 prints, 2 references, starting before and at the window's start, clock by -1 and 2 |
| `short` | does the portfolio never have to refuse a sale? violated | 3 events, 3 orders, a purchase and two sales |
| `same_second` | is every event handled exactly once, halts and resumes included? violated | 3 trades, two of them in one second, 1 kill |
| `forever` | without `--seconds`, does a recording run until it is stopped? violated | 2 connections |

The instances of `Execution` have one token (orders of different tokens never meet in the
executor), prices 1..3 and two orders: a crossing needs one price beside the order's own
on each side, priority and overselling need two claimants, and every history that matters
(cross, un-cross, cross again; queue, shrink, print) fits the reachable graph because
nothing but the number of orders is bounded. `Instant` freezes the clock where time plays
no part. Deadlock is checked for `Execution`, which can always act.

The instances of `Trading` have both tokens of a market, prices 1..3, and as many events
as the question needs: an order is submitted in one, filled in the next, and its
consequences are judged at the following breakers or at the end. One crash with one
kill and three loss halts crashes a first run, a resumed one, and one that is resumed again
after the crash; a loss breaker may halt a run that cannot be settled after every event. A
recording needs three connections for the delays to reach their maximum after a
connection that delivered something, and the cap is in reach of outages and events alike.
Two processes are enough to share a file; five lines hold two entries before a damage and
two after it. Five trades in pages of two are one page beyond the bound of two, and leave a page
that is not full; two programs with two walks may save at once, one after the other, or
one after the other has died and left its temporary file, with headers of one length or
of two.
Five events begin an episode, change it, blind it by a gap or an empty side, end it and
begin another. Three events give a strategy four turns: quote, fill in part, requote, fill
again; the two prints that let both edges of an expensive pair pass, with the reference
that makes a fair value known; and an offset passed by one event together with the next.

Runs, recordings, walks and bounded journals end, so that the configurations of all
modules but `Execution` switch deadlock checking off; that they do not stop before they
should is `EveryOrderCloses`, `EventuallyOver` and `EventuallyEnds`.

Fairness. `Trading` assumes `WF_vars(Loop)`: the loop is a plain function over a finite
tape (a live run ends with its stream), it never waits for the operator, and each phase
ends: fills are bounded by what remains of the orders, a tick by the finite list that the
strategy returns. Nothing is assumed about the kill file, pauses or resumes. `Recovery`
assumes the same of the loop, and an operator who removes the kill file and resumes; that
the run ends is promised under no less. `Collector` assumes that time passes, that timers
fire, that `collect` and `record_market`, once woken, go on, and that a listing answers or
fails; the network may be silent for ever, and even the recorder's own task need not be
scheduled. `Strategies` and `PairScan` state safety only: they act when an event comes.

Three runs show disagreements between documentation and code:

- `short`: "resting orders count as if they were already filled" (`risk.py:133`) is not so
  for sells. Two sells of the same shares may both rest and both fill; the second fill
  raises an error that nothing catches.
- `same_second`: "every event of the tape was processed exactly once"
  (`tests/test_hardening.py:185`) holds on tapes with a time per event (`crashes` checks
  it: `HaltsAreHarmless`), but a resume skips by timestamp, and trade history has whole
  seconds: the later trades of the second of the last mark are lost.
- `forever`: "default: run" (`cli.py:57`): without seconds the timer's task is done at
  once, and the recorder is cancelled five seconds later.

Further ones, met while modelling, have no run of their own:

- The module docstring of `execution.py` (12-14) says that trades exactly at the order
  price are not counted as fills; they are, once the queue ahead is used up, with
  `queue_model`, whose default is `True`. The docstring of `on_trade_print` is right.
- `max_market_notional` is documented (`risk.py:39`) as a bound on the cost basis, which
  holds fees (`execution.py:365`); the check leaves the new order's fee out.
  `LimitsBind` states the bound up to the fee of one order, and up to the rounding of
  average costs, of half a unit for each share that was offered and is offered no more.
- `max_reconnect_delay` is never reached if it is above `Delay * 2^16`: the code doubles
  sixteen times at most (`recorder.py:160`), which `BackOff` says with `Longest`.
- `marks` promises that a token keeps its last known mark over a gap (`runner.py:242`); it
  falls back to the last print, which may be older than the cleared book.
- A token is "never silently valued at zero" (`runner.py:242`), except on a resume from a
  journal with a fill and no mark, which starts the loss limits from the equity without
  the shares: the exception `ResumedBeforeMark` of `ResumedExactly`.
- "`run --resume` continues a halted or interrupted run" (`README.md:67`), and `runner.py:512`
  says of a halt that "`run --resume` continues it later". A run that a loss breaker halted
  is settled if its payouts are known (`runner.py:519-527`), and `_rebuild` refuses a run that
  was settled (`runner.py:293`); the dashboard shows it as halted all the same. `StateIsTrue`
  and `EventuallyOver` say what can be relied on.
- A resume takes the capital from the settings (`runner.py:189`), not from the journal.
- A journal whose run crashed between `settle` and `run_end` can never be resumed ("already
  settled"), and the report goes on to say that it is not settled.
- The report's check of fees (`report.py:158`) reports a mismatch for any journal that has
  paid fees since its last `run_end`: `ReportAgrees` says exactly when. It compares
  decimals exactly where the engine rounds cash.
- `max_drawdown_pct` divides by the highest equity of the whole run, not by the peak that
  the drawdown fell from (`report.py:153`). The fill rate counts order ids, which start
  anew with every resume, and may be too low.
- A run whose process died is shown as running (`dashboard.py:92`) until it is resumed.
- A failure of the listing ends `collect` (`collect.py:67`), although a recording outlives
  any failure of its stream.
- A pair scan goes on with its books over a gap, and an episode goes on while a side has no
  asks, which `seconds_profitable` ("time the book stayed profitable", `pairs.py:50`) then
  counts; an episode that is open at the end is not counted at all; with a clock that goes
  back, an episode may last a negative time. `TimeIsTrue` says how far it can be trusted.
- "Both bids are placed only when the pair costs at most one dollar" (`strategy.py:149`)
  is passed by when both edges reach `min_edge`, and `TwoSidedQuoter`, of which line 8 says
  the same, does not look at the cost of a pair. `PairIsWorthIt` says when it can happen.
- The two-sided quoter does nothing while it has no reference price, and its quotes wait
  for their ttl. Every timer of a strategy counts from the
  latest round, so that a clock that goes back mutes it until it has caught up.
- The mid that calibration compares the model with "at the same moment"
  (`calibration.py`, `to_markdown`) is that of the last snapshot of Up: changes in place
  and gaps leave it as it is.
- After a crash between the record of a fill and the mark that follows, a resume handles
  the event again, and its fills with it.
- A recording cut off by the five seconds of grace ends with a stop record that counts no
  events, however many were written.

## Proofs

Every theorem holds for all values of the constants that satisfy the module's assumption:
any tokens, prices, sizes, clocks and schedules, and any number of orders, events,
crashes, connections or processes. The assumptions say what type the constants have and
what the code's own settings give. Each follows from one inductive invariant, with one
lemma per action; TLC checked every part of an invariant on the run of its module before
it was proved.

**`Execution_proofs`** (`ExecutionAssumption`)

- `TypeCorrect` (the types, and that every open order has a price between 0 and 1 and
  something left), `Accounting`, `Earned` (from `Backing` and `QueueFirst`), `FlagInSync`
  (which no run repeats) and `OneFillPerCrossing` follow from `Inv`: the types, and
  `Good(o, y, b)` for each order `o` with its tally `y` and its token's book `b`. `Good`
  is needed because none of the properties is inductive alone: that a fill keeps an order
  accounted for needs that an open order has something left and a valid price; that the
  queue stays served needs that a queue never grows; that fills are backed needs that a
  flagged order got its volume when the flag was set, which in turn needs that the flag is
  set whenever the known book crosses, including books that a taker has eaten into.
- `Promptness`: `Spec => []ImmediateOrPassive`, from `Prompt`, which remembers by the tally
  how much an order took when it came.
- `SharedOut` and `BestPricesFirst` are about single steps. They follow from what `Shares`
  gives: lemmas on sums bound what all claimants get by what there is and say who may go
  without; `Walks` turns "levels before me" into "better prices".
- `LedgerImplemented`: `Spec => ImplementsLedger`. Initial states map to initial states,
  and each action maps to `Place`, `Work`, `Expire` or `Cancel` of `OrderLedger`, or to a
  stutter (`LedgerStep`).

**`Trading_proofs`** (`TradingAssumption`)

- `TypeCorrect` (in particular: positions stay non-negative), `Balance`, `ExpiryInTime`
  and `StopWorks` (from `HaltIsFlat`, `KillWorks` and `OutcomeIsCounted`) follow from an
  invariant `Inv` that adds what the phase says about the rest. `PhaseTellsHalt`: a run
  that still loops has not halted, and a halted engine has closed every order. `NoneDue`:
  from the end of `ExpireDue` to the next event no open order is due. `KillSeen`: an
  order's event is never later than the kill file, which needs that in the strategy's turn
  the kill file, if it is there, appeared in the current event.
- `LimitsHold`: `Spec => []LimitsBind`. The limits are checked against what is open when an
  order is submitted, and bind whatever fills afterwards; `Limits` says why. `SharesBound`:
  position and open bids together are within the limit.
  `RoundingBound`: a cost basis is negative by no more than half a unit per share that was
  ever offered and is offered no more. `CostBound`: costs and open bids are below the
  market's limit, with a negative basis counted as zero, up to one fee. A fill moves shares
  and money from the sum over bids to the position; a sale pays back an average cost,
  which is where the rounding comes in; a fee comes at most once above the limit, for
  every further bid is refused from then on.
- `LedgerImplemented`: the loop uses orders as `OrderLedger` allows.

**`Recovery_proofs`** (`RecoveryAssumption`, which `Report` shares)

- `AccountsHold`: on any tape and after any crashes, the portfolio is the one that the
  entries record (`Books`), the phase fits them (`Phased`), marks are those of their event
  (`MarksTrue`) and nothing but the end follows a settlement (`SettledLast`).
- `ResumesExactly`, `WholeOnce` and `HaltsHarmNothing` have the hypothesis `TimeForEach`:
  the events of the tape have different, rising times. It is needed: the run
  `same_second` shows what a resume loses without it. `RInv` adds `InPlace` (events, clock
  and resume point are those of the place on the tape), `BasesTrue` (losses are measured from the
  capital, unless a run was resumed before its first mark, and marks know it as soon as
  the process does), `Whole` (a tape that is over was handled in full), `Again` (no event
  was handled more often than once and once more for each crash, which needs that events
  that lie ahead of the process were handled at most once for each crash so far)
  and `Harmless` (as long as nothing has crashed: each event once, its fills by one
  process, nothing ahead of the process, and a last mark that covers all that was done).
  A resume re-establishes `InPlace` because the last mark names the last event handled.
- The two kinds of halts are told apart by `halted` up to the end of the process: a kill
  is never settled, a loss may be, and a settled tape need not be over. That is why
  `StateShown` says of halted journals less than of finished ones.
- `FillsFindOrders`, `StateShown` and `ReportIsRight` do not need it. For the report,
  `InOrder`, `Known` and `Named` say that a fill's order was submitted before it in the
  same process, although ids start anew with each; `Closed`, `OwnSettlement`,
  `LastMarked`, `EndsFees`, `SettledEnd` and `AtRest` say what the last entries of a
  journal may be. The folds of the report (`Replayed`, `Rebuilt`, `EquityCurve`,
  `MaxDrawdown`) run over the journal; lemmas give the step for one more entry, and a
  one-pass drawdown is shown to be the worst fall between any two marks.

**`Recorder_proofs`** (`RecorderAssumption`, `CollectorAssumption`)

- `RecorderTypes`, `GapsAreRecorded` and `CleanStop`: `GapFollows` is what makes the gaps
  inductive: events of earlier connections have a gap behind them already, and those of
  the current one get it when it ends. `StopAtEnd` ties the stop record to the phase,
  `Handles` leaves no connection open but the current one, `Capped` says that the event
  that filled the recording was the last.
- `DelaysBackOff`: `Spec => []BackOff`, from `Remembered` and `Heard`: the count of
  failures is what the reconnect records since the last event say it is.
- `EveryRecording`: the three hold for each of the recordings of `Collector`, whose timers
  are due by the clock and which starts the recorder anew.
- `WindowsAreConsecutive` and `StopHeard`, from `CInv`: `InTime` (nothing due is passed
  over), `Planned` (what is recorded now is to last beyond its window's end), `InOrder` and
  `LateEnds`. That the next window begins after this recording ends and its listing is done
  is where the windows' interval, the lead and the grace must fit together.

**`Files_proofs`** (`HistoryAssumption`, by which `None` is neither a number nor a file; the
journal's part needs no assumption)

- `WalksAreWhole` and `LoadsAreWhole` follow from `WholeInv`. `Walking`: at any moment a
  walk has every row from the newest trade of its first page down to its cursor, each page
  being full but the last, so that the number of pages asked for is known; that is why
  neither new trades nor a cursor named again lose or repeat a row, and why the bound on
  pages, when it is met, is met before the end. `Found`: what is being saved is what a
  complete walk found. `FilesRight`: as long as no headers of different lengths met, there
  is for either file a length that all its writers' headers have, and the file `Fits` it:
  every piece behind the header, whoever wrote it and over whose, is the one that belongs
  in that place, or a hole, and the header is not there or is that of some complete walk.
  Two writers therefore cannot leave anything that loads and is not a walk's result
  (`ClosedFits`): the header's count decides how many rows there must be, and no hole can
  be read. `HandlesThere` keeps the handles on files that are there, and puts a header into
  its file at once.
- `CacheImproves` follows from `CacheInv` on top: while no two programs have met, at most
  one is at work (`Alone`), the temporary file is what this one has written so far
  (`Own`, `Text`), and its walk ends with at least what the cache has (`Later`).
- `OneWriterIsSafe`, `DamageIsReported` and `HistoriesAreKeptApart`. The chain's lemmas
  (`LinksKept`, `NextIsLinked`, `VerifiedAppend`) say how a link depends on the entry before
  it only. All three speak of whole lines: a line that is cut off is not in `file`. `Spot` keeps the first damage in place: what precedes it is linked, it is not,
  and appending changes neither. `OneHistory` is inductive because an entry that fits the
  end of a file was numbered by a process that has as many entries in memory as the file
  has lines, and `NoneAhead` bounds all others.

**`PairScan_proofs`** (`FeesAssumption`, `PairAssumption`)

- `FeeIsClose`, `OppositesPayAlike`, `RebateBelowFee`, for any rate and any exponent: a fee is within half a unit of the
  curve, the same for a share and its opposite, and never below the rebate. `ProfitIsReal`:
  the rounding of a pair's fees per share costs whoever takes the whole size at most one
  unit. They rest on two facts of rounding, that `HalfUp` is within half of the quotient
  and monotone, and on the arithmetic of products.
- `FiguresAreExact` and `TimeIsCounted`, from `PairInv`: `Figures` and `Extremes` relate the
  accumulators to the samples that were taken (the best quote and the lowest price are those
  of a sample, and no sample is better or lower), and `EpisodeIsSeen` ties an open episode to
  its first sample, the time counted so far and the time in which the scan was blind.

**`Strategies_proofs`** (`StrategiesAssumption`, `SignalsAssumption`)

- `InventoryIsBounded`, `PairsAreWorthIt` and `NoQuoteIsStale`, from `Quoted`: only the
  quoters' bids rest (`OnlyQuotersRest`), one per token (`OneEach`), small enough that
  position and bid stay below the bound (`Bounded`), from the latest round (`OfOneRound`)
  and, for the pair, with the edges that this round saw (`Paired`). A round that is due
  replaces what rests, which is why a bid can be partly filled and made anew without
  inventory passing the bound.
- `SamplesAreInTime`, from `Waiting` and `Ordered`: offsets that wait lie after every event
  so far, and samples are in the order of their offsets, and so is what they know.

`Sums` holds the lemmas on sums over finite sets that the others need. The library's
induction theorems cannot be used by the provers installed, so `SmallestSubset` and
`LeastNumber` take their place: where a statement about finite sets or naturals fails,
there is a smallest counterexample, and the step refutes it. This reaches the folds of the
community modules, which are recursive functions.

Attempts at proofs changed the models where they said too little: `CollectorAssumption`
had to say that windows follow each other without a break and that a recording begins
before its window; `BackOff` that the code doubles sixteen times at most; `LimitsBind` that
the rounding of averages has to be allowed for each share offered; `PairAssumption`,
`StrategiesAssumption` and `SignalsAssumption` what their constants are; `Replayed`,
`Rebuilt` and the drawdown became folds over the whole journal.

Only model-checked: the liveness properties `EveryOrderCloses`, `EventuallyOver` and
`EventuallyEnds`, which are beyond the proof system. Every other property of a passing run
is a theorem. Liveness of the executor is not stated: it never acts on its
own.

## Plan

Done, in this order: `OrderLedger` and `Execution`, `Trading`, `Recovery`, `Recorder`,
`TradeHistory`, `Journal`; then `Report`, `Collector`, `Fees`, `PairScan`, `Signals`,
`Strategies` and `Calibration`; then the theorems above. What the theorems leave open:
`ResumesExactly`, `WholeOnce` and `HaltsHarmNothing` ask for events at different times, and
what a resume keeps when two events share a time is shown by a run alone; the totals that
`summarize` takes over the windows of several scans are not modelled.

## Not modelled

- Parsing of payloads, API clients, argument parsing, settings, the dashboard's pages, the
  MCP server's tools and log output are input and output without state of their own.
- The statistics of `signals.py` and the scores of `calibration.py` are floating-point
  numbers; what depends on their size, and not on their sign, is left open.
- `batch.py` and `sweep.py` run one `Runner` per recording, each with a journal of its own,
  and rank the results. Two recordings that differ only in `.gz`, like two runs of one
  market that start in the same second (`cli.py:585`), would share a directory: what then
  happens to a journal with two writers is the subject of `Journal`.
- `summarize` of `pairs.py` and the layout of the report are sums and text.
