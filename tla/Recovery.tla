------------------------------ MODULE Recovery ------------------------------
(***************************************************************************)
(* A run that is halted or crashes and is resumed from its journal: what   *)
(* Runner (src/paperfill/runner.py) keeps in memory, what it writes to the *)
(* journal and what _rebuild makes of it.                                  *)
(*                                                                         *)
(* Kept are the entries that _rebuild and the report read.  One token is   *)
(* traded at the price 1, and a fill buys one share: an order that rests   *)
(* is filled for nothing more, a take pays Fee.  Entries carry the event   *)
(* and the process they come from for the properties only.                 *)
(***************************************************************************)
EXTENDS Integers, Sequences, FiniteSetsExt, SequencesExt

CONSTANTS
  Tape,          \* the events: [ts, kind, mark]
  MarkEvery,     \* RunConfig.mark_every
  Payouts,       \* what a share may turn out to pay, Unknown while nobody knows
  Capital,       \* RunConfig.capital
  Fee,           \* the fee of a share that is taken
  TotalLoss, DailyLoss,  \* RiskLimits.total_loss_limit, daily_loss_limit
  DayStarts,     \* what the equity at the start of a day may have been
  Leans,         \* the convictions that the strategy attaches to orders, in eighths
  Unknown,       \* marks a value that is None in the code
  MaxOrders,     \* bound on the orders of a process
  MaxFills,      \* bound on the recorded fills of a run
  MaxCrashes,    \* bound on the crashes
  MaxKills,      \* bound on the times the kill file is raised
  MaxLosses      \* bound on the resumes after a loss breaker halted the run

Kinds  == {"trade", "book", "reference"}
\* `mark': what a share is worth once a book or a trade is handled.
Event  == [ts : Nat, kind : Kinds, mark : Nat]
Places == 1 .. Len(Tape)

\* Bound on the processes that work on a journal.
MaxRuns == MaxCrashes + MaxKills + MaxLosses + 1

ASSUME RecoveryAssumption ==
  /\ Tape \in Seq(Event)
  /\ MarkEvery \in Nat
  /\ Payouts \subseteq Nat \cup {Unknown} /\ Payouts # {}
  /\ Capital \in Nat /\ Fee \in Nat /\ Leans \subseteq Int
  /\ TotalLoss \in Nat /\ DailyLoss \in Nat /\ DayStarts \subseteq Int
  /\ Unknown \notin Int
  /\ MaxOrders \in Nat /\ MaxFills \in Nat
  /\ MaxCrashes \in Nat /\ MaxKills \in Nat /\ MaxLosses \in Nat

VARIABLES
  \* On disk, and what other processes do.
  entries,       \* the journal
  torn,          \* whether its last line is cut off
  raised,        \* whether the kill file is there
  \* In the memory of the process.
  phase,         \* "down", or where the loop is
  batch,         \* where _apply_fills is: a fill is applied, then recorded
  submitted,     \* the order ids that this process has given out
  next,          \* the place of the next event of the tape
  skipped,       \* events skipped since the last one handled
  portfolio,     \* Portfolio: shares held, cash, cost basis, fees, realized P&L
  worth,         \* Runner.last_marks of the token, 0 as long as it has none
  events,        \* Runner.events
  now,           \* Runner.now
  lastMark,      \* Runner._last_mark
  resumeAfter,   \* Runner._resume_after
  baseline,      \* RiskEngine.run_start_equity
  halted,        \* Runner.halted
  \* History.
  run,           \* how many processes have worked on this journal
  crashes, kills,
  handled,       \* how often each event was handled
  over           \* whether a process came to the end of the tape

disk    == <<entries, torn, raised>>
memory  == <<submitted, next, skipped, portfolio, worth, events, now, lastMark, resumeAfter, baseline, halted>>
history == <<run, crashes, kills, handled, over>>
vars    == <<disk, phase, batch, memory, history>>

-----------------------------------------------------------------------------
(* The journal. *)

Start(k)   == [kind |-> "run_start", run |-> k, capital |-> Capital]
Resumed(k) == [kind |-> "resume", run |-> k]

Submitted(lean) ==
  [kind |-> "order_submitted", run |-> run, order |-> submitted + 1, lean |-> lean]

FillEntry(order, liquidity, fee) ==
  [kind |-> "fill", event |-> next - 1, run |-> run,
   order |-> order, liquidity |-> liquidity, fee |-> fee]

\* Shares that were never marked count for nothing.
Equity(p, mark) == p.cash + p.held * mark

\* Runner._mark; `base' is the start equity that the risk engine has by then.
MarkEntry(base) ==
  [kind |-> "mark", event |-> next - 1, run |-> run, events |-> events, ts |-> now,
   worth |-> worth, equity |-> Equity(portfolio, worth), base |-> base]

Settled(payout) == [kind |-> "settle", run |-> run, payout |-> payout]

OfKind(kind) == {i \in DOMAIN entries : entries[i].kind = kind}

SettledHere == \E i \in OfKind("settle") : entries[i].run = run

Ended ==
  [kind |-> "run_end", run |-> run, events |-> events, fees |-> portfolio.fees,
   realized |-> portfolio.realized, cash |-> portfolio.cash, halted |-> halted,
   settled |-> SettledHere]

Append1(e) == entries' = Append(entries, e)

\* The last mark in the journal, which is the checkpoint of a resume.
Checkpoint == entries[Max(OfKind("mark"))]

-----------------------------------------------------------------------------
(* The portfolio. *)

Fresh == [held |-> 0, cash |-> Capital, cost |-> 0, fees |-> 0, realized |-> 0]

\* Portfolio.apply: one share at the price 1; the fee is part of its cost.
Bought(p, fee) ==
  [p EXCEPT !.held = @ + 1, !.cash = @ - 1 - fee, !.cost = @ + 1 + fee, !.fees = @ + fee]

\* Portfolio.settle.
Paid(p, payout) ==
  [p EXCEPT !.held = 0, !.cost = 0, !.cash = @ + p.held * payout,
            !.realized = @ + p.held * payout - p.cost]

-----------------------------------------------------------------------------
(* A process starts. *)

\* A new run: the journal is created.
Begin ==
  /\ phase = "down" /\ run = 0
  /\ Append1(Start(1))
  /\ phase' = "next" /\ run' = 1
  /\ UNCHANGED <<torn, raised, batch, memory, crashes, kills, handled, over>>

\* Bug: what the checkpoint says of marks and equity is not restored.
BugRestored ==
  /\ worth' = 0
  /\ baseline' = Equity(portfolio', 0)

\* What the checkpoint says of marks and equity; where it says nothing the
\* risk engine starts anew.
Restored ==
  IF OfKind("mark") # {} /\ Checkpoint.base # Unknown
  THEN worth' = Checkpoint.worth /\ baseline' = Checkpoint.base
  ELSE /\ worth' = IF OfKind("mark") = {} THEN 0 ELSE Checkpoint.worth
       /\ baseline' = Equity(portfolio', worth')

\* What an entry of the journal does to the portfolio.
Replayed(p, e) == IF e.kind = "fill" THEN Bought(p, e.fee) ELSE p

\* Bug: the portfolio is rebuilt from the last run's fills only.
BugRebuilt ==
  FoldLeft(LAMBDA p, e : IF e.run = run THEN Replayed(p, e) ELSE p, Fresh, entries)

\* The portfolio that the fills in the journal leave.
Rebuilt == FoldLeft(Replayed, Fresh, entries)

\* Bug: what ended, were it by a halt, is not resumed.
BugEndedForGood ==
  ~raised /\ ~torn /\ OfKind("run_start") # {} /\ OfKind("settle") = {} /\ OfKind("run_end") = {}

\* `run --resume' refuses while the kill file is there; Journal.open cannot
\* read a line that is cut off; _rebuild refuses a run that was settled.
Resumable == ~raised /\ ~torn /\ OfKind("run_start") # {} /\ OfKind("settle") = {}

\* _rebuild: fills and progress come from the journal; order ids start anew.
Resume ==
  /\ phase = "down" /\ run > 0 /\ run < MaxRuns /\ Resumable
  /\ portfolio' = Rebuilt
  /\ IF OfKind("mark") = {}
     THEN events' = 0 /\ now' = 0 /\ resumeAfter' = Unknown
     ELSE events' = Checkpoint.events /\ now' = Checkpoint.ts /\ resumeAfter' = Checkpoint.ts
  /\ Restored
  /\ phase' = "next" /\ run' = run + 1
  /\ Append1(Resumed(run + 1))
  /\ UNCHANGED <<torn, raised, batch, submitted, next, skipped, lastMark, halted,
                 crashes, kills, handled, over>>

-----------------------------------------------------------------------------
(* The loop. *)

\* Bug: everything until the next mark is due is taken for done.
BugDoneToMark(event) == resumeAfter # Unknown /\ event.ts <= resumeAfter + MarkEvery

\* What a resumed run takes for done already.
Done(event) == resumeAfter # Unknown /\ event.ts <= resumeAfter

Skip ==
  /\ phase = "next" /\ next \in Places /\ Done(Tape[next])
  /\ next' = next + 1 /\ skipped' = skipped + 1
  /\ UNCHANGED <<disk, phase, batch, submitted, portfolio, worth, events, now, lastMark,
                 resumeAfter, baseline, halted, history>>

\* _handle, up to the fills; a trade never turns the clock back, except in
\* the first event of all.
Handle ==
  /\ phase = "next" /\ next \in Places /\ ~Done(Tape[next])
  /\ LET event == Tape[next]
     IN  /\ now' = IF event.kind = "trade" /\ events > 0 /\ now > event.ts
                   THEN now ELSE event.ts
         /\ worth' = IF event.kind = "reference" THEN worth ELSE event.mark
  /\ next' = next + 1 /\ skipped' = 0 /\ events' = events + 1
  /\ handled' = [handled EXCEPT ![next] = @ + 1]
  /\ phase' = "fills"
  /\ UNCHANGED <<disk, batch, submitted, portfolio, lastMark, resumeAfter, baseline, halted,
                 run, crashes, kills, over>>

\* _quote and _take: the order and its lean go on record before its fills do.
\* A quote is passive and fills nothing when it is made, a take may find nothing.
Submit(lean, finds) ==
  /\ phase = "tick" /\ batch = "idle" /\ submitted < MaxOrders
  /\ finds \in {"idle", "taking"} /\ (finds = "taking" => worth > 0 /\ portfolio.held < MaxFills)
  /\ Append1(Submitted(lean))
  /\ submitted' = submitted + 1 /\ batch' = finds
  /\ UNCHANGED <<torn, raised, phase, next, skipped, portfolio, worth, events, now, lastMark,
                 resumeAfter, baseline, halted, history>>

\* What the fill that is being worked on costs: a take pays its fee.
FeeNow == IF phase = "tick" THEN Fee ELSE 0

\* _apply_fills, for what the event fills and for what the strategy takes:
\* the portfolio first, then the journal, and after the last fill a mark.
Apply ==
  /\ \/ phase = "fills" /\ Tape[next - 1].kind # "reference" /\ submitted > 0 /\ batch # "applied"
     \/ phase = "tick" /\ batch \in {"taking", "recorded"}
  /\ portfolio.held < MaxFills
  /\ portfolio' = Bought(portfolio, FeeNow) /\ batch' = "applied"
  /\ UNCHANGED <<disk, phase, submitted, next, skipped, worth, events, now, lastMark,
                 resumeAfter, baseline, halted, history>>

\* An order that rests, or the one that takes.
RecordFill ==
  /\ batch = "applied"
  /\ \/ /\ phase = "fills"
        /\ \E order \in 1 .. submitted : Append1(FillEntry(order, "maker", FeeNow))
     \/ phase = "tick" /\ Append1(FillEntry(submitted, "taker", FeeNow))
  /\ batch' = "recorded"
  /\ UNCHANGED <<torn, raised, phase, memory, history>>

ForceMark ==
  /\ batch = "recorded"
  /\ Append1(MarkEntry(baseline)) /\ lastMark' = now /\ batch' = "idle"
  /\ UNCHANGED <<torn, raised, phase, submitted, next, skipped, portfolio, worth, events, now, resumeAfter,
                 baseline, halted, history>>

\* What RiskEngine.evaluate finds, on a day that started with the equity dayStart:
\* it looks for the kill file first, and while the start is not known no loss is.
Lost(dayStart) ==
  LET equity == Equity(portfolio, worth)
  IN  baseline # Unknown /\ (baseline - equity >= TotalLoss \/ dayStart - equity >= DailyLoss)

Verdict(dayStart) == IF raised THEN "kill" ELSE IF Lost(dayStart) THEN "loss" ELSE "no"

\* _lifecycle: a halt puts a mark on record and ends the loop.
HaltRun ==
  /\ phase = "fills" /\ batch = "idle"
  /\ \E dayStart \in DayStarts : Verdict(dayStart) # "no" /\ halted' = Verdict(dayStart)
  /\ phase' = "closing"
  /\ Append1(MarkEntry(baseline)) /\ lastMark' = now
  /\ UNCHANGED <<torn, raised, batch, submitted, next, skipped, portfolio, worth, events, now, resumeAfter,
                 baseline, history>>

Evaluate ==
  /\ phase = "fills" /\ batch = "idle" /\ \E dayStart \in DayStarts : Verdict(dayStart) = "no"
  /\ baseline' = IF baseline = Unknown THEN Equity(portfolio, worth) ELSE baseline
  /\ phase' = "tick"
  /\ UNCHANGED <<disk, batch, submitted, next, skipped, portfolio, worth, events, now, lastMark,
                 resumeAfter, halted, history>>

\* The mark after the strategy's turn, if the last one is old enough.
TickDone ==
  /\ phase = "tick" /\ batch = "idle"
  /\ IF lastMark # Unknown /\ now - lastMark < MarkEvery
     THEN UNCHANGED <<entries, lastMark>>
     ELSE Append1(MarkEntry(baseline)) /\ lastMark' = now
  /\ phase' = "next"
  /\ UNCHANGED <<torn, raised, batch, submitted, next, skipped, portfolio, worth, events, now, resumeAfter,
                 baseline, halted, history>>

-----------------------------------------------------------------------------
(* The end of a process. *)

\* What was in memory is gone.
Exit ==
  /\ phase' = "down" /\ batch' = "idle" /\ submitted' = 0 /\ portfolio' = Fresh
  /\ next' = 1 /\ skipped' = 0 /\ worth' = 0 /\ events' = 0 /\ now' = 0
  /\ lastMark' = Unknown /\ resumeAfter' = Unknown /\ baseline' = Unknown /\ halted' = "no"

AtEnd == phase = "closing" \/ (phase = "next" /\ next > Len(Tape))

\* A run that the kill switch stopped is not settled; one that a loss breaker
\* stopped is settled like one that came to the end of the tape.
SettleRun ==
  /\ AtEnd /\ halted # "kill"
  /\ \E payout \in Payouts \ {Unknown} :
       Append1(Settled(payout)) /\ portfolio' = Paid(portfolio, payout)
  /\ phase' = "settled" /\ over' = (over \/ halted = "no")
  /\ UNCHANGED <<torn, raised, batch, submitted, next, skipped, worth, events, now, lastMark,
                 resumeAfter, baseline, halted, run, crashes, kills, handled>>

LastMark ==
  /\ phase = "settled" \/ (AtEnd /\ (Unknown \in Payouts \/ halted = "kill"))
  /\ Append1(MarkEntry(baseline)) /\ lastMark' = now
  /\ phase' = "ending"
  /\ UNCHANGED <<torn, raised, batch, submitted, next, skipped, portfolio, worth, events, now,
                 resumeAfter, baseline, halted, history>>

\* The end of the run is recorded; the process exits.
EndRun ==
  /\ phase = "ending"
  /\ Append1(Ended)
  /\ Exit
  /\ over' = (over \/ halted = "no")
  /\ UNCHANGED <<torn, raised, run, crashes, kills, handled>>

\* The process dies; what it was writing may be cut off.
Crash ==
  /\ phase # "down" /\ crashes < MaxCrashes
  /\ Exit /\ crashes' = crashes + 1
  /\ torn' \in BOOLEAN
  /\ UNCHANGED <<entries, raised, run, kills, handled, over>>

\* `paperfill kill', and the operator who removes the file to resume.
RaiseKill ==
  /\ ~raised /\ kills < MaxKills
  /\ raised' = TRUE /\ kills' = kills + 1
  /\ UNCHANGED <<entries, torn, phase, batch, memory, run, crashes, handled, over>>

RemoveKill ==
  /\ raised /\ phase = "down"
  /\ raised' = FALSE
  /\ UNCHANGED <<entries, torn, phase, batch, memory, history>>

-----------------------------------------------------------------------------

Init ==
  /\ entries = << >> /\ torn = FALSE /\ raised = FALSE
  /\ phase = "down" /\ batch = "idle"
  /\ submitted = 0 /\ portfolio = Fresh
  /\ next = 1 /\ skipped = 0 /\ worth = 0 /\ events = 0 /\ now = 0
  /\ lastMark = Unknown /\ resumeAfter = Unknown /\ baseline = Unknown /\ halted = "no"
  /\ run = 0 /\ crashes = 0 /\ kills = 0
  /\ handled = [i \in Places |-> 0] /\ over = FALSE

Submits == \E lean \in Leans, finds \in {"idle", "taking"} : Submit(lean, finds)

Loop == Skip \/ Handle \/ Submits \/ Apply \/ RecordFill \/ ForceMark \/ HaltRun \/ Evaluate
          \/ TickDone \/ SettleRun \/ LastMark \/ EndRun

Next == Begin \/ Resume \/ Loop \/ Crash \/ RaiseKill \/ RemoveKill

Spec == Init /\ [][Next]_vars

\* A process runs until it ends or dies, and there is an operator who
\* removes the kill file and resumes.
FairSpec == Spec /\ WF_vars(Loop) /\ WF_vars(Begin) /\ WF_vars(Resume) /\ WF_vars(RemoveKill)
-----------------------------------------------------------------------------
(* Properties. *)

TypeOK ==
  /\ \A i \in DOMAIN entries :
       entries[i].kind \in {"run_start", "resume", "order_submitted", "fill", "mark", "settle", "run_end"}
  /\ torn \in BOOLEAN /\ raised \in BOOLEAN
  /\ phase \in {"down", "next", "fills", "tick", "closing", "settled", "ending"}
  /\ batch \in {"idle", "taking", "applied", "recorded"}
  /\ submitted \in 0 .. MaxOrders
  /\ next \in 1 .. Len(Tape) + 1 /\ skipped \in Nat
  /\ portfolio \in [held : Int, cash : Int, cost : Int, fees : Int, realized : Int]
  /\ worth \in Nat /\ events \in Nat /\ now \in Nat
  /\ lastMark \in Nat \cup {Unknown} /\ resumeAfter \in Nat \cup {Unknown}
  /\ baseline \in Int \cup {Unknown}
  /\ halted \in {"no", "kill", "loss"}
  /\ run \in 0 .. MaxRuns
  /\ crashes \in 0 .. MaxCrashes /\ kills \in 0 .. MaxKills
  /\ handled \in [Places -> Nat] /\ over \in BOOLEAN

Working == phase \in {"next", "fills", "tick", "closing"}

FeesOf == [i \in OfKind("fill") |-> entries[i].fee]

FeesRecorded == SumFunctionOnSet(FeesOf, OfKind("fill"))

\* The journal was resumed with a fill in it before a mark knew the start equity.
ResumedBeforeMark ==
  \E i \in OfKind("resume"), j \in OfKind("fill") :
    j < i /\ \A k \in OfKind("mark") : k < i => entries[k].base = Unknown

(***************************************************************************)
(* Whatever crashes and resumes came before: shares, fees, cash and cost   *)
(* are those that the fills in the journal leave, up to the one that is    *)
(* about to be recorded; Runner.events, which every checkpoint records, is *)
(* the number of the event that is being handled, on tapes with a time for *)
(* each event; and losses are measured from the capital, unless a process  *)
(* was resumed from fills before a mark that knows the start equity was on *)
(* record.                                                                 *)
(***************************************************************************)
ResumedExactly ==
  /\ TypeOK
  /\ Working =>
       LET pending == IF batch = "applied" THEN 1 ELSE 0
           shares  == Cardinality(OfKind("fill")) + pending
           fees    == FeesRecorded + pending * FeeNow
       IN  portfolio = [held |-> shares, cash |-> Capital - shares - fees, cost |-> shares + fees,
                        fees |-> fees, realized |-> 0]
  /\ phase \in {"fills", "tick", "closing"} => events = next - 1
  /\ baseline \in {Unknown, Capital} \/ ResumedBeforeMark

(***************************************************************************)
(* README.md:67: a resumed run continues: once a process came to the end   *)
(* of the tape, no event was left out by all of them; an event is handled  *)
(* again only after a crash, once for each at most; and a run is settled   *)
(* once, with nothing traded after that.  On tapes with a time for each    *)
(* event.                                                                  *)
(***************************************************************************)
WholeAndOnce ==
  /\ over => \A i \in Places : handled[i] > 0
  /\ \A i \in Places : handled[i] <= 1 + crashes
  /\ \A i \in OfKind("settle") : \A j \in DOMAIN entries :
       j > i => entries[j].kind \in {"mark", "run_end"}

(***************************************************************************)
(* tests/test_hardening.py:185: "every event of the tape was processed     *)
(* exactly once", by the halted run or by the one that continues it.       *)
(***************************************************************************)
HandledOnce ==
  /\ \A i \in Places : handled[i] <= 1
  /\ over => \A i \in Places : handled[i] = 1

(***************************************************************************)
(* An event that a checkpoint covers is never handled again: its fills are *)
(* all of one process.                                                     *)
(***************************************************************************)
FillsOfOneProcess ==
  \A i, j \in OfKind("fill") : entries[i].event = entries[j].event => entries[i].run = entries[j].run

(***************************************************************************)
(* runner.py:242: after a resume a token is not silently valued at zero;   *)
(* the equity that losses are measured against is still that of the start. *)
(***************************************************************************)
StartEquityKept == baseline \in {Unknown, Capital}

(***************************************************************************)
(* A run that was halted, however often, and resumed, but did not crash,   *)
(* is as good as one that went through, be it the kill switch or a loss    *)
(* breaker that halted it: on a tape with a time for each event all three  *)
(* promises hold.                                                          *)
(***************************************************************************)
HaltsAreHarmless == crashes = 0 => HandledOnce /\ FillsOfOneProcess /\ StartEquityKept

(***************************************************************************)
(* With an operator who resumes, the run comes to the end of the tape,     *)
(* unless it was settled after a loss breaker halted it, which is final    *)
(* (runner.py:521-523), or a crash has cut off the last line: read_entries *)
(* raises on such a line, and nothing is ever resumed from it.             *)
(***************************************************************************)
EventuallyOver == <>(over \/ torn \/ OfKind("settle") # {})
=============================================================================
