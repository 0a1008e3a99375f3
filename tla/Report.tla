------------------------------- MODULE Report -------------------------------
(***************************************************************************)
(* What the readers of a journal make of it, at any point of a run and of  *)
(* its crashes and resumes: the totals of compute (src/paperfill/report.py)*)
(* and the state that the dashboard shows (src/paperfill/dashboard.py).    *)
(* Both are functions of the journal of Recovery and change nothing.       *)
(***************************************************************************)
EXTENDS Recovery

\* The last entry of a kind, which overwrites what earlier ones said.
LastOf(kind) == entries[Max(OfKind(kind))]

Has(kind) == OfKind(kind) # {}

Fills == OfKind("fill")

-----------------------------------------------------------------------------
(* Totals. *)

\* What run_end says; zeros while there is none.
End ==
  IF Has("run_end") THEN LastOf("run_end")
  ELSE [events |-> 0, fees |-> 0, realized |-> 0, cash |-> 0, halted |-> "no", settled |-> FALSE]

FeesFromFills == SumFunctionOnSet(FeesOf, Fills)

\* Shares at the price 1, with their fees.
Cost == Cardinality(Fills) + FeesFromFills

\* The last mark's price of a share.
LastPrice == IF Has("mark") THEN LastOf("mark").worth ELSE 0

Unrealized == IF End.settled THEN 0 ELSE Cardinality(Fills) * LastPrice - Cost

FinalEquity == IF Has("mark") /\ ~End.settled THEN LastOf("mark").equity ELSE End.cash

EquityCurve == [i \in OfKind("mark") |-> entries[i].equity]

\* Bug: the peak is the first mark for ever.
BugDrawdownStep(scan, e) ==
  IF e.kind # "mark" THEN scan
  ELSE [peak |-> scan.peak, drawdown |-> Max({scan.drawdown, scan.peak - e.equity})]

DrawdownStep(scan, e) ==
  IF e.kind # "mark" THEN scan
  ELSE LET peak == Max({scan.peak, e.equity})
       IN  [peak |-> peak, drawdown |-> Max({scan.drawdown, peak - e.equity})]

\* The worst fall from a peak, in one pass over the marks.
MaxDrawdown ==
  IF ~Has("mark") THEN 0
  ELSE LET first == EquityCurve[Min(OfKind("mark"))]
       IN  FoldLeft(DrawdownStep, [peak |-> first, drawdown |-> 0], entries).drawdown

\* The totals of run_end that the fills do not confirm.
PnlFromFills == Cardinality(Fills) * LastOf("settle").payout - Cost

EngineMismatch ==
  {m \in {"fees"} : FeesFromFills # End.fees}
    \cup {m \in {"realized"} : End.settled /\ Has("settle") /\ PnlFromFills # End.realized}

-----------------------------------------------------------------------------
(* Fills by the conviction of their orders. *)

\* Bug: an id keeps the lean that it was first submitted with.
BugLeanOf(i) ==
  LET named == {j \in OfKind("order_submitted") : j < i /\ entries[j].order = entries[i].order}
  IN  IF named = {} THEN 0 ELSE entries[Min(named)].lean

\* A fill knows only the id of its order: the last submission of that id counts.
LeanOf(i) ==
  LET named == {j \in OfKind("order_submitted") : j < i /\ entries[j].order = entries[i].order}
  IN  IF named = {} THEN 0 ELSE entries[Max(named)].lean

\* In eighths: a quarter is 2.
Bucket(lean) ==
  CASE lean >= 2             -> "strong_positive"
    [] lean > 0 /\ lean < 2  -> "positive"
    [] lean = 0              -> "flat"
    [] lean < 0 /\ lean > -2 -> "negative"
    [] lean <= -2            -> "strong_negative"

FilledOrders == {entries[i].order : i \in Fills}

\* Orders that got at least one fill, and orders submitted.
FillRate == <<Cardinality(FilledOrders), Cardinality(OfKind("order_submitted"))>>

-----------------------------------------------------------------------------
(* The state that the dashboard shows. *)

\* Bug: whatever the journal ended with once stands.
BugRunState ==
  CASE torn            -> "error"
    [] entries = << >> -> "empty"
    [] Has("run_end")  -> IF End.halted = "no" THEN "finished" ELSE "halted"
    [] OTHER           -> "running"

RunState ==
  IF torn THEN "error"
  ELSE IF entries = << >> THEN "empty"
  ELSE IF Last(entries).kind = "run_end" THEN IF End.halted = "no" THEN "finished" ELSE "halted"
  ELSE IF ~Has("mark") THEN "partial"
  ELSE "running"

-----------------------------------------------------------------------------
(* Properties. *)

\* The worst fall of the equity between any two marks.
WorstFall ==
  LET marks == OfKind("mark")
  IN  Max({0} \cup {EquityCurve[p[1]] - EquityCurve[p[2]] : p \in {q \in marks \X marks : q[1] <= q[2]}})

FeesSinceEnd ==
  \E i \in Fills : entries[i].fee > 0 /\ \A j \in OfKind("run_end") : j < i

(***************************************************************************)
(* The report of a journal that ends with a run_end, whatever halts,       *)
(* crashes and resumes are in it, finds no mismatch between the engine and *)
(* the fills (report.py:162), says whether the run was settled, and        *)
(* accounts for every cent: realized and unrealized P&L are the change of  *)
(* the equity.  Of any other journal it finds the fees wrong exactly when  *)
(* fees were paid since the last run_end.  The drawdown is the worst fall  *)
(* from any mark to a later one.                                           *)
(***************************************************************************)
ReportAgrees ==
  /\ (entries # << >> /\ Last(entries).kind = "run_end") =>
       /\ EngineMismatch = {}
       /\ End.settled <=> Has("settle")
       /\ End.realized + Unrealized = FinalEquity - Capital
  /\ "fees" \in EngineMismatch <=> FeesSinceEnd
  /\ "realized" \notin EngineMismatch
  /\ MaxDrawdown = WorstFall

(***************************************************************************)
(* A fill is counted in the bucket of the order it belongs to, although    *)
(* every process starts its order ids anew and one journal holds several   *)
(* orders of one id (execution.py:111).  The fill rate counts ids, so that *)
(* it may be too low for such a journal, but never too high.               *)
(***************************************************************************)
FillsAttributed ==
  /\ \A i \in Fills : \E j \in OfKind("order_submitted") :
       /\ j < i /\ entries[j].run = entries[i].run /\ entries[j].order = entries[i].order
       /\ Bucket(LeanOf(i)) = Bucket(entries[j].lean)
  /\ FillRate[1] <= Cardinality({<<entries[i].run, entries[i].order>> : i \in Fills})

(***************************************************************************)
(* The dashboard says that a run is finished or halted only while no       *)
(* process works on it: finished runs came to the end of the tape; halted  *)
(* ones wait for `run --resume' if the kill switch halted them, while some *)
(* that a loss breaker halted are settled, and final (runner.py:521-523).  *)
(***************************************************************************)
StateIsTrue ==
  /\ RunState \in {"finished", "halted"} => phase = "down"
  /\ RunState = "finished" => over
  /\ RunState = "halted" /\ Has("settle") => End.halted = "loss"
=============================================================================
