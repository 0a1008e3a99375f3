----------------------------- MODULE Collector -----------------------------
(***************************************************************************)
(* The two programs that record: `paperfill record' calls record_market    *)
(* once, for so many seconds; `paperfill collect' (collect.py) calls it    *)
(* for one window after the other.  Each recording is one of Recorder; the *)
(* collector's has no cap.  Here there is a clock: timers fire when they   *)
(* are due, and the network takes the time it takes.                       *)
(*                                                                         *)
(* Windows are of one length, one after the other, as the up-or-down       *)
(* markets are.                                                            *)
(***************************************************************************)
EXTENDS Recorder, FiniteSetsExt

CONSTANTS
  Length,        \* the length of a window
  Windows,       \* the numbers of the windows; window w ends at w * Length
  MinLead,       \* next_plan's min_lead
  AfterEnd,      \* next_plan's after_end
  Grace,         \* how long record_market waits for a recorder that should stop
  Wait,          \* how long collect sleeps when there is no window to record
  MaxListing,    \* bound on the time that the listing of markets takes
  Deadline,      \* `hours', on the clock
  Seconds        \* `--seconds' of `record'

ASSUME CollectorAssumption ==
  /\ {Length, MinLead, AfterEnd, Grace, Wait, MaxListing, Deadline, Seconds} \subseteq Nat
  /\ Windows \subseteq Nat /\ \A v, w \in Windows : v .. w \subseteq Windows
  \* With five minutes, 60 s, 30 s and 5 s, a listing may take 205 s.
  /\ 0 < MinLead /\ MinLead + AfterEnd + Grace + MaxListing <= Length

VARIABLES
  program,       \* "record" or "collect"
  stage,         \* what the program does
  now,           \* the clock
  since,         \* when it began to list, to sleep or to record
  window,        \* the window that is recorded
  seconds,       \* for how long
  fired,         \* when the timer fired
  stopFile,      \* whether data_dir / "STOP" is there
  taken          \* the recordings begun: window, from, to, and whether it was late

recorder == <<sink, phase, stop, connection, open, delivered, failures, written, timer, caller>>
task     == <<since, window, seconds>>
cvars    == <<recorder, program, stage, now, task, fired, stopFile, taken>>

EndOf(w) == w * Length

\* collect looks at the clock and at the STOP file between two windows only.
Late == stopFile \/ now >= Deadline

-----------------------------------------------------------------------------
(* The collector between two windows. *)

\* Bug: the STOP file is not looked for.
BugLook ==
  /\ stage = "looking"
  /\ IF now >= Deadline
     THEN stage' = "returned" /\ UNCHANGED since
     ELSE stage' = "listing" /\ since' = now
  /\ UNCHANGED <<recorder, program, now, window, seconds, fired, stopFile, taken>>

Look ==
  /\ stage = "looking"
  /\ IF Late
     THEN stage' = "returned" /\ UNCHANGED since
     ELSE stage' = "listing" /\ since' = now
  /\ UNCHANGED <<recorder, program, now, window, seconds, fired, stopFile, taken>>

\* next_plan at the time t: the window that ends first, of those with enough lead.
Soonest(t) ==
  LET ahead == {w \in Windows : EndOf(w) - t >= MinLead}
  IN  {w \in ahead : \A v \in ahead : EndOf(w) <= EndOf(v)}

\* Bug: what is left of the window is not recorded further than its end.
BugToRecord(w, t) == EndOf(w) - t

ToRecord(w, t) == EndOf(w) - t + AfterEnd

\* run_recorder and record_market start anew, with a new file.
Anew ==
  /\ sink' = <<Start>> /\ phase' = "connect" /\ stop' = FALSE
  /\ connection' = 0 /\ open' = {} /\ delivered' = FALSE /\ failures' = 0 /\ written' = 0
  /\ timer' = FALSE /\ caller' = "waiting"

\* The markets are listed: a plan counts from the time at which it was asked for.
Listed ==
  /\ stage = "listing" /\ Soonest(since) # {}
  /\ \E w \in Soonest(since) :
       /\ window' = w /\ seconds' = ToRecord(w, since)
       /\ taken' = Append(taken, [window |-> w, from |-> now, to |-> now, late |-> Late])
  /\ stage' = "recording" /\ since' = now
  /\ Anew
  /\ UNCHANGED <<program, now, fired, stopFile>>

NothingListed ==
  /\ stage = "listing" /\ Soonest(since) = {}
  /\ stage' = "sleeping" /\ since' = now
  /\ UNCHANGED <<recorder, program, now, window, seconds, fired, stopFile, taken>>

\* An error of the listing is not caught: the collector ends there.
ListingFails ==
  /\ stage = "listing" /\ stage' = "failed"
  /\ UNCHANGED <<recorder, program, now, task, fired, stopFile, taken>>

SleepOver ==
  /\ stage = "sleeping" /\ now >= since + Wait
  /\ stage' = "looking"
  /\ UNCHANGED <<recorder, program, now, task, fired, stopFile, taken>>

-----------------------------------------------------------------------------
(* A recording. *)

\* What the network does goes unnoticed when the recorder is cancelled.  The
\* collector's recordings have no cap: MaxRecords bounds what the network does.
Uncapped == program = "collect" => Len(sink) < MaxRecords - 1

NetworkStep ==
  /\ stage = "recording" /\ Uncapped /\ Network
  /\ UNCHANGED <<program, stage, now, task, fired, stopFile, taken>>

RecorderStep ==
  /\ stage = "recording" /\ Program
  /\ UNCHANGED <<program, stage, now, task, fired, stopFile, taken>>

CallerStep ==
  /\ stage = "recording" /\ (FirstDone \/ RecorderDone)
  /\ UNCHANGED <<program, stage, now, task, fired, stopFile, taken>>

TimerFires ==
  /\ stage = "recording" /\ now >= since + seconds /\ TimerDone
  /\ fired' = now
  /\ UNCHANGED <<program, stage, now, task, stopFile, taken>>

Cancelled ==
  /\ stage = "recording" /\ now >= fired + Grace /\ GraceOver
  /\ UNCHANGED <<program, stage, now, task, fired, stopFile, taken>>

\* record_market has returned.
Recorded ==
  /\ stage = "recording" /\ caller = "returned"
  /\ taken' = [taken EXCEPT ![Len(taken)].to = now]
  /\ stage' = IF program = "collect" THEN "looking" ELSE "returned"
  /\ UNCHANGED <<recorder, program, now, task, fired, stopFile>>

-----------------------------------------------------------------------------

RaiseStop ==
  /\ ~stopFile /\ program = "collect" /\ stopFile' = TRUE
  /\ UNCHANGED <<recorder, program, stage, now, task, fired, taken>>

\* Whether the program goes on by itself before any time passes.
Due ==
  \/ stage = "looking"
  \/ stage = "listing" /\ now >= since + MaxListing
  \/ stage = "sleeping" /\ now >= since + Wait
  \/ stage = "recording" /\ \/ caller = "returned"
                            \/ caller = "waiting" /\ (timer \/ ~Recording \/ now >= since + seconds)
                            \/ caller = "grace" /\ (~Recording \/ now >= fired + Grace)

Tick ==
  /\ stage \notin {"returned", "failed"} /\ ~Due
  /\ now' = now + 1
  /\ UNCHANGED <<recorder, program, stage, task, fired, stopFile, taken>>

CInit ==
  /\ Init
  /\ \/ /\ program = "record" /\ stage = "recording" /\ seconds = Seconds
        /\ taken = <<[window |-> 0, from |-> 0, to |-> 0, late |-> FALSE]>>
     \/ program = "collect" /\ stage = "looking" /\ seconds = 0 /\ taken = << >>
  /\ now \in 0 .. Length - 1 /\ (program = "record" => now = 0)
  /\ since = 0 /\ window = 0 /\ fired = 0 /\ stopFile = FALSE

Collect == Look \/ Listed \/ NothingListed \/ ListingFails \/ SleepOver \/ Recorded

Timers == TimerFires \/ CallerStep \/ Cancelled

CNext == Collect \/ NetworkStep \/ RecorderStep \/ Timers \/ RaiseStop \/ Tick

CSpec == CInit /\ [][CNext]_cvars

\* Time passes, timers fire, a listing answers or fails, and the callers go on;
\* the network may be silent, and what the recorder does by itself may be slow.
FairCSpec ==
  CSpec /\ WF_cvars(Tick) /\ WF_cvars(Timers) /\ WF_cvars(Collect)
-----------------------------------------------------------------------------
(* Properties. *)

(***************************************************************************)
(* "record consecutive windows" (cli.py:120): the windows are recorded     *)
(* without leaving one out, each once, from before its end, up to          *)
(* `after_end' beyond it, and no longer than the answer to the listing and *)
(* the recorder's last seconds add, however the network behaves.           *)
(***************************************************************************)
ConsecutiveWindows ==
  program = "collect" =>
    \A i \in DOMAIN taken :
      /\ taken[i].from <= EndOf(taken[i].window) - MinLead + MaxListing
      /\ taken[i].to > taken[i].from =>
           taken[i].to \in EndOf(taken[i].window) + AfterEnd
                             .. EndOf(taken[i].window) + AfterEnd + MaxListing + Grace
      /\ i > 1 => taken[i].window = taken[i - 1].window + 1

(***************************************************************************)
(* After the deadline, or once STOP is there (collect.py:57,64), at most the  *)
(* recording goes on whose window was being looked up, and no further one  *)
(* is begun.                                                               *)
(***************************************************************************)
StopIsHeard ==
  \A i \in DOMAIN taken : taken[i].late => i = Len(taken)

(***************************************************************************)
(* Both programs come to an end, although the network may be silent for    *)
(* ever or the recorder between two connections when the time is up.       *)
(***************************************************************************)
EventuallyEnds == <>(stage \in {"returned", "failed"})
=============================================================================
