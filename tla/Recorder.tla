------------------------------ MODULE Recorder ------------------------------
(***************************************************************************)
(* Recording a market stream (src/paperfill/recorder.py): the task of      *)
(* run_recorder, the timer, and record_market, which waits for the first   *)
(* of them.  The tasks share one thread: a step reaches from one await to  *)
(* the next.                                                               *)
(***************************************************************************)
EXTENDS Integers, Sequences, FiniteSets

CONSTANTS
  Timed,            \* whether record_market is given `seconds'
  MaxRecords,       \* max_bytes, a record counted as one
  Delay, MaxDelay,  \* reconnect_delay, max_reconnect_delay
  MaxConnections    \* bound on the connections

ASSUME RecorderAssumption ==
  /\ Timed \in BOOLEAN
  /\ MaxRecords \in Nat /\ MaxConnections \in Nat
  /\ Delay \in Nat \ {0} /\ MaxDelay \in Nat /\ Delay <= MaxDelay

Record ==
  [kind : {"start", "gap"}] \cup [kind : {"event"}, connection : Nat]
    \cup [kind : {"reconnect"}, delay : Nat] \cup [kind : {"stop"}, events : Nat]

VARIABLES
  sink,          \* the recording
  phase,         \* what the recorder awaits, or "done" or "cancelled"
  stop,          \* the event `stop'
  connection,    \* the number of the current connection
  open,          \* the connections whose client was not yet asked to close
  delivered,     \* whether the current connection delivered an event
  failures,      \* consecutive connections that delivered none
  written,       \* events written
  timer,         \* whether the timer's task is done
  caller         \* record_market: "waiting", "grace" or "returned"

stream == <<connection, delivered, failures, written>>
vars == <<sink, phase, stop, stream, open, timer, caller>>

Recording == phase \notin {"done", "cancelled"}

Start == [kind |-> "start"]
Datum == [kind |-> "event", connection |-> connection]
Gap   == [kind |-> "gap"]
Reconnect(delay) == [kind |-> "reconnect", delay |-> delay]
Stop(n) == [kind |-> "stop", events |-> n]

OfKind(kind) == {i \in DOMAIN sink : sink[i].kind = kind}

Smaller(a, b) == IF a < b THEN a ELSE b

-----------------------------------------------------------------------------
(* run_recorder. *)

\* The stream is entered ...
Connect ==
  /\ phase = "connect" /\ connection < MaxConnections
  /\ phase' = "stream"
  /\ connection' = connection + 1 /\ delivered' = FALSE
  /\ open' = open \cup {connection'}
  /\ UNCHANGED <<sink, stop, failures, written, timer, caller>>

\* ... or the attempt fails, which is a gap as well.
ConnectFails ==
  /\ phase = "connect" /\ connection < MaxConnections
  /\ phase' = "close" /\ sink' = Append(sink, Gap)
  /\ connection' = connection + 1 /\ delivered' = FALSE
  /\ open' = open \cup {connection'}
  /\ UNCHANGED <<stop, failures, written, timer, caller>>

\* The cap is looked at after each event.
Full == Len(sink') >= MaxRecords

\* An event is written even if a stop was requested while it was awaited.
Deliver ==
  /\ phase = "stream"
  /\ sink' = Append(sink, Datum)
  /\ written' = written + 1 /\ delivered' = TRUE
  /\ stop' = (stop \/ Full)
  /\ phase' = IF stop' THEN "close" ELSE "stream"
  /\ UNCHANGED <<connection, failures, open, timer, caller>>

\* Bug: a stream that ends by itself is no gap.
BugEnds ==
  /\ phase = "stream"
  /\ UNCHANGED sink
  /\ phase' = "close"
  /\ UNCHANGED <<stop, stream, open, timer, caller>>

\* The stream ends by itself.
Ends ==
  /\ phase = "stream"
  /\ sink' = IF stop THEN sink ELSE Append(sink, Gap)
  /\ phase' = "close"
  /\ UNCHANGED <<stop, stream, open, timer, caller>>

\* The stream raises an error.
Fails ==
  /\ phase = "stream"
  /\ sink' = Append(sink, Gap)
  /\ phase' = "close"
  /\ UNCHANGED <<stop, stream, open, timer, caller>>

\* Bug: the failures are forgotten by every connection that is made.
BugFailuresNow == IF delivered THEN 0 ELSE 1

FailuresNow == IF delivered THEN 0 ELSE failures + 1

DelayNow ==
  LET doublings == IF FailuresNow > 0 THEN FailuresNow - 1 ELSE 0
  IN  Smaller(MaxDelay, Delay * 2 ^ Smaller(doublings, 16))

\* on_connection_closed gives the client back.
Closed == open \ {connection}

\* The connection is closed; then the recording ends, or waits and goes on.
Close ==
  /\ phase = "close"
  /\ open' = Closed
  /\ IF stop
     THEN /\ sink' = Append(sink, Stop(written)) /\ phase' = "done"
          /\ UNCHANGED failures
     ELSE /\ sink' = Append(sink, Reconnect(DelayNow)) /\ phase' = "sleep"
          /\ failures' = FailuresNow
  /\ UNCHANGED <<stop, connection, delivered, written, timer, caller>>

Wake ==
  /\ phase = "sleep"
  /\ IF stop THEN sink' = Append(sink, Stop(written)) /\ phase' = "done"
             ELSE UNCHANGED sink /\ phase' = "connect"
  /\ UNCHANGED <<stop, stream, open, timer, caller>>

-----------------------------------------------------------------------------
(* record_market. *)

\* The timer fires; without `seconds' it is done at once and sets nothing.
TimerDone ==
  /\ ~timer /\ caller = "waiting"
  /\ timer' = TRUE
  /\ stop' = (stop \/ Timed)
  /\ UNCHANGED <<sink, phase, stream, open, caller>>

\* The first of the two is done.
FirstDone ==
  /\ caller = "waiting" /\ (timer \/ ~Recording)
  /\ caller' = IF Recording THEN "grace" ELSE "returned"
  /\ UNCHANGED <<sink, phase, stop, stream, open, timer>>

RecorderDone ==
  /\ caller = "grace" /\ ~Recording
  /\ caller' = "returned"
  /\ UNCHANGED <<sink, phase, stop, stream, open, timer>>

\* Bug: a recorder that is cancelled is not asked what it wrote, nor whether
\* it had come to its end.
BugGraceOver ==
  /\ caller = "grace"
  /\ phase' = "cancelled" /\ open' = {}
  /\ sink' = Append(sink, Stop(0))
  /\ caller' = "returned"
  /\ UNCHANGED <<stop, stream, timer>>

\* Bug: only a silent stream is given up.
BugStreamOver ==
  /\ caller = "grace" /\ phase = "stream"
  /\ phase' = "cancelled" /\ open' = {}
  /\ sink' = Append(sink, Stop(0))
  /\ caller' = "returned"
  /\ UNCHANGED <<stop, stream, timer>>

\* Five seconds later the recorder is cancelled, whatever it awaits: it
\* closes its connection, and record_market writes the stop record.  A file
\* has no `records' to count.
GraceOver ==
  /\ caller = "grace" /\ Recording
  /\ phase' = "cancelled" /\ open' = {}
  /\ sink' = Append(sink, Stop(0))
  /\ caller' = "returned"
  /\ UNCHANGED <<stop, stream, timer>>

-----------------------------------------------------------------------------

Init ==
  /\ sink = <<Start>> /\ phase = "connect" /\ stop = FALSE
  /\ connection = 0 /\ open = {} /\ delivered = FALSE /\ failures = 0 /\ written = 0
  /\ timer = FALSE /\ caller = "waiting"

\* What the network does, and what the program does by itself.
Network == Connect \/ ConnectFails \/ Deliver \/ Ends \/ Fails
Program == Close \/ Wake
Market  == TimerDone \/ FirstDone \/ RecorderDone \/ GraceOver

Next == Network \/ Program \/ Market

Spec == Init /\ [][Next]_vars
-----------------------------------------------------------------------------
(* Properties. *)

TypeOK ==
  /\ sink \in Seq(Record)
  /\ phase \in {"connect", "stream", "close", "sleep", "done", "cancelled"}
  /\ stop \in BOOLEAN /\ delivered \in BOOLEAN /\ timer \in BOOLEAN
  /\ connection \in 0 .. MaxConnections
  /\ open \subseteq {connection}
  /\ failures \in Nat /\ written \in Nat
  /\ caller \in {"waiting", "grace", "returned"}

(***************************************************************************)
(* "A `gap' record is written first" (recorder.py:7-9): between events of  *)
(* two connections there is always a gap record.                           *)
(***************************************************************************)
GapBetweenConnections ==
  \A i, j \in OfKind("event") :
    i < j /\ sink[i].connection # sink[j].connection =>
      \E k \in OfKind("gap") : i < k /\ k < j

\* The cap is looked at after events only: at most one is written beyond it.
CapBounds ==
  \A i, j \in OfKind("event") : i >= MaxRecords /\ j >= MaxRecords => i = j

(***************************************************************************)
(* However the timer, the cap, the stream and the caller's patience race,  *)
(* a recording has one stop record, its last, once record_market returns,  *)
(* "a fresh client per connection, closed at end" has been closed, and of  *)
(* the events, which outages may have pushed to the cap, one at most was   *)
(* written beyond it.                                                      *)
(***************************************************************************)
StopsCleanly ==
  /\ \A i \in OfKind("stop") : i = Len(sink)
  /\ caller = "returned" => OfKind("stop") # {} /\ open = {}
  /\ CapBounds

(***************************************************************************)
(* "Doubling after each consecutive failure up to `max_reconnect_delay',   *)
(* and resets after a connection that delivered an event"                  *)
(* (recorder.py:102-103): every delay follows from the one before it.  The *)
(* code doubles sixteen times at most, so that a max_reconnect_delay above *)
(* Delay * 2^16 is never reached.                                          *)
(***************************************************************************)
AfterData(j) ==
  \E i \in OfKind("event") : i < j /\ ~(\E k \in OfKind("reconnect") : i < k /\ k < j)

Longest == Smaller(MaxDelay, Delay * 2 ^ 16)

BackOff ==
  \A i, j \in OfKind("reconnect") :
    i < j /\ ~(\E k \in OfKind("reconnect") : i < k /\ k < j) =>
      sink[j].delay = IF AfterData(i) \/ AfterData(j)
                      THEN Delay
                      ELSE Smaller(Longest, 2 * sink[i].delay)

(***************************************************************************)
(* cli.py:57: without `--seconds' the recorder runs until it is stopped.   *)
(***************************************************************************)
RunsUntilStopped == caller = "returned" => stop
=============================================================================
