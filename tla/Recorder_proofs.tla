--------------------------- MODULE Recorder_proofs ---------------------------
(***************************************************************************)
(* Theorems about Recorder, for recordings of every length, any number of  *)
(* connections and any cap: a recording has one stop record, never passes  *)
(* over an outage in silence, leaves no connection open and keeps its cap. *)
(***************************************************************************)
EXTENDS Collector, Sums

\* What the proofs need of the types.
Typed ==
  /\ sink \in Seq(Record)
  /\ phase \in {"connect", "stream", "close", "sleep", "done", "cancelled"}
  /\ connection \in 0 .. MaxConnections /\ failures \in Nat /\ written \in Nat
  /\ caller \in {"waiting", "grace", "returned"}
Flags == stop \in BOOLEAN /\ delivered \in BOOLEAN /\ timer \in BOOLEAN

\* A stop record is there if and only if the recorder is done or cancelled,
\* and then it is the last one.
StopAtEnd ==
  /\ Recording => \A i \in DOMAIN sink : sink[i].kind # "stop"
  /\ ~Recording => \E i \in DOMAIN sink : sink[i].kind = "stop"
  /\ \A i \in DOMAIN sink : sink[i].kind = "stop" => i = Len(sink)
  /\ caller = "returned" => ~Recording

\* Between two connections, and when one has ended that is not the last.
Outage == phase \in {"connect", "sleep"} \/ (phase = "close" /\ ~stop)

\* A gap follows the events of earlier connections, and those of the current
\* one once it is over.
GapFollows ==
  \A i \in DOMAIN sink : sink[i].kind = "event" =>
    /\ sink[i].connection <= connection
    /\ Outage \/ sink[i].connection # connection =>
         \E k \in DOMAIN sink : sink[k].kind = "gap" /\ i < k

\* Only the current connection can be open, and only while it lasts.
Handles == open \subseteq {connection} /\ (phase \notin {"stream", "close"} => open = {})

\* An event beyond the cap was the last.
Capped ==
  \A i \in DOMAIN sink :
    sink[i].kind = "event" /\ i >= MaxRecords =>
      stop /\ phase \in {"close", "done", "cancelled"}

Inv == Typed /\ Flags /\ StopAtEnd /\ GapFollows /\ GapBetweenConnections
             /\ Handles /\ Capped /\ CapBounds

-----------------------------------------------------------------------------
(* Recordings only grow. *)

\* What holds of a recording after record r was appended to it.
LEMMA Appended ==
  ASSUME sink \in Seq(Record), NEW r \in Record, sink' = Append(sink, r)
  PROVE  /\ sink' \in Seq(Record)
         /\ Len(sink) \in Nat /\ Len(sink') = Len(sink) + 1
         /\ DOMAIN sink = 1 .. Len(sink) /\ DOMAIN sink' = 1 .. Len(sink) + 1
         /\ \A i \in DOMAIN sink : i \in DOMAIN sink' /\ sink'[i] = sink[i]
         /\ \A i \in DOMAIN sink' : i \in DOMAIN sink \/ i = Len(sink) + 1
         /\ sink'[Len(sink) + 1] = r
  OBVIOUS

\* A record that is neither event nor stop keeps the gaps where they are; a
\* gap record makes up for every event before it.
LEMMA GapsKept ==
  ASSUME Inv, NEW r \in Record, sink' = Append(sink, r), r.kind # "event",
         connection' \in {connection, connection + 1},
         r.kind = "gap" \/ (connection' = connection /\ (Outage' => Outage))
  PROVE  GapFollows' /\ GapBetweenConnections'
<1> DEFINE n == Len(sink)
<1>1. /\ n \in Nat /\ DOMAIN sink = 1 .. n /\ DOMAIN sink' = 1 .. n + 1
      /\ \A i \in 1 .. n : sink'[i] = sink[i]
      /\ sink'[n + 1] = r
  BY Appended DEF Inv, Typed
<1> HIDE DEF n
<1>2. \A i \in DOMAIN sink' : sink'[i].kind = "event" => i \in 1 .. n /\ sink[i].kind = "event"
  BY <1>1
<1>3. GapFollows'
  <2> SUFFICES ASSUME NEW i \in DOMAIN sink', sink'[i].kind = "event"
               PROVE  /\ sink'[i].connection <= connection'
                      /\ Outage' \/ sink'[i].connection # connection' =>
                           \E k \in DOMAIN sink' : sink'[k].kind = "gap" /\ i < k
    BY DEF GapFollows
  <2>1. i \in 1 .. n /\ sink[i].kind = "event" /\ sink'[i] = sink[i]
    BY <1>1, <1>2
  <2>2. sink'[i].connection <= connection'
    <3>1. sink[i].connection \in Nat /\ connection \in Nat
      BY <1>1, <2>1 DEF Inv, Typed, Record
    <3> QED
      BY <1>1, <2>1, <3>1 DEF Inv, GapFollows
  <2>3. ASSUME Outage' \/ sink'[i].connection # connection'
        PROVE  \E k \in DOMAIN sink' : sink'[k].kind = "gap" /\ i < k
    <3>1. CASE r.kind = "gap"
      BY <1>1, <2>1, <3>1
    <3>2. CASE connection' = connection /\ (Outage' => Outage)
      <4>1. PICK k \in DOMAIN sink : sink[k].kind = "gap" /\ i < k
        BY <1>1, <2>1, <2>3, <3>2 DEF Inv, GapFollows
      <4> QED
        BY <1>1, <4>1
    <3> QED
      BY <3>1, <3>2
  <2> QED
    BY <2>2, <2>3
<1>4. GapBetweenConnections'
  <2> SUFFICES ASSUME NEW i \in DOMAIN sink', NEW j \in DOMAIN sink',
                      sink'[i].kind = "event", sink'[j].kind = "event",
                      i < j, sink'[i].connection # sink'[j].connection
               PROVE  \E k \in DOMAIN sink' : sink'[k].kind = "gap" /\ i < k /\ k < j
    BY DEF GapBetweenConnections, OfKind
  <2>1. i \in OfKind("event") /\ j \in OfKind("event")
        /\ sink'[i] = sink[i] /\ sink'[j] = sink[j]
    BY <1>1, <1>2 DEF OfKind
  <2>2. PICK k \in OfKind("gap") : i < k /\ k < j
    BY <2>1 DEF Inv, GapBetweenConnections
  <2> QED
    BY <1>1, <2>2 DEF OfKind
<1> QED
  BY <1>3, <1>4

\* Where the recording does not change, neither do its gaps.
LEMMA GapsUnchanged ==
  ASSUME Inv, UNCHANGED sink, connection' \in {connection, connection + 1},
         Outage' => Outage, connection' # connection => Outage
  PROVE  GapFollows' /\ GapBetweenConnections'
<1>1. GapBetweenConnections'
  BY DEF Inv, GapBetweenConnections, OfKind
<1>2. GapFollows'
  <2> SUFFICES ASSUME NEW i \in DOMAIN sink, sink[i].kind = "event"
               PROVE  /\ sink[i].connection <= connection'
                      /\ Outage' \/ sink[i].connection # connection' =>
                           \E k \in DOMAIN sink : sink[k].kind = "gap" /\ i < k
    BY DEF GapFollows
  <2>1. sink[i].connection \in Nat /\ sink[i].connection <= connection /\ connection \in Nat
    <3>1. sink[i] \in Record
      BY DEF Inv, Typed
    <3> QED
      BY <3>1 DEF Inv, Typed, GapFollows, Record
  <2> QED
    BY <2>1 DEF Inv, GapFollows
<1> QED
  BY <1>1, <1>2

-----------------------------------------------------------------------------
(* The other parts of the invariant. *)

\* A record that is no stop record leaves the recorder recording.
LEMMA StillRecording ==
  ASSUME Inv, Recording, NEW r \in Record, sink' = Append(sink, r), r.kind # "stop",
         Recording', caller' = caller
  PROVE  StopAtEnd'
<1>1. \A i \in DOMAIN sink' : sink'[i].kind # "stop"
  BY Appended DEF Inv, Typed, StopAtEnd
<1> QED
  BY <1>1 DEF Inv, StopAtEnd

\* The stop record ends the recording.
LEMMA Stopped ==
  ASSUME Inv, Recording, NEW r \in Record, sink' = Append(sink, r), r.kind = "stop",
         ~Recording'
  PROVE  StopAtEnd'
<1>1. /\ DOMAIN sink' = 1 .. Len(sink) + 1 /\ Len(sink) \in Nat /\ Len(sink') = Len(sink) + 1
      /\ sink'[Len(sink) + 1].kind = "stop"
      /\ \A i \in 1 .. Len(sink) : sink'[i].kind # "stop"
  BY Appended DEF Inv, Typed, StopAtEnd
<1> QED
  BY <1>1 DEF StopAtEnd

\* Where the recording does not change, and neither begins nor ends.
LEMMA StopUnchanged ==
  ASSUME Inv, UNCHANGED sink, Recording' <=> Recording,
         caller' = "returned" => caller = "returned" \/ ~Recording
  PROVE  StopAtEnd'
  BY DEF Inv, StopAtEnd

\* Records that are no events leave the cap alone.
LEMMA CapKept ==
  ASSUME Inv, NEW r \in Record, sink' = Append(sink, r), r.kind # "event",
         stop => stop',
         stop /\ phase \in {"close", "done", "cancelled"} =>
           phase' \in {"close", "done", "cancelled"}
  PROVE  Capped' /\ CapBounds'
<1>1. \A i \in DOMAIN sink' : sink'[i].kind = "event" =>
        i \in DOMAIN sink /\ sink[i].kind = "event"
  BY Appended DEF Inv, Typed
<1>2. Capped'
  BY <1>1 DEF Inv, Capped
<1>3. CapBounds'
  BY <1>1 DEF Inv, CapBounds, OfKind
<1> QED
  BY <1>2, <1>3

LEMMA CapUnchanged ==
  ASSUME Inv, UNCHANGED sink, stop => stop',
         stop /\ phase \in {"close", "done", "cancelled"} =>
           phase' \in {"close", "done", "cancelled"}
  PROVE  Capped' /\ CapBounds'
  BY DEF Inv, Capped, CapBounds, OfKind

\* The delay is a number: at most sixteen doublings are looked at.
LEMMA Doublings == \A n \in 0 .. 16 : 2 ^ n \in Nat
<1>1. /\ 2^0 \in Nat /\ 2^1 \in Nat /\ 2^2 \in Nat /\ 2^3 \in Nat /\ 2^4 \in Nat
      /\ 2^5 \in Nat /\ 2^6 \in Nat /\ 2^7 \in Nat /\ 2^8 \in Nat
      /\ 2^9 \in Nat /\ 2^10 \in Nat /\ 2^11 \in Nat /\ 2^12 \in Nat
      /\ 2^13 \in Nat /\ 2^14 \in Nat /\ 2^15 \in Nat /\ 2^16 \in Nat
  OBVIOUS
<1> SUFFICES ASSUME NEW n \in 0 .. 16 PROVE 2 ^ n \in Nat
  OBVIOUS
<1>2. \/ n = 0 \/ n = 1 \/ n = 2 \/ n = 3 \/ n = 4 \/ n = 5 \/ n = 6 \/ n = 7 \/ n = 8
      \/ n = 9 \/ n = 10 \/ n = 11 \/ n = 12 \/ n = 13 \/ n = 14 \/ n = 15 \/ n = 16
  OBVIOUS
<1> QED
  BY ONLY <1>1, <1>2, Zenon

LEMMA DelayType ==
  ASSUME Inv
  PROVE  DelayNow \in Nat /\ FailuresNow \in Nat
<1>1. FailuresNow \in Nat
  BY DEF Inv, Typed, FailuresNow
<1> DEFINE doublings == IF FailuresNow > 0 THEN FailuresNow - 1 ELSE 0
<1>2. Smaller(doublings, 16) \in 0 .. 16
  BY <1>1 DEF Smaller
<1>3. 2 ^ Smaller(doublings, 16) \in Nat
  BY <1>2, Doublings
<1> DEFINE power == 2 ^ Smaller(doublings, 16)
<1> HIDE DEF power
<1>4. Smaller(MaxDelay, Delay * power) \in Nat
  <2>1. power \in Nat
    BY <1>3 DEF power
  <2>2. Delay * power \in Nat
    BY <2>1, RecorderAssumption
  <2> QED
    BY <2>2, RecorderAssumption DEF Smaller
<1> QED
  BY <1>1, <1>4 DEF DelayNow, power

-----------------------------------------------------------------------------
(* The invariant is inductive. *)

LEMMA InitInv == Init => Inv
<1> SUFFICES ASSUME Init PROVE Inv
  OBVIOUS
<1>1. /\ sink = <<Start>> /\ DOMAIN sink = {1} /\ Len(sink) = 1
      /\ sink[1].kind = "start" /\ sink \in Seq(Record)
  BY DEF Init, Start, Record
<1>2. Typed /\ Flags
  <2>1. Typed
    BY <1>1, RecorderAssumption DEF Init, Typed
  <2>2. Flags
    BY DEF Init, Flags
  <2> QED
    BY <2>1, <2>2
<1>3. StopAtEnd /\ GapFollows /\ Handles /\ Capped
  BY <1>1 DEF Init, StopAtEnd, Recording, GapFollows, Handles, Capped
<1>4. GapBetweenConnections /\ CapBounds
  BY <1>1 DEF GapBetweenConnections, CapBounds, OfKind
<1> QED
  BY <1>2, <1>3, <1>4 DEF Inv

LEMMA ConnectKeeps == Inv /\ Connect => Inv'
<1> SUFFICES ASSUME Inv, Connect PROVE Inv'
  OBVIOUS
<1>1. Typed'
  BY RecorderAssumption DEF Inv, Typed, Connect
<1>2. StopAtEnd'
  BY StopUnchanged DEF Connect, Recording
<1>3. GapFollows' /\ GapBetweenConnections'
  BY GapsUnchanged DEF Connect, Outage
<1>4. Handles'
  BY DEF Inv, Typed, Handles, Connect
<1>5. Flags'
  BY DEF Inv, Flags, Connect
<1>6. Capped' /\ CapBounds'
  BY CapUnchanged DEF Connect
<1> QED
  BY <1>1, <1>2, <1>3, <1>4, <1>5, <1>6 DEF Inv

LEMMA ConnectFailsKeeps == Inv /\ ConnectFails => Inv'
<1> SUFFICES ASSUME Inv, ConnectFails PROVE Inv'
  OBVIOUS
<1>0. Gap \in Record /\ Gap.kind = "gap"
  BY DEF Gap, Record
<1>1. Typed'
  BY <1>0, Appended, RecorderAssumption DEF Inv, Typed, ConnectFails
<1>2. StopAtEnd'
  BY <1>0, StillRecording DEF ConnectFails, Recording
<1>3. GapFollows' /\ GapBetweenConnections'
  BY <1>0, GapsKept DEF Inv, Typed, ConnectFails
<1>4. Handles'
  BY DEF Inv, Typed, Handles, ConnectFails
<1>5. Flags'
  BY DEF Inv, Flags, ConnectFails
<1>6. Capped' /\ CapBounds'
  BY <1>0, CapKept DEF ConnectFails
<1> QED
  BY <1>1, <1>2, <1>3, <1>4, <1>5, <1>6 DEF Inv

LEMMA DeliverKeeps == Inv /\ Deliver => Inv'
<1> SUFFICES ASSUME Inv, Deliver PROVE Inv'
  OBVIOUS
<1> DEFINE n == Len(sink)
<1>0. Datum \in Record /\ Datum.kind = "event" /\ Datum.connection = connection
  BY RecorderAssumption DEF Datum, Record, Inv, Typed
<1>a. /\ n \in Nat /\ Len(sink') = n + 1
      /\ DOMAIN sink = 1 .. n /\ DOMAIN sink' = 1 .. n + 1
      /\ \A i \in DOMAIN sink : sink'[i] = sink[i]
      /\ sink'[n + 1] = Datum
  BY <1>0, Appended DEF Inv, Typed, Deliver
<1> HIDE DEF n
<1>1. Typed'
  BY <1>0, Appended, RecorderAssumption DEF Inv, Typed, Deliver
<1>2. StopAtEnd'
  BY <1>0, StillRecording DEF Deliver, Recording
<1>3. GapFollows' /\ GapBetweenConnections'
  <2>1. GapFollows'
    <3> SUFFICES ASSUME NEW i \in DOMAIN sink', sink'[i].kind = "event"
                 PROVE  /\ sink'[i].connection <= connection'
                        /\ Outage' \/ sink'[i].connection # connection' =>
                             \E k \in DOMAIN sink' : sink'[k].kind = "gap" /\ i < k
      BY DEF GapFollows
    <3>1. ~Outage'
      BY DEF Deliver, Outage
    <3>2. CASE i = n + 1
      BY <1>0, <1>a, <3>1, <3>2 DEF Inv, Typed, Deliver
    <3>3. CASE i \in DOMAIN sink
      BY <1>a, <3>1, <3>3 DEF Inv, GapFollows, Deliver
    <3> QED
      BY <1>a, <3>2, <3>3
  <2>2. GapBetweenConnections'
    <3> SUFFICES ASSUME NEW i \in DOMAIN sink', NEW j \in DOMAIN sink',
                        sink'[i].kind = "event", sink'[j].kind = "event",
                        i < j, sink'[i].connection # sink'[j].connection
                 PROVE  \E k \in DOMAIN sink' : sink'[k].kind = "gap" /\ i < k /\ k < j
      BY DEF GapBetweenConnections, OfKind
    <3>1. i \in DOMAIN sink /\ sink'[i] = sink[i]
      BY <1>a
    <3>2. CASE j = n + 1
      <4>1. sink[i].connection # connection
        BY <1>0, <1>a, <3>1, <3>2
      <4>2. PICK k \in DOMAIN sink : sink[k].kind = "gap" /\ i < k
        BY <3>1, <4>1 DEF Inv, GapFollows
      <4> QED
        BY <1>a, <3>2, <4>2
    <3>3. CASE j \in DOMAIN sink
      <4>1. i \in OfKind("event") /\ j \in OfKind("event") /\ sink'[j] = sink[j]
        BY <1>a, <3>1, <3>3 DEF OfKind
      <4>2. PICK k \in OfKind("gap") : i < k /\ k < j
        BY <3>1, <4>1 DEF Inv, GapBetweenConnections
      <4> QED
        BY <1>a, <4>2 DEF OfKind
    <3> QED
      BY <1>a, <3>2, <3>3
  <2> QED
    BY <2>1, <2>2
<1>4. Handles'
  BY DEF Inv, Handles, Deliver
<1>5. Flags'
  <2>1. stop' \in BOOLEAN
    BY DEF Inv, Flags, Deliver, Full
  <2> QED
    BY <2>1 DEF Inv, Flags, Deliver
<1>6. Capped' /\ CapBounds'
  <2>1. \A i \in DOMAIN sink : sink[i].kind = "event" => ~(i >= MaxRecords)
    BY DEF Inv, Capped, Deliver
  <2>2. n + 1 >= MaxRecords => stop' /\ phase' = "close"
    BY <1>a DEF Deliver, Full
  <2> QED
    BY <1>a, <2>1, <2>2 DEF Capped, CapBounds, OfKind
<1> QED
  BY <1>1, <1>2, <1>3, <1>4, <1>5, <1>6 DEF Inv

LEMMA EndsKeeps == Inv /\ Ends => Inv'
<1> SUFFICES ASSUME Inv, Ends PROVE Inv'
  OBVIOUS
<1>0. Gap \in Record /\ Gap.kind = "gap"
  BY DEF Gap, Record
<1>1. Typed'
  BY <1>0, Appended DEF Inv, Typed, Ends, stream
<1>2. StopAtEnd'
  BY <1>0, StillRecording, StopUnchanged DEF Ends, Recording, stream
<1>3. GapFollows' /\ GapBetweenConnections'
  BY <1>0, GapsKept, GapsUnchanged DEF Inv, Typed, Ends, Outage, stream
<1>4. Handles'
  BY DEF Inv, Handles, Ends, stream
<1>5. Flags'
  BY DEF Inv, Flags, Ends, stream
<1>6. Capped' /\ CapBounds'
  BY <1>0, CapKept, CapUnchanged DEF Ends, stream
<1> QED
  BY <1>1, <1>2, <1>3, <1>4, <1>5, <1>6 DEF Inv

LEMMA FailsKeeps == Inv /\ Fails => Inv'
<1> SUFFICES ASSUME Inv, Fails PROVE Inv'
  OBVIOUS
<1>0. Gap \in Record /\ Gap.kind = "gap"
  BY DEF Gap, Record
<1>1. Typed'
  BY <1>0, Appended DEF Inv, Typed, Fails, stream
<1>2. StopAtEnd'
  BY <1>0, StillRecording DEF Fails, Recording, stream
<1>3. GapFollows' /\ GapBetweenConnections'
  BY <1>0, GapsKept DEF Inv, Typed, Fails, stream
<1>4. Handles'
  BY DEF Inv, Handles, Fails, stream
<1>5. Flags'
  BY DEF Inv, Flags, Fails, stream
<1>6. Capped' /\ CapBounds'
  BY <1>0, CapKept DEF Fails, stream
<1> QED
  BY <1>1, <1>2, <1>3, <1>4, <1>5, <1>6 DEF Inv

LEMMA CloseKeeps == Inv /\ Close => Inv'
<1> SUFFICES ASSUME Inv, Close PROVE Inv'
  OBVIOUS
<1>0. /\ Stop(written) \in Record /\ Stop(written).kind = "stop"
      /\ Reconnect(DelayNow) \in Record /\ Reconnect(DelayNow).kind = "reconnect"
  BY DelayType DEF Inv, Typed, Stop, Reconnect, Record
<1>1. Typed'
  BY <1>0, Appended, DelayType DEF Inv, Typed, Close
<1>2. StopAtEnd'
  BY <1>0, StillRecording, Stopped DEF Close, Recording
<1>3. GapFollows' /\ GapBetweenConnections'
  BY <1>0, GapsKept DEF Inv, Typed, Close, Outage
<1>4. Handles'
  BY DEF Inv, Handles, Close, Closed
<1>5. Flags'
  BY DEF Inv, Flags, Close
<1>6. Capped' /\ CapBounds'
  BY <1>0, CapKept DEF Close
<1> QED
  BY <1>1, <1>2, <1>3, <1>4, <1>5, <1>6 DEF Inv

LEMMA WakeKeeps == Inv /\ Wake => Inv'
<1> SUFFICES ASSUME Inv, Wake PROVE Inv'
  OBVIOUS
<1>0. Stop(written) \in Record /\ Stop(written).kind = "stop"
  BY DEF Inv, Typed, Stop, Record
<1>1. Typed'
  BY <1>0, Appended DEF Inv, Typed, Wake, stream
<1>2. StopAtEnd'
  BY <1>0, StopUnchanged, Stopped DEF Wake, Recording, stream
<1>3. GapFollows' /\ GapBetweenConnections'
  BY <1>0, GapsKept, GapsUnchanged DEF Inv, Typed, Wake, Outage, stream
<1>4. Handles'
  BY DEF Inv, Handles, Wake, stream
<1>5. Flags'
  BY DEF Inv, Flags, Wake, stream
<1>6. Capped' /\ CapBounds'
  BY <1>0, CapKept, CapUnchanged DEF Wake, stream
<1> QED
  BY <1>1, <1>2, <1>3, <1>4, <1>5, <1>6 DEF Inv

LEMMA TimerDoneKeeps == Inv /\ TimerDone => Inv'
<1> SUFFICES ASSUME Inv, TimerDone PROVE Inv'
  OBVIOUS
<1>1. Typed'
  BY DEF Inv, Typed, TimerDone, stream
<1>2. StopAtEnd'
  BY StopUnchanged DEF TimerDone, Recording, stream
<1>3. GapFollows' /\ GapBetweenConnections'
  BY GapsUnchanged DEF TimerDone, Outage, stream
<1>4. Handles'
  BY DEF Inv, Handles, TimerDone, stream
<1>5. Flags'
  BY RecorderAssumption DEF Inv, Flags, TimerDone, stream
<1>6. Capped' /\ CapBounds'
  BY CapUnchanged DEF TimerDone, stream
<1> QED
  BY <1>1, <1>2, <1>3, <1>4, <1>5, <1>6 DEF Inv

LEMMA FirstDoneKeeps == Inv /\ FirstDone => Inv'
<1> SUFFICES ASSUME Inv, FirstDone PROVE Inv'
  OBVIOUS
<1>1. Typed'
  BY DEF Inv, Typed, FirstDone, stream
<1>2. StopAtEnd'
  BY StopUnchanged DEF FirstDone, Recording, stream
<1>3. GapFollows' /\ GapBetweenConnections'
  BY GapsUnchanged DEF FirstDone, Outage, stream
<1>4. Handles'
  BY DEF Inv, Handles, FirstDone, stream
<1>5. Flags'
  BY RecorderAssumption DEF Inv, Flags, FirstDone, stream
<1>6. Capped' /\ CapBounds'
  BY CapUnchanged DEF FirstDone, stream
<1> QED
  BY <1>1, <1>2, <1>3, <1>4, <1>5, <1>6 DEF Inv

LEMMA RecorderDoneKeeps == Inv /\ RecorderDone => Inv'
<1> SUFFICES ASSUME Inv, RecorderDone PROVE Inv'
  OBVIOUS
<1>1. Typed'
  BY DEF Inv, Typed, RecorderDone, stream
<1>2. StopAtEnd'
  BY StopUnchanged DEF RecorderDone, Recording, stream
<1>3. GapFollows' /\ GapBetweenConnections'
  BY GapsUnchanged DEF RecorderDone, Outage, stream
<1>4. Handles'
  BY DEF Inv, Handles, RecorderDone, stream
<1>5. Flags'
  BY RecorderAssumption DEF Inv, Flags, RecorderDone, stream
<1>6. Capped' /\ CapBounds'
  BY CapUnchanged DEF RecorderDone, stream
<1> QED
  BY <1>1, <1>2, <1>3, <1>4, <1>5, <1>6 DEF Inv

LEMMA GraceOverKeeps == Inv /\ GraceOver => Inv'
<1> SUFFICES ASSUME Inv, GraceOver PROVE Inv'
  OBVIOUS
<1>0. Stop(0) \in Record /\ Stop(0).kind = "stop"
  BY DEF Stop, Record
<1>1. Typed'
  BY <1>0, Appended DEF Inv, Typed, GraceOver, stream
<1>2. StopAtEnd'
  BY <1>0, Stopped DEF GraceOver, Recording, stream
<1>3. GapFollows' /\ GapBetweenConnections'
  BY <1>0, GapsKept DEF Inv, Typed, GraceOver, Outage, stream
<1>4. Handles'
  BY DEF Inv, Handles, GraceOver, stream
<1>5. Flags'
  BY DEF Inv, Flags, GraceOver, stream
<1>6. Capped' /\ CapBounds'
  BY <1>0, CapKept DEF GraceOver, stream
<1> QED
  BY <1>1, <1>2, <1>3, <1>4, <1>5, <1>6 DEF Inv

LEMMA NextKeeps == Inv /\ [Next]_vars => Inv'
<1> SUFFICES ASSUME Inv, [Next]_vars PROVE Inv'
  OBVIOUS
<1>1. CASE Network
  BY <1>1, ConnectKeeps, ConnectFailsKeeps, DeliverKeeps, EndsKeeps, FailsKeeps DEF Network
<1>2. CASE Program
  BY <1>2, CloseKeeps, WakeKeeps DEF Program
<1>3. CASE Market
  BY <1>3, TimerDoneKeeps, FirstDoneKeeps, RecorderDoneKeeps, GraceOverKeeps DEF Market
<1>4. CASE UNCHANGED vars
  <2>1. Typed' /\ Flags' /\ Handles'
    BY <1>4 DEF Inv, Typed, Flags, Handles, vars, stream
  <2>2. StopAtEnd' /\ GapFollows' /\ GapBetweenConnections'
    BY <1>4, StopUnchanged, GapsUnchanged DEF Recording, Outage, vars, stream
  <2>3. Capped' /\ CapBounds'
    BY <1>4, CapUnchanged DEF vars, stream
  <2> QED
    BY <2>1, <2>2, <2>3 DEF Inv
<1> QED
  BY <1>1, <1>2, <1>3, <1>4 DEF Next

-----------------------------------------------------------------------------

\* The invariant holds in every state of every recording.
THEOREM RecorderInv == Spec => []Inv
  BY InitInv, NextKeeps, PTL DEF Spec

\* Records and variables have their types; only the current connection is open.
THEOREM RecorderTypes == Spec => []TypeOK
<1>1. Inv => TypeOK
  BY DEF Inv, Typed, Flags, Handles, TypeOK
<1> QED
  BY <1>1, RecorderInv, PTL

\* Events of two connections have a gap record between them, whatever the
\* connections did (recorder.py:139-152).
THEOREM GapsAreRecorded == Spec => []GapBetweenConnections
  BY RecorderInv, PTL DEF Inv

\* Whichever of the timer, the cap, the stream and the caller comes first, one
\* stop record is written, nothing after it, every client was asked to close
\* (recorder.py:163 and 232-255), and one event at most is beyond the cap (134-138).
THEOREM CleanStop == Spec => []StopsCleanly
<1>1. Inv => StopsCleanly
  BY DEF Inv, StopAtEnd, Handles, Recording, StopsCleanly, OfKind
<1> QED
  BY <1>1, RecorderInv, PTL

-----------------------------------------------------------------------------
(***************************************************************************)
(* The delays between connections.                                         *)
(***************************************************************************)

\* The delay after n connections in a row that delivered nothing.
DelayOf(n) == Smaller(MaxDelay, Delay * 2 ^ Smaller(IF n > 0 THEN n - 1 ELSE 0, 16))

LEMMA Powers == 2 ^ 0 = 1 /\ \A n \in 0 .. 15 : 2 ^ (n + 1) = 2 * 2 ^ n
<1>1. /\ 2^(0 + 1) = 2 * 2^0 /\ 2^(1 + 1) = 2 * 2^1 /\ 2^(2 + 1) = 2 * 2^2
      /\ 2^(3 + 1) = 2 * 2^3 /\ 2^(4 + 1) = 2 * 2^4 /\ 2^(5 + 1) = 2 * 2^5
      /\ 2^(6 + 1) = 2 * 2^6 /\ 2^(7 + 1) = 2 * 2^7 /\ 2^(8 + 1) = 2 * 2^8
      /\ 2^(9 + 1) = 2 * 2^9 /\ 2^(10 + 1) = 2 * 2^10 /\ 2^(11 + 1) = 2 * 2^11
      /\ 2^(12 + 1) = 2 * 2^12 /\ 2^(13 + 1) = 2 * 2^13 /\ 2^(14 + 1) = 2 * 2^14
      /\ 2^(15 + 1) = 2 * 2^15
  OBVIOUS
<1>2. 2 ^ 0 = 1
  OBVIOUS
<1>3. ASSUME NEW n \in 0 .. 15
      PROVE  2 ^ (n + 1) = 2 * 2 ^ n
  <2>1. \/ n = 0 \/ n = 1 \/ n = 2 \/ n = 3 \/ n = 4 \/ n = 5 \/ n = 6 \/ n = 7
      \/ n = 8 \/ n = 9 \/ n = 10 \/ n = 11 \/ n = 12 \/ n = 13 \/ n = 14 \/ n = 15
    OBVIOUS
  <2> QED
    BY ONLY <1>1, <2>1, Zenon
<1> QED
  BY <1>2, <1>3

\* The power of two that is looked at is at most 2^16.
LEMMA PowersGrow == \A n \in 0 .. 16 : 2 ^ n \in 1 .. 2 ^ 16
<1>1. /\ 2^0 \in 1 .. 2^16 /\ 2^1 \in 1 .. 2^16 /\ 2^2 \in 1 .. 2^16
      /\ 2^3 \in 1 .. 2^16 /\ 2^4 \in 1 .. 2^16 /\ 2^5 \in 1 .. 2^16
      /\ 2^6 \in 1 .. 2^16 /\ 2^7 \in 1 .. 2^16 /\ 2^8 \in 1 .. 2^16
      /\ 2^9 \in 1 .. 2^16 /\ 2^10 \in 1 .. 2^16 /\ 2^11 \in 1 .. 2^16
      /\ 2^12 \in 1 .. 2^16 /\ 2^13 \in 1 .. 2^16 /\ 2^14 \in 1 .. 2^16
      /\ 2^15 \in 1 .. 2^16 /\ 2^16 \in 1 .. 2^16
  OBVIOUS
<1> SUFFICES ASSUME NEW n \in 0 .. 16 PROVE 2 ^ n \in 1 .. 2 ^ 16
  OBVIOUS
<1>2. \/ n = 0 \/ n = 1 \/ n = 2 \/ n = 3 \/ n = 4 \/ n = 5 \/ n = 6 \/ n = 7
      \/ n = 8 \/ n = 9 \/ n = 10 \/ n = 11 \/ n = 12 \/ n = 13 \/ n = 14 \/ n = 15
      \/ n = 16
  OBVIOUS
<1> QED
  BY ONLY <1>1, <1>2, Zenon

\* One more failure doubles the delay, up to the longest.
LEMMA DelayDoubles ==
  ASSUME NEW n \in Nat
  PROVE  /\ DelayOf(n) \in Nat
         /\ n \in {0, 1} => DelayOf(n) = Delay
         /\ n > 0 => DelayOf(n + 1) = Smaller(Longest, 2 * DelayOf(n))
<1> DEFINE e(m) == Smaller(IF m > 0 THEN m - 1 ELSE 0, 16)
<1>1. /\ e(n) \in 0 .. 16 /\ e(n + 1) \in 0 .. 16
      /\ n \in {0, 1} => e(n) = 0
      /\ n > 0 /\ n <= 16 => e(n) \in 0 .. 15 /\ e(n + 1) = e(n) + 1
      /\ n > 16 => e(n) = 16 /\ e(n + 1) = 16
  BY DEF Smaller
<1> DEFINE p == 2 ^ e(n)
           q == 2 ^ e(n + 1)
           r == 2 ^ 16
<1>2. DelayOf(n) = Smaller(MaxDelay, Delay * p) /\ DelayOf(n + 1) = Smaller(MaxDelay, Delay * q)
  BY DEF DelayOf
<1>3. /\ p \in Nat \ {0} /\ q \in Nat \ {0} /\ r \in Nat /\ p <= r /\ q <= r
      /\ n \in {0, 1} => p = 1
      /\ n > 0 /\ n <= 16 => q = 2 * p
      /\ n > 16 => p = r /\ q = r
  <2> HIDE DEF e
  <2>1. r \in Nat
    BY Doublings
  <2>2. p \in 1 .. r /\ q \in 1 .. r
    BY <1>1, PowersGrow
  <2>3. n \in {0, 1} => p = 1
    BY <1>1, Powers
  <2>4. n > 0 /\ n <= 16 => q = 2 * p
    BY <1>1, Powers
  <2>5. n > 16 => p = r /\ q = r
    BY <1>1
  <2> HIDE DEF p, q, r
  <2> QED
    BY <2>1, <2>2, <2>3, <2>4, <2>5
<1> HIDE DEF e, p, q
<1> DEFINE x == Delay * p
           y == Delay * q
           z == Delay * r
<1>4. /\ x \in Nat /\ y \in Nat /\ z \in Nat /\ MaxDelay \in Nat /\ Delay \in Nat /\ Delay <= MaxDelay
      /\ y <= z
      /\ n \in {0, 1} => x = Delay
      /\ n > 0 /\ n <= 16 => y = 2 * x
      /\ n > 16 => x = z /\ y = z
  <2> HIDE DEF r
  <2>1. Delay \in Nat /\ MaxDelay \in Nat /\ Delay <= MaxDelay
    BY RecorderAssumption
  <2>2. x \in Nat /\ y \in Nat /\ z \in Nat
    BY <1>3, <2>1
  <2>3. y <= z
    BY <1>3, <2>1
  <2>4. n \in {0, 1} => x = Delay
    BY <1>3, <2>1
  <2>5. n > 0 /\ n <= 16 => y = 2 * x
    BY <1>3, <2>1
  <2>6. n > 16 => x = z /\ y = z
    BY <1>3
  <2> QED
    BY <2>1, <2>2, <2>3, <2>4, <2>5, <2>6
<1>5. Longest = Smaller(MaxDelay, z)
  BY DEF Longest
<1> HIDE DEF x, y, z
<1>6. DelayOf(n) = Smaller(MaxDelay, x) /\ DelayOf(n + 1) = Smaller(MaxDelay, y)
  BY <1>2 DEF x, y
<1> QED
  BY <1>4, <1>5, <1>6 DEF Smaller

\* An event was recorded after the last wait.
Heard == \E i \in OfKind("event") : \A k \in OfKind("reconnect") : k < i

LastWait(i) == i \in OfKind("reconnect") /\ \A k \in OfKind("reconnect") : k <= i

\* What the recorder remembers is what the recording says of the last wait
\* and of what came after it.
Remembered ==
  Recording =>
    /\ phase \in {"stream", "close"} => (delivered <=> Heard)
    /\ phase \in {"connect", "sleep"} => ~Heard
    /\ \A i : LastWait(i) => /\ sink[i].delay = DelayOf(failures)
                             /\ AfterData(i) <=> failures = 0

\* The records of a kind after record r was appended.
LEMMA KindsAppended ==
  ASSUME sink \in Seq(Record), NEW r \in Record, sink' = Append(sink, r), NEW kind
  PROVE  /\ Len(sink) \in Nat
         /\ OfKind(kind) \subseteq 1 .. Len(sink)
         /\ r.kind = kind => OfKind(kind)' = OfKind(kind) \cup {Len(sink) + 1}
         /\ r.kind # kind => OfKind(kind)' = OfKind(kind)
         /\ \A i \in OfKind(kind) : sink'[i] = sink[i]
         /\ sink'[Len(sink) + 1] = r
<1> DEFINE n == Len(sink)
<1>1. /\ n \in Nat /\ DOMAIN sink = 1 .. n /\ DOMAIN sink' = 1 .. n + 1
      /\ \A i \in 1 .. n : sink'[i] = sink[i]
      /\ sink'[n + 1] = r
  BY Appended
<1> HIDE DEF n
<1>2. OfKind(kind) \subseteq 1 .. n /\ \A i \in OfKind(kind) : sink'[i] = sink[i]
  BY <1>1 DEF OfKind
<1>3. OfKind(kind)' = {i \in 1 .. n + 1 : sink'[i].kind = kind}
  BY <1>1 DEF OfKind
<1>4. r.kind = kind => OfKind(kind)' = OfKind(kind) \cup {n + 1}
  BY <1>1, <1>3 DEF OfKind
<1>5. r.kind # kind => OfKind(kind)' = OfKind(kind)
  BY <1>1, <1>3 DEF OfKind
<1> QED
  BY <1>1, <1>2, <1>4, <1>5 DEF n

\* Nothing that is appended changes what came before a wait.
LEMMA AfterDataKept ==
  ASSUME sink \in Seq(Record), NEW r \in Record, sink' = Append(sink, r),
         NEW j \in DOMAIN sink
  PROVE  AfterData(j)' <=> AfterData(j)
<1> DEFINE n == Len(sink)
<1>1. n \in Nat /\ j \in 1 .. n
  BY Appended
<1>2. ASSUME NEW kind
      PROVE  /\ OfKind(kind) \subseteq 1 .. n
             /\ \A i : i <= n => (i \in OfKind(kind)' <=> i \in OfKind(kind))
  <2>1. OfKind(kind) \subseteq 1 .. n /\ n \in Nat
    BY KindsAppended
  <2>2. OfKind(kind)' = OfKind(kind) \/ OfKind(kind)' = OfKind(kind) \cup {n + 1}
    BY KindsAppended
  <2> HIDE DEF n
  <2> QED
    BY <2>1, <2>2
<1> HIDE DEF n
<1>3. \A i : i < j => \A kind : i \in OfKind(kind)' <=> i \in OfKind(kind)
  <2> SUFFICES ASSUME NEW i, i < j, NEW kind
               PROVE  i \in OfKind(kind)' <=> i \in OfKind(kind)
    OBVIOUS
  <2>1. OfKind(kind) \subseteq 1 .. n
    BY <1>2
  <2>2. OfKind(kind)' \subseteq 1 .. n + 1
    BY <1>1, KindsAppended, <2>1 DEF n
  <2>3. i \in 1 .. n + 1 => i <= n
    BY <1>1
  <2> QED
    BY <1>1, <1>2, <2>1, <2>2, <2>3
<1> QED
  BY <1>3 DEF AfterData

\* Records that are neither events nor waits leave the delays alone.
LEMMA QuietKeepsDelays ==
  ASSUME Inv, BackOff, Remembered,
         \/ UNCHANGED sink
         \/ \E r \in Record : sink' = Append(sink, r) /\ r.kind \notin {"event", "reconnect"},
         \/ ~Recording'
         \/ /\ Recording /\ failures' = failures
            /\ \/ phase' = phase /\ delivered' = delivered
               \/ phase = "stream" /\ phase' = "close" /\ delivered' = delivered
               \/ phase = "sleep" /\ phase' = "connect"
               \/ phase = "connect" /\ phase' \in {"stream", "close"} /\ delivered' = FALSE
  PROVE  BackOff' /\ Remembered'
<1>1. sink \in Seq(Record) /\ DOMAIN sink = 1 .. Len(sink) /\ Len(sink) \in Nat
  BY DEF Inv, Typed
<1>2. /\ OfKind("event")' = OfKind("event") /\ OfKind("reconnect")' = OfKind("reconnect")
      /\ \A i \in OfKind("reconnect") : i \in DOMAIN sink /\ sink'[i] = sink[i]
  <2>1. CASE UNCHANGED sink
    BY <2>1, SMTT(60) DEF OfKind
  <2>2. ASSUME NEW r \in Record, sink' = Append(sink, r), r.kind \notin {"event", "reconnect"}
        PROVE  /\ OfKind("event")' = OfKind("event")
               /\ OfKind("reconnect")' = OfKind("reconnect")
               /\ \A i \in OfKind("reconnect") : i \in DOMAIN sink /\ sink'[i] = sink[i]
    BY <1>1, <2>2, KindsAppended, ZenonT(60)
  <2> QED
    BY <2>1, <2>2
<1>3. \A j : AfterData(j)' <=> AfterData(j)
  BY <1>2 DEF AfterData
<1>4. Heard' <=> Heard
  BY <1>2 DEF Heard
<1>5. \A i : LastWait(i)' <=> LastWait(i)
  BY <1>2 DEF LastWait
<1>6. BackOff'
  BY <1>2, <1>3 DEF BackOff
<1>7. Remembered'
  <2>1. CASE ~Recording'
    BY <2>1 DEF Remembered
  <2>2. CASE Recording /\ Recording'
    <3>1. failures' = failures /\ \A i : LastWait(i) => i \in OfKind("reconnect")
      BY <2>2 DEF LastWait
    <3>2. \A i : LastWait(i)' => /\ sink'[i].delay = DelayOf(failures')
                                 /\ AfterData(i)' <=> failures' = 0
      BY <1>2, <1>3, <1>5, <2>2, <3>1 DEF Remembered
    <3>3. /\ phase' \in {"stream", "close"} => (delivered' <=> Heard')
          /\ phase' \in {"connect", "sleep"} => ~Heard'
      BY <1>4, <2>2 DEF Remembered
    <3> QED
      BY <3>2, <3>3 DEF Remembered
  <2> QED
    BY <2>1, <2>2 DEF Recording
<1> QED
  BY <1>6, <1>7

\* An event makes up for the failures before it.
LEMMA EventKeepsDelays ==
  ASSUME Inv, BackOff, Remembered, Deliver
  PROVE  BackOff' /\ Remembered'
<1>1. /\ sink \in Seq(Record) /\ DOMAIN sink = 1 .. Len(sink) /\ Len(sink) \in Nat
      /\ Datum \in Record /\ Datum.kind = "event"
      /\ sink' = Append(sink, Datum)
  BY DEF Deliver, Inv, Typed, Datum, Record
<1>2. /\ OfKind("event")' = OfKind("event") \cup {Len(sink) + 1}
      /\ OfKind("reconnect")' = OfKind("reconnect")
      /\ OfKind("reconnect") \subseteq 1 .. Len(sink)
      /\ \A i \in OfKind("reconnect") : sink'[i] = sink[i]
  BY <1>1, KindsAppended
<1>3. \A j \in OfKind("reconnect") : AfterData(j)' <=> AfterData(j)
  BY <1>1, <1>2, AfterDataKept
<1>4. Heard'
  BY <1>1, <1>2 DEF Heard
<1>5. \A i : (LastWait(i)' <=> LastWait(i)) /\ (LastWait(i) => i \in OfKind("reconnect"))
  BY <1>2 DEF LastWait
<1>6. BackOff'
  BY <1>2, <1>3 DEF BackOff
<1>7. Remembered'
  <2>1. /\ Recording /\ phase' \in {"stream", "close"} /\ delivered' = TRUE /\ failures' = failures
    BY DEF Deliver, Recording
  <2>2. \A i : LastWait(i)' => /\ sink'[i].delay = DelayOf(failures')
                               /\ AfterData(i)' <=> failures' = 0
    BY <1>2, <1>3, <1>5, <2>1 DEF Remembered
  <2> QED
    BY <1>4, <2>1, <2>2 DEF Remembered
<1> QED
  BY <1>6, <1>7

\* The delay of a wait follows from the wait before it and from what came in
\* between.
LEMMA WaitKeepsDelays ==
  ASSUME Inv, BackOff, Remembered, phase = "close", phase' = "sleep",
         sink' = Append(sink, Reconnect(DelayNow)), failures' = FailuresNow
  PROVE  BackOff' /\ Remembered'
<1>0. PICK n \in Nat : n = Len(sink)
  BY Appended DEF Inv, Typed
<1> DEFINE r == Reconnect(DelayNow)
<1>1. /\ sink \in Seq(Record) /\ DOMAIN sink = 1 .. n /\ n \in Nat
      /\ r \in Record /\ r.kind = "reconnect" /\ r.delay = DelayNow /\ failures \in Nat
      /\ delivered \in BOOLEAN
  BY <1>0, DelayType DEF Inv, Typed, Flags, Reconnect, Record
<1>2. DelayNow = DelayOf(failures')
  BY DEF DelayNow, DelayOf
<1> HIDE DEF r
<1>3. /\ OfKind("event")' = OfKind("event") /\ OfKind("event") \subseteq 1 .. n
      /\ OfKind("reconnect")' = OfKind("reconnect") \cup {n + 1}
      /\ OfKind("reconnect") \subseteq 1 .. n
      /\ \A i \in OfKind("reconnect") : sink'[i] = sink[i]
      /\ sink'[n + 1] = r
  BY <1>0, <1>1, KindsAppended DEF r
<1>4. \A j \in OfKind("reconnect") : AfterData(j)' <=> AfterData(j)
  BY <1>1, <1>3, AfterDataKept DEF r
<1>5. delivered <=> Heard
  BY DEF Remembered, Recording
<1>6. AfterData(n + 1)' <=> Heard
  <2>1. AfterData(n + 1)' <=> \E i \in OfKind("event") :
                                ~(\E k \in OfKind("reconnect") : i < k)
    <3>1. AfterData(n + 1)' <=> \E i \in OfKind("event")' : i < n + 1 /\
                                  ~(\E k \in OfKind("reconnect")' : i < k /\ k < n + 1)
      BY DEF AfterData
    <3>2. \A i \in OfKind("event") : i < n + 1
      BY <1>1, <1>3
    <3>3. \A k : k \in OfKind("reconnect") <=> (k \in OfKind("reconnect")' /\ k < n + 1)
      BY <1>1, <1>3
    <3> QED
      BY <1>3, <3>1, <3>2, <3>3
  <2>2. \A i \in OfKind("event"), k \in OfKind("reconnect") : i # k
    BY DEF OfKind
  <2>3. \A i \in OfKind("event"), k \in OfKind("reconnect") : ~(i < k) <=> k < i
    BY <1>1, <1>3, <2>2
  <2> QED
    BY <2>1, <2>3 DEF Heard
<1>7. /\ Heard => failures' = 0
      /\ ~Heard => failures' = failures + 1
      /\ failures' \in Nat
  BY <1>1, <1>5 DEF FailuresNow
<1>8. ~Heard'
  <2>1. n + 1 \in OfKind("reconnect")' /\ \A i \in OfKind("event")' : ~(n + 1 < i)
    BY <1>1, <1>3
  <2> QED
    BY <2>1 DEF Heard
<1>9. \A i : LastWait(i)' => i = n + 1
  <2>1. \A i \in OfKind("reconnect") : ~(n + 1 <= i)
    BY <1>1, <1>3
  <2> QED
    BY <1>3, <2>1 DEF LastWait
<1>10. Remembered'
  <2>1. AfterData(n + 1)' <=> failures' = 0
    BY <1>1, <1>6, <1>7
  <2>2. sink'[n + 1].delay = DelayOf(failures')
    BY <1>1, <1>2, <1>3
  <2>3. ASSUME NEW i, LastWait(i)'
        PROVE  sink'[i].delay = DelayOf(failures') /\ (AfterData(i)' <=> failures' = 0)
    BY <1>9, <2>1, <2>2, <2>3
  <2> QED
    BY <1>8, <2>3 DEF Remembered
<1>11. ASSUME NEW i \in OfKind("reconnect"),
              \A k \in OfKind("reconnect") : ~(i < k)
       PROVE  sink'[n + 1].delay = IF AfterData(i) \/ Heard
                                   THEN Delay ELSE Smaller(Longest, 2 * sink[i].delay)
  <2>1. \A k \in OfKind("reconnect") : k <= i
    BY <1>1, <1>3, <1>11
  <2>2. sink[i].delay = DelayOf(failures) /\ (AfterData(i) <=> failures = 0)
    BY <2>1 DEF Remembered, LastWait, Recording
  <2>3. sink'[n + 1].delay = DelayOf(failures')
    BY <1>1, <1>2, <1>3
  <2>4. CASE AfterData(i) \/ Heard
    <3>1. failures' \in {0, 1}
      BY <1>7, <2>2, <2>4
    <3> QED
      BY <1>7, <2>3, <2>4, <3>1, DelayDoubles
  <2>5. CASE ~(AfterData(i) \/ Heard)
    <3>1. failures' = failures + 1 /\ failures > 0
      BY <1>1, <1>7, <2>2, <2>5
    <3>2. DelayOf(failures + 1) = Smaller(Longest, 2 * DelayOf(failures))
      BY <1>1, <3>1, DelayDoubles
    <3> QED
      BY <2>2, <2>3, <2>5, <3>1, <3>2
  <2> QED
    BY <2>4, <2>5
<1>12. BackOff'
  <2> SUFFICES ASSUME NEW i \in OfKind("reconnect")', NEW j \in OfKind("reconnect")', i < j,
                      ~(\E k \in OfKind("reconnect")' : i < k /\ k < j)
               PROVE  sink'[j].delay = IF AfterData(i)' \/ AfterData(j)'
                                       THEN Delay ELSE Smaller(Longest, 2 * sink'[i].delay)
    BY DEF BackOff
  <2>1. i \in OfKind("reconnect")
    BY <1>1, <1>3
  <2>2. CASE j \in OfKind("reconnect")
    BY <1>3, <1>4, <2>1, <2>2 DEF BackOff
  <2>3. CASE j = n + 1
    <3>1. \A k \in OfKind("reconnect") : ~(i < k)
      BY <1>1, <1>3, <2>3
    <3>2. sink'[n + 1].delay = IF AfterData(i) \/ Heard
                               THEN Delay ELSE Smaller(Longest, 2 * sink[i].delay)
      BY <1>11, <2>1, <3>1
    <3>3. /\ AfterData(i)' <=> AfterData(i)
          /\ AfterData(j)' <=> Heard
          /\ sink'[i] = sink[i] /\ sink'[j] = sink'[n + 1]
      BY <1>3, <1>4, <1>6, <2>1, <2>3
    <3>4. CASE AfterData(i) \/ Heard
      BY <3>2, <3>3, <3>4
    <3>5. CASE ~(AfterData(i) \/ Heard)
      BY <3>2, <3>3, <3>5
    <3> QED
      BY <3>4, <3>5
  <2> QED
    BY <1>3, <2>2, <2>3
<1> QED
  BY <1>10, <1>12

LEMMA DelaysKept ==
  ASSUME Inv, BackOff, Remembered, [Next]_vars
  PROVE  BackOff' /\ Remembered'
<1>1. /\ Gap \in Record /\ Gap.kind = "gap"
      /\ \A n \in Nat : Stop(n) \in Record /\ Stop(n).kind = "stop"
      /\ written \in Nat
  BY DEF Gap, Stop, Record, Inv, Typed
<1>2. CASE Connect
  BY <1>2, QuietKeepsDelays DEF Connect, Recording
<1>3. CASE ConnectFails
  BY <1>1, <1>3, QuietKeepsDelays DEF ConnectFails, Recording
<1>4. CASE Ends \/ Fails
  BY <1>1, <1>4, QuietKeepsDelays DEF Ends, Fails, stream, Recording
<1>5. CASE Close
  <2>1. CASE stop
    BY <1>1, <1>5, <2>1, QuietKeepsDelays DEF Close, Recording
  <2>2. CASE ~stop
    BY <1>5, <2>2, WaitKeepsDelays DEF Close
  <2> QED
    BY <2>1, <2>2
<1>6. CASE Wake
  BY <1>1, <1>6, QuietKeepsDelays DEF Wake, stream, Recording
<1>7. CASE GraceOver
  BY <1>1, <1>7, QuietKeepsDelays DEF GraceOver, Recording
<1>8. CASE UNCHANGED <<sink, phase, delivered, failures>>
  BY <1>8, QuietKeepsDelays DEF Recording
<1>9. CASE TimerDone \/ FirstDone \/ RecorderDone \/ UNCHANGED vars
  BY <1>8, <1>9 DEF TimerDone, FirstDone, RecorderDone, vars, stream
<1> QED
  BY <1>2, <1>3, <1>4, <1>5, <1>6, <1>7, <1>9, EventKeepsDelays
     DEF Next, Network, Program, Market

LEMMA DelaysInit == Init => BackOff /\ Remembered
<1> SUFFICES ASSUME Init PROVE BackOff /\ Remembered
  OBVIOUS
<1>1. sink = <<Start>> /\ DOMAIN sink = {1} /\ sink[1].kind = "start" /\ phase = "connect"
  BY DEF Init, Start
<1>2. OfKind("reconnect") = {} /\ OfKind("event") = {}
  BY <1>1 DEF OfKind
<1> QED
  BY <1>1, <1>2 DEF BackOff, Remembered, LastWait, Heard

\* Delays double from one failure to the next, up to the longest, and start
\* anew once a connection delivered an event (recorder.py:157-160).
THEOREM DelaysBackOff == Spec => []BackOff
  BY RecorderInv, DelaysInit, DelaysKept, PTL DEF Spec

-----------------------------------------------------------------------------
(***************************************************************************)
(* The programs that record (module Collector): windows are recorded one   *)
(* after the other, and a program that was told to stop begins no further  *)
(* one.                                                                    *)
(***************************************************************************)

\* The recordings begun, of which the last one goes on.
Taken == [window : Nat, from : Nat, to : Nat, late : BOOLEAN]
Begun   == Len(taken)
Current == taken[Begun]

CTyped ==
  /\ program \in {"record", "collect"}
  /\ stage \in {"looking", "listing", "sleeping", "recording", "returned", "failed"}
  /\ {now, since, seconds, fired} \subseteq Nat /\ stopFile \in BOOLEAN
  /\ taken \in Seq(Taken)
  /\ program = "record" => Begun = 1 /\ stage \in {"recording", "returned"}
  /\ program = "collect" => \A i \in DOMAIN taken : taken[i].window \in Windows
  /\ stage = "recording" => Begun > 0

\* The recorder ends in time: without a cap it records until the timer fires.
InTime ==
  stage = "recording" =>
    /\ program = "collect" /\ ~timer => ~stop /\ Recording
    /\ timer => fired = since + seconds
    /\ caller = "waiting" => now <= since + seconds
    /\ caller = "waiting" /\ timer => now = since + seconds
    /\ caller = "grace" => timer /\ now <= fired + Grace
    /\ caller # "waiting" /\ program = "collect" =>
         now \in since + seconds .. since + seconds + Grace

\* The window that is recorded, of a plan made when the listing was asked for.
Planned ==
  program = "collect" /\ stage = "recording" =>
    /\ Current.from = since /\ Current.to = since
    /\ since + seconds \in EndOf(Current.window) + AfterEnd
                             .. EndOf(Current.window) + AfterEnd + MaxListing

\* At the time t the next window is the one after the last that was recorded,
\* if there is one.
NextIsNext(t) ==
  Begun > 0 =>
    /\ t >= EndOf(Current.window) + AfterEnd
    /\ \/ t <= EndOf(Current.window) + AfterEnd + MaxListing + Grace
       \/ \A v \in Windows : v <= Current.window

InOrder ==
  program = "collect" =>
    /\ stage = "listing" => since <= now /\ now <= since + MaxListing
    /\ stage \in {"looking", "sleeping"} => NextIsNext(now)
    /\ stage = "listing" => NextIsNext(since)
    /\ stage = "sleeping" /\ Begun > 0 => \A v \in Windows : v <= Current.window

\* Who is late stays so, and looks for no window again.
LateEnds ==
  (\E i \in DOMAIN taken : taken[i].late) =>
    Late /\ stage \in {"recording", "looking", "returned"} /\ program = "collect"

CInv == CTyped /\ InTime /\ Planned /\ InOrder /\ LateEnds
              /\ ConsecutiveWindows /\ StopIsHeard

-----------------------------------------------------------------------------
(* Every recording is one of Recorder, begun anew. *)

LEMMA StepOfRecorder == [CNext]_cvars => [Next]_vars \/ Anew
<1>1. CASE Listed
  BY <1>1 DEF Listed
<1>2. CASE NetworkStep \/ RecorderStep \/ Timers
  BY <1>2 DEF NetworkStep, RecorderStep, Timers, TimerFires, CallerStep, Cancelled,
              Next, Program, Market
<1>3. CASE UNCHANGED recorder
  BY <1>3 DEF recorder, vars, stream
<1>4. CASE Look \/ NothingListed \/ ListingFails \/ SleepOver \/ Recorded
  BY <1>3, <1>4 DEF Look, NothingListed, ListingFails, SleepOver, Recorded
<1>5. CASE RaiseStop \/ Tick \/ UNCHANGED cvars
  BY <1>3, <1>5 DEF RaiseStop, Tick, cvars
<1> QED
  BY <1>1, <1>2, <1>4, <1>5 DEF CNext, Collect

LEMMA AnewInv == Anew => Inv' /\ BackOff' /\ Remembered'
<1>1. Anew => Init'
  BY DEF Anew, Init
<1>2. Init' => (Inv /\ BackOff /\ Remembered)'
  <2>1. Init => Inv /\ BackOff /\ Remembered
    BY InitInv, DelaysInit
  <2> QED
    BY <2>1, PTL
<1> QED
  BY <1>1, <1>2

\* However many recordings there are, each of them keeps what one keeps: gaps
\* between its connections, one stop record at its end, one event beyond the cap
\* at most, no client left open, and delays that double (collect.py:57-82).
THEOREM EveryRecording == CSpec => [](GapBetweenConnections /\ StopsCleanly /\ BackOff)
<1>1. CInit => Inv /\ BackOff /\ Remembered
  BY InitInv, DelaysInit DEF CInit
<1>2. Inv /\ BackOff /\ Remembered /\ [CNext]_cvars => Inv' /\ BackOff' /\ Remembered'
  BY StepOfRecorder, AnewInv, NextKeeps, DelaysKept
<1>3. Inv => GapBetweenConnections /\ StopsCleanly
  BY DEF Inv, StopAtEnd, Handles, Recording, StopsCleanly, OfKind
<1> QED
  BY <1>1, <1>2, <1>3, PTL DEF CSpec

-----------------------------------------------------------------------------
(* Windows. *)

LEMMA Constants ==
  /\ Length \in Nat /\ MinLead \in Nat /\ AfterEnd \in Nat /\ Grace \in Nat
  /\ Wait \in Nat /\ MaxListing \in Nat /\ Deadline \in Nat /\ Seconds \in Nat
  /\ Windows \subseteq Nat
  /\ 0 < MinLead /\ MinLead + AfterEnd + Grace + MaxListing <= Length
  BY CollectorAssumption

\* Windows end in the order of their numbers, Length apart.
LEMMA WindowsEnd ==
  ASSUME NEW v \in Nat, NEW w \in Nat
  PROVE  /\ EndOf(v) \in Nat
         /\ EndOf(w + 1) = EndOf(w) + Length
         /\ EndOf(v) <= EndOf(w) <=> v <= w
<1>1. Length \in Nat /\ Length > 0
  BY Constants
<1>2. EndOf(v) \in Nat
  BY <1>1 DEF EndOf
<1>3. EndOf(w + 1) = EndOf(w) + Length
  BY <1>1 DEF EndOf
<1>4. v <= w => EndOf(v) <= EndOf(w)
  BY <1>1 DEF EndOf
<1>5. v > w => EndOf(v) > EndOf(w)
  BY <1>1 DEF EndOf
<1> QED
  BY <1>2, <1>3, <1>4, <1>5, <1>1 DEF EndOf

\* If a window has enough lead, one of those ends first.
LEMMA SomeSoonest ==
  ASSUME NEW t, NEW w \in Windows, EndOf(w) - t >= MinLead
  PROVE  Soonest(t) # {}
<1> DEFINE ahead == {v \in Windows : EndOf(v) - t >= MinLead}
<1>1. ahead # {} /\ ahead \subseteq Nat
  BY Constants
<1>2. PICK v \in ahead : \A u \in ahead : v <= u
  BY <1>1, LeastNumber
<1>3. \A u \in ahead : EndOf(v) <= EndOf(u)
  BY <1>1, <1>2, WindowsEnd
<1> QED
  BY <1>2, <1>3 DEF Soonest

\* What is planned after window w, from its end on and soon enough.
LEMMA PlannedNext ==
  ASSUME NEW w \in Windows, NEW t \in Nat, t >= EndOf(w) + AfterEnd,
         \/ t <= EndOf(w) + AfterEnd + MaxListing + Grace
         \/ \A v \in Windows : v <= w
  PROVE  /\ \A v \in Soonest(t) : v = w + 1
         /\ Soonest(t) = {} => \A v \in Windows : v <= w
<1>1. \A v \in Windows : v <= w => ~(EndOf(v) - t >= MinLead)
  <2> SUFFICES ASSUME NEW v \in Windows, v <= w PROVE ~(EndOf(v) - t >= MinLead)
    OBVIOUS
  <2>1. EndOf(v) \in Nat /\ EndOf(w) \in Nat /\ EndOf(v) <= EndOf(w)
    BY Constants, WindowsEnd
  <2> QED
    BY <2>1, Constants
<1>2. CASE \A v \in Windows : v <= w
  BY <1>1, <1>2 DEF Soonest
<1>3. CASE ~(\A v \in Windows : v <= w)
  <2>1. PICK x \in Windows : ~(x <= w)
    BY <1>3
  <2>2. w \in Nat /\ x \in Nat /\ w + 1 \in w .. x
    BY <2>1, Constants
  <2>3. w + 1 \in Windows
    BY <2>2, CollectorAssumption
  <2>4. EndOf(w + 1) - t >= MinLead
    <3>1. EndOf(w) \in Nat /\ EndOf(w + 1) = EndOf(w) + Length
      BY <2>2, WindowsEnd
    <3> QED
      BY <1>3, <3>1, Constants
  <2>5. Soonest(t) # {}
    BY <2>3, <2>4, SomeSoonest
  <2>6. ASSUME NEW v \in Soonest(t) PROVE v = w + 1
    <3>1. v \in Windows /\ EndOf(v) - t >= MinLead /\ EndOf(v) <= EndOf(w + 1)
      BY <2>3, <2>4 DEF Soonest
    <3>2. v \in Nat /\ v <= w + 1
      BY <2>2, <3>1, Constants, WindowsEnd
    <3>3. ~(v <= w)
      BY <1>1, <3>1
    <3> QED
      BY <2>2, <3>2, <3>3
  <2> QED
    BY <2>5, <2>6
<1> QED
  BY <1>2, <1>3

-----------------------------------------------------------------------------
(* The invariant. *)

LEMMA CInitInv == CInit => CInv
<1> SUFFICES ASSUME CInit PROVE CInv
  OBVIOUS
<1>1. /\ timer = FALSE /\ stop = FALSE /\ phase = "connect" /\ caller = "waiting"
      /\ now \in Nat /\ since = 0 /\ window = 0 /\ fired = 0 /\ stopFile = FALSE
  BY Constants DEF CInit, Init
<1>2. CASE program = "record" /\ stage = "recording" /\ seconds = Seconds
           /\ taken = <<[window |-> 0, from |-> 0, to |-> 0, late |-> FALSE]>> /\ now = 0
  <2>1. CTyped
    <3> DEFINE first == [window |-> 0, from |-> 0, to |-> 0, late |-> FALSE]
    <3>1. first \in Taken /\ taken = <<first>>
      BY <1>2 DEF Taken
    <3> HIDE DEF first
    <3>2. taken \in Seq(Taken) /\ Begun = 1
      BY <3>1 DEF Begun
    <3>3. seconds \in Nat
      BY <1>2, Constants
    <3>4. {now, since, seconds, fired} \subseteq Nat /\ stopFile \in BOOLEAN
      <4>1. now \in Nat /\ since \in Nat /\ seconds \in Nat /\ fired \in Nat
        BY <1>1, <3>3
      <4>2. stopFile \in BOOLEAN
        BY <1>1
      <4> QED
        BY <4>1, <4>2
    <3>5. /\ program \in {"record", "collect"} /\ program # "collect"
          /\ stage \in {"looking", "listing", "sleeping", "recording", "returned", "failed"}
          /\ stage \in {"recording", "returned"}
      BY <1>2
    <3> QED
      BY <3>2, <3>4, <3>5 DEF CTyped
  <2>2. InTime /\ Planned /\ InOrder /\ ConsecutiveWindows
    BY <1>1, <1>2, Constants DEF InTime, Planned, InOrder, ConsecutiveWindows
  <2>3. LateEnds /\ StopIsHeard
    BY <1>2 DEF LateEnds, StopIsHeard
  <2> QED
    BY <2>1, <2>2, <2>3 DEF CInv
<1>3. CASE program = "collect" /\ stage = "looking" /\ seconds = 0 /\ taken = << >>
  <2>1. CTyped
    <3>1. taken \in Seq(Taken) /\ DOMAIN taken = {}
      BY <1>3
    <3>2. {now, since, seconds, fired} \subseteq Nat /\ stopFile \in BOOLEAN
      <4>1. now \in Nat /\ since \in Nat /\ seconds \in Nat /\ fired \in Nat
        BY <1>1, <1>3
      <4>2. stopFile \in BOOLEAN
        BY <1>1
      <4> QED
        BY <4>1, <4>2
    <3>3. /\ program \in {"record", "collect"} /\ program # "record" /\ stage # "recording"
          /\ stage \in {"looking", "listing", "sleeping", "recording", "returned", "failed"}
      BY <1>3
    <3> QED
      BY <3>1, <3>2, <3>3 DEF CTyped
  <2>2. InTime /\ Planned /\ InOrder /\ LateEnds /\ ConsecutiveWindows /\ StopIsHeard
    BY <1>3 DEF InTime, Planned, InOrder, NextIsNext, LateEnds, ConsecutiveWindows,
                StopIsHeard, Begun
  <2> QED
    BY <2>1, <2>2 DEF CInv
<1> QED
  BY <1>2, <1>3 DEF CInit

\* What says something of the recordings begun says it as long as none is.
LEMMA TakenKept ==
  ASSUME CInv, UNCHANGED <<program, taken>>
  PROVE  ConsecutiveWindows' /\ StopIsHeard' /\ Begun' = Begun /\ Current' = Current
  BY DEF CInv, ConsecutiveWindows, StopIsHeard, Begun, Current, EndOf

LEMMA LookKeeps == CInv /\ Look => CInv'
<1> SUFFICES ASSUME CInv, Look PROVE CInv'
  OBVIOUS
<1> USE DEF CInv
<1>1. ConsecutiveWindows' /\ StopIsHeard' /\ Begun' = Begun /\ Current' = Current
  BY TakenKept DEF Look
<1>2. CTyped'
  BY <1>1 DEF Look, CTyped
<1>3. InTime' /\ Planned'
  BY DEF Look, InTime, Planned
<1>4. InOrder'
  BY <1>1, Constants DEF Look, CTyped, InOrder, NextIsNext, EndOf
<1>5. LateEnds'
  BY DEF Look, LateEnds, Late
<1> QED
  BY <1>1, <1>2, <1>3, <1>4, <1>5

LEMMA ListingFailsKeeps == CInv /\ ListingFails => CInv'
<1> SUFFICES ASSUME CInv, ListingFails PROVE CInv'
  OBVIOUS
<1> USE DEF CInv
<1>1. ConsecutiveWindows' /\ StopIsHeard' /\ Begun' = Begun /\ Current' = Current
  BY TakenKept DEF ListingFails
<1>2. CTyped'
  BY <1>1 DEF ListingFails, CTyped, task
<1>3. InTime' /\ Planned' /\ InOrder'
  BY DEF ListingFails, InTime, Planned, InOrder
<1>5. LateEnds'
  BY DEF ListingFails, LateEnds
<1> QED
  BY <1>1, <1>2, <1>3, <1>5

LEMMA SleepOverKeeps == CInv /\ SleepOver => CInv'
<1> SUFFICES ASSUME CInv, SleepOver PROVE CInv'
  OBVIOUS
<1> USE DEF CInv
<1>1. ConsecutiveWindows' /\ StopIsHeard' /\ Begun' = Begun /\ Current' = Current
  BY TakenKept DEF SleepOver
<1>2. CTyped'
  BY <1>1 DEF SleepOver, CTyped, task
<1>3. InTime' /\ Planned'
  BY DEF SleepOver, InTime, Planned
<1>4. InOrder'
  BY <1>1 DEF SleepOver, InOrder, NextIsNext, EndOf
<1>5. LateEnds'
  BY DEF SleepOver, LateEnds
<1> QED
  BY <1>1, <1>2, <1>3, <1>4, <1>5

LEMMA NothingListedKeeps == CInv /\ NothingListed => CInv'
<1> SUFFICES ASSUME CInv, NothingListed PROVE CInv'
  OBVIOUS
<1> USE DEF CInv
<1>1. ConsecutiveWindows' /\ StopIsHeard' /\ Begun' = Begun /\ Current' = Current
  BY TakenKept DEF NothingListed
<1>2. CTyped'
  BY <1>1 DEF NothingListed, CTyped
<1>3. InTime' /\ Planned'
  BY DEF NothingListed, InTime, Planned
<1>4. InOrder'
  <2>1. CASE Begun > 0
    <3>1. /\ program = "collect" /\ Current.window \in Windows /\ since \in Nat /\ now \in Nat
          /\ since <= now /\ NextIsNext(since)
      <4>1. program = "collect" /\ since \in Nat /\ now \in Nat /\ since <= now /\ NextIsNext(since)
        BY DEF NothingListed, CTyped, InOrder
      <4>2. Begun \in DOMAIN taken
        BY <2>1 DEF CTyped, Begun
      <4> QED
        BY <4>1, <4>2 DEF CTyped, Current
    <3>2. \A v \in Windows : v <= Current.window
      BY <2>1, <3>1, PlannedNext DEF NothingListed, NextIsNext
    <3>3. now >= EndOf(Current.window) + AfterEnd
      <4>1. EndOf(Current.window) \in Nat
        BY <3>1, Constants, WindowsEnd
      <4> QED
        BY <2>1, <3>1, <4>1, Constants DEF NextIsNext
    <3> QED
      BY <1>1, <3>2, <3>3 DEF NothingListed, InOrder, NextIsNext, EndOf
  <2>2. CASE ~(Begun > 0)
    BY <1>1, <2>2 DEF NothingListed, InOrder, NextIsNext
  <2> QED
    BY <2>1, <2>2
<1>5. LateEnds'
  BY DEF NothingListed, LateEnds
<1> QED
  BY <1>1, <1>2, <1>3, <1>4, <1>5

LEMMA ListedKeeps == CInv /\ Listed => CInv'
<1> SUFFICES ASSUME CInv, Listed PROVE CInv'
  OBVIOUS
<1> USE DEF CInv
<1>1. /\ stage = "listing" /\ stage' = "recording" /\ since' = now
      /\ program = "collect" /\ program' = program /\ now' = now /\ fired' = fired
      /\ stopFile' = stopFile
      /\ stop' = FALSE /\ timer' = FALSE /\ phase' = "connect" /\ caller' = "waiting"
      /\ since \in Nat /\ now \in Nat /\ since <= now /\ now <= since + MaxListing
      /\ NextIsNext(since)
      /\ taken \in Seq(Taken) /\ Late \in BOOLEAN
  BY DEF Listed, Anew, CTyped, InOrder, Late
<1>2. PICK w \in Soonest(since) :
        /\ window' = w /\ seconds' = ToRecord(w, since)
        /\ taken' = Append(taken, [window |-> w, from |-> now, to |-> now, late |-> Late])
  BY DEF Listed
<1> DEFINE new == [window |-> w, from |-> now, to |-> now, late |-> Late]
<1>3. /\ w \in Windows /\ w \in Nat /\ EndOf(w) \in Nat /\ EndOf(w) - since >= MinLead
  <2>1. w \in Windows /\ EndOf(w) - since >= MinLead
    BY DEF Soonest
  <2> QED
    BY <2>1, Constants, WindowsEnd
<1>4. /\ new \in Taken /\ Begun \in Nat /\ Begun' = Begun + 1 /\ Current' = new
      /\ DOMAIN taken = 1 .. Begun /\ DOMAIN taken' = 1 .. Begun + 1
      /\ taken' \in Seq(Taken)
      /\ \A i \in DOMAIN taken : taken'[i] = taken[i]
      /\ taken'[Begun + 1] = new
  BY <1>1, <1>2, <1>3, SMTT(60) DEF Taken, Begun, Current
<1>5. /\ new.window = w /\ new.from = now /\ new.to = now /\ new.late = Late
  OBVIOUS
<1> HIDE DEF new
<1>6. seconds' \in Nat /\ seconds' = EndOf(w) - since + AfterEnd
  BY <1>1, <1>2, <1>3, Constants DEF ToRecord
<1>7. CTyped'
  BY <1>1, <1>3, <1>4, <1>5, <1>6 DEF CTyped
<1>8. InTime' /\ InOrder'
  BY <1>1, <1>6 DEF InTime, InOrder, Recording
<1>9. Planned'
  <2>1. since' + seconds' \in EndOf(w) + AfterEnd .. EndOf(w) + AfterEnd + MaxListing
    BY <1>1, <1>3, <1>6, Constants, SMTT(60)
  <2> QED
    BY <1>1, <1>4, <1>5, <2>1 DEF Planned, EndOf
<1>10. \A i \in DOMAIN taken : ~taken[i].late
  BY <1>1 DEF LateEnds
<1>11. LateEnds'
  <2> SUFFICES ASSUME NEW i \in DOMAIN taken', taken'[i].late
               PROVE  Late' /\ stage' \in {"recording", "looking", "returned"} /\ program' = "collect"
    BY DEF LateEnds
  <2>1. i = Begun + 1
    BY <1>4, <1>10
  <2>2. Late
    BY <1>4, <1>5, <2>1
  <2> QED
    BY <1>1, <2>2 DEF Late
<1>12. StopIsHeard'
  BY <1>4, <1>10 DEF StopIsHeard, Begun
<1>13. Begun > 0 => w = Current.window + 1
  <2> SUFFICES ASSUME Begun > 0 PROVE w = Current.window + 1
    OBVIOUS
  <2>1. Current.window \in Windows
    BY <1>1, <1>4 DEF CTyped, Current
  <2> QED
    BY <1>1, <2>1, PlannedNext DEF NextIsNext
<1>14. ConsecutiveWindows'
  <2> SUFFICES ASSUME NEW i \in DOMAIN taken'
               PROVE  /\ taken'[i].from <= EndOf(taken'[i].window) - MinLead + MaxListing
                      /\ taken'[i].to > taken'[i].from =>
                           taken'[i].to \in EndOf(taken'[i].window) + AfterEnd
                             .. EndOf(taken'[i].window) + AfterEnd + MaxListing + Grace
                      /\ i > 1 => taken'[i].window = taken'[i - 1].window + 1
    BY DEF ConsecutiveWindows, EndOf
  <2>1. CASE i \in DOMAIN taken
    <3>1. /\ taken[i].from <= EndOf(taken[i].window) - MinLead + MaxListing
          /\ taken[i].to > taken[i].from =>
               taken[i].to \in EndOf(taken[i].window) + AfterEnd
                 .. EndOf(taken[i].window) + AfterEnd + MaxListing + Grace
          /\ i > 1 => taken[i].window = taken[i - 1].window + 1
      BY <1>1, <2>1 DEF ConsecutiveWindows
    <3>2. i > 1 => i - 1 \in DOMAIN taken
      BY <1>4, <2>1
    <3> QED
      BY <1>4, <2>1, <3>1, <3>2
  <2>2. CASE i = Begun + 1
    <3>1. taken'[i].from <= EndOf(taken'[i].window) - MinLead + MaxListing
      BY <1>1, <1>3, <1>4, <1>5, <2>2, Constants
    <3>2. ~(taken'[i].to > taken'[i].from)
      BY <1>1, <1>4, <1>5, <2>2
    <3>3. i > 1 => taken'[i].window = taken'[i - 1].window + 1
      <4>1. i > 1 => i - 1 = Begun /\ Begun > 0 /\ Begun \in DOMAIN taken
        BY <1>4, <2>2
      <4> QED
        BY <1>4, <1>5, <1>13, <2>2, <4>1 DEF Current
    <3> QED
      BY <3>1, <3>2, <3>3
  <2> QED
    BY <1>4, <2>1, <2>2
<1> QED
  BY <1>7, <1>8, <1>9, <1>11, <1>12, <1>14

\* What the recorder does by itself, and the network to it.
LEMMA RecordingStepKeeps ==
  ASSUME CInv, stage = "recording", UNCHANGED <<program, stage, now, task, fired, stopFile, taken>>,
         UNCHANGED <<timer, caller>>,
         program = "collect" /\ ~timer => ~stop' /\ Recording'
  PROVE  CInv'
<1> USE DEF CInv
<1>1. ConsecutiveWindows' /\ StopIsHeard' /\ Begun' = Begun /\ Current' = Current
  BY TakenKept
<1>2. CTyped'
  BY <1>1 DEF CTyped, task
<1>3. InTime'
  BY DEF InTime, task
<1>4. Planned'
  BY <1>1 DEF Planned, task, EndOf
<1>5. InOrder' /\ LateEnds'
  BY <1>1 DEF InOrder, LateEnds, Late
<1> QED
  BY <1>1, <1>2, <1>3, <1>4, <1>5

LEMMA NetworkKeeps == CInv /\ Inv /\ NetworkStep => CInv'
<1> SUFFICES ASSUME CInv, Inv, NetworkStep PROVE CInv'
  OBVIOUS
<1>1. CASE Connect
  BY <1>1, RecordingStepKeeps DEF NetworkStep, Connect, CInv, InTime, Recording
<1>2. CASE ConnectFails
  BY <1>2, RecordingStepKeeps DEF NetworkStep, ConnectFails, CInv, InTime, Recording
<1>3. CASE Ends
  BY <1>3, RecordingStepKeeps DEF NetworkStep, Ends, stream, CInv, InTime, Recording
<1>4. CASE Fails
  BY <1>4, RecordingStepKeeps DEF NetworkStep, Fails, stream, CInv, InTime, Recording
<1>5. CASE Deliver
  <2>1. program = "collect" => ~Full
    <3>1. Datum \in Record /\ sink \in Seq(Record)
      BY DEF Datum, Record, Inv, Typed
    <3>2. Len(sink) \in Nat /\ Len(sink') = Len(sink) + 1
      BY <1>5, <3>1, Appended DEF Deliver
    <3> QED
      BY <3>2, RecorderAssumption DEF NetworkStep, Uncapped, Full
  <2> QED
    BY <1>5, <2>1, RecordingStepKeeps DEF NetworkStep, Deliver, CInv, InTime, Recording
<1> QED
  BY <1>1, <1>2, <1>3, <1>4, <1>5 DEF NetworkStep, Network

LEMMA RecorderStepKeeps == CInv /\ RecorderStep => CInv'
<1> SUFFICES ASSUME CInv, RecorderStep PROVE CInv'
  OBVIOUS
<1>1. CASE Close
  BY <1>1, RecordingStepKeeps DEF RecorderStep, Close, CInv, InTime, Recording
<1>2. CASE Wake
  BY <1>2, RecordingStepKeeps DEF RecorderStep, Wake, stream, CInv, InTime, Recording
<1> QED
  BY <1>1, <1>2 DEF RecorderStep, Program

LEMMA CallerStepKeeps == CInv /\ CallerStep => CInv'
<1> SUFFICES ASSUME CInv, CallerStep PROVE CInv'
  OBVIOUS
<1> USE DEF CInv
<1>1. ConsecutiveWindows' /\ StopIsHeard' /\ Begun' = Begun /\ Current' = Current
  BY TakenKept DEF CallerStep
<1>2. CTyped'
  BY <1>1 DEF CTyped, CallerStep, task
<1>3. InTime'
  <2>1. /\ since \in Nat /\ seconds \in Nat /\ now \in Nat /\ fired \in Nat /\ Grace \in Nat
    BY Constants DEF CTyped
  <2>2. CASE FirstDone
    BY <2>1, <2>2 DEF CallerStep, FirstDone, InTime, task, stream, Recording
  <2>3. CASE RecorderDone
    BY <2>1, <2>3 DEF CallerStep, RecorderDone, InTime, task, stream, Recording
  <2> QED
    BY <2>2, <2>3 DEF CallerStep
<1>4. Planned'
  BY <1>1 DEF Planned, CallerStep, task, EndOf
<1>5. InOrder' /\ LateEnds'
  BY <1>1 DEF InOrder, LateEnds, Late, CallerStep
<1> QED
  BY <1>1, <1>2, <1>3, <1>4, <1>5

LEMMA TimerFiresKeeps == CInv /\ TimerFires => CInv'
<1> SUFFICES ASSUME CInv, TimerFires PROVE CInv'
  OBVIOUS
<1> USE DEF CInv
<1>1. ConsecutiveWindows' /\ StopIsHeard' /\ Begun' = Begun /\ Current' = Current
  BY TakenKept DEF TimerFires
<1>2. CTyped'
  BY <1>1 DEF CTyped, TimerFires, task
<1>3. InTime'
  <2>1. /\ since \in Nat /\ seconds \in Nat /\ now \in Nat /\ fired \in Nat /\ Grace \in Nat
    BY Constants DEF CTyped
  <2>2. now = since + seconds
    BY <2>1 DEF TimerFires, TimerDone, InTime
  <2> QED
    BY <2>1, <2>2 DEF TimerFires, TimerDone, InTime, task
<1>4. Planned'
  BY <1>1 DEF Planned, TimerFires, task, EndOf
<1>5. InOrder' /\ LateEnds'
  BY <1>1 DEF InOrder, LateEnds, Late, TimerFires
<1> QED
  BY <1>1, <1>2, <1>3, <1>4, <1>5

LEMMA CancelledKeeps == CInv /\ Cancelled => CInv'
<1> SUFFICES ASSUME CInv, Cancelled PROVE CInv'
  OBVIOUS
<1> USE DEF CInv
<1>1. ConsecutiveWindows' /\ StopIsHeard' /\ Begun' = Begun /\ Current' = Current
  BY TakenKept DEF Cancelled
<1>2. CTyped'
  BY <1>1 DEF CTyped, Cancelled, task
<1>3. InTime'
  BY DEF Cancelled, GraceOver, InTime, task
<1>4. Planned'
  BY <1>1 DEF Planned, Cancelled, task, EndOf
<1>5. InOrder' /\ LateEnds'
  BY <1>1 DEF InOrder, LateEnds, Late, Cancelled
<1> QED
  BY <1>1, <1>2, <1>3, <1>4, <1>5

LEMMA RaiseStopKeeps == CInv /\ RaiseStop => CInv'
<1> SUFFICES ASSUME CInv, RaiseStop PROVE CInv'
  OBVIOUS
<1> USE DEF CInv
<1>1. ConsecutiveWindows' /\ StopIsHeard' /\ Begun' = Begun /\ Current' = Current
  BY TakenKept DEF RaiseStop
<1>2. CTyped'
  BY <1>1 DEF CTyped, RaiseStop, task
<1>3. InTime'
  BY DEF RaiseStop, recorder, InTime, Recording, task
<1>4. Planned'
  BY <1>1 DEF Planned, RaiseStop, task, EndOf
<1>5. InOrder' /\ LateEnds'
  BY <1>1 DEF InOrder, NextIsNext, LateEnds, Late, RaiseStop, task, EndOf
<1> QED
  BY <1>1, <1>2, <1>3, <1>4, <1>5

LEMMA TickKeeps == CInv /\ Inv /\ Tick => CInv'
<1> SUFFICES ASSUME CInv, Inv, Tick PROVE CInv'
  OBVIOUS
<1> USE DEF CInv
<1>1. ConsecutiveWindows' /\ StopIsHeard' /\ Begun' = Begun /\ Current' = Current
  BY TakenKept DEF Tick
<1>2. /\ since \in Nat /\ seconds \in Nat /\ now \in Nat /\ fired \in Nat /\ Grace \in Nat
      /\ MaxListing \in Nat /\ Deadline \in Nat /\ now' = now + 1
      /\ UNCHANGED <<recorder, program, stage, since, window, seconds, fired, stopFile, taken>>
  BY Constants DEF CTyped, Tick, task
<1>3. CTyped'
  BY <1>1, <1>2 DEF CTyped
<1>4. InTime'
  <2> SUFFICES ASSUME stage = "recording" PROVE InTime'
    BY <1>2 DEF InTime
  <2>1. /\ caller # "returned"
        /\ caller = "waiting" => ~timer /\ Recording /\ ~(now >= since + seconds)
        /\ caller = "grace" => Recording /\ ~(now >= fired + Grace)
    BY DEF Tick, Due
  <2>2. /\ program = "collect" /\ ~timer => ~stop /\ Recording
        /\ timer => fired = since + seconds
        /\ caller = "grace" => timer
        /\ caller # "waiting" /\ program = "collect" =>
             now \in since + seconds .. since + seconds + Grace
    BY DEF InTime
  <2>3. UNCHANGED <<timer, stop, phase, caller>> /\ Recording' = Recording
    BY <1>2 DEF recorder, Recording
  <2>4. caller = "waiting" => now' <= since + seconds
    BY <1>2, <2>1
  <2>5. caller = "grace" => timer /\ now' <= fired + Grace
    BY <1>2, <2>1, <2>2
  <2>6. caller # "waiting" /\ program = "collect" =>
          now' \in since + seconds .. since + seconds + Grace /\ timer
    <3> SUFFICES ASSUME caller # "waiting", program = "collect"
                 PROVE  now' \in since + seconds .. since + seconds + Grace /\ timer
      OBVIOUS
    <3>1. caller = "grace"
      BY <2>1 DEF Inv, Typed
    <3> QED
      BY <1>2, <2>2, <2>5, <3>1
  <2> QED
    BY <1>2, <2>1, <2>2, <2>3, <2>4, <2>5, <2>6 DEF InTime
<1>5. Planned'
  BY <1>1, <1>2 DEF Planned, EndOf
<1>6. InOrder'
  <2> SUFFICES ASSUME program = "collect" PROVE InOrder'
    BY <1>2 DEF InOrder
  <2>1. stage # "looking" /\ (stage = "listing" => ~(now >= since + MaxListing))
    BY DEF Tick, Due
  <2>2. stage = "listing" => since <= now' /\ now' <= since + MaxListing
    BY <1>2, <2>1 DEF InOrder
  <2>3. stage = "listing" => NextIsNext(since)'
    BY <1>1, <1>2 DEF InOrder, NextIsNext, EndOf
  <2>4. stage = "sleeping" /\ Begun > 0 =>
          /\ \A v \in Windows : v <= Current.window
          /\ now' >= EndOf(Current.window) + AfterEnd
    <3> SUFFICES ASSUME stage = "sleeping", Begun > 0
                 PROVE  /\ \A v \in Windows : v <= Current.window
                        /\ now' >= EndOf(Current.window) + AfterEnd
      OBVIOUS
    <3>1. Begun \in DOMAIN taken
      BY DEF CTyped, Begun
    <3>2. EndOf(Current.window) \in Nat
      BY <3>1, Constants, WindowsEnd DEF CTyped, Current
    <3> QED
      BY <1>2, <3>2, Constants DEF InOrder, NextIsNext
  <2> QED
    BY <1>1, <1>2, <2>1, <2>2, <2>3, <2>4 DEF InOrder, NextIsNext, EndOf
<1>7. LateEnds'
  BY <1>2 DEF LateEnds, Late
<1> QED
  BY <1>1, <1>3, <1>4, <1>5, <1>6, <1>7

LEMMA RecordedKeeps == CInv /\ Recorded => CInv'
<1> SUFFICES ASSUME CInv, Recorded PROVE CInv'
  OBVIOUS
<1> USE DEF CInv
<1>1. /\ stage = "recording" /\ caller = "returned"
      /\ stage' = IF program = "collect" THEN "looking" ELSE "returned"
      /\ UNCHANGED <<program, now, since, seconds, fired, stopFile>>
      /\ taken' = [taken EXCEPT ![Begun].to = now]
  BY DEF Recorded, task, Begun
<1>2. /\ taken \in Seq(Taken) /\ Begun \in Nat /\ Begun > 0 /\ DOMAIN taken = 1 .. Begun
      /\ Begun \in DOMAIN taken /\ now \in Nat /\ since \in Nat /\ seconds \in Nat
  BY <1>1 DEF CTyped, Begun
<1>3. /\ taken' \in Seq(Taken) /\ Begun' = Begun /\ DOMAIN taken' = DOMAIN taken
      /\ \A i \in DOMAIN taken : /\ taken'[i].window = taken[i].window
                                 /\ taken'[i].from = taken[i].from
                                 /\ taken'[i].late = taken[i].late
                                 /\ i # Begun => taken'[i].to = taken[i].to
      /\ taken'[Begun].to = now
  <2>1. \A i \in DOMAIN taken : taken[i] \in Taken
    BY <1>2
  <2>2. /\ DOMAIN taken' = DOMAIN taken /\ Len(taken') = Len(taken)
        /\ taken'[Begun] = [taken[Begun] EXCEPT !.to = now]
        /\ \A i \in DOMAIN taken : i # Begun => taken'[i] = taken[i]
    BY <1>1, <1>2
  <2>3. taken'[Begun] \in Taken
    BY <1>2, <2>1, <2>2 DEF Taken
  <2>4. taken' \in Seq(Taken)
    BY <1>1, <1>2, <2>1, <2>2, <2>3
  <2> QED
    BY <1>2, <2>1, <2>2, <2>4, ZenonT(60) DEF Begun, Taken
<1>4. Current'.window = Current.window /\ Current'.from = Current.from
  BY <1>2, <1>3 DEF Current
<1>5. CTyped'
  BY <1>1, <1>2, <1>3 DEF CTyped
<1>6. InTime' /\ Planned'
  BY <1>1 DEF InTime, Planned
<1>7. program = "collect" =>
        /\ Current.from = since /\ Current.window \in Windows
        /\ EndOf(Current.window) \in Nat
        /\ now \in EndOf(Current.window) + AfterEnd
                     .. EndOf(Current.window) + AfterEnd + MaxListing + Grace
  <2> SUFFICES ASSUME program = "collect"
               PROVE  /\ Current.from = since /\ Current.window \in Windows
                      /\ EndOf(Current.window) \in Nat
                      /\ now \in EndOf(Current.window) + AfterEnd
                                   .. EndOf(Current.window) + AfterEnd + MaxListing + Grace
    OBVIOUS
  <2>1. Current.window \in Windows /\ EndOf(Current.window) \in Nat
    BY <1>2, Constants, WindowsEnd DEF CTyped, Current
  <2>2. /\ Current.from = since
        /\ since + seconds \in EndOf(Current.window) + AfterEnd
                                 .. EndOf(Current.window) + AfterEnd + MaxListing
        /\ now \in since + seconds .. since + seconds + Grace
    BY <1>1 DEF Planned, InTime
  <2> QED
    BY <1>2, <2>1, <2>2, Constants
<1>8. InOrder'
  BY <1>1, <1>2, <1>3, <1>4, <1>7 DEF InOrder, NextIsNext, EndOf
<1>9. LateEnds'
  BY <1>1, <1>3 DEF LateEnds, Late
<1>10. StopIsHeard'
  BY <1>3 DEF StopIsHeard, Begun
<1>11. ConsecutiveWindows'
  <2> SUFFICES ASSUME program = "collect", NEW i \in DOMAIN taken
               PROVE  /\ taken'[i].from <= EndOf(taken'[i].window) - MinLead + MaxListing
                      /\ taken'[i].to > taken'[i].from =>
                           taken'[i].to \in EndOf(taken'[i].window) + AfterEnd
                             .. EndOf(taken'[i].window) + AfterEnd + MaxListing + Grace
                      /\ i > 1 => taken'[i].window = taken'[i - 1].window + 1
    BY <1>1, <1>3 DEF ConsecutiveWindows, EndOf
  <2>1. /\ taken[i].from <= EndOf(taken[i].window) - MinLead + MaxListing
        /\ taken[i].to > taken[i].from =>
             taken[i].to \in EndOf(taken[i].window) + AfterEnd
               .. EndOf(taken[i].window) + AfterEnd + MaxListing + Grace
        /\ i > 1 => taken[i].window = taken[i - 1].window + 1
    BY DEF ConsecutiveWindows
  <2>2. i > 1 => i - 1 \in DOMAIN taken
    BY <1>2
  <2>3. CASE i # Begun
    BY <1>3, <2>1, <2>2, <2>3
  <2>4. CASE i = Begun
    BY <1>3, <1>7, <2>1, <2>2, <2>4 DEF Current
  <2> QED
    BY <2>3, <2>4
<1> QED
  BY <1>5, <1>6, <1>8, <1>9, <1>10, <1>11

LEMMA CNextKeeps == CInv /\ Inv /\ [CNext]_cvars => CInv'
<1> SUFFICES ASSUME CInv, Inv, [CNext]_cvars PROVE CInv'
  OBVIOUS
<1>1. CASE UNCHANGED cvars
  <2>1. ConsecutiveWindows' /\ StopIsHeard' /\ Begun' = Begun /\ Current' = Current
    BY <1>1, TakenKept DEF cvars
  <2>2. CTyped' /\ InTime'
    BY <1>1, <2>1 DEF CInv, cvars, task, recorder, CTyped, InTime, Recording
  <2>3. Planned' /\ InOrder' /\ LateEnds'
    BY <1>1, <2>1 DEF CInv, cvars, task, Planned, InOrder, NextIsNext, LateEnds, Late, EndOf
  <2> QED
    BY <2>1, <2>2, <2>3 DEF CInv
<1>2. CASE Collect
  BY <1>2, LookKeeps, ListedKeeps, NothingListedKeeps, ListingFailsKeeps, SleepOverKeeps,
     RecordedKeeps DEF Collect
<1>3. CASE NetworkStep \/ RecorderStep \/ RaiseStop \/ Tick
  BY <1>3, NetworkKeeps, RecorderStepKeeps, RaiseStopKeeps, TickKeeps
<1>4. CASE Timers
  BY <1>4, TimerFiresKeeps, CallerStepKeeps, CancelledKeeps DEF Timers
<1> QED
  BY <1>1, <1>2, <1>3, <1>4 DEF CNext

THEOREM CollectorInv == CSpec => [](Inv /\ CInv)
<1>1. CInit => Inv
  BY InitInv DEF CInit
<1>2. Inv /\ [CNext]_cvars => Inv'
  BY StepOfRecorder, AnewInv, NextKeeps
<1> QED
  BY <1>1, <1>2, CInitInv, CNextKeeps, PTL DEF CSpec

\* The collector records its windows one after the other, none left out and none
\* twice, each from before its end until after it, however long a listing takes
\* and whatever the network does (collect.py:28-44 and 57-82).
THEOREM WindowsAreConsecutive == CSpec => []ConsecutiveWindows
  BY CollectorInv, PTL DEF CInv

\* After the deadline or the STOP file at most the window goes on that was being
\* looked up (collect.py:57 and 64).
THEOREM StopHeard == CSpec => []StopIsHeard
  BY CollectorInv, PTL DEF CInv
=============================================================================
