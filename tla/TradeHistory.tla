---------------------------- MODULE TradeHistory ----------------------------
(***************************************************************************)
(* The trade history of a market (src/paperfill/history.py): programs that *)
(* load it from the cache file or walk the trade API and save it there.    *)
(* The command line and the MCP server may do so at the same time.  Trades *)
(* keep being made while their history is walked.                          *)
(*                                                                         *)
(* A file is a sequence of pieces: those of a header, whose length depends *)
(* on how it is worded, and two for every trade, since bytes of one writer *)
(* may end up in the middle of another's line.  Every program writes at an *)
(* offset of its own.                                                      *)
(***************************************************************************)
EXTENDS Integers, Sequences, SequencesExt, FiniteSets

CONSTANTS
  Programs,       \* the processes that share one data directory
  None,           \* no cursor, no file
  PageSize,       \* page_size
  MaxPages,       \* max_pages
  MaxTrades,      \* bound on the trades of the market
  HeaderLens,     \* the lengths of headers, by digits of the count and of fetched_at
  MaxTime,        \* bound on their timestamps, whole seconds
  MaxWalks        \* bound on the walks begun

VARIABLES
  market,         \* the timestamps of the trades made, oldest first
  phase,          \* where each program is
  cursor,         \* the cursor of the page it asks for
  raw,            \* the rows it has been given, by their place in the market
  seen,           \* the cursors it has been given
  listed,         \* history: the trades there were when it got its first page
  trades,         \* what fetch_trades or load_trades returned to it
  tmp, path,      \* the contents of the two files, or None
  handle,         \* the file that a program writes: "tmp", "path" or "lost"
  width,          \* the length of the header that it writes
  at,             \* how many of its pieces it has written
  walks,          \* walks begun
  overlap,        \* history: whether two programs fetched or saved at once
  ragged,         \* history: whether two wrote headers of different lengths into one file
  complete        \* history: how many trades complete walks have found

walk  == <<cursor, raw, seen, listed>>
files == <<tmp, path, handle, width, at, ragged>>
vars  == <<market, phase, walk, trades, files, overlap, complete, walks>>

Header(n, l, j) == [kind |-> "header", count |-> n, width |-> l, part |-> j]
Row(i, half)    == [kind |-> "row", trade |-> i, half |-> half]
Hole            == [kind |-> "hole"]

Half(r) == IF r % 2 = 1 THEN "front" ELSE "back"

Pieces == [kind : {"header"}, count : 0 .. MaxTrades, width : HeaderLens, part : Nat]
            \cup [kind : {"row"}, trade : 1 .. MaxTrades, half : {"front", "back"}] \cup {Hole}

ASSUME HistoryAssumption ==
  /\ PageSize \in Nat \ {0} /\ MaxPages \in Nat \ {0}
  /\ MaxTrades \in Nat /\ MaxTime \in Nat /\ MaxWalks \in Nat /\ HeaderLens \subseteq Nat \ {0}
  /\ None \notin Nat /\ None \notin Seq(Pieces)

Larger(a, b) == IF a > b THEN a ELSE b
-----------------------------------------------------------------------------
(* The trade API: pages from the newest trade to the oldest. *)

Trade ==
  /\ Len(market) < MaxTrades
  /\ \E ts \in 0 .. MaxTime :
       /\ market # << >> => ts >= Last(market)
       /\ market' = Append(market, ts)
  /\ UNCHANGED <<phase, walk, trades, files, overlap, complete, walks>>

\* A cursor is the place of the last trade of the page before.
Top(c)    == IF c = None THEN Len(market) ELSE c - 1
Bottom(c) == Larger(0, Top(c) - PageSize)
Items(c)  == [k \in 1 .. Top(c) - Bottom(c) |-> Top(c) + 1 - k]
-----------------------------------------------------------------------------
(* fetch_trades. *)

Idle(p) == phase[p] \notin {"asking", "opening", "writing", "replacing"}

Ask(p) ==
  /\ walks < MaxWalks
  /\ phase' = [phase EXCEPT ![p] = "asking"]
  /\ cursor' = [cursor EXCEPT ![p] = None] /\ raw' = [raw EXCEPT ![p] = << >>]
  /\ seen' = [seen EXCEPT ![p] = {None}] /\ listed' = [listed EXCEPT ![p] = 0]
  /\ walks' = walks + 1
  /\ overlap' = (overlap \/ \E q \in Programs \ {p} : ~Idle(q))

\* Oldest first; among trades of one second the order of the API, reversed.
Normalised(rows) ==
  LET Before(i, j) == \/ market[rows[i]] < market[rows[j]]
                      \/ (market[rows[i]] = market[rows[j]] /\ i > j)
      Rank(i) == 1 + Cardinality({j \in DOMAIN rows : Before(j, i)})
  IN  [k \in DOMAIN rows |-> rows[CHOOSE i \in DOMAIN rows : Rank(i) = k]]

\* Bug: off by one.
BugTooMany(cursors) == Cardinality(cursors) >= MaxPages

TooMany(cursors) == Cardinality(cursors) > MaxPages

Refused(p, next) == next \in seen[p]

\* A page arrives.  A server at fault may name any cursor of before again.
Page(p) ==
  /\ phase[p] = "asking"
  /\ LET items == Items(cursor[p])
         rows  == raw[p] \o items
     IN  /\ raw' = [raw EXCEPT ![p] = rows]
         /\ listed' = [listed EXCEPT ![p] = IF cursor[p] = None THEN Len(market) ELSE @]
         /\ \/ /\ Bottom(cursor[p]) = 0
               /\ trades' = [trades EXCEPT ![p] = Normalised(rows)]
               /\ phase' = [phase EXCEPT ![p] = "opening"]
               /\ complete' = complete \cup {Len(rows)}
               /\ UNCHANGED <<cursor, seen>>
            \/ /\ Bottom(cursor[p]) > 0
               /\ \E next \in {Bottom(cursor[p]) + 1} \cup seen[p] :
                    LET cursors == seen[p] \cup {next}
                    IN  /\ cursor' = [cursor EXCEPT ![p] = next]
                        /\ seen' = [seen EXCEPT ![p] = cursors]
                        /\ phase' = [phase EXCEPT ![p] =
                             IF Refused(p, next) THEN "refused"
                             ELSE IF TooMany(cursors) THEN "too many" ELSE "asking"]
               /\ UNCHANGED <<trades, complete>>
  /\ UNCHANGED <<market, files, overlap, walks>>

\* A rate limit: after the server's delay the same page is asked for again.
RateLimited(p) ==
  /\ phase[p] = "asking"
  /\ UNCHANGED vars

\* The server asks for a longer delay than the program is ready for.
GiveUp(p) ==
  /\ phase[p] = "asking"
  /\ phase' = [phase EXCEPT ![p] = "gave up"]
  /\ UNCHANGED <<market, walk, trades, files, overlap, complete, walks>>
-----------------------------------------------------------------------------
(* save_trades: a temporary file that takes the cache file's place. *)

WritesTmp(p) == phase[p] = "writing" /\ handle[p] = "tmp"

\* Where a program that begins to write is.
Opened(p, l) ==
  /\ phase[p] = "opening"
  /\ phase' = [phase EXCEPT ![p] = "writing"]
  /\ width' = [width EXCEPT ![p] = l] /\ at' = [at EXCEPT ![p] = 0]
  /\ ragged' = (ragged \/ \E q \in Programs \ {p} : WritesTmp(q) /\ width[q] # l)
  /\ UNCHANGED <<market, walk, trades, overlap, complete, walks>>

\* Bug: the cache file itself is written.
BugOpenTmp(p) ==
  /\ \E l \in HeaderLens : Opened(p, l)
  /\ path' = << >> /\ handle' = [handle EXCEPT ![p] = "path"]
  /\ UNCHANGED tmp

\* What opening the name that is written to does: any file of that name is
\* emptied, for those who write to it as well.
OpenTmp(p) ==
  /\ \E l \in HeaderLens : Opened(p, l)
  /\ tmp' = << >> /\ handle' = [handle EXCEPT ![p] = "tmp"]
  /\ UNCHANGED path

\* What program p writes in place j of a file: the header, then the rows.
Piece(p, j) ==
  IF j <= width[p] THEN Header(Len(trades[p]), width[p], j)
  ELSE LET r == j - width[p]
       IN  Row(trades[p][(r + 1) \div 2], Half(r))

\* How much it has to write.
Size(p) == width[p] + 2 * Len(trades[p])

\* The file f once program p has written its pieces after n up to m.
Written(f, p, n, m) ==
  [j \in 1 .. Larger(Len(f), m) |->
     IF j > n /\ j <= m THEN Piece(p, j) ELSE IF j \in DOMAIN f THEN f[j] ELSE Hole]

\* A full buffer goes to the file wherever it ends, also in a line; the first
\* one holds all of the header.
Write(p) ==
  /\ phase[p] = "writing"
  /\ at' = [at EXCEPT ![p] = IF @ = 0 THEN width[p] ELSE @ + 1]
  /\ tmp'  = IF handle[p] = "tmp"  THEN Written(tmp, p, at[p], at'[p])  ELSE tmp
  /\ path' = IF handle[p] = "path" THEN Written(path, p, at[p], at'[p]) ELSE path
  /\ phase' = [phase EXCEPT ![p] = IF at'[p] >= Size(p) THEN "replacing" ELSE "writing"]
  /\ UNCHANGED <<market, walk, trades, handle, width, ragged, overlap, complete, walks>>

\* Those who still write to the temporary file write to the cache file now;
\* a file that is no longer there cannot take its place.
Replace(p) ==
  /\ phase[p] = "replacing"
  /\ IF tmp = None
     THEN /\ phase' = [phase EXCEPT ![p] = "failed"]
          /\ UNCHANGED <<tmp, path, handle>>
     ELSE /\ phase' = [phase EXCEPT ![p] = "done"]
          /\ path' = tmp /\ tmp' = None
          /\ handle' = [q \in Programs |-> CASE handle[q] = "path" -> "lost"
                                             [] handle[q] = "tmp"  -> "path"
                                             [] OTHER              -> handle[q]]
  /\ UNCHANGED <<market, walk, trades, width, at, ragged, overlap, complete, walks>>
-----------------------------------------------------------------------------
(* load_trades and the programs that use it. *)

\* A file that begins with a header, where something is written everywhere,
\* and whose last line is not cut off.
Closed(f) ==
  /\ f # << >> /\ f[1].kind = "header" /\ \A j \in DOMAIN f : f[j] # Hole
  /\ LET last == f[Len(f)]
     IN  IF last.kind = "header" THEN last.part = last.width ELSE last.half = "back"

Count(f) == f[1].count

RowsOf(f) == [k \in 1 .. (Len(f) - f[1].width) \div 2 |-> f[f[1].width + 2 * k].trade]

\* Every line is as somebody wrote it.
Intact(f) ==
  /\ f[1].width <= Len(f)
  /\ \A j \in DOMAIN f :
       LET r == j - f[1].width
       IN  IF r <= 0 THEN f[j] = Header(Count(f), f[1].width, j)
           ELSE /\ f[j].kind = "row" /\ f[j].half = Half(r)
                /\ Half(r) = "front" => j < Len(f) /\ f[j + 1] = Row(f[j].trade, "back")

\* Bug: the count of the header is not compared.
BugLoadable(f) == Closed(f) /\ Intact(f)

Loadable(f) == Closed(f) /\ Intact(f) /\ Count(f) = Len(RowsOf(f))

\* A line of two writers' pieces may be no JSON, or say what nobody wrote.
Garbled == << 0 >>

Load(p) ==
  /\ \/ /\ Loadable(path)
        /\ phase' = [phase EXCEPT ![p] = "loaded"] /\ trades' = [trades EXCEPT ![p] = RowsOf(path)]
     \/ /\ Closed(path) /\ ~Intact(path)
        /\ phase' = [phase EXCEPT ![p] = "loaded"] /\ trades' = [trades EXCEPT ![p] = Garbled]
     \/ /\ ~Loadable(path)
        /\ phase' = [phase EXCEPT ![p] = "unreadable"] /\ trades' = [trades EXCEPT ![p] = << >>]
  /\ UNCHANGED <<walk, overlap, complete, walks>>

\* A program uses the cache if there is one, unless asked to refresh it.
Begin(p) ==
  /\ Idle(p)
  /\ \/ path # None /\ Load(p)
     \/ Ask(p) /\ UNCHANGED <<trades, complete>>
  /\ UNCHANGED <<market, files>>

\* A program dies; what it has not yet written is lost.
Crash(p) ==
  /\ ~Idle(p)
  /\ phase' = [phase EXCEPT ![p] = "crashed"]
  /\ UNCHANGED <<market, walk, trades, files, overlap, complete, walks>>
-----------------------------------------------------------------------------
Init ==
  /\ market = << >> /\ walks = 0
  /\ phase = [p \in Programs |-> "start"] /\ trades = [p \in Programs |-> << >>]
  /\ cursor = [p \in Programs |-> None] /\ raw = [p \in Programs |-> << >>]
  /\ seen = [p \in Programs |-> {}] /\ listed = [p \in Programs |-> 0]
  /\ tmp = None /\ path = None /\ overlap = FALSE /\ complete = {}
  /\ handle = [p \in Programs |-> "none"] /\ at = [p \in Programs |-> 0]
  /\ width = [p \in Programs |-> 0] /\ ragged = FALSE

Fetch(p) == Page(p) \/ RateLimited(p) \/ GiveUp(p)
Save(p)  == OpenTmp(p) \/ Write(p) \/ Replace(p)

Next == Trade \/ \E p \in Programs : Begin(p) \/ Fetch(p) \/ Save(p) \/ Crash(p)

Spec == Init /\ [][Next]_vars
-----------------------------------------------------------------------------
(* Properties. *)

FirstTrades(n) == [i \in 1 .. n |-> i]

TypeOK ==
  /\ market \in Seq(0 .. MaxTime) /\ Len(market) <= MaxTrades
  /\ \A p \in Programs :
       /\ raw[p] \in Seq(1 .. MaxTrades) /\ trades[p] \in Seq(0 .. MaxTrades)
       /\ cursor[p] \in 1 .. MaxTrades \cup {None} /\ listed[p] \in 0 .. MaxTrades
       /\ seen[p] \subseteq 1 .. MaxTrades \cup {None}
       /\ handle[p] \in {"none", "tmp", "path", "lost"} /\ width[p] \in HeaderLens \cup {0} /\ at[p] \in Nat
  /\ tmp \in Seq(Pieces) \cup {None} /\ path \in Seq(Pieces) \cup {None}
  /\ walks \in 0 .. MaxWalks /\ overlap \in BOOLEAN /\ ragged \in BOOLEAN
  /\ complete \subseteq 0 .. MaxTrades

(***************************************************************************)
(* "No page is skipped" (history.py:10-11): a walk that succeeds returns   *)
(* every trade there was when it began, once and oldest first, whatever    *)
(* was traded meanwhile, however often it had to wait, and even if the     *)
(* server repeated a cursor.  max_pages refuses only markets with more     *)
(* pages than that, and no others are taken (history.py:125-126).          *)
(***************************************************************************)
WalkIsWhole ==
  \A p \in Programs :
    /\ phase[p] \in {"opening", "writing", "replacing", "done"} => trades[p] = FirstTrades(listed[p])
    /\ phase[p] = "too many" => listed[p] > MaxPages * PageSize
    /\ phase[p] = "opening"  => listed[p] <= MaxPages * PageSize

(***************************************************************************)
(* What load_trades accepts is what a walk found that was complete,        *)
(* whichever programs crashed while saving, or saved at the same time and  *)
(* wrote into one file, unless headers of different lengths put their rows *)
(* out of step: then a line may be made of two, and nothing is promised.   *)
(***************************************************************************)
LoadedIsWhole ==
  /\ TypeOK
  /\ ~ragged => \A p \in Programs :
       phase[p] = "loaded" => \E n \in complete : trades[p] = FirstTrades(n)

(***************************************************************************)
(* Unless two programs fetch at once, the cache file, once there, stays    *)
(* and can be loaded, wherever they die, and no save leaves fewer trades   *)
(* in it.                                                                  *)
(***************************************************************************)
CacheNeverWorse ==
  [][path # None /\ ~overlap' => path' # None /\ Loadable(path') /\ Count(path) <= Count(path')]_vars
=============================================================================
