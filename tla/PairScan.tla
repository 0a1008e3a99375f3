------------------------------ MODULE PairScan ------------------------------
(***************************************************************************)
(* The scan of a recording for moments at which one share of each outcome  *)
(* costs less than the dollar the two pay together (src/paperfill/pairs.py)*)
(* and what the recorder's gaps do to it.  The scan reads one event after  *)
(* the other; the clock of the recording may go back.                      *)
(***************************************************************************)
EXTENDS Fees, FiniteSetsExt, SequencesExt

CONSTANTS
  Levels,        \* the prices at which there may be asks
  Sizes,         \* the sizes of a level; 0 is an empty one
  Unknown,       \* marks a value that is None in the code
  MaxEvents,     \* bound on the events of a recording
  MaxTime        \* bound on the clock

Tokens == {"up", "down"}
Books  == [Levels -> Sizes]
Quotes == [ts : Nat, up : Levels, down : Levels, size : Nat \ {0}]

ASSUME PairAssumption ==
  /\ Levels \subseteq Prices /\ Sizes \subseteq Nat /\ 0 \in Sizes
  /\ Precision % One = 0
  /\ MaxEvents \in Nat /\ MaxTime \in Nat
  /\ Unknown \notin Books /\ Unknown \notin Quotes /\ Unknown \notin Int

VARIABLES
  asks,          \* `books': the asks of a token
  scan,          \* PairScan
  in_episode, episode_started,
  now, events,
  \* History.
  history,       \* every quote that was sampled
  known,         \* the tokens whose book no gap has made unknown
  profitableFor, \* for how long the book was in fact profitable
  straight,      \* the clock never went back
  blind          \* a gap came, or one side had no asks, inside an episode

vars == <<asks, scan, in_episode, episode_started, now, events,
          history, known, profitableFor, straight, blind>>

-----------------------------------------------------------------------------
(* A quote of the pair. *)

Asked(book) == {p \in Levels : book[p] > 0}

Quotable(books) == \A t \in Tokens : books[t] # Unknown /\ Asked(books[t]) # {}

Best(book) == Min(Asked(book))

InUnits(ticks) == ticks * (Precision \div One)

GrossPerPair(q) == InUnits(One - q.up - q.down)

\* Bug: the fee of one leg is forgotten.
BugNetPerPair(q) == GrossPerPair(q) - taker_fee(1, q.up)

\* Fees are those of one share each.
NetPerPair(q) == GrossPerPair(q) - taker_fee(1, q.up) - taker_fee(1, q.down)

pair_quote(books, ts) ==
  LET a == Best(books["up"])
      b == Best(books["down"])
  IN  [ts |-> ts, up |-> a, down |-> b, size |-> Min({books["up"][a], books["down"][b]})]

Profitable(q) == NetPerPair(q) > 0

-----------------------------------------------------------------------------
(* The scan. *)

Empty == [samples |-> 0, profitable |-> 0, seconds |-> 0, best |-> Unknown, total_net |-> 0,
          episodes |-> 0, min_gross |-> Unknown, episode_seconds |-> << >>]

Better(q, best) == best = Unknown \/ NetPerPair(q) > NetPerPair(best)

\* What every quote adds to the scan.
Counted(q) ==
  [scan EXCEPT !.samples = @ + 1,
               !.min_gross = IF @ = Unknown THEN GrossPerPair(q) ELSE Min({@, GrossPerPair(q)})]

Begun(s, q) ==
  IF in_episode THEN s
  ELSE [s EXCEPT !.episodes = @ + 1, !.total_net = @ + NetPerPair(q) * q.size]

Hit(q) ==
  /\ Profitable(q)
  /\ scan' = Begun([Counted(q) EXCEPT !.profitable = @ + 1,
                                      !.best = IF Better(q, @) THEN q ELSE @], q)
  /\ in_episode' = TRUE
  /\ episode_started' = IF in_episode THEN episode_started ELSE q.ts

\* Bug: an episode lasts until the event before the quote that ends it.
BugLasted(q) == now - episode_started

Lasted(q) == q.ts - episode_started

Ended(s, q) ==
  IF in_episode
  THEN [s EXCEPT !.seconds = @ + Lasted(q), !.episode_seconds = Append(@, Lasted(q))]
  ELSE s

Miss(q) ==
  /\ ~Profitable(q)
  /\ scan' = Ended(Counted(q), q)
  /\ in_episode' = FALSE
  /\ UNCHANGED episode_started

\* Books of which one is missing or has no asks are passed over.
Sample(ts) ==
  IF Quotable(asks')
  THEN LET q == pair_quote(asks', ts)
       IN  (Hit(q) \/ Miss(q)) /\ history' = Append(history, q)
  ELSE UNCHANGED <<scan, in_episode, episode_started, history>>

-----------------------------------------------------------------------------
(* Events of the recording. *)

\* Whether the pair could really be bought at a profit.
InFact(books, tokens) == tokens = Tokens /\ Quotable(books) /\ Profitable(pair_quote(books, 0))

\* The time of the next event; what held until then lasted until then.
Event(ts) ==
  /\ events < MaxEvents
  /\ events' = events + 1 /\ now' = ts
  /\ profitableFor' = profitableFor + IF InFact(asks, known) THEN ts - now ELSE 0
  /\ straight' = (straight /\ (events > 0 => ts >= now))

Blinded == blind' = (blind \/ (in_episode' /\ ~(known' = Tokens /\ Quotable(asks'))))

Book(ts, token, book) ==
  /\ Event(ts)
  /\ asks' = [asks EXCEPT ![token] = book] /\ known' = known \cup {token}
  /\ Sample(ts) /\ Blinded

\* Changes of one level of each of the tokens, of which known books are changed;
\* if there is none, there is no sample.
PriceChange(ts, tokens, level, size) ==
  /\ Event(ts)
  /\ asks' = [t \in Tokens |-> IF t \in tokens /\ asks[t] # Unknown
                               THEN [asks[t] EXCEPT ![level] = size] ELSE asks[t]]
  /\ UNCHANGED known
  /\ IF \E t \in tokens : asks[t] # Unknown
     THEN Sample(ts)
     ELSE UNCHANGED <<scan, in_episode, episode_started, history>>
  /\ Blinded

\* Every other event is passed over: the books stay as they are.  After a gap
\* those of the exchange are no longer known; prints and prices say nothing of it.
PassOver(ts) ==
  /\ Event(ts)
  /\ UNCHANGED <<asks, scan, in_episode, episode_started, history>>
  /\ Blinded

Gap(ts)   == known' = {} /\ PassOver(ts)
Other(ts) == UNCHANGED known /\ PassOver(ts)

Init ==
  /\ asks = [t \in Tokens |-> Unknown] /\ scan = Empty
  /\ in_episode = FALSE /\ episode_started = Unknown
  /\ now = 0 /\ events = 0
  /\ history = << >> /\ known = {} /\ profitableFor = 0 /\ straight = TRUE /\ blind = FALSE

Next ==
  \E ts \in 0 .. MaxTime :
    \/ \E token \in Tokens, book \in Books : Book(ts, token, book)
    \/ \E tokens \in SUBSET Tokens \ {{}}, level \in Levels, size \in Sizes :
         PriceChange(ts, tokens, level, size)
    \/ Gap(ts)
    \/ Other(ts)

Spec == Init /\ [][Next]_vars
-----------------------------------------------------------------------------
(* Properties. *)

\* The episodes of the history: they begin where a profitable quote follows none.
Starts == {i \in DOMAIN history : Profitable(history[i])
                                    /\ (i > 1 => ~Profitable(history[i - 1]))}

\* What an episode brings when its first quote is taken.
FirstSight == [i \in Starts |-> NetPerPair(history[i]) * history[i].size]

Hits == {i \in DOMAIN history : Profitable(history[i])}

\* What `size' pairs bring if they are taken at once: fees are rounded per fill.
NetOfTaking(q) ==
  q.size * GrossPerPair(q) - taker_fee(q.size, q.up) - taker_fee(q.size, q.down)

\* Hit j is the first of the best.
IsFirstBest(j) ==
  \A i \in Hits : /\ NetPerPair(history[i]) <= NetPerPair(history[j])
                  /\ NetPerPair(history[i]) = NetPerPair(history[j]) => j <= i

\* The extremes are those of the samples, and are Unknown only where there is none.
Extremes ==
  /\ IF history = << >> THEN scan.min_gross = Unknown
     ELSE /\ \E i \in DOMAIN history : scan.min_gross = GrossPerPair(history[i])
          /\ \A i \in DOMAIN history : scan.min_gross <= GrossPerPair(history[i])
  /\ IF Hits = {} THEN scan.best = Unknown
     ELSE \E j \in Hits : scan.best = history[j] /\ IsFirstBest(j)

(***************************************************************************)
(* The figures of the scan, made in one pass, are those of the samples: an *)
(* episode is a stretch of profitable samples, its profit that of its      *)
(* first, `best' is the first of the best and `min_gross_seen' the lowest  *)
(* (pairs.py:45-58).  A profit is real although fees are rounded per       *)
(* share: nobody who takes the whole size of a profitable quote loses more *)
(* than one unit of rounding.                                              *)
(***************************************************************************)
ScanIsExact ==
  /\ scan.samples = Len(history) /\ scan.profitable = Cardinality(Hits)
  /\ scan.episodes = Cardinality(Starts)
  /\ scan.episodes = Len(scan.episode_seconds) + IF in_episode THEN 1 ELSE 0
  /\ scan.total_net = SumFunctionOnSet(FirstSight, Starts)
  /\ Extremes
  /\ \A i \in Hits : NetOfTaking(history[i]) >= -1

(***************************************************************************)
(* `seconds_profitable' is the "time the book stayed profitable"           *)
(* (pairs.py:50) of the episodes that ended, however often the book        *)
(* changed and even if the clock went back, unless a gap made a book       *)
(* unknown or a side had no asks inside an episode: then, unless the clock *)
(* went back, it is too long, never too short.                             *)
(***************************************************************************)
TimeIsTrue ==
  LET counted == scan.seconds + IF in_episode THEN now - episode_started ELSE 0
  IN  /\ ~blind => counted = profitableFor
      /\ straight => counted >= profitableFor
=============================================================================
