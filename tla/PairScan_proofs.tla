--------------------------- MODULE PairScan_proofs --------------------------
(***************************************************************************)
(* What the rounding of fees promises, for every schedule (module Fees),   *)
(* and what the scan of a recording tells, for every recording (module     *)
(* PairScan).                                                              *)
(***************************************************************************)
EXTENDS PairScan, Sums

-----------------------------------------------------------------------------
(* Fees. *)

\* Rounding half up errs by half a unit at most.
LEMMA HalfUpIsClose ==
  ASSUME NEW n \in Nat, NEW d \in Nat \ {0}
  PROVE  /\ HalfUp(n, d) \in Nat
         /\ 2 * d * HalfUp(n, d) <= 2 * n + d
         /\ 2 * n - d < 2 * d * HalfUp(n, d)
<1> DEFINE a == 2 * n + d
           b == 2 * d
           q == a \div b
<1>1. a \in Nat /\ b \in Nat /\ b > 0
  OBVIOUS
<1>2. q \in Int /\ b * q <= a /\ a < b * q + b
  <2> HIDE DEF a, b
  <2>1. q \in Int
    BY <1>1
  <2>2. a = b * q + (a % b) /\ 0 <= a % b /\ a % b < b
    BY <1>1
  <2> QED
    BY <1>1, <2>1, <2>2
<1> QED
  BY <1>1, <1>2 DEF HalfUp

LEMMA BentType ==
  ASSUME NEW price \in Prices
  PROVE  Bent(price * (One - price)) \in Nat
<1> DEFINE left == One - price
           curve == price * left
<1>1. price \in Nat /\ left \in Nat /\ One \in Nat /\ price <= One /\ left <= One
  BY FeesAssumption DEF Prices
<1> HIDE DEF left
<1>2. curve \in Nat /\ curve <= price * One /\ price * One <= One * One
  BY <1>1
<1>3. curve <= One * One /\ price * One \in Nat /\ One * One \in Nat
  BY <1>1, <1>2
<1> HIDE DEF curve
<1>4. CASE ExponentIsOne \/ curve = 0
  BY <1>2, <1>4 DEF Bent, curve, left
<1>5. CASE ~(ExponentIsOne \/ curve = 0)
  <2>1. curve \in 1 .. One * One
    BY <1>2, <1>3, <1>5
  <2>2. Raised[curve] \in Nat
    BY <2>1, FeesAssumption
  <2> QED
    BY <1>5, <2>2 DEF Bent, curve, left
<1> QED
  BY <1>4, <1>5

LEMMA CurveType ==
  ASSUME NEW shares \in Nat, NEW price \in Prices
  PROVE  /\ Curve(shares, price) \in Nat
         /\ Parts \in Nat \ {0}
<1>1. Rate \in Nat /\ Precision \in Nat
  BY FeesAssumption
<1>2. One \in Nat \ {0} /\ RateOf \in Nat \ {0} /\ RaisedOf \in Nat \ {0}
  BY FeesAssumption
<1>3. Curve(shares, price) \in Nat
  <2> DEFINE bent == Bent(price * (One - price))
  <2>1. bent \in Nat
    BY BentType
  <2> HIDE DEF bent
  <2>2. shares * Rate * bent * Precision \in Nat
    BY <1>1, <2>1
  <2> QED
    BY <2>2 DEF Curve, bent
<1>4. Parts \in Nat \ {0}
  <2>1. Whole \in Nat \ {0}
    BY <1>2 DEF Whole
  <2> QED
    BY <1>2, <2>1 DEF Parts
<1> QED
  BY <1>3, <1>4

\* Taker fees are those of the curve, up to half a unit (fees.py:81-83).
THEOREM FeeIsClose ==
  ASSUME NEW shares \in Nat, NEW price \in Prices
  PROVE  /\ taker_fee(shares, price) \in Nat
         /\ 2 * Parts * taker_fee(shares, price) <= 2 * Curve(shares, price) + Parts
         /\ 2 * Curve(shares, price) - Parts < 2 * Parts * taker_fee(shares, price)
  BY CurveType, HalfUpIsClose DEF taker_fee

\* A share costs the same fee as its opposite at the opposite price: what
\* matters is how far the price is from the middle (fees.py:74).
THEOREM OppositesPayAlike ==
  ASSUME NEW shares \in Nat, NEW price \in Prices
  PROVE  taker_fee(shares, One - price) = taker_fee(shares, price)
<1>1. price \in Int /\ One \in Int /\ Rate \in Int /\ Precision \in Int
  BY FeesAssumption DEF Prices
<1>2. One - (One - price) = price
  BY <1>1
<1>3. Curve(shares, One - price) = Curve(shares, price)
  <2> DEFINE left == One - price
  <2>1. left \in Int /\ One - left = price
    BY <1>1
  <2> HIDE DEF left
  <2>2. left * price = price * left
    BY <1>1, <2>1
  <2>3. Curve(shares, left) = Curve(shares, price)
    BY <2>1, <2>2 DEF Curve, left
  <2> QED
    BY <2>3 DEF left
<1> QED
  BY <1>3 DEF taker_fee

\* No maker gets back more than the taker paid (fees.py:91-95).
THEOREM RebateBelowFee ==
  ASSUME NEW shares \in Nat, NEW price \in Prices
  PROVE  maker_rebate_estimate(shares, price) \in 0 .. taker_fee(shares, price)
<1> DEFINE fee == taker_fee(shares, price)
           back == maker_rebate_estimate(shares, price)
<1>1. fee \in Nat
  BY FeeIsClose
<1>2. Rebate \in Nat /\ RebateOf \in Nat \ {0} /\ Rebate <= RebateOf
  BY FeesAssumption
<1> HIDE DEF fee
<1>3. fee * Rebate \in Nat /\ fee * Rebate <= fee * RebateOf
  BY <1>1, <1>2
<1>4. back \in Nat /\ 2 * RebateOf * back <= 2 * (fee * Rebate) + RebateOf
  BY <1>2, <1>3, HalfUpIsClose DEF maker_rebate_estimate, fee
<1> HIDE DEF back
<1>5. 2 * RebateOf * back <= 2 * (fee * RebateOf) + RebateOf
  BY <1>1, <1>2, <1>3, <1>4
<1>6. back <= fee
  <2> SUFFICES ASSUME back >= fee + 1 PROVE FALSE
    BY <1>1, <1>4
  <2>1. RebateOf * back >= RebateOf * (fee + 1)
    BY <1>1, <1>2, <1>4
  <2>2. RebateOf * (fee + 1) = fee * RebateOf + RebateOf
    BY <1>1, <1>2
  <2>3. RebateOf * back \in Nat /\ fee * RebateOf \in Nat /\ 2 * RebateOf * back = 2 * (RebateOf * back)
    BY <1>1, <1>2, <1>4
  <2> QED
    BY <1>2, <1>5, <2>1, <2>2, <2>3
<1> QED
  BY <1>1, <1>4, <1>6 DEF fee, back

LEMMA CurveIsLinear ==
  ASSUME NEW shares \in Nat, NEW price \in Prices
  PROVE  Curve(shares, price) = shares * Curve(1, price)
<1> DEFINE bent == Bent(price * (One - price))
<1>1. bent \in Int /\ Rate \in Int /\ Precision \in Int
  BY FeesAssumption, BentType
<1> HIDE DEF bent
<1>2. shares * Rate * bent * Precision = shares * (1 * Rate * bent * Precision)
  BY <1>1
<1> QED
  BY <1>2 DEF Curve, bent

\* A pair whose quote is profitable, with the fees of one share each, brings no
\* loss beyond one unit of rounding when any number of pairs is taken with one
\* rounded fee per leg (pairs.py:82-94 and execution.py:342).
THEOREM ProfitIsReal ==
  ASSUME NEW a \in Prices, NEW b \in Prices, NEW gross \in Int, NEW size \in Nat \ {0},
         gross - taker_fee(1, a) - taker_fee(1, b) >= 1
  PROVE  size * gross - taker_fee(size, a) - taker_fee(size, b) >= -1
<1> DEFINE P == Parts
           c == Curve(1, a) + Curve(1, b)
           one == taker_fee(1, a) + taker_fee(1, b)
           all == taker_fee(size, a) + taker_fee(size, b)
<1>1. P \in Nat \ {0} /\ c \in Nat /\ one \in Nat /\ all \in Nat
  BY CurveType, FeeIsClose
<1>2. 2 * c - 2 * P < 2 * (P * one)
  BY FeeIsClose, CurveType
<1>3. Curve(size, a) + Curve(size, b) = size * c
  BY CurveIsLinear, CurveType
<1>4. 2 * (P * all) <= 2 * (size * c) + 2 * P
  <2>1. 2 * P * taker_fee(size, a) <= 2 * Curve(size, a) + P
    BY FeeIsClose
  <2>2. 2 * P * taker_fee(size, b) <= 2 * Curve(size, b) + P
    BY FeeIsClose
  <2> QED
    BY <1>3, <2>1, <2>2, CurveType, FeeIsClose
<1>5. gross >= 1 + one
  BY FeeIsClose
<1>6. SUFFICES size * gross - all >= -1
  BY FeeIsClose
<1> HIDE DEF P, c, one, all
<1>7. P * gross >= P * (1 + one) /\ P * (1 + one) = P + P * one
  BY <1>1, <1>5
<1>8. P * gross \in Int /\ P * one \in Nat
  BY <1>1
<1>9. c < P * gross
  BY <1>1, <1>2, <1>7, <1>8
<1>10. size * c <= size * (P * gross) /\ size * (P * gross) = P * (size * gross)
  BY <1>1, <1>8, <1>9
<1>11. SUFFICES ASSUME all >= size * gross + 2 PROVE FALSE
  BY <1>1
<1>12. P * all >= P * (size * gross + 2) /\ P * (size * gross + 2) = P * (size * gross) + 2 * P
  BY <1>1, <1>11
<1>13. P * all \in Nat /\ size * c \in Nat /\ P * (size * gross) \in Int
  BY <1>1
<1> QED
  BY <1>1, <1>4, <1>10, <1>12, <1>13

-----------------------------------------------------------------------------
(* The invariant of the scan. *)

Scans == [samples : Nat, profitable : Nat, seconds : Int, best : Quotes \cup {Unknown},
          total_net : Int, episodes : Nat, min_gross : Int \cup {Unknown},
          episode_seconds : Seq(Int)]

Typed ==
  /\ asks \in [Tokens -> Books \cup {Unknown}] /\ known \subseteq Tokens
  /\ history \in Seq(Quotes)
  /\ scan \in Scans
  /\ in_episode \in BOOLEAN /\ (in_episode => episode_started \in Nat)
  /\ now \in Nat /\ events \in Nat /\ profitableFor \in Int
  /\ straight \in BOOLEAN /\ blind \in BOOLEAN

\* A pair that is known to be profitable is in an episode; the other way round a
\* gap or an empty side may have come in between.
EpisodeIsSeen ==
  /\ InFact(asks, known) => in_episode
  /\ ~blind /\ in_episode => InFact(asks, known)
  /\ events = 0 => now = 0

\* An episode goes on while the last sample was profitable.
Going == in_episode <=> Len(history) > 0 /\ Profitable(history[Len(history)])

Figures ==
  /\ Going
  /\ scan.samples = Len(history) /\ scan.profitable = Cardinality(Hits)
  /\ scan.episodes = Cardinality(Starts)
  /\ scan.episodes = Len(scan.episode_seconds) + IF in_episode THEN 1 ELSE 0
  /\ scan.total_net = SumFunctionOnSet(FirstSight, Starts)

PairInv == Typed /\ EpisodeIsSeen /\ TimeIsTrue /\ Figures /\ Extremes

-----------------------------------------------------------------------------
(* Quotes. *)

LEMMA PairConstants ==
  /\ Levels \subseteq Nat /\ Levels \subseteq Prices /\ Sizes \subseteq Nat
  /\ MaxTime \in Nat /\ Unknown \notin Books /\ Unknown \notin Quotes /\ Unknown \notin Int
  /\ One \in Nat /\ Precision \div One \in Int
<1>1. One \in Nat \ {0} /\ Precision \in Nat /\ Prices \subseteq Nat
  BY FeesAssumption DEF Prices
<1>2. Precision \div One \in Int
  BY <1>1
<1> QED
  BY <1>1, <1>2, PairAssumption

LEMMA LeastOf ==
  ASSUME NEW W, W \subseteq Nat, W # {}
  PROVE  Min(W) \in W
<1>1. \E x \in W : \A y \in W : x <= y
  BY LeastNumber
<1> QED
  BY <1>1 DEF Min

LEMMA QuoteType ==
  ASSUME NEW books \in [Tokens -> Books \cup {Unknown}], Quotable(books), NEW ts \in Nat
  PROVE  pair_quote(books, ts) \in Quotes
<1> DEFINE u == books["up"]
           d == books["down"]
<1>1. /\ u \in Books /\ Asked(u) # {}
      /\ d \in Books /\ Asked(d) # {}
  BY DEF Tokens, Quotable
<1>2. PICK a \in Levels : a = Best(u) /\ u[a] > 0
  <2>1. Asked(u) \subseteq Nat
    BY PairConstants DEF Asked
  <2>2. Best(u) \in Asked(u)
    BY <1>1, <2>1, LeastOf DEF Best
  <2> QED
    BY <2>2 DEF Asked
<1>3. PICK b \in Levels : b = Best(d) /\ d[b] > 0
  <2>1. Asked(d) \subseteq Nat
    BY PairConstants DEF Asked
  <2>2. Best(d) \in Asked(d)
    BY <1>1, <2>1, LeastOf DEF Best
  <2> QED
    BY <2>2 DEF Asked
<1>4. u[a] \in Nat \ {0} /\ d[b] \in Nat \ {0}
  <2>1. u[a] \in Sizes /\ d[b] \in Sizes
    BY <1>1 DEF Books
  <2>2. u[a] \in Nat /\ d[b] \in Nat /\ u[a] > 0 /\ d[b] > 0
    BY <1>2, <1>3, <2>1, PairConstants
  <2> HIDE DEF u, d
  <2> QED
    BY <2>2
<1>5. Min({u[a], d[b]}) \in Nat \ {0}
  <2>1. {u[a], d[b]} \subseteq Nat /\ {u[a], d[b]} # {}
    BY <1>4
  <2>2. Min({u[a], d[b]}) \in {u[a], d[b]}
    BY <2>1, LeastOf
  <2> QED
    BY <1>4, <2>2
<1> QED
  BY <1>2, <1>3, <1>5 DEF pair_quote, Quotes

LEMMA QuoteNumbers ==
  ASSUME NEW q \in Quotes
  PROVE  /\ NetPerPair(q) \in Int /\ GrossPerPair(q) \in Int
         /\ NetPerPair(q) * q.size \in Int
         /\ Profitable(q) => NetOfTaking(q) >= -1
<1>1. q.up \in Prices /\ q.down \in Prices /\ q.size \in Nat \ {0}
  BY PairConstants DEF Quotes
<1>2. q.up \in Int /\ q.down \in Int /\ One \in Int
  BY <1>1, PairConstants DEF Prices
<1>3. GrossPerPair(q) \in Int
  <2>1. One - q.up - q.down \in Int
    BY <1>2
  <2> QED
    BY <2>1, PairConstants DEF GrossPerPair, InUnits
<1>4. taker_fee(1, q.up) \in Nat /\ taker_fee(1, q.down) \in Nat
  BY <1>1, FeeIsClose
<1>5. NetPerPair(q) \in Int
  BY <1>3, <1>4 DEF NetPerPair
<1>6. NetPerPair(q) * q.size \in Int
  BY <1>1, <1>5
<1>7. Profitable(q) => GrossPerPair(q) - taker_fee(1, q.up) - taker_fee(1, q.down) >= 1
  BY <1>3, <1>4 DEF Profitable, NetPerPair
<1>8. Profitable(q) => NetOfTaking(q) >= -1
  BY <1>1, <1>3, <1>7, ProfitIsReal DEF NetOfTaking
<1> QED
  BY <1>3, <1>5, <1>6, <1>8

\* When a pair is quoted makes no difference to its profit.
LEMMA NetIgnoresTime ==
  ASSUME NEW books, NEW s, NEW t
  PROVE  Profitable(pair_quote(books, s)) <=> Profitable(pair_quote(books, t))
  BY DEF Profitable, NetPerPair, GrossPerPair, pair_quote

-----------------------------------------------------------------------------
(* A step samples the pair, or passes it over. *)

Sampled(ts) ==
  /\ Quotable(asks') /\ history' = Append(history, pair_quote(asks', ts))
  /\ Hit(pair_quote(asks', ts)) \/ Miss(pair_quote(asks', ts))

Passed ==
  /\ UNCHANGED <<scan, in_episode, episode_started, history>>
  /\ (known' = Tokens /\ Quotable(asks')) => UNCHANGED <<asks, known>>

LEMMA StepIsSample ==
  ASSUME Typed, Next
  PROVE  \E ts \in Nat :
           /\ Event(ts) /\ Blinded /\ known' \subseteq Tokens
           /\ asks' \in [Tokens -> Books \cup {Unknown}]
           /\ Sampled(ts) \/ Passed
<1>1. \A ts \in 0 .. MaxTime : ts \in Nat
  BY PairConstants
<1>2. ASSUME NEW ts \in 0 .. MaxTime, NEW token \in Tokens, NEW book \in Books, Book(ts, token, book)
      PROVE  /\ Event(ts) /\ Blinded /\ known' \subseteq Tokens
             /\ asks' \in [Tokens -> Books \cup {Unknown}]
             /\ Sampled(ts) \/ Passed
  <2>1. asks' = [asks EXCEPT ![token] = book] /\ known' = known \cup {token}
    BY <1>2 DEF Book
  <2>2. asks' \in [Tokens -> Books \cup {Unknown}] /\ known' \subseteq Tokens
    BY <2>1 DEF Typed
  <2> QED
    BY <1>2, <2>2 DEF Book, Sample, Sampled, Passed
<1>3. ASSUME NEW ts \in 0 .. MaxTime, NEW tokens \in SUBSET Tokens \ {{}}, NEW level \in Levels,
             NEW size \in Sizes, PriceChange(ts, tokens, level, size)
      PROVE  /\ Event(ts) /\ Blinded /\ known' \subseteq Tokens
             /\ asks' \in [Tokens -> Books \cup {Unknown}]
             /\ Sampled(ts) \/ Passed
  <2>1. asks' = [t \in Tokens |-> IF t \in tokens /\ asks[t] # Unknown
                                  THEN [asks[t] EXCEPT ![level] = size] ELSE asks[t]]
    BY <1>3 DEF PriceChange
  <2>2. \A t \in Tokens : asks[t] # Unknown => [asks[t] EXCEPT ![level] = size] \in Books
    BY DEF Typed, Books
  <2>3. asks' \in [Tokens -> Books \cup {Unknown}] /\ known' \subseteq Tokens
    BY <1>3, <2>1, <2>2 DEF Typed, PriceChange
  <2>4. CASE \E t \in tokens : asks[t] # Unknown
    BY <1>3, <2>3, <2>4 DEF PriceChange, Sample, Sampled, Passed
  <2>5. CASE ~ \E t \in tokens : asks[t] # Unknown
    <3>1. asks' = [t \in Tokens |-> asks[t]]
      BY <2>1, <2>5
    <3>2. asks' = asks
      BY <3>1 DEF Typed
    <3> QED
      BY <1>3, <2>3, <2>5, <3>2 DEF PriceChange, Passed
  <2> QED
    BY <2>4, <2>5
<1>4. ASSUME NEW ts \in 0 .. MaxTime, Gap(ts) \/ Other(ts)
      PROVE  /\ Event(ts) /\ Blinded /\ known' \subseteq Tokens
             /\ asks' \in [Tokens -> Books \cup {Unknown}]
             /\ Sampled(ts) \/ Passed
  BY <1>4 DEF Gap, Other, PassOver, Passed, Typed, Tokens
<1> QED
  BY <1>1, <1>2, <1>3, <1>4 DEF Next

-----------------------------------------------------------------------------
(* What a sample does to the scan. *)

LEMMA ScanIs ==
  ASSUME NEW s, NEW a \in Nat, NEW b \in Nat, NEW c \in Int, NEW d \in Quotes \cup {Unknown},
         NEW e \in Int, NEW f \in Nat, NEW g \in Int \cup {Unknown}, NEW h \in Seq(Int),
         s = [samples |-> a, profitable |-> b, seconds |-> c, best |-> d, total_net |-> e,
              episodes |-> f, min_gross |-> g, episode_seconds |-> h]
  PROVE  s \in Scans
  BY DEF Scans

\* The scan with what every quote adds to it.
LEMMA CountedIs ==
  ASSUME Typed, NEW q \in Quotes
  PROVE  Counted(q) =
           [samples |-> scan.samples + 1, profitable |-> scan.profitable,
            seconds |-> scan.seconds, best |-> scan.best, total_net |-> scan.total_net,
            episodes |-> scan.episodes,
            min_gross |-> IF scan.min_gross = Unknown THEN GrossPerPair(q)
                          ELSE Min({scan.min_gross, GrossPerPair(q)}),
            episode_seconds |-> scan.episode_seconds]
<1>1. scan = [samples |-> scan.samples, profitable |-> scan.profitable,
              seconds |-> scan.seconds, best |-> scan.best, total_net |-> scan.total_net,
              episodes |-> scan.episodes, min_gross |-> scan.min_gross,
              episode_seconds |-> scan.episode_seconds]
  BY DEF Typed, Scans
<1> DEFINE g == GrossPerPair(q)
           m == Min({scan.min_gross, g})
<1>2. Counted(q) = [scan EXCEPT !.samples = @ + 1, !.min_gross = IF @ = Unknown THEN g ELSE m]
  BY DEF Counted
<1> HIDE DEF g, m
<1>3. Counted(q) =
        [samples |-> scan.samples + 1, profitable |-> scan.profitable,
         seconds |-> scan.seconds, best |-> scan.best, total_net |-> scan.total_net,
         episodes |-> scan.episodes,
         min_gross |-> IF scan.min_gross = Unknown THEN g ELSE m,
         episode_seconds |-> scan.episode_seconds]
  BY <1>1, <1>2
<1> QED
  BY <1>3 DEF g, m

\* The scan after a sample that is profitable, and after one that is not.
LEMMA HitScan ==
  ASSUME Typed, NEW q \in Quotes, Hit(q)
  PROVE  /\ Profitable(q) /\ in_episode' = TRUE
         /\ episode_started' = IF in_episode THEN episode_started ELSE q.ts
         /\ scan'.samples = scan.samples + 1 /\ scan'.profitable = scan.profitable + 1
         /\ scan'.seconds = scan.seconds /\ scan'.episode_seconds = scan.episode_seconds
         /\ scan'.min_gross = IF scan.min_gross = Unknown THEN GrossPerPair(q)
                              ELSE Min({scan.min_gross, GrossPerPair(q)})
         /\ scan'.best = IF Better(q, scan.best) THEN q ELSE scan.best
         /\ scan'.episodes = scan.episodes + IF in_episode THEN 0 ELSE 1
         /\ scan'.total_net = scan.total_net + IF in_episode THEN 0 ELSE NetPerPair(q) * q.size
         /\ scan' = [samples |-> scan'.samples, profitable |-> scan'.profitable,
                     seconds |-> scan'.seconds, best |-> scan'.best,
                     total_net |-> scan'.total_net, episodes |-> scan'.episodes,
                     min_gross |-> scan'.min_gross, episode_seconds |-> scan'.episode_seconds]
<1> DEFINE c == [Counted(q) EXCEPT !.profitable = @ + 1, !.best = IF Better(q, @) THEN q ELSE @]
<1> DEFINE m == IF scan.min_gross = Unknown THEN GrossPerPair(q)
                ELSE Min({scan.min_gross, GrossPerPair(q)})
           b == IF Better(q, scan.best) THEN q ELSE scan.best
<1>0. Counted(q) =
        [samples |-> scan.samples + 1, profitable |-> scan.profitable,
         seconds |-> scan.seconds, best |-> scan.best, total_net |-> scan.total_net,
         episodes |-> scan.episodes, min_gross |-> m, episode_seconds |-> scan.episode_seconds]
  BY CountedIs
<1>6. c = [samples |-> scan.samples + 1, profitable |-> scan.profitable + 1,
           seconds |-> scan.seconds, best |-> b, total_net |-> scan.total_net,
           episodes |-> scan.episodes, min_gross |-> m, episode_seconds |-> scan.episode_seconds]
  <2> DEFINE k == Counted(q)
  <2>1. k.best = scan.best
    BY <1>0
  <2>2. (IF Better(q, k.best) THEN q ELSE k.best) = b
    BY <2>1
  <2>3. k = [samples |-> scan.samples + 1, profitable |-> scan.profitable,
             seconds |-> scan.seconds, best |-> scan.best, total_net |-> scan.total_net,
             episodes |-> scan.episodes, min_gross |-> m,
             episode_seconds |-> scan.episode_seconds]
    BY <1>0
  <2>4. c = [k EXCEPT !.profitable = @ + 1, !.best = b]
    <3> HIDE DEF b
    <3>1. c = [k EXCEPT !.profitable = @ + 1, !.best = IF Better(q, k.best) THEN q ELSE k.best]
      OBVIOUS
    <3> QED
      BY <2>2, <3>1
  <2> HIDE DEF m, b, c, k
  <2> QED
    BY <2>3, <2>4
<1>1. /\ c.samples = scan.samples + 1 /\ c.profitable = scan.profitable + 1
      /\ c.seconds = scan.seconds /\ c.episode_seconds = scan.episode_seconds
      /\ c.min_gross = IF scan.min_gross = Unknown THEN GrossPerPair(q)
                       ELSE Min({scan.min_gross, GrossPerPair(q)})
      /\ c.best = IF Better(q, scan.best) THEN q ELSE scan.best
      /\ c.episodes = scan.episodes /\ c.total_net = scan.total_net
      /\ c = [samples |-> c.samples, profitable |-> c.profitable, seconds |-> c.seconds,
              best |-> c.best, total_net |-> c.total_net, episodes |-> c.episodes,
              min_gross |-> c.min_gross, episode_seconds |-> c.episode_seconds]
  <2> HIDE DEF c
  <2> QED
    BY <1>6
<1>2. Profitable(q) /\ in_episode' = TRUE /\ scan' = Begun(c, q)
      /\ episode_started' = IF in_episode THEN episode_started ELSE q.ts
  BY DEF Hit
<1>3. scan.episodes \in Nat /\ scan.total_net \in Int
  BY DEF Typed, Scans
<1> HIDE DEF c
<1>4. CASE in_episode
  BY <1>1, <1>2, <1>3, <1>4 DEF Begun
<1>5. CASE ~in_episode
  BY <1>1, <1>2, <1>3, <1>5 DEF Begun
<1> QED
  BY <1>4, <1>5

LEMMA MissScan ==
  ASSUME Typed, NEW q \in Quotes, Miss(q)
  PROVE  /\ ~Profitable(q) /\ in_episode' = FALSE
         /\ scan'.samples = scan.samples + 1 /\ scan'.profitable = scan.profitable
         /\ scan'.seconds = scan.seconds + IF in_episode THEN q.ts - episode_started ELSE 0
         /\ scan'.episode_seconds = IF in_episode THEN Append(scan.episode_seconds, Lasted(q))
                                    ELSE scan.episode_seconds
         /\ scan'.min_gross = IF scan.min_gross = Unknown THEN GrossPerPair(q)
                              ELSE Min({scan.min_gross, GrossPerPair(q)})
         /\ scan'.best = scan.best /\ scan'.episodes = scan.episodes
         /\ scan'.total_net = scan.total_net
         /\ scan' = [samples |-> scan'.samples, profitable |-> scan'.profitable,
                     seconds |-> scan'.seconds, best |-> scan'.best,
                     total_net |-> scan'.total_net, episodes |-> scan'.episodes,
                     min_gross |-> scan'.min_gross, episode_seconds |-> scan'.episode_seconds]
<1> DEFINE c == Counted(q)
<1>1. /\ c.samples = scan.samples + 1 /\ c.profitable = scan.profitable
      /\ c.seconds = scan.seconds /\ c.episode_seconds = scan.episode_seconds
      /\ c.min_gross = IF scan.min_gross = Unknown THEN GrossPerPair(q)
                       ELSE Min({scan.min_gross, GrossPerPair(q)})
      /\ c.best = scan.best
      /\ c.episodes = scan.episodes /\ c.total_net = scan.total_net
      /\ c = [samples |-> c.samples, profitable |-> c.profitable, seconds |-> c.seconds,
              best |-> c.best, total_net |-> c.total_net, episodes |-> c.episodes,
              min_gross |-> c.min_gross, episode_seconds |-> c.episode_seconds]
  BY CountedIs
<1>2. ~Profitable(q) /\ in_episode' = FALSE /\ scan' = Ended(c, q)
  BY DEF Miss
<1>3. scan.seconds \in Int
  BY DEF Typed, Scans
<1> HIDE DEF c
<1>4. CASE in_episode
  BY <1>1, <1>2, <1>3, <1>4 DEF Ended, Lasted
<1>5. CASE ~in_episode
  BY <1>1, <1>2, <1>3, <1>5 DEF Ended
<1> QED
  BY <1>4, <1>5

\* A sample's quote, with what it does to the lowest gross.
LEMMA LowestGross ==
  ASSUME Typed, NEW q \in Quotes, NEW m,
         m = IF scan.min_gross = Unknown THEN GrossPerPair(q)
             ELSE Min({scan.min_gross, GrossPerPair(q)})
  PROVE  /\ m \in Int /\ m <= GrossPerPair(q)
         /\ scan.min_gross \in Int => m <= scan.min_gross
         /\ m \in {scan.min_gross, GrossPerPair(q)}
<1>1. GrossPerPair(q) \in Int /\ Unknown \notin Int
  BY QuoteNumbers, PairConstants
<1>2. CASE scan.min_gross = Unknown
  BY <1>1, <1>2
<1>3. CASE scan.min_gross # Unknown
  <2> DEFINE g == GrossPerPair(q)
             o == scan.min_gross
  <2>1. o \in Int /\ g \in Int /\ m = Min({o, g})
    BY <1>1, <1>3 DEF Typed, Scans
  <2> HIDE DEF o, g
  <2>2. \E x \in {o, g} : \A y \in {o, g} : x <= y
    <3>1. CASE o <= g
      BY <2>1, <3>1
    <3>2. CASE ~(o <= g)
      <4>1. g <= o /\ g <= g
        BY <2>1, <3>2
      <4>2. \A y \in {o, g} : g <= y
        BY <4>1
      <4> QED
        BY <4>2
    <3> QED
      BY <3>1, <3>2
  <2>3. Min({o, g}) \in {o, g} /\ \A y \in {o, g} : Min({o, g}) <= y
    BY <2>2 DEF Min
  <2> QED
    BY <2>1, <2>3 DEF o, g
<1> QED
  BY <1>2, <1>3

-----------------------------------------------------------------------------
(* The invariant is kept. *)

LEMMA TypedKept == Typed /\ Next => Typed'
<1> SUFFICES ASSUME Typed, Next PROVE Typed'
  OBVIOUS
<1>1. PICK ts \in Nat :
        /\ Event(ts) /\ Blinded /\ known' \subseteq Tokens
        /\ asks' \in [Tokens -> Books \cup {Unknown}]
        /\ Sampled(ts) \/ Passed
  BY StepIsSample
<1>2. now' \in Nat /\ events' \in Nat /\ profitableFor' \in Int
      /\ straight' \in BOOLEAN /\ blind' \in BOOLEAN
  <2>1. now' = ts /\ events' = events + 1
        /\ profitableFor' = profitableFor + IF InFact(asks, known) THEN ts - now ELSE 0
    BY <1>1 DEF Event
  <2>2. now' \in Nat /\ events' \in Nat /\ profitableFor' \in Int
    BY <2>1 DEF Typed, Scans
  <2>3. straight' \in BOOLEAN /\ blind' \in BOOLEAN
    BY <1>1 DEF Event, Blinded
  <2> QED
    BY <2>2, <2>3
<1>3. CASE Passed
  BY <1>1, <1>2, <1>3 DEF Passed, Typed, Scans
<1>4. CASE Sampled(ts)
  <2> DEFINE q == pair_quote(asks', ts)
  <2>1. q \in Quotes /\ q.ts = ts
    BY <1>1, <1>4, QuoteType DEF Sampled, pair_quote
  <2>2. history' \in Seq(Quotes)
    BY <1>4, <2>1 DEF Sampled, Typed, Scans
  <2> HIDE DEF q
  <2>3. NetPerPair(q) * q.size \in Int /\ GrossPerPair(q) \in Int
    BY <2>1, QuoteNumbers
  <2>4. CASE Hit(q)
    <3>1. scan'.min_gross \in Int
      BY <2>1, <2>4, HitScan, LowestGross
    <3>2. /\ scan'.samples \in Nat /\ scan'.profitable \in Nat /\ scan'.seconds \in Int
          /\ scan'.best \in Quotes \cup {Unknown} /\ scan'.total_net \in Int /\ scan'.episodes \in Nat
          /\ scan'.episode_seconds \in Seq(Int)
      <4>1. /\ scan.samples \in Nat /\ scan.profitable \in Nat /\ scan.seconds \in Int
            /\ scan.best \in Quotes \cup {Unknown} /\ scan.total_net \in Int /\ scan.episodes \in Nat
            /\ scan.episode_seconds \in Seq(Int)
        BY DEF Typed, Scans
      <4>2. /\ scan'.samples = scan.samples + 1 /\ scan'.profitable = scan.profitable + 1
            /\ scan'.seconds = scan.seconds /\ scan'.episode_seconds = scan.episode_seconds
            /\ (scan'.best = q \/ scan'.best = scan.best)
            /\ (scan'.episodes = scan.episodes + 1 \/ scan'.episodes = scan.episodes + 0)
            /\ \/ scan'.total_net = scan.total_net + NetPerPair(q) * q.size
               \/ scan'.total_net = scan.total_net + 0
        BY <2>1, <2>4, HitScan
      <4> DEFINE n == NetPerPair(q) * q.size
      <4>3. n \in Int
        BY <2>3
      <4>4. scan'.total_net = scan.total_net + n \/ scan'.total_net = scan.total_net + 0
        BY <4>2
      <4> HIDE DEF n
      <4>5. scan'.total_net \in Int
        BY <4>1, <4>3, <4>4
      <4>6. scan'.samples \in Nat /\ scan'.profitable \in Nat /\ scan'.episodes \in Nat
        BY <4>1, <4>2, SMTT(60)
      <4>7. scan'.best \in Quotes \cup {Unknown}
        BY <2>1, <4>1, <4>2
      <4> QED
        BY <4>1, <4>2, <4>5, <4>6, <4>7
    <3>3. scan' \in Scans
      BY <2>1, <2>4, <3>1, <3>2, HitScan, ScanIs
    <3>4. in_episode' = TRUE /\ episode_started' \in Nat
      BY <2>1, <2>4, HitScan DEF Typed, Scans
    <3> QED
      BY <1>1, <1>2, <2>2, <3>3, <3>4 DEF Typed, Scans
  <2>5. CASE Miss(q)
    <3>1. scan'.min_gross \in Int
      BY <2>1, <2>5, MissScan, LowestGross
    <3>2. /\ scan'.samples \in Nat /\ scan'.profitable \in Nat /\ scan'.seconds \in Int
          /\ scan'.best \in Quotes \cup {Unknown} /\ scan'.total_net \in Int /\ scan'.episodes \in Nat
      <4>1. /\ scan.samples \in Nat /\ scan.profitable \in Nat /\ scan.seconds \in Int
            /\ scan.best \in Quotes \cup {Unknown} /\ scan.total_net \in Int /\ scan.episodes \in Nat
            /\ (in_episode => episode_started \in Nat)
        BY DEF Typed, Scans
      <4>2. /\ scan'.samples = scan.samples + 1 /\ scan'.profitable = scan.profitable
            /\ scan'.seconds = scan.seconds + IF in_episode THEN q.ts - episode_started ELSE 0
            /\ scan'.best = scan.best /\ scan'.episodes = scan.episodes
            /\ scan'.total_net = scan.total_net
        BY <2>1, <2>5, MissScan
      <4> QED
        BY <2>1, <4>1, <4>2
    <3>3. scan'.episode_seconds \in Seq(Int)
      <4>1. CASE in_episode
        <5>1. Lasted(q) \in Int
          BY <2>1, <4>1 DEF Lasted, Typed, Scans
        <5>2. scan'.episode_seconds = Append(scan.episode_seconds, Lasted(q))
              /\ scan.episode_seconds \in Seq(Int)
          BY <2>1, <2>5, <4>1, MissScan DEF Typed, Scans
        <5> QED
          BY <5>1, <5>2
      <4>2. CASE ~in_episode
        BY <2>1, <2>5, <4>2, MissScan DEF Typed, Scans
      <4> QED
        BY <4>1, <4>2
    <3>4. scan' \in Scans
      BY <2>1, <2>5, <3>1, <3>2, <3>3, MissScan, ScanIs
    <3>5. in_episode' = FALSE
      BY <2>1, <2>5, MissScan
    <3> QED
      BY <1>1, <1>2, <2>2, <3>4, <3>5 DEF Typed, Scans
  <2> QED
    BY <1>4, <2>4, <2>5 DEF Sampled, q
<1> QED
  BY <1>1, <1>3, <1>4

\* Only what is passed over hides what became of the pair.
LEMMA EpisodeIsSeenKept == Typed /\ EpisodeIsSeen /\ Next => EpisodeIsSeen'
<1> SUFFICES ASSUME Typed, EpisodeIsSeen, Next PROVE EpisodeIsSeen'
  OBVIOUS
<1>1. PICK ts \in Nat :
        /\ Event(ts) /\ Blinded /\ known' \subseteq Tokens
        /\ asks' \in [Tokens -> Books \cup {Unknown}]
        /\ Sampled(ts) \/ Passed
  BY StepIsSample
<1>2. events' # 0
  BY <1>1 DEF Event, Typed, Scans
<1>3. ~blind' => ~blind /\ (in_episode' => known' = Tokens /\ Quotable(asks'))
  BY <1>1 DEF Blinded
<1>4. CASE Passed
  <2>1. InFact(asks', known') => InFact(asks, known)
    BY <1>4 DEF Passed, InFact
  <2>2. known' = Tokens /\ Quotable(asks') /\ InFact(asks, known) => InFact(asks', known')
    BY <1>4 DEF Passed
  <2>3. in_episode' = in_episode
    BY <1>4 DEF Passed
  <2> QED
    BY <1>2, <1>3, <2>1, <2>2, <2>3 DEF EpisodeIsSeen
<1>5. CASE Sampled(ts)
  <2> DEFINE q == pair_quote(asks', ts)
  <2>1. in_episode' <=> Profitable(q)
    BY <1>5 DEF Sampled, Hit, Miss
  <2>2. Profitable(q) <=> Profitable(pair_quote(asks', 0))
    BY NetIgnoresTime
  <2>3. InFact(asks', known') <=> known' = Tokens /\ Profitable(q)
    BY <1>5, <2>2 DEF Sampled, InFact
  <2> HIDE DEF q
  <2> QED
    BY <1>2, <1>3, <2>1, <2>3 DEF EpisodeIsSeen
<1> QED
  BY <1>1, <1>4, <1>5

\* What is counted grows by the time of an event while an episode goes on.
LEMMA CountedGrows ==
  ASSUME Typed, Next
  PROVE  \E ts \in Nat :
           /\ Event(ts) /\ (~blind' => ~blind)
           /\ scan'.seconds + (IF in_episode' THEN now' - episode_started' ELSE 0)
                = scan.seconds + (IF in_episode THEN now - episode_started ELSE 0)
                    + (IF in_episode THEN ts - now ELSE 0)
<1>1. PICK ts \in Nat :
        /\ Event(ts) /\ Blinded /\ known' \subseteq Tokens
        /\ asks' \in [Tokens -> Books \cup {Unknown}]
        /\ Sampled(ts) \/ Passed
  BY StepIsSample
<1>2. now' = ts /\ (~blind' => ~blind)
  BY <1>1 DEF Event, Blinded
<1>3. scan.seconds \in Int /\ now \in Nat /\ (in_episode => episode_started \in Nat)
  BY DEF Typed, Scans
<1>4. CASE Passed
  <2>1. scan' = scan /\ in_episode' = in_episode /\ episode_started' = episode_started
    BY <1>4 DEF Passed
  <2> QED
    BY <1>1, <1>2, <1>3, <2>1
<1>5. CASE Sampled(ts)
  <2> DEFINE q == pair_quote(asks', ts)
  <2>1. q \in Quotes /\ q.ts = ts
    BY <1>1, <1>5, QuoteType DEF Sampled, pair_quote
  <2>2. Hit(q) \/ Miss(q)
    BY <1>5 DEF Sampled
  <2> HIDE DEF q
  <2>3. CASE Hit(q)
    <3>1. /\ scan'.seconds = scan.seconds /\ in_episode' = TRUE
          /\ episode_started' = IF in_episode THEN episode_started ELSE ts
      BY <2>1, <2>3, HitScan
    <3> QED
      BY <1>1, <1>2, <1>3, <3>1
  <2>4. CASE Miss(q)
    <3>1. /\ scan'.seconds = scan.seconds + IF in_episode THEN ts - episode_started ELSE 0
          /\ in_episode' = FALSE
      BY <2>1, <2>4, MissScan
    <3> QED
      BY <1>1, <1>2, <1>3, <3>1
  <2> QED
    BY <2>2, <2>3, <2>4
<1> QED
  BY <1>1, <1>4, <1>5

LEMMA TimeKept == Typed /\ EpisodeIsSeen /\ TimeIsTrue /\ Next => TimeIsTrue'
<1> SUFFICES ASSUME Typed, EpisodeIsSeen, TimeIsTrue, Next PROVE TimeIsTrue'
  OBVIOUS
<1> DEFINE c == scan.seconds + (IF in_episode THEN now - episode_started ELSE 0)
           d == scan'.seconds + (IF in_episode' THEN now' - episode_started' ELSE 0)
<1>1. PICK ts \in Nat :
        /\ Event(ts) /\ (~blind' => ~blind)
        /\ d = c + (IF in_episode THEN ts - now ELSE 0)
  BY CountedGrows
<1>2. profitableFor' = profitableFor + (IF InFact(asks, known) THEN ts - now ELSE 0)
      /\ (straight' => straight /\ (events > 0 => ts >= now))
  BY <1>1 DEF Event
<1>3. c \in Int /\ now \in Nat /\ profitableFor \in Int /\ events \in Nat
  BY DEF Typed, Scans
<1>4. (~blind => c = profitableFor) /\ (straight => c >= profitableFor)
  BY DEF TimeIsTrue
<1>5. ~blind => (InFact(asks, known) <=> in_episode)
  BY DEF EpisodeIsSeen
<1>6. InFact(asks, known) => in_episode
  BY DEF EpisodeIsSeen
<1>7. straight' => straight /\ ts >= now
  BY <1>2, <1>3 DEF EpisodeIsSeen
<1>8. SUFFICES (~blind' => d = profitableFor') /\ (straight' => d >= profitableFor')
  BY DEF TimeIsTrue
<1> HIDE DEF c, d
<1>9. ~blind' => d = profitableFor'
  BY <1>1, <1>2, <1>3, <1>4, <1>5
<1>10. straight' => d >= profitableFor'
  BY <1>1, <1>2, <1>3, <1>4, <1>6, <1>7
<1> QED
  BY <1>9, <1>10

\* The samples with one more: it is a hit or not, and begins an episode or not.
LEMMA OneMoreSample ==
  ASSUME Typed, NEW q \in Quotes, history' = Append(history, q)
  PROVE  LET n == Len(history)
             first == Profitable(q) /\ ~(n > 0 /\ Profitable(history[n]))
         IN  /\ n \in Nat /\ Len(history') = n + 1 /\ history'[n + 1] = q
             /\ DOMAIN history' = DOMAIN history \cup {n + 1}
             /\ DOMAIN history = 1 .. n /\ \A i \in DOMAIN history : i < n + 1
             /\ \A i \in DOMAIN history : history'[i] = history[i] /\ history[i] \in Quotes
             /\ n + 1 \notin Hits /\ Hits' = IF Profitable(q) THEN Hits \cup {n + 1} ELSE Hits
             /\ n + 1 \notin Starts /\ Starts' = IF first THEN Starts \cup {n + 1} ELSE Starts
<1> DEFINE n == Len(history)
           first == Profitable(q) /\ ~(n > 0 /\ Profitable(history[n]))
<1>1. /\ n \in Nat /\ Len(history') = n + 1 /\ history'[n + 1] = q
      /\ DOMAIN history' = DOMAIN history \cup {n + 1}
      /\ DOMAIN history = 1 .. n /\ \A i \in DOMAIN history : i < n + 1
      /\ \A i \in DOMAIN history : history'[i] = history[i] /\ history[i] \in Quotes
  BY DEF Typed
<1>2. n + 1 \notin Hits /\ n + 1 \notin Starts
  BY <1>1 DEF Hits, Starts
<1>3. Hits' = IF Profitable(q) THEN Hits \cup {n + 1} ELSE Hits
  BY <1>1 DEF Hits
<1>4. \A i \in DOMAIN history : i \in Starts' <=> i \in Starts
  <2> SUFFICES ASSUME NEW i \in DOMAIN history PROVE i \in Starts' <=> i \in Starts
    OBVIOUS
  <2>1. i > 1 => i - 1 \in DOMAIN history
    BY <1>1
  <2>2. i > 1 => history'[i - 1] = history[i - 1]
    BY <1>1, <2>1
  <2>3. history'[i] = history[i] /\ i \in DOMAIN history'
    BY <1>1
  <2> HIDE DEF n
  <2> QED
    BY <2>2, <2>3 DEF Starts
<1>5. n + 1 \in Starts' <=> first
  <2>1. n + 1 > 1 <=> n > 0
    BY <1>1
  <2>2. n > 0 => history'[(n + 1) - 1] = history[n]
    <3>1. (n + 1) - 1 = n /\ (n > 0 => n \in DOMAIN history)
      BY <1>1
    <3> QED
      BY <1>1, <3>1
  <2>3. n + 1 \in DOMAIN history' /\ history'[n + 1] = q
    BY <1>1
  <2> HIDE DEF n
  <2>4. n + 1 \in Starts' <=> Profitable(q) /\ (n + 1 > 1 => ~Profitable(history'[(n + 1) - 1]))
    BY <2>3 DEF Starts
  <2> QED
    BY <2>1, <2>2, <2>4
<1>6. Starts' = IF first THEN Starts \cup {n + 1} ELSE Starts
  <2>1. Starts' \subseteq DOMAIN history' /\ Starts \subseteq DOMAIN history
    BY DEF Starts
  <2> DEFINE m == n + 1
  <2>2. m \in Starts' <=> first
    BY <1>5
  <2>3. Starts' \subseteq DOMAIN history \cup {m}
    BY <1>1, <2>1
  <2> HIDE DEF first, m
  <2>4. CASE first
    <3>1. Starts' = Starts \cup {m}
      BY <1>4, <2>1, <2>2, <2>3, <2>4
    <3> QED
      BY <2>4, <3>1 DEF m
  <2>5. CASE ~first
    <3>1. m \notin Starts'
      BY <2>2, <2>5
    <3>2. Starts' \subseteq DOMAIN history
      BY <2>3, <3>1
    <3>3. Starts' = Starts
      BY <1>4, <2>1, <3>2
    <3> QED
      BY <2>5, <3>3
  <2> QED
    BY <2>4, <2>5
<1> QED
  BY <1>1, <1>2, <1>3, <1>6

LEMMA FiniteSamples ==
  ASSUME Typed
  PROVE  /\ IsFiniteSet(Hits) /\ Cardinality(Hits) \in Nat
         /\ IsFiniteSet(Starts) /\ Cardinality(Starts) \in Nat
         /\ \A i \in Starts : FirstSight[i] \in Int
         /\ SumFunctionOnSet(FirstSight, Starts) \in Int
<1>1. Len(history) \in Nat /\ DOMAIN history = 1 .. Len(history)
      /\ \A i \in DOMAIN history : history[i] \in Quotes
  BY DEF Typed
<1>2. IsFiniteSet(DOMAIN history)
  <2>1. Len(history) \in Int /\ 1 \in Int
    BY <1>1
  <2> QED
    BY <1>1, <2>1, FS_Interval
<1>3. IsFiniteSet(Hits) /\ IsFiniteSet(Starts)
  BY <1>2, FS_Subset DEF Hits, Starts
<1>4. \A i \in Starts : FirstSight[i] \in Int
  BY <1>1, QuoteNumbers DEF Starts, FirstSight
<1> QED
  BY <1>3, <1>4, FS_CardinalityType, SumIsInt

LEMMA FiguresKept == Typed /\ Figures /\ Next => Figures'
<1> SUFFICES ASSUME Typed, Figures, Next PROVE Figures'
  OBVIOUS
<1>1. PICK ts \in Nat :
        /\ Event(ts) /\ Blinded /\ known' \subseteq Tokens
        /\ asks' \in [Tokens -> Books \cup {Unknown}]
        /\ Sampled(ts) \/ Passed
  BY StepIsSample
<1>2. CASE Passed
  BY <1>2 DEF Passed, Figures, Going, Hits, Starts, FirstSight
<1>3. CASE Sampled(ts)
  <2> DEFINE n == Len(history)
  <2>1. PICK q \in Quotes : history' = Append(history, q) /\ (Hit(q) \/ Miss(q))
    BY <1>1, <1>3, QuoteType DEF Sampled
  <2>2. /\ n \in Nat /\ Len(history') = n + 1 /\ history'[n + 1] = q
        /\ n + 1 \notin Hits /\ Hits' = IF Profitable(q) THEN Hits \cup {n + 1} ELSE Hits
        /\ n + 1 \notin Starts
        /\ Starts' = IF Profitable(q) /\ ~in_episode THEN Starts \cup {n + 1} ELSE Starts
        /\ \A i \in DOMAIN history : history'[i] = history[i] /\ i < n + 1
    BY <2>1, OneMoreSample DEF Figures, Going
  <2>3. IsFiniteSet(Hits) /\ IsFiniteSet(Starts) /\ \A i \in Starts : FirstSight[i] \in Int
        /\ SumFunctionOnSet(FirstSight, Starts) \in Int
    BY FiniteSamples
  <2>4. \A i \in Starts : i \in Starts' /\ FirstSight'[i] = FirstSight[i]
    <3>1. \A i \in Starts : i \in DOMAIN history /\ i \in Starts'
      BY <2>2 DEF Starts
    <3> QED
      BY <2>2, <3>1 DEF FirstSight
  <2>5. SumFunctionOnSet(FirstSight', Starts) = SumFunctionOnSet(FirstSight, Starts)
    <3> DEFINE f == FirstSight
               g == FirstSight'
               S == Starts
    <3>1. IsFiniteSet(S) /\ \A i \in S : f[i] \in Int /\ f[i] = g[i]
      BY <2>3, <2>4
    <3> HIDE DEF f, g, S
    <3>2. SumFunctionOnSet(f, S) = SumFunctionOnSet(g, S)
      BY <3>1, SumOfEqual
    <3> QED
      BY <3>2 DEF f, g, S
  <2>6. /\ scan.samples = n /\ scan.profitable = Cardinality(Hits)
        /\ scan.episodes = Cardinality(Starts)
        /\ scan.episodes = Len(scan.episode_seconds) + IF in_episode THEN 1 ELSE 0
        /\ scan.total_net = SumFunctionOnSet(FirstSight, Starts)
    BY DEF Figures
  <2>7. scan.episode_seconds \in Seq(Int) /\ Cardinality(Hits) \in Nat /\ Cardinality(Starts) \in Nat
        /\ Len(scan.episode_seconds) \in Nat
    BY FiniteSamples DEF Typed, Scans
  <2>8. Going'
    <3>1. in_episode' <=> Profitable(q)
      BY <2>1, HitScan, MissScan
    <3> QED
      BY <2>2, <3>1 DEF Going
  <2> HIDE DEF n
  <2>12. scan.total_net \in Int /\ scan.episodes \in Nat
    BY DEF Typed, Scans
  <2>9. CASE Hit(q) /\ in_episode
    <3>1. /\ Profitable(q) /\ scan'.samples = scan.samples + 1
          /\ scan'.profitable = scan.profitable + 1 /\ scan'.episodes = scan.episodes + 0
          /\ scan'.episode_seconds = scan.episode_seconds /\ in_episode'
          /\ scan'.total_net = scan.total_net + 0
      BY <2>9, HitScan
    <3>2. Hits' = Hits \cup {n + 1} /\ Starts' = Starts
      BY <2>2, <2>9, <3>1
    <3>3. Cardinality(Hits') = Cardinality(Hits) + 1
      BY <2>2, <2>3, <3>2, FS_AddElement
    <3>4. scan'.total_net = SumFunctionOnSet(FirstSight', Starts')
      <4>1. scan'.total_net = scan.total_net
        BY <2>12, <3>1
      <4> QED
        BY <2>5, <2>6, <3>2, <4>1
    <3>5. /\ scan'.samples = Len(history') /\ scan'.profitable = Cardinality(Hits')
          /\ scan'.episodes = Cardinality(Starts')
      <4>1. scan'.episodes = scan.episodes
        BY <2>12, <3>1
      <4> QED
        BY <2>2, <2>6, <3>1, <3>2, <3>3, <4>1
    <3>6. scan'.episodes = Len(scan'.episode_seconds) + IF in_episode' THEN 1 ELSE 0
      BY <2>6, <2>7, <2>9, <3>1
    <3> QED
      BY <2>8, <3>4, <3>5, <3>6 DEF Figures
  <2>10. CASE Hit(q) /\ ~in_episode
    <3>1. /\ Profitable(q) /\ scan'.samples = scan.samples + 1
          /\ scan'.profitable = scan.profitable + 1 /\ scan'.episodes = scan.episodes + 1
          /\ scan'.episode_seconds = scan.episode_seconds /\ in_episode'
          /\ scan'.total_net = scan.total_net + NetPerPair(q) * q.size
      BY <2>10, HitScan
    <3>2. Hits' = Hits \cup {n + 1} /\ Starts' = Starts \cup {n + 1}
      BY <2>2, <2>10, <3>1
    <3>3. Cardinality(Hits') = Cardinality(Hits) + 1 /\ Cardinality(Starts') = Cardinality(Starts) + 1
      BY <2>2, <2>3, <3>2, FS_AddElement
    <3>4. FirstSight'[n + 1] = NetPerPair(q) * q.size
      <4>1. n + 1 \in Starts' /\ history'[n + 1] = q
        BY <2>2, <3>2
      <4> QED
        BY <4>1 DEF FirstSight
    <3>5. scan'.total_net = SumFunctionOnSet(FirstSight', Starts')
      <4> DEFINE g == FirstSight'
                 S == Starts
                 x == n + 1
                 v == NetPerPair(q) * q.size
      <4>1. v \in Int
        BY QuoteNumbers
      <4>2. \A i \in S \cup {x} : g[i] \in Int
        BY <2>3, <2>4, <3>4, <4>1
      <4>3. IsFiniteSet(S) /\ x \notin S
        BY <2>2, <2>3
      <4>4. g[x] = v /\ SumFunctionOnSet(g, S) = scan.total_net /\ scan.total_net \in Int
        <5>1. SumFunctionOnSet(g, S) = scan.total_net
          BY <2>5, <2>6
        <5> QED
          BY <2>12, <3>4, <5>1
      <4>5. scan'.total_net = scan.total_net + v /\ Starts' = S \cup {x}
        BY <3>1, <3>2
      <4> HIDE DEF g, S, x, v
      <4>6. SumFunctionOnSet(g, S \cup {x}) = g[x] + SumFunctionOnSet(g, S)
        BY <4>2, <4>3, SumWith
      <4>7. scan'.total_net = SumFunctionOnSet(g, Starts')
        BY <4>1, <4>4, <4>5, <4>6
      <4> QED
        BY <4>7 DEF g
    <3>6. /\ scan'.samples = Len(history') /\ scan'.profitable = Cardinality(Hits')
          /\ scan'.episodes = Cardinality(Starts')
      BY <2>2, <2>6, <2>7, <3>1, <3>2, <3>3
    <3>7. scan'.episodes = Len(scan'.episode_seconds) + IF in_episode' THEN 1 ELSE 0
      BY <2>6, <2>7, <2>10, <3>1
    <3> QED
      BY <2>8, <3>5, <3>6, <3>7 DEF Figures
  <2>11. CASE Miss(q)
    <3>1. /\ ~Profitable(q) /\ scan'.samples = scan.samples + 1
          /\ scan'.profitable = scan.profitable /\ scan'.episodes = scan.episodes
          /\ scan'.total_net = scan.total_net /\ ~in_episode'
          /\ scan'.episode_seconds = IF in_episode THEN Append(scan.episode_seconds, Lasted(q))
                                     ELSE scan.episode_seconds
      BY <2>11, MissScan
    <3>2. Hits' = Hits /\ Starts' = Starts
      BY <2>2, <3>1
    <3>3. scan'.total_net = SumFunctionOnSet(FirstSight', Starts')
      BY <2>5, <2>6, <3>1, <3>2
    <3>4. /\ scan'.samples = Len(history') /\ scan'.profitable = Cardinality(Hits')
          /\ scan'.episodes = Cardinality(Starts')
      BY <2>2, <2>6, <3>1, <3>2
    <3>5. scan'.episodes = Len(scan'.episode_seconds) + IF in_episode' THEN 1 ELSE 0
      <4>1. in_episode => Len(scan'.episode_seconds) = Len(scan.episode_seconds) + 1
        BY <2>7, <3>1
      <4>2. ~in_episode => Len(scan'.episode_seconds) = Len(scan.episode_seconds)
        BY <3>1
      <4>3. scan'.episodes = Len(scan'.episode_seconds)
        <5>1. CASE in_episode
          BY <2>6, <2>7, <3>1, <4>1, <5>1
        <5>2. CASE ~in_episode
          BY <2>6, <2>7, <3>1, <4>2, <5>2
        <5> QED
          BY <5>1, <5>2
      <4> QED
        BY <2>7, <3>1, <4>1, <4>2, <4>3
    <3> QED
      BY <2>8, <3>3, <3>4, <3>5 DEF Figures
  <2> QED
    BY <2>1, <2>9, <2>10, <2>11
<1> QED
  BY <1>1, <1>2, <1>3

LEMMA ExtremesKept == Typed /\ Extremes /\ Next => Extremes'
<1> SUFFICES ASSUME Typed, Extremes, Next PROVE Extremes'
  OBVIOUS
<1>1. PICK ts \in Nat :
        /\ Event(ts) /\ Blinded /\ known' \subseteq Tokens
        /\ asks' \in [Tokens -> Books \cup {Unknown}]
        /\ Sampled(ts) \/ Passed
  BY StepIsSample
<1>2. CASE Passed
  BY <1>2 DEF Passed, Extremes, IsFirstBest, Hits
<1>3. CASE Sampled(ts)
  <2> DEFINE n == Len(history)
  <2>1. PICK q \in Quotes : history' = Append(history, q) /\ (Hit(q) \/ Miss(q))
    BY <1>1, <1>3, QuoteType DEF Sampled
  <2>2. /\ n \in Nat /\ Len(history') = n + 1 /\ history'[n + 1] = q
        /\ DOMAIN history' = DOMAIN history \cup {n + 1}
        /\ n + 1 \notin Hits /\ Hits' = IF Profitable(q) THEN Hits \cup {n + 1} ELSE Hits
        /\ \A i \in DOMAIN history : history'[i] = history[i] /\ i < n + 1 /\ history[i] \in Quotes
        /\ DOMAIN history = 1 .. n
    BY <2>1, OneMoreSample
  <2>3. \A i \in Hits : i \in DOMAIN history /\ i \in Nat /\ history'[i] = history[i]
                        /\ i < n + 1 /\ history[i] \in Quotes
    BY <2>2 DEF Hits
  <2> HIDE DEF n
  <2>4. LET m == scan'.min_gross
        IN  /\ m \in Int /\ m <= GrossPerPair(q)
            /\ scan.min_gross \in Int => m <= scan.min_gross
            /\ m \in {scan.min_gross, GrossPerPair(q)}
    <3>1. scan'.min_gross = IF scan.min_gross = Unknown THEN GrossPerPair(q)
                            ELSE Min({scan.min_gross, GrossPerPair(q)})
      BY <2>1, HitScan, MissScan
    <3> QED
      BY <3>1, LowestGross
  <2>5. /\ \E i \in DOMAIN history' : scan'.min_gross = GrossPerPair(history'[i])
        /\ \A i \in DOMAIN history' : scan'.min_gross <= GrossPerPair(history'[i])
    <3>1. GrossPerPair(history'[n + 1]) = GrossPerPair(q) /\ n + 1 \in DOMAIN history'
      BY <2>2
    <3>2. CASE history = << >>
      <4>1. DOMAIN history' = {n + 1} /\ scan.min_gross = Unknown
        BY <2>2, <3>2 DEF Extremes
      <4> QED
        BY <2>4, <3>1, <4>1, PairConstants
    <3>3. CASE history # << >>
      <4>1. PICK k \in DOMAIN history : scan.min_gross = GrossPerPair(history[k])
        BY <3>3 DEF Extremes
      <4>2. scan.min_gross \in Int
        BY <2>2, <4>1, QuoteNumbers
      <4>3. \A i \in DOMAIN history :
              /\ history'[i] = history[i] /\ GrossPerPair(history[i]) \in Int
              /\ scan.min_gross <= GrossPerPair(history[i])
        BY <2>2, <3>3, QuoteNumbers DEF Extremes
      <4>4. \A i \in DOMAIN history : scan'.min_gross <= GrossPerPair(history'[i])
        BY <2>4, <4>2, <4>3
      <4>5. GrossPerPair(history'[k]) = scan.min_gross /\ k \in DOMAIN history'
        BY <2>2, <4>1
      <4> QED
        BY <2>2, <2>4, <3>1, <4>4, <4>5
    <3> QED
      BY <3>2, <3>3
  <2>6. history' # << >>
    BY <2>2
  <2>7. \A i \in Hits : NetPerPair(history[i]) \in Int /\ NetPerPair(history'[i]) = NetPerPair(history[i])
    BY <2>3, QuoteNumbers
  <2>8. NetPerPair(q) \in Int /\ NetPerPair(history'[n + 1]) = NetPerPair(q)
    BY <2>2, QuoteNumbers
  <2>9. ASSUME NEW j \in Hits, scan.best = history[j], IsFirstBest(j), Hits' = Hits,
               scan'.best = scan.best
        PROVE  Extremes'
    <3>1. j \in Hits' /\ scan'.best = history'[j]
      BY <2>3, <2>9
    <3>2. IsFirstBest(j)'
      BY <2>3, <2>7, <2>9 DEF IsFirstBest
    <3> QED
      BY <2>5, <2>6, <3>1, <3>2 DEF Extremes
  <2>10. CASE Hit(q)
    <3>1. scan'.best = (IF Better(q, scan.best) THEN q ELSE scan.best) /\ Profitable(q)
      BY <2>1, <2>10, HitScan
    <3>0. PICK k \in Nat : k = n + 1
      BY <2>2
    <3>2. Hits' = Hits \cup {k} /\ history'[k] = q /\ NetPerPair(history'[k]) = NetPerPair(q)
      BY <2>2, <3>0, <3>1
    <3>3. CASE Hits = {}
      <4>1. scan'.best = q /\ Hits' = {k}
        BY <3>1, <3>2, <3>3 DEF Extremes, Better
      <4>2. scan'.best = history'[k]
        BY <3>2, <4>1
      <4>3. IsFirstBest(k)'
        BY <2>8, <3>2, <4>1 DEF IsFirstBest
      <4> QED
        BY <2>5, <2>6, <4>1, <4>2, <4>3 DEF Extremes
    <3>4. CASE Hits # {}
      <4>1. PICK j \in Hits : scan.best = history[j] /\ IsFirstBest(j)
        BY <3>4 DEF Extremes
      <4>2. scan.best \in Quotes /\ scan.best # Unknown /\ NetPerPair(scan.best) \in Int
        BY <2>3, <4>1, PairConstants, QuoteNumbers
      <4>3. CASE Better(q, scan.best)
        <5>1. scan'.best = history'[k] /\ k \in Hits'
          BY <3>1, <3>2, <4>3
        <5>2. NetPerPair(q) > NetPerPair(history[j])
          BY <4>1, <4>2, <4>3 DEF Better
        <5>3. \A i \in Hits : NetPerPair(history[i]) <= NetPerPair(history[j])
          BY <4>1 DEF IsFirstBest
        <5>4. \A i \in Hits : NetPerPair(history'[i]) < NetPerPair(history'[k])
          BY <2>7, <2>8, <3>2, <5>2, <5>3
        <5>5. \A i \in Hits' :
                /\ NetPerPair(history'[i]) <= NetPerPair(history'[k])
                /\ NetPerPair(history'[i]) = NetPerPair(history'[k]) => k <= i
          BY <2>7, <2>8, <3>2, <5>4
        <5>6. IsFirstBest(k)'
          BY <5>5 DEF IsFirstBest
        <5> QED
          BY <2>5, <2>6, <5>1, <5>6 DEF Extremes
      <4>4. CASE ~Better(q, scan.best)
        <5>1. scan'.best = history'[j] /\ j \in Hits'
          BY <2>3, <3>1, <3>2, <4>1, <4>4
        <5>2. NetPerPair(q) <= NetPerPair(history[j])
          BY <2>8, <4>1, <4>2, <4>4 DEF Better
        <5>3. \A i \in Hits : /\ NetPerPair(history[i]) <= NetPerPair(history[j])
                              /\ NetPerPair(history[i]) = NetPerPair(history[j]) => j <= i
          BY <4>1 DEF IsFirstBest
        <5>4. j \in Nat /\ j < k
          BY <2>3, <3>0
        <5>5. \A i \in Hits' :
                /\ NetPerPair(history'[i]) <= NetPerPair(history'[j])
                /\ NetPerPair(history'[i]) = NetPerPair(history'[j]) => j <= i
          BY <2>7, <2>8, <3>2, <5>2, <5>3, <5>4
        <5>6. IsFirstBest(j)'
          BY <5>5 DEF IsFirstBest
        <5> QED
          BY <2>5, <2>6, <5>1, <5>6 DEF Extremes
      <4> QED
        BY <4>3, <4>4
    <3> QED
      BY <3>3, <3>4
  <2>11. CASE Miss(q)
    <3>1. scan'.best = scan.best /\ ~Profitable(q)
      BY <2>1, <2>11, MissScan DEF Miss
    <3>2. Hits' = Hits
      BY <2>2, <3>1
    <3>3. CASE Hits = {}
      BY <2>5, <2>6, <3>1, <3>2, <3>3 DEF Extremes
    <3>4. CASE Hits # {}
      BY <2>9, <3>1, <3>2, <3>4 DEF Extremes
    <3> QED
      BY <3>3, <3>4
  <2> QED
    BY <2>1, <2>10, <2>11
<1> QED
  BY <1>1, <1>2, <1>3

-----------------------------------------------------------------------------
(* Theorems. *)

LEMMA PairInit == Init => PairInv
<1> SUFFICES ASSUME Init PROVE PairInv
  OBVIOUS
<1>1. Typed
  <2>1. asks \in [Tokens -> Books \cup {Unknown}] /\ history \in Seq(Quotes)
    BY DEF Init
  <2>2. scan \in Scans
    BY DEF Init, Empty, Scans
  <2>3. known \subseteq Tokens /\ now \in Nat /\ events \in Nat /\ profitableFor \in Int
    BY DEF Init
  <2>4. in_episode = FALSE /\ straight \in BOOLEAN /\ blind \in BOOLEAN
    BY DEF Init
  <2> QED
    BY <2>1, <2>2, <2>3, <2>4 DEF Typed
<1>2. ~InFact(asks, known)
  BY DEF Init, InFact, Tokens
<1>3. EpisodeIsSeen /\ TimeIsTrue
  BY <1>2 DEF Init, EpisodeIsSeen, TimeIsTrue, Empty
<1>4. DOMAIN history = {} /\ Len(history) = 0
  BY DEF Init
<1>5. Hits = {} /\ Starts = {}
  BY <1>4 DEF Hits, Starts
<1>6. Figures
  <2>1. Cardinality({}) = 0 /\ SumFunctionOnSet(FirstSight, {}) = 0 /\ Len(<< >>) = 0
    BY FS_EmptySet, SumOfNone
  <2> QED
    BY <1>4, <1>5, <2>1 DEF Init, Empty, Figures, Going
<1>7. Extremes
  BY <1>4, <1>5 DEF Init, Empty, Extremes
<1> QED
  BY <1>1, <1>3, <1>6, <1>7 DEF PairInv

LEMMA PairNext == PairInv /\ [Next]_vars => PairInv'
<1> SUFFICES ASSUME PairInv, [Next]_vars PROVE PairInv'
  OBVIOUS
<1>1. CASE Next
  BY <1>1, TypedKept, EpisodeIsSeenKept, TimeKept, FiguresKept, ExtremesKept DEF PairInv
<1>2. CASE UNCHANGED vars
  BY <1>2 DEF vars, PairInv, Typed, EpisodeIsSeen, TimeIsTrue, Figures, Going, Extremes,
              IsFirstBest, Hits, Starts, FirstSight
<1> QED
  BY <1>1, <1>2

\* For any levels, sizes, fees and any number of events, with gaps and prints and
\* a clock that goes back: the time of the scan is that of the book, unless a gap or an
\* empty side hid what became of it (pairs.py:138-143).
THEOREM TimeIsCounted == Spec => []TimeIsTrue
<1>1. PairInv => TimeIsTrue
  BY DEF PairInv
<1> QED
  BY <1>1, PairInit, PairNext, PTL DEF Spec

\* The figures made in one pass are those of the samples, and a profit survives
\* the rounding of fees (pairs.py:117-143).
THEOREM FiguresAreExact == Spec => []ScanIsExact
<1>1. PairInv => ScanIsExact
  <2> SUFFICES ASSUME PairInv PROVE ScanIsExact
    OBVIOUS
  <2>1. \A i \in Hits : history[i] \in Quotes /\ Profitable(history[i])
    BY DEF PairInv, Typed, Hits
  <2>2. \A i \in Hits : NetOfTaking(history[i]) >= -1
    BY <2>1, QuoteNumbers
  <2> QED
    BY <2>2 DEF PairInv, Figures, Extremes, ScanIsExact
<1> QED
  BY <1>1, PairInit, PairNext, PTL DEF Spec
=============================================================================
